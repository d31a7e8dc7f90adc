------------------------------- MODULE Framing -------------------------------
(***************************************************************************)
(* One direction of a connection of network/xsan_node_comm.c: the peer     *)
(* writes messages with xsan_node_comm_send_msg, and                       *)
(* _process_received_data_for_connection cuts the bytes that arrive back   *)
(* into messages.  A byte is its position in the stream; the receive       *)
(* buffer holds the bytes from start up to taken, since every memmove      *)
(* drops a prefix of it.                                                   *)
(*                                                                         *)
(* The receive function is static and nothing in this version of the       *)
(* repository calls it; the model runs it whenever the reactor might.      *)
(***************************************************************************)
EXTENDS Naturals, Sequences

CONSTANTS HeaderSize,   \* XSAN_MESSAGE_HEADER_SIZE
          FirstPayload, \* what the first buffer holds besides a header, 4096 in the code
          MaxPayload,   \* XSAN_PROTOCOL_MAX_PAYLOAD_SIZE
          Payloads,     \* the payload lengths peers send
          MaxSent       \* bound: the messages sent on the connection

ASSUME FramingAssumption == /\ HeaderSize \in Nat \ {0}
                            /\ FirstPayload \in Nat
                            /\ MaxPayload \in Nat
                            /\ Payloads \subseteq 0 .. MaxPayload
                            /\ MaxSent \in Nat

VARIABLES sent,     \* the messages written: where each begins, its length, the bytes written of it
          wire,     \* how many bytes were written
          sending,  \* the peer's current_send_cb is set
          hungUp,   \* the peer has closed its socket
          taken,    \* how many bytes were received
          start,    \* how many of them have left the buffer
          capacity, \* recv_buf_capacity
          current,  \* the message partial_recv_header was read from, 0 when there is none
          parsing,  \* inside the loop over the buffered bytes
          got,      \* the messages dispatched, 0 standing for one put together wrongly
          conn      \* "open", or how the connection ended

framingVars == <<sent, wire, sending, hungUp, taken, start, capacity, current, parsing, got, conn>>

sendVars == <<sent, wire, sending, hungUp>>

Endings == {"open", "eof", "too big", "bad header", "no memory", "error", "crash"}

\* A message in the stream.
Written == [at : Nat, len : Payloads, cut : Nat]

FramingTypeOK == /\ sent \in Seq(Written)
                 /\ wire \in Nat /\ taken \in Nat /\ start \in Nat
                 /\ sending \in BOOLEAN /\ hungUp \in BOOLEAN /\ parsing \in BOOLEAN
                 /\ capacity \in Nat
                 /\ current \in Nat
                 /\ got \in Seq(Nat)
                 /\ conn \in Endings

\* _create_connection_ctx
FramingInit == /\ sent = <<>> /\ wire = 0 /\ sending = FALSE /\ hungUp = FALSE
               /\ taken = 0 /\ start = 0
               /\ capacity = HeaderSize + FirstPayload
               /\ current = 0 /\ parsing = FALSE
               /\ got = <<>>
               /\ conn = "open"

-----------------------------------------------------------------------------
(* The sending end *)

\* xsan_node_comm_send_msg with a message of len bytes: the kernel takes all of it, or a
\* part; then the callback is stored, nothing ever writes the rest, and every later
\* message is refused with XSAN_ERROR_BUSY.  A failed writev leaves no trace here.
SendMsg(len) ==
  /\ ~hungUp /\ ~sending /\ Len(sent) < MaxSent
  /\ \E n \in 0 .. HeaderSize + len :
       /\ sent' = Append(sent, [at |-> wire, len |-> len, cut |-> n])
       /\ wire' = wire + n
       /\ sending' = (n < HeaderSize + len)
  /\ UNCHANGED <<hungUp, taken, start, capacity, current, parsing, got, conn>>

HangUp == /\ ~hungUp
          /\ hungUp' = TRUE
          /\ UNCHANGED <<sent, wire, sending, taken, start, capacity, current, parsing, got, conn>>

-----------------------------------------------------------------------------
(* The receiving end *)

Buffered == taken - start

Limit == MaxPayload + HeaderSize + FirstPayload

\* The connection is removed from the active list and its context freed.
End(how) == /\ conn' = how
            /\ UNCHANGED <<sendVars, taken, start, capacity, current, parsing, got>>

Readable == conn = "open" /\ ~parsing

Grow == Buffered = capacity

\* The capacity at the call of spdk_sock_recv: a full buffer is doubled first.
Room == IF Grow THEN 2 * capacity ELSE capacity

\* spdk_sock_recv returns some of the bytes under way, as many as fit.
Receive == /\ Readable
           /\ Room <= Limit
           /\ \E n \in 1 .. Room - Buffered :
                /\ taken + n <= wire
                /\ taken' = taken + n
           /\ capacity' = Room
           /\ parsing' = TRUE
           /\ UNCHANGED <<sendVars, start, current, got, conn>>

\* Nothing is there yet: EAGAIN.
ReceiveNothing == /\ Readable
                  /\ Room <= Limit
                  /\ capacity' = Room
                  /\ UNCHANGED <<sendVars, taken, start, current, parsing, got, conn>>

\* The buffer is full and its double would exceed the limit.
GiveUp == Readable /\ Room > Limit /\ End("too big")

\* Memory runs out for the larger buffer, or the socket fails.
ReceiveFails == /\ Readable
                /\ Room <= Limit
                /\ (Grow /\ End("no memory")) \/ End("error")

\* The peer has closed the socket and nothing is left to receive.
ReceiveEnd == /\ Readable
              /\ Room <= Limit
              /\ hungUp /\ taken = wire
              /\ End("eof")

\* Where the messages begin in the stream, and what deserialising there finds.
Begins(k) == k \in 1 .. Len(sent) /\ sent[k].at = start /\ sent[k].cut >= HeaderSize

\* Faulty variant of ParseHeader: the header stays in the buffer.
ParseHeaderKept ==
  /\ conn = "open" /\ parsing /\ current = 0 /\ Buffered >= HeaderSize
  /\ \/ /\ \E k \in 1 .. Len(sent) : Begins(k) /\ current' = k
        /\ UNCHANGED <<sendVars, taken, start, capacity, parsing, got, conn>>
     \/ (\A k \in 1 .. Len(sent) : ~Begins(k)) /\ End("bad header")

\* Enough bytes for a header: it is read and dropped from the buffer.  Bytes that are no
\* header have the wrong magic number and end the connection.
ParseHeader ==
  /\ conn = "open" /\ parsing /\ current = 0 /\ Buffered >= HeaderSize
  /\ \/ /\ \E k \in 1 .. Len(sent) : Begins(k) /\ current' = k
        /\ start' = start + HeaderSize
        /\ UNCHANGED <<sendVars, taken, capacity, parsing, got, conn>>
     \/ (\A k \in 1 .. Len(sent) : ~Begins(k)) /\ End("bad header")

\* The bytes handed over as the payload of the current message are its own.
Whole == start = sent[current].at + HeaderSize /\ sent[current].cut = HeaderSize + sent[current].len

Complete == current # 0 /\ Buffered >= sent[current].len

\* Faulty variant of Dispatch: with the message all that is buffered is dropped.
DispatchAll ==
  /\ conn = "open" /\ parsing /\ Complete
  /\ got' = Append(got, IF Whole THEN current ELSE 0)
  /\ start' = taken
  /\ current' = 0
  /\ UNCHANGED <<sendVars, taken, capacity, parsing, conn>>

\* The payload is there: the message is built, or memory runs out; a handler gets it, or
\* nobody wants it, and destroys it.  Its length is then read back from the freed
\* message: it is intact, or what the allocator left there makes memmove crash.
Dispatch ==
  /\ conn = "open" /\ parsing /\ Complete
  /\ \/ /\ got' = Append(got, IF Whole THEN current ELSE 0)
        /\ \/ /\ start' = start + sent[current].len
              /\ current' = 0
              /\ UNCHANGED conn
           \/ /\ conn' = "crash"
              /\ UNCHANGED <<start, current>>
        /\ UNCHANGED <<sendVars, taken, capacity, parsing>>
     \/ End("no memory")

\* Faulty variant of ParseMore: the loop is left after every message.
ParseMoreOnce == /\ conn = "open" /\ parsing
                 /\ IF current = 0 THEN Buffered < HeaderSize \/ got # <<>> ELSE ~Complete
                 /\ parsing' = FALSE
                 /\ UNCHANGED <<sendVars, taken, start, capacity, current, got, conn>>

\* Too few bytes for a header or for the payload: back to spdk_sock_recv.
ParseMore == /\ conn = "open" /\ parsing
             /\ IF current = 0 THEN Buffered < HeaderSize ELSE ~Complete
             /\ parsing' = FALSE
             /\ UNCHANGED <<sendVars, taken, start, capacity, current, got, conn>>

FramingNext == \/ \E len \in Payloads : SendMsg(len)
               \/ HangUp
               \/ Receive \/ ReceiveNothing \/ GiveUp \/ ReceiveFails \/ ReceiveEnd
               \/ ParseHeader \/ Dispatch \/ ParseMore

FramingSpec == FramingInit /\ [][FramingNext]_framingVars

\* A call of the receive function that has bytes to look at runs to its end.  That it is
\* called is not promised: nothing in this version of the repository does.
FramingFairness == WF_framingVars(ParseHeader \/ Dispatch \/ ParseMore)

LiveFramingSpec == FramingSpec /\ FramingFairness

-----------------------------------------------------------------------------
(* Properties *)

InFull(k) == k \in 1 .. Len(sent) /\ sent[k].cut = HeaderSize + sent[k].len

\* However the stream is cut up on its way, the messages dispatched are the messages sent,
\* whole, each once and in their order, and no payload is ever taken for a header.
FramesWhole == /\ conn # "bad header"
               /\ \A i \in 1 .. Len(got) : got[i] = i

\* A connection that ends because the peer closed it has dispatched every message that was
\* written in full.
NothingDropped == conn = "eof" => \A k \in 1 .. MaxSent : InFull(k) => k <= Len(got)

\* The bytes of message k have all been received.
Received(k) == InFull(k) /\ taken >= sent[k].at + HeaderSize + sent[k].len

\* Parsing gets ahead: a message whose last byte was received is dispatched, however many
\* other messages share the buffer with it, unless the connection ends.
ReceivedIsDispatched ==
  \A k \in 1 .. MaxSent : Received(k) ~> k <= Len(got) \/ conn # "open"

\* The protocol allows payloads up to XSAN_PROTOCOL_MAX_PAYLOAD_SIZE, which is what every
\* message sent here keeps to: no connection is given up for the size of a message.
AllowedSizesPass == conn # "too big"
=============================================================================
