---------------------------- MODULE FramingProofs ----------------------------
(***************************************************************************)
(* Proof that the receiving end of a connection cuts the stream back into  *)
(* the messages that were sent, for every header size, buffer size and     *)
(* payload, every number of messages and every way the stream arrives.     *)
(***************************************************************************)
EXTENDS Framing, TLAPS

Last == Len(sent)

\* Where message k + 1 begins, or will begin: right after message k.
Follows(k) == sent[k].at + HeaderSize + sent[k].len

\* The messages lie one after the other in the stream, and only the last can be cut.
Stream ==
  /\ \A k \in 1 .. Last : sent[k].cut <= HeaderSize + sent[k].len
  /\ \A j, k \in 1 .. Last : j < k => Follows(j) <= sent[k].at /\ sent[j].cut = HeaderSize + sent[j].len
  /\ \A j, k \in 1 .. Last : k = j + 1 => sent[k].at = Follows(j)
  /\ Last > 0 => sent[1].at = 0
  /\ Last = 0 => wire = 0 /\ ~sending
  /\ Last > 0 => wire = sent[Last].at + sent[Last].cut
  /\ Last > 0 /\ ~sending => sent[Last].cut = HeaderSize + sent[Last].len

\* The next message to be dispatched.
NextOne == Len(got) + 1

\* The buffer begins where that message does, or just behind its header.
Position ==
  IF current = 0
  THEN IF NextOne <= Last THEN start = sent[NextOne].at ELSE start = wire
  ELSE /\ current = NextOne /\ NextOne <= Last
       /\ start = sent[NextOne].at + HeaderSize

\* Outside the loop over the buffer nothing in it can be parsed.
Parsed == IF current = 0 THEN Buffered < HeaderSize ELSE Buffered < sent[current].len

FramingInv ==
  /\ FramingTypeOK
  /\ Stream
  /\ start <= taken /\ taken <= wire
  /\ FramesWhole
  /\ HeaderSize + FirstPayload <= capacity /\ capacity <= Limit
  /\ current <= Last
  /\ conn = "open" => Len(got) <= Last /\ Position
  /\ conn = "open" /\ ~parsing => Parsed
  /\ conn = "eof" => hungUp
  /\ NothingDropped

-----------------------------------------------------------------------------
\* Facts of arithmetic, apart from the fields they are used for: t bytes were taken, s
\* have left the buffer, a message begins at a, with a header of h and a payload of l.
LEMMA Distances ==
  /\ \A s, t, l \in Nat : t - s >= l => s + l <= t
  /\ \A s, t, l \in Nat : t - s < l => t < s + l
  /\ \A a, c, h, t \in Nat : a + h <= t /\ t <= a + c => c >= h
  /\ \A a, h, l, w \in Nat : a + h + l <= w => a <= w /\ a + h <= w
OBVIOUS

\* The numbers of every message are natural numbers.
LEMMA SentNumbers ==
  ASSUME FramingTypeOK
  PROVE  /\ Last \in Nat
         /\ \A k \in 1 .. Last : /\ sent[k].at \in Nat /\ sent[k].len \in Nat /\ sent[k].cut \in Nat
<1>1. sent \in Seq(Written)
  BY DEF FramingTypeOK
<1>2. Payloads \subseteq Nat
  BY FramingAssumption
<1>3. Last \in Nat /\ \A k \in 1 .. Last : sent[k] \in Written
  BY <1>1 DEF Last
<1> QED
  BY <1>2, <1>3 DEF Written

\* The stream as it was written does not depend on the receiving end.
LEMMA StreamKept ==
  ASSUME Stream, UNCHANGED sendVars
  PROVE  Stream'
BY DEF Stream, sendVars, Last, Follows

\* The connection as it is created satisfies the invariant.
LEMMA InitFraming == FramingInit => FramingInv
<1> SUFFICES ASSUME FramingInit PROVE FramingInv
  OBVIOUS
<1> USE FramingAssumption DEF FramingInit
<1>1. FramingTypeOK
  <2>1. <<>> \in Seq(Written) /\ <<>> \in Seq(Nat)
    OBVIOUS
  <2>2. HeaderSize + FirstPayload \in Nat /\ "open" \in Endings
    BY DEF Endings
  <2> QED
    BY <2>1, <2>2 DEF FramingTypeOK
<1>2. Stream
  BY DEF Stream, Last
<1>3. FramesWhole /\ NothingDropped
  BY DEF FramesWhole, NothingDropped
<1>4. Position /\ Parsed
  BY DEF Position, Parsed, NextOne, Last, Buffered
<1> QED
  BY <1>1, <1>2, <1>3, <1>4 DEF FramingInv, Limit, Last

\* A message written behind the others keeps the stream in order.
LEMMA SendStream ==
  ASSUME FramingInv, NEW len \in Payloads, SendMsg(len)
  PROVE  /\ Stream' /\ FramingTypeOK' /\ wire <= wire'
         /\ Last' = Last + 1
         /\ \A k \in 1 .. Last : sent'[k] = sent[k]
         /\ sent'[Last + 1].at = wire
<1> USE FramingAssumption
<1>1. PICK n \in 0 .. HeaderSize + len :
        /\ sent' = Append(sent, [at |-> wire, len |-> len, cut |-> n])
        /\ wire' = wire + n
        /\ sending' = (n < HeaderSize + len)
  BY DEF SendMsg
<1>2. len \in Nat /\ n \in Nat /\ wire \in Nat
  BY DEF FramingInv, FramingTypeOK
<1> DEFINE new == [at |-> wire, len |-> len, cut |-> n]
<1>3. new \in Written
  BY <1>2 DEF Written
<1>4. sent \in Seq(Written)
  BY DEF FramingInv, FramingTypeOK
<1>5. sent' \in Seq(Written)
  BY <1>1, <1>3, <1>4
<1>6. /\ Last \in Nat /\ Last' = Last + 1
      /\ \A k \in 1 .. Last : sent'[k] = sent[k]
      /\ sent'[Last + 1] = new
  BY <1>1, <1>3, <1>4 DEF Last
<1>7. FramingTypeOK'
  BY <1>1, <1>2, <1>5 DEF FramingInv, FramingTypeOK, SendMsg
<1>8. \A k \in 1 .. Last : sent[k].at \in Nat /\ sent[k].len \in Nat /\ sent[k].cut \in Nat
  BY SentNumbers DEF FramingInv
<1>9. Last > 0 => sent[Last].cut = HeaderSize + sent[Last].len /\ wire = sent[Last].at + sent[Last].cut
  BY DEF FramingInv, Stream, SendMsg
<1>10. \A j, k \in 1 .. Last : j < k => Follows(j) <= sent[k].at /\ sent[j].cut = HeaderSize + sent[j].len
  BY DEF FramingInv, Stream
<1>11. \A k \in 1 .. Last : Follows(k) <= wire /\ sent[k].cut = HeaderSize + sent[k].len
  BY <1>6, <1>8, <1>9, <1>10 DEF Follows
<1>12. Last > 0 => wire = Follows(Last)
  BY <1>6, <1>8, <1>9 DEF Follows
<1>13. new.at = wire /\ new.len = len /\ new.cut = n
  OBVIOUS
<1> HIDE DEF new
<1>14. \A k \in 1 .. Last' : sent'[k].cut <= HeaderSize + sent'[k].len
  BY <1>2, <1>6, <1>8, <1>11, <1>13
<1>15. \A k \in 1 .. Last : Follows(k)' = Follows(k)
  BY <1>6 DEF Follows
<1>16. \A j, k \in 1 .. Last' : j < k => Follows(j)' <= sent'[k].at /\ sent'[j].cut = HeaderSize + sent'[j].len
  BY <1>2, <1>6, <1>8, <1>10, <1>11, <1>13, <1>15
<1>17. \A j, k \in 1 .. Last' : k = j + 1 => sent'[k].at = Follows(j)'
  <2>1. \A j, k \in 1 .. Last : k = j + 1 => sent[k].at = Follows(j)
    BY DEF FramingInv, Stream
  <2> QED
    BY <2>1, <1>6, <1>12, <1>13, <1>15
<1>18. sent'[1].at = 0
  <2>1. Last > 0 => sent[1].at = 0
    BY DEF FramingInv, Stream
  <2>2. Last = 0 => wire = 0
    BY DEF FramingInv, Stream
  <2> QED
    BY <2>1, <2>2, <1>6, <1>13
<1>19. wire' = sent'[Last'].at + sent'[Last'].cut
  BY <1>1, <1>6, <1>13
<1>20. ~sending' => sent'[Last'].cut = HeaderSize + sent'[Last'].len
  <2>1. ~sending' => ~(n < HeaderSize + len)
    BY <1>1
  <2>2. ~(n < HeaderSize + len) => n = HeaderSize + len
    BY <1>2
  <2>3. sent'[Last'].cut = n /\ sent'[Last'].len = len
    BY <1>6, <1>13
  <2> QED
    BY <2>1, <2>2, <2>3
<1>21. Last' # 0
  BY <1>6
<1>22. Stream'
  BY <1>14, <1>16, <1>17, <1>18, <1>19, <1>20, <1>21 DEF Stream
<1>23. wire <= wire'
  BY <1>1, <1>2
<1> QED
  BY <1>6, <1>7, <1>13, <1>22, <1>23

\* A message that is written leaves the receiving end where it was.
LEMMA SendKeeps ==
  ASSUME FramingInv, NEW len \in Payloads, SendMsg(len)
  PROVE  FramingInv'
<1> USE FramingAssumption
<1>1. /\ Stream' /\ FramingTypeOK' /\ wire <= wire'
      /\ Last' = Last + 1
      /\ \A k \in 1 .. Last : sent'[k] = sent[k]
      /\ sent'[Last + 1].at = wire
  BY SendStream
<1>2. UNCHANGED <<taken, start, capacity, current, parsing, got, conn, hungUp>> /\ ~hungUp
  BY DEF SendMsg
<1>3. Last \in Nat /\ Len(got) \in Nat /\ current \in Nat
  BY DEF FramingInv, FramingTypeOK, Last
<1>4. taken \in Nat /\ wire \in Nat /\ wire' \in Nat /\ taken <= wire
  BY <1>1 DEF FramingInv, FramingTypeOK
<1>5. taken' <= wire'
  BY <1>1, <1>2, <1>4
<1>6. current <= Last /\ current' <= Last'
  BY <1>1, <1>2, <1>3 DEF FramingInv
<1>7. current # 0 => sent'[current] = sent[current]
  BY <1>1, <1>3, <1>6
<1>8. ASSUME conn = "open" PROVE Len(got') <= Last' /\ Position'
  <2>1. Len(got) <= Last /\ Position
    BY <1>8 DEF FramingInv
  <2>2. NextOne <= Last => sent'[NextOne] = sent[NextOne]
    BY <1>1, <1>3 DEF NextOne
  <2>3. NextOne <= Last \/ NextOne = Last + 1
    BY <1>3, <2>1 DEF NextOne
  <2>4. NextOne' = NextOne
    BY <1>2 DEF NextOne
  <2>5. CASE NextOne <= Last
    <3>1. NextOne <= Last'
      BY <1>1, <1>3, <2>5 DEF NextOne
    <3> QED
      BY <1>2, <1>3, <2>1, <2>2, <2>4, <2>5, <3>1, <1>1 DEF Position
  <2>6. CASE NextOne = Last + 1
    <3>1. NextOne <= Last' /\ ~(NextOne <= Last)
      BY <1>1, <1>3, <2>6 DEF NextOne
    <3>2. current = 0 /\ start = wire
      BY <2>1, <3>1 DEF Position
    <3>3. sent'[NextOne].at = wire
      BY <1>1, <2>6
    <3>4. Position'
      BY <1>2, <2>4, <3>1, <3>2, <3>3 DEF Position
    <3> QED
      BY <1>1, <1>2, <1>3, <2>1, <3>4
  <2> QED
    BY <2>3, <2>5, <2>6
<1>9. conn = "open" /\ ~parsing => Parsed'
  <2>1. conn = "open" /\ ~parsing => Parsed
    BY DEF FramingInv
  <2> QED
    BY <1>2, <1>7, <2>1 DEF Parsed, Buffered
<1>10. FramesWhole'
  BY <1>2 DEF FramingInv, FramesWhole
<1>11. NothingDropped'
  <2>1. conn # "eof"
    BY <1>2 DEF FramingInv
  <2> QED
    BY <1>2, <2>1 DEF NothingDropped
<1>12. /\ start' <= taken'
       /\ HeaderSize + FirstPayload <= capacity' /\ capacity' <= Limit'
       /\ conn' = "eof" => hungUp'
  BY <1>2 DEF FramingInv, Limit
<1> QED
  BY <1>1, <1>2, <1>5, <1>6, <1>8, <1>9, <1>10, <1>11, <1>12 DEF FramingInv

\* A connection that ends for a reason that is allowed here.
LEMMA EndKeeps ==
  ASSUME FramingInv, NEW how \in Endings \ {"open", "bad header"}, End(how),
         how = "eof" => hungUp /\ \A k \in 1 .. MaxSent : InFull(k) => k <= Len(got)
  PROVE  FramingInv'
<1>1. conn' = how /\ UNCHANGED <<sent, wire, sending, hungUp, taken, start, capacity, current, parsing, got>>
  BY DEF End, sendVars
<1>2. FramingTypeOK'
  BY <1>1 DEF FramingInv, FramingTypeOK
<1>3. Stream'
  BY StreamKept DEF FramingInv, End
<1>4. FramesWhole'
  BY <1>1 DEF FramingInv, FramesWhole
<1>5. NothingDropped'
  BY <1>1 DEF NothingDropped, InFull
<1> QED
  BY <1>1, <1>2, <1>3, <1>4, <1>5 DEF FramingInv, Last, Limit

\* The bytes taken from the socket are behind those in the buffer.
LEMMA ReceiveKeeps ==
  ASSUME FramingInv, Receive \/ ReceiveNothing
  PROVE  FramingInv'
<1> USE FramingAssumption
<1>1. /\ UNCHANGED <<sent, wire, sending, hungUp, start, current, got, conn>>
      /\ capacity' = Room /\ Room <= Limit
      /\ conn = "open"
      /\ ~parsing
  BY DEF Receive, ReceiveNothing, sendVars, Readable
<1>2. taken \in Nat /\ wire \in Nat /\ start \in Nat /\ capacity \in Nat /\ taken <= wire /\ start <= taken
  BY DEF FramingInv, FramingTypeOK
<1>3. HeaderSize + FirstPayload <= capacity
  BY DEF FramingInv
<1>4. Room \in Nat /\ HeaderSize + FirstPayload <= Room
  BY <1>2, <1>3 DEF Room
<1>5. \/ \E n \in 1 .. Room - Buffered : taken + n <= wire /\ taken' = taken + n
      \/ taken' = taken
  BY DEF Receive, ReceiveNothing
<1>6. taken' \in Nat /\ start <= taken' /\ taken' <= wire
  BY <1>2, <1>4, <1>5 DEF Buffered
<1>7. parsing' = TRUE \/ UNCHANGED <<parsing, taken>>
  BY DEF Receive, ReceiveNothing
<1>8. FramingTypeOK'
  BY <1>1, <1>4, <1>6, <1>7 DEF FramingInv, FramingTypeOK
<1>9. Stream'
  BY <1>1, StreamKept DEF FramingInv, sendVars
<1>10. FramesWhole' /\ NothingDropped'
  BY <1>1 DEF FramingInv, FramesWhole, NothingDropped
<1>11. Len(got') <= Last' /\ Position'
  BY <1>1 DEF FramingInv, Position, NextOne, Last
<1>12. ~parsing' => Parsed'
  BY <1>1, <1>7 DEF FramingInv, Parsed, Buffered
<1> QED
  BY <1>1, <1>4, <1>6, <1>8, <1>9, <1>10, <1>11, <1>12 DEF FramingInv, Last, Limit

\* A header is read where a message begins, and it is the header of the next message.
LEMMA HeaderKeeps ==
  ASSUME FramingInv, ParseHeader
  PROVE  FramingInv'
<1> USE FramingAssumption
<1>1. conn = "open" /\ parsing /\ current = 0 /\ Buffered >= HeaderSize
  BY DEF ParseHeader
<1>2. /\ Last \in Nat
      /\ \A k \in 1 .. Last : sent[k].at \in Nat /\ sent[k].len \in Nat /\ sent[k].cut \in Nat
  BY SentNumbers DEF FramingInv
<1>3. taken \in Nat /\ wire \in Nat /\ start \in Nat /\ taken <= wire /\ start <= taken /\ Len(got) \in Nat
  BY DEF FramingInv, FramingTypeOK
<1>4. start + HeaderSize <= taken
  BY <1>1, <1>3 DEF Buffered
<1>5. NextOne \in 1 .. Last /\ start = sent[NextOne].at
  <2>1. Position
    BY <1>1 DEF FramingInv
  <2>2. start # wire
    BY <1>3, <1>4
  <2> QED
    BY <1>1, <1>2, <1>3, <2>1, <2>2 DEF Position, NextOne
<1>6. \A j, k \in 1 .. Last : j < k => Follows(j) <= sent[k].at /\ sent[j].cut = HeaderSize + sent[j].len
  BY DEF FramingInv, Stream
<1>7. Begins(NextOne)
  <2>1. CASE NextOne < Last
    <3>1. sent[NextOne].cut = HeaderSize + sent[NextOne].len
      <4>1. Last \in 1 .. Last
        BY <1>2, <1>5
      <4> QED
        BY <1>5, <1>6, <2>1, <4>1
    <3>2. sent[NextOne].len \in Nat
      BY <1>2, <1>5
    <3>3. sent[NextOne].cut >= HeaderSize
      BY <3>1, <3>2
    <3> QED
      BY <1>5, <3>3 DEF Begins, Last
  <2>2. CASE NextOne = Last
    <3>1. wire = sent[Last].at + sent[Last].cut
      BY <1>5, <1>2 DEF FramingInv, Stream
    <3>2. sent[Last].at + HeaderSize <= taken /\ taken <= sent[Last].at + sent[Last].cut
      BY <1>3, <1>4, <1>5, <2>2, <3>1
    <3>3. HeaderSize \in Nat /\ sent[Last].at \in Nat /\ sent[Last].cut \in Nat
      BY <1>2, <1>5, <2>2
    <3>4. sent[Last].cut >= HeaderSize
      BY <1>3, <3>2, <3>3, Distances
    <3> QED
      BY <1>5, <2>2, <3>4 DEF Begins, Last
  <2> QED
    BY <1>2, <1>5, <2>1, <2>2
<1>8. ASSUME NEW k \in 1 .. Last, Begins(k) PROVE k = NextOne
  <2>1. sent[k].at = sent[NextOne].at
    BY <1>5, <1>8 DEF Begins
  <2>2. ~(k < NextOne)
    BY <1>2, <1>5, <1>6, <2>1 DEF Follows
  <2>3. ~(NextOne < k)
    BY <1>2, <1>5, <1>6, <2>1 DEF Follows
  <2> QED
    BY <1>2, <1>5, <2>2, <2>3
<1>9. /\ current' = NextOne /\ start' = start + HeaderSize
      /\ UNCHANGED <<sent, wire, sending, hungUp, taken, capacity, parsing, got, conn>>
  <2>1. ~(\A k \in 1 .. Len(sent) : ~Begins(k))
    BY <1>5, <1>7 DEF Last
  <2>2. PICK k \in 1 .. Len(sent) : Begins(k) /\ current' = k
    BY <2>1 DEF ParseHeader
  <2> QED
    BY <1>8, <2>1, <2>2 DEF ParseHeader, sendVars, Last
<1>10. FramingTypeOK'
  <2>1. current' \in Nat /\ start' \in Nat
    BY <1>3, <1>5, <1>9
  <2> QED
    BY <1>9, <2>1 DEF FramingInv, FramingTypeOK
<1>11. Stream'
  BY <1>9, StreamKept DEF FramingInv, sendVars
<1>12. FramesWhole' /\ NothingDropped'
  BY <1>1, <1>9 DEF FramingInv, FramesWhole, NothingDropped
<1>13. Len(got') <= Last' /\ Position'
  <2>1. NextOne' = NextOne /\ Last' = Last /\ current' # 0 /\ NextOne <= Last
    BY <1>2, <1>5, <1>9 DEF NextOne, Last
  <2>2. Position'
    BY <1>5, <1>9, <2>1 DEF Position
  <2> QED
    BY <1>1, <1>9, <2>1, <2>2 DEF FramingInv, Last
<1>14. start' <= taken' /\ taken' <= wire' /\ current' <= Last'
  BY <1>2, <1>3, <1>4, <1>5, <1>9 DEF Last
<1>15. /\ HeaderSize + FirstPayload <= capacity' /\ capacity' <= Limit'
       /\ conn' = "open" /\ parsing'
  BY <1>1, <1>9 DEF FramingInv, Limit
<1> QED
  BY <1>10, <1>11, <1>12, <1>13, <1>14, <1>15 DEF FramingInv

\* The message handed over is the next one, whole.
LEMMA DispatchKeeps ==
  ASSUME FramingInv, Dispatch
  PROVE  FramingInv'
<1> USE FramingAssumption
<1>1. conn = "open" /\ parsing /\ current # 0 /\ Buffered >= sent[current].len
  BY DEF Dispatch, Complete
<1>2. /\ Last \in Nat
      /\ \A k \in 1 .. Last : sent[k].at \in Nat /\ sent[k].len \in Nat /\ sent[k].cut \in Nat
  BY SentNumbers DEF FramingInv
<1>3. taken \in Nat /\ wire \in Nat /\ start \in Nat /\ taken <= wire /\ start <= taken /\ Len(got) \in Nat
  BY DEF FramingInv, FramingTypeOK
<1>4. /\ current = NextOne /\ NextOne \in 1 .. Last
      /\ start = sent[NextOne].at + HeaderSize
  <2>1. Position
    BY <1>1 DEF FramingInv
  <2> QED
    BY <1>1, <1>2, <1>3, <2>1 DEF Position, NextOne
<1>5. start + sent[current].len <= taken
  <2>1. taken - start >= sent[current].len
    BY <1>1 DEF Buffered
  <2>2. sent[current].len \in Nat
    BY <1>2, <1>4
  <2> QED
    BY <1>3, <2>1, <2>2, Distances
<1>6. Whole
  <2>1. CASE NextOne < Last
    <3>1. sent[NextOne].cut = HeaderSize + sent[NextOne].len
      BY <1>2, <1>4, <2>1 DEF FramingInv, Stream
    <3> QED
      BY <1>4, <3>1 DEF Whole
  <2>2. CASE NextOne = Last
    <3>1. wire = sent[Last].at + sent[Last].cut /\ sent[Last].cut <= HeaderSize + sent[Last].len
      BY <1>2, <1>4 DEF FramingInv, Stream
    <3>2. Last \in 1 .. Last /\ current = Last
      BY <1>4, <2>2
    <3>3. sent[Last].at + HeaderSize + sent[Last].len <= sent[Last].at + sent[Last].cut
      <4>1. start = sent[Last].at + HeaderSize /\ start + sent[Last].len <= taken
        BY <1>4, <1>5, <2>2, <3>2
      <4>2. sent[Last].len \in Nat
        BY <1>2, <3>2
      <4>3. \A b, l, t, w \in Nat : b + l <= t /\ t <= w => b + l <= w
        OBVIOUS
      <4>4. start + sent[Last].len <= wire
        BY <1>3, <4>1, <4>2, <4>3
      <4> QED
        BY <3>1, <4>1, <4>4
    <3>4. sent[Last].cut = HeaderSize + sent[Last].len
      BY <1>2, <3>1, <3>2, <3>3
    <3> QED
      BY <1>4, <2>2, <3>4 DEF Whole
  <2> QED
    BY <1>2, <1>4, <2>1, <2>2
<1>7. CASE End("no memory")
  <2>1. "no memory" \in Endings \ {"open", "bad header"}
    BY DEF Endings
  <2> QED
    BY <1>7, <2>1, EndKeeps
<1>8. CASE ~End("no memory")
  <2>1. /\ got' = Append(got, current)
        /\ UNCHANGED <<sent, wire, sending, hungUp, taken, capacity, parsing>>
        /\ \/ start' = start + sent[current].len /\ current' = 0 /\ conn' = "open"
           \/ conn' = "crash" /\ start' = start /\ current' = current
    BY <1>1, <1>6, <1>8 DEF Dispatch, sendVars
  <2>2. got \in Seq(Nat) /\ current \in Nat
    BY DEF FramingInv, FramingTypeOK
  <2>3. /\ got' \in Seq(Nat) /\ Len(got') = NextOne
        /\ \A i \in 1 .. Len(got) : got'[i] = got[i]
        /\ got'[NextOne] = NextOne
    BY <1>4, <2>1, <2>2 DEF NextOne
  <2>4. start' \in Nat /\ current' \in Nat /\ start' <= taken /\ current' <= Last
    <3>1. sent[current].len \in Nat /\ current <= Last
      BY <1>2, <1>4
    <3>2. start + sent[current].len \in Nat
      BY <1>3, <3>1
    <3>3. start' \in Nat /\ start' <= taken
      BY <1>3, <1>5, <2>1, <3>2
    <3>4. current' \in Nat /\ current' <= Last
      BY <1>2, <2>1, <2>2, <3>1
    <3> QED
      BY <3>3, <3>4
  <2>5. FramingTypeOK'
    <3>1. conn' \in Endings
      BY <2>1 DEF Endings
    <3> QED
      BY <2>1, <2>3, <2>4, <3>1 DEF FramingInv, FramingTypeOK
  <2>6. Stream'
    BY <2>1, StreamKept DEF FramingInv, sendVars
  <2>7. FramesWhole'
    <3>1. \A i \in 1 .. Len(got) : got[i] = i
      BY DEF FramingInv, FramesWhole
    <3>2. \A i \in 1 .. Len(got') : got'[i] = i
      BY <1>3, <2>3, <3>1 DEF NextOne
    <3> QED
      BY <2>1, <3>2 DEF FramesWhole
  <2>8. NothingDropped' /\ conn' # "eof"
    BY <2>1 DEF NothingDropped
  <2>9. Last' = Last
    BY <2>1 DEF Last
  <2>10. conn' = "open" => Len(got') <= Last' /\ Position'
    <3> SUFFICES ASSUME conn' = "open" PROVE Position'
      BY <1>2, <1>4, <2>3, <2>9
    <3>1. start' = start + sent[current].len /\ current' = 0
      BY <2>1
    <3>2. start' = Follows(NextOne)
      BY <1>2, <1>4, <3>1 DEF Follows
    <3>3. NextOne' = NextOne + 1
      BY <2>3 DEF NextOne
    <3>4. CASE NextOne < Last
      <4>1. NextOne + 1 \in 1 .. Last
        BY <1>2, <1>4, <3>4
      <4>2. sent[NextOne + 1].at = Follows(NextOne)
        BY <1>4, <4>1 DEF FramingInv, Stream
      <4> QED
        BY <2>1, <2>9, <3>1, <3>2, <3>3, <4>1, <4>2 DEF Position
    <3>5. CASE NextOne = Last
      <4>1. wire = Follows(Last)
        <5>1. wire = sent[Last].at + sent[Last].cut
          BY <1>2, <1>4 DEF FramingInv, Stream
        <5>2. sent[Last].cut = HeaderSize + sent[Last].len
          BY <1>4, <1>6, <3>5 DEF Whole
        <5> QED
          BY <1>2, <1>4, <5>1, <5>2 DEF Follows
      <4>2. ~(NextOne + 1 <= Last)
        BY <1>2, <3>5
      <4> QED
        BY <2>1, <2>9, <3>1, <3>2, <3>3, <3>5, <4>1, <4>2 DEF Position
    <3> QED
      BY <1>2, <1>4, <3>4, <3>5
  <2>11. /\ HeaderSize + FirstPayload <= capacity' /\ capacity' <= Limit'
         /\ parsing' /\ taken' <= wire' /\ start' <= taken' /\ current' <= Last'
    BY <1>1, <1>3, <2>1, <2>4, <2>9 DEF FramingInv, Limit
  <2> QED
    BY <2>5, <2>6, <2>7, <2>8, <2>10, <2>11 DEF FramingInv
<1> QED
  BY <1>7, <1>8

\* When the peer has closed and nothing is left, what the buffer holds is no whole message.
LEMMA ReceiveEndKeeps ==
  ASSUME FramingInv, ReceiveEnd
  PROVE  FramingInv'
<1> USE FramingAssumption
<1>1. conn = "open" /\ ~parsing /\ hungUp /\ taken = wire /\ End("eof")
  BY DEF ReceiveEnd, Readable
<1>2. /\ Last \in Nat
      /\ \A k \in 1 .. Last : sent[k].at \in Nat /\ sent[k].len \in Nat /\ sent[k].cut \in Nat
  BY SentNumbers DEF FramingInv
<1>3. taken \in Nat /\ wire \in Nat /\ start \in Nat /\ start <= taken /\ Len(got) \in Nat
  BY DEF FramingInv, FramingTypeOK
<1>4. Parsed /\ Position
  BY <1>1 DEF FramingInv
<1>5. ASSUME NEW k \in 1 .. MaxSent, InFull(k), ~(k <= Len(got)) PROVE FALSE
  <2>1. k \in 1 .. Last /\ sent[k].cut = HeaderSize + sent[k].len
    BY <1>5 DEF InFull, Last
  <2>2. NextOne \in 1 .. Last /\ NextOne <= k
    BY <1>2, <1>3, <1>5, <2>1 DEF NextOne
  <2>3. sent[k].at + HeaderSize + sent[k].len <= wire
    <3>1. wire = sent[Last].at + sent[Last].cut
      BY <1>2, <2>1 DEF FramingInv, Stream
    <3>2. k < Last => sent[k].at + HeaderSize + sent[k].len <= sent[Last].at
      BY <1>2, <2>1 DEF FramingInv, Stream, Follows
    <3>3. Last \in 1 .. Last
      BY <1>2, <2>1
    <3> QED
      BY <1>2, <2>1, <3>1, <3>2, <3>3
  <2>4. sent[NextOne].at + HeaderSize + sent[NextOne].len <= wire
    <3>1. NextOne < k => sent[NextOne].at + HeaderSize + sent[NextOne].len <= sent[k].at
      BY <2>1, <2>2 DEF FramingInv, Stream, Follows
    <3>2. CASE NextOne = k
      BY <2>3, <3>2
    <3>3. CASE NextOne < k
      <4>1. /\ sent[k].at \in Nat /\ sent[k].len \in Nat
            /\ sent[NextOne].at \in Nat /\ sent[NextOne].len \in Nat
        BY <1>2, <2>1, <2>2
      <4>2. sent[k].at <= wire
        <5>1. HeaderSize \in Nat
          OBVIOUS
        <5> QED
          BY <1>3, <2>3, <4>1, <5>1, Distances
      <4>3. sent[NextOne].at + HeaderSize + sent[NextOne].len <= sent[k].at
        BY <3>1, <3>3
      <4>4. sent[NextOne].at + HeaderSize + sent[NextOne].len \in Nat
        BY <4>1
      <4> QED
        BY <1>3, <4>1, <4>2, <4>3, <4>4
    <3> QED
      BY <2>1, <2>2, <3>2, <3>3
  <2>5. sent[NextOne].at \in Nat /\ sent[NextOne].len \in Nat
    BY <1>2, <2>2
  <2>6. CASE current = 0
    <3>1. start = sent[NextOne].at /\ taken - start < HeaderSize
      BY <1>4, <2>2, <2>6 DEF Position, Parsed, Buffered
    <3>2. HeaderSize \in Nat
      OBVIOUS
    <3>3. taken < sent[NextOne].at + HeaderSize
      BY <1>3, <3>1, <3>2, Distances
    <3>4. sent[NextOne].at + HeaderSize <= wire
      BY <1>3, <2>4, <2>5, <3>2, Distances
    <3> QED
      BY <1>1, <1>3, <2>5, <3>2, <3>3, <3>4
  <2>7. CASE current # 0
    <3>1. start = sent[NextOne].at + HeaderSize /\ taken - start < sent[NextOne].len
      BY <1>4, <2>7 DEF Position, Parsed, Buffered
    <3>2. taken < start + sent[NextOne].len
      BY <1>3, <2>5, <3>1, Distances
    <3>3. start + sent[NextOne].len <= wire
      BY <2>4, <3>1
    <3>4. start + sent[NextOne].len \in Nat
      BY <1>3, <2>5
    <3> QED
      BY <1>1, <1>3, <3>2, <3>3, <3>4
  <2> QED
    BY <2>6, <2>7
<1>6. "eof" \in Endings \ {"open", "bad header"}
  BY DEF Endings
<1> QED
  BY <1>1, <1>5, <1>6, EndKeeps

\* Every step keeps the invariant.
LEMMA NextFraming == FramingInv /\ [FramingNext]_framingVars => FramingInv'
<1> SUFFICES ASSUME FramingInv, [FramingNext]_framingVars PROVE FramingInv'
  OBVIOUS
<1>1. ASSUME NEW len \in Payloads, SendMsg(len) PROVE FramingInv'
  BY <1>1, SendKeeps
<1>2. CASE HangUp
  <2>1. hungUp' = TRUE /\ ~hungUp
        /\ UNCHANGED <<sent, wire, sending, taken, start, capacity, current, parsing, got, conn>>
    BY <1>2 DEF HangUp
  <2>2. FramingTypeOK'
    BY <2>1 DEF FramingInv, FramingTypeOK
  <2>3. Stream'
    BY <2>1 DEF FramingInv, Stream, Last, Follows
  <2>4. FramesWhole' /\ NothingDropped'
    BY <2>1 DEF FramingInv, FramesWhole, NothingDropped, InFull
  <2> QED
    BY <2>1, <2>2, <2>3, <2>4 DEF FramingInv, Last, Limit, Position, NextOne, Parsed, Buffered
<1>3. CASE Receive \/ ReceiveNothing
  BY <1>3, ReceiveKeeps
<1>4. CASE GiveUp
  <2>1. "too big" \in Endings \ {"open", "bad header"} /\ End("too big")
    BY <1>4 DEF Endings, GiveUp
  <2> QED
    BY <2>1, EndKeeps
<1>5. CASE ReceiveFails
  <2>1. "no memory" \in Endings \ {"open", "bad header"} /\ "error" \in Endings \ {"open", "bad header"}
    BY DEF Endings
  <2>2. CASE End("no memory")
    BY <2>1, <2>2, EndKeeps
  <2>3. CASE End("error")
    BY <2>1, <2>3, EndKeeps
  <2> QED
    BY <1>5, <2>2, <2>3 DEF ReceiveFails
<1>6. CASE ReceiveEnd
  BY <1>6, ReceiveEndKeeps
<1>7. CASE ParseHeader
  BY <1>7, HeaderKeeps
<1>8. CASE Dispatch
  BY <1>8, DispatchKeeps
<1>9. CASE ParseMore
  <2>1. /\ parsing' = FALSE /\ conn = "open"
        /\ UNCHANGED <<sent, wire, sending, hungUp, taken, start, capacity, current, got, conn>>
        /\ IF current = 0 THEN Buffered < HeaderSize ELSE ~Complete
    BY <1>9 DEF ParseMore, sendVars
  <2>2. FramingTypeOK'
    BY <2>1 DEF FramingInv, FramingTypeOK
  <2>3. Stream'
    BY <2>1, StreamKept DEF FramingInv, sendVars
  <2>4. FramesWhole' /\ NothingDropped'
    BY <2>1 DEF FramingInv, FramesWhole, NothingDropped
  <2>5. Parsed'
    <3>1. taken \in Nat /\ start \in Nat /\ current \in Nat /\ current <= Last
      BY DEF FramingInv, FramingTypeOK
    <3>2. current # 0 => sent[current].len \in Nat
      BY <3>1, SentNumbers DEF FramingInv
    <3>3. current # 0 => Buffered < sent[current].len
      BY <2>1, <3>1, <3>2 DEF Complete, Buffered
    <3> QED
      BY <2>1, <3>3 DEF Parsed, Buffered
  <2>6. Position' /\ Len(got') <= Last'
    BY <2>1 DEF FramingInv, Position, NextOne, Last
  <2> QED
    BY <2>1, <2>2, <2>3, <2>4, <2>5, <2>6 DEF FramingInv, Last, Limit
<1>10. CASE UNCHANGED framingVars
  <2>1. UNCHANGED <<sent, wire, sending, hungUp, taken, start, capacity, current, parsing, got, conn>>
    BY <1>10 DEF framingVars
  <2>2. FramingTypeOK'
    BY <2>1 DEF FramingInv, FramingTypeOK
  <2>3. Stream'
    BY <2>1, StreamKept DEF FramingInv, sendVars
  <2>4. FramesWhole' /\ NothingDropped'
    BY <2>1 DEF FramingInv, FramesWhole, NothingDropped, InFull
  <2> QED
    BY <2>1, <2>2, <2>3, <2>4 DEF FramingInv, Last, Limit, Position, NextOne, Parsed, Buffered
<1> QED
  BY <1>1, <1>2, <1>3, <1>4, <1>5, <1>6, <1>7, <1>8, <1>9, <1>10 DEF FramingNext

-----------------------------------------------------------------------------
\* FramesWhole, for every header size, buffer size, set of payload lengths and number of
\* messages: the receive loop hands over the messages sent, whole, once each and in order.
THEOREM FramesAreWhole == FramingSpec => []FramesWhole
<1>1. FramingInv => FramesWhole
  BY DEF FramingInv
<1> QED
  BY InitFraming, NextFraming, <1>1, PTL DEF FramingSpec

\* NothingDropped, for every such value: a connection closed by the peer has dispatched
\* every message written in full.
THEOREM NothingIsDropped == FramingSpec => []NothingDropped
<1>1. FramingInv => NothingDropped
  BY DEF FramingInv
<1> QED
  BY InitFraming, NextFraming, <1>1, PTL DEF FramingSpec
=============================================================================
