------------------------------- MODULE BlockIO -------------------------------
(***************************************************************************)
(* io/xsan_io.c and the synchronous reads and writes of bdev/xsan_bdev.c:  *)
(* what a request acquires on its way to an SPDK block device (descriptor, *)
(* I/O channel, DMA buffer), what each early return gives back, and whom   *)
(* it tells.  The volume manager always submits with the descriptor of the *)
(* disk and without a channel.                                             *)
(***************************************************************************)
EXTENDS Naturals, Sequences, FiniteSets

CONSTANTS Requests,  \* asynchronous requests: xsan_io_request_t
          Syncs      \* calls of xsan_bdev_read_sync and xsan_bdev_write_sync

ASSUME IoAssumption == Requests \cap Syncs = {}

Ios == Requests \cup Syncs

VARIABLES io,        \* "new", "queued" at SPDK, "over"
          own,       \* requests with own_spdk_resources
          holds,     \* what each has and has not given back: "request" (its memory), "descriptor",
                     \* "channel", "buffer"
          returned,  \* what the submitting call returned; "-" before that
          told,      \* the statuses its user_cb was called with
          refused    \* history: requests spdk_bdev_read_blocks or write_blocks refused

ioVars == <<io, own, holds, returned, told, refused>>

IoInit == /\ io = [r \in Ios |-> "new"]
          /\ own = {}
          /\ holds = [r \in Ios |-> {}]
          /\ returned = [r \in Ios |-> "-"]
          /\ told = [r \in Ios |-> <<>>]
          /\ refused = {}

-----------------------------------------------------------------------------
\* The early returns of xsan_io_submit_request_to_bdev: a bad argument, the wrong
\* thread or no such device; no descriptor; no channel; the wrong length; no buffer.
\* Each leaves the request to the caller, who does not free it, and tells nobody.
Leave(r, opened, left) ==
  /\ io' = [io EXCEPT ![r] = "over"]
  /\ own' = IF opened THEN own \cup {r} ELSE own
  /\ holds' = [holds EXCEPT ![r] = {"request"} \cup left]
  /\ returned' = [returned EXCEPT ![r] = "ERR"]
  /\ UNCHANGED <<told, refused>>

\* Whether the request acquired the descriptor decides what it gives back.
GivesBack(owner) == IF owner THEN {"descriptor", "channel"} ELSE {}

\* Faulty variant of SpdkRefuses: the DMA buffer is left to xsan_io_request_free, which
\* does not know of it.
SpdkRefusesBuffer(r, owner, got) ==
  /\ io' = [io EXCEPT ![r] = "over"]
  /\ own' = IF owner THEN own \cup {r} ELSE own
  /\ holds' = [holds EXCEPT ![r] = (got \cup {"buffer"}) \ GivesBack(owner)]
  /\ told' = [told EXCEPT ![r] = Append(@, "ERR")]
  /\ returned' = [returned EXCEPT ![r] = "ERR"]
  /\ refused' = refused \cup {r}

\* SPDK refuses the request, which will not complete: everything owned is given back,
\* the user is told, the request is freed, and the error is returned as well.
SpdkRefuses(r, owner, got) ==
  /\ io' = [io EXCEPT ![r] = "over"]
  /\ own' = IF owner THEN own \cup {r} ELSE own
  /\ holds' = [holds EXCEPT ![r] = got \ GivesBack(owner)]
  /\ told' = [told EXCEPT ![r] = Append(@, "ERR")]
  /\ returned' = [returned EXCEPT ![r] = "ERR"]
  /\ refused' = refused \cup {r}

\* xsan_io_request_create and xsan_io_submit_request_to_bdev.  given: the caller set
\* bdev_desc; mapped: the caller set a DMA buffer.
Submit(r, given, mapped) ==
  LET opened == IF given THEN {} ELSE {"descriptor"}
  IN  /\ io[r] = "new"
      /\ \/ Leave(r, FALSE, {})                                 \* arguments, thread, device, open
         \/ Leave(r, ~given, {})                                \* no channel
         \/ Leave(r, ~given, IF given THEN {"channel"} ELSE {}) \* length, DMA buffer
         \/ SpdkRefuses(r, ~given, opened \cup {"channel"})
         \/ /\ io' = [io EXCEPT ![r] = "queued"]
            /\ own' = IF given THEN own ELSE own \cup {r}
            /\ holds' = [holds EXCEPT ![r] = {"request", "channel"} \cup opened
                                             \cup IF mapped THEN {} ELSE {"buffer"}]
            /\ returned' = [returned EXCEPT ![r] = "OK"]
            /\ UNCHANGED <<told, refused>>

\* _xsan_io_spdk_completion_cb
Completion(r, status) ==
  /\ io[r] = "queued"
  /\ io' = [io EXCEPT ![r] = "over"]
  /\ told' = [told EXCEPT ![r] = Append(@, status)]
  /\ holds' = [holds EXCEPT ![r] = (@ \ GivesBack(r \in own)) \ {"request", "buffer"}]
  /\ UNCHANGED <<own, returned, refused>>

\* _xsan_bdev_do_sync_io up to the loop that polls the thread, inside which other
\* requests may complete; every failure before that gives everything back.
SyncStart(r, internal) ==
  /\ io[r] = "new"
  /\ \/ /\ io' = [io EXCEPT ![r] = "over"]
        /\ returned' = [returned EXCEPT ![r] = "ERR"]
        /\ UNCHANGED holds
     \/ /\ io' = [io EXCEPT ![r] = "queued"]
        /\ holds' = [holds EXCEPT ![r] = {"descriptor", "channel"}
                                         \cup IF internal THEN {"buffer"} ELSE {}]
        /\ UNCHANGED returned
  /\ UNCHANGED <<own, told, refused>>

\* _xsan_bdev_sync_io_completion_cb, and the rest of _xsan_bdev_do_sync_io.
SyncEnd(r, status) ==
  /\ io[r] = "queued"
  /\ io' = [io EXCEPT ![r] = "over"]
  /\ returned' = [returned EXCEPT ![r] = status]
  /\ holds' = [holds EXCEPT ![r] = {}]
  /\ UNCHANGED <<own, told, refused>>

\* SPDK completes what was submitted.
Finish(r) == \E status \in {"OK", "ERR"} :
               IF r \in Requests THEN Completion(r, status) ELSE SyncEnd(r, status)

IoNext == \/ \E r \in Requests, given, mapped \in BOOLEAN : Submit(r, given, mapped)
          \/ \E r \in Syncs, internal \in BOOLEAN : SyncStart(r, internal)
          \/ \E r \in Ios : Finish(r)

IoSpec == IoInit /\ [][IoNext]_ioVars

-----------------------------------------------------------------------------
(* Properties *)

\* Whichever way a request ends, it has closed the descriptor it opened and freed its
\* buffer, and it keeps its own memory only when it was turned away before SPDK saw it.  Its
\* user is told at most once, exactly once if the call succeeded, and besides an error only
\* if SPDK refused.
IoAccounted ==
  \A r \in Ios : io[r] = "over" =>
    /\ holds[r] \cap {"descriptor", "buffer"} = {}
    /\ "request" \in holds[r] => returned[r] = "ERR" /\ told[r] = <<>>
    /\ Len(told[r]) <= 1
    /\ returned[r] = "OK" /\ r \in Requests => Len(told[r]) = 1
    /\ returned[r] = "ERR" /\ told[r] # <<>> => r \in refused

\* A request that got its I/O channel is responsible for putting it back, as the comments in
\* xsan_io.c and xsan_io.h say: when SPDK has completed it, the channel is back.
ChannelsPutBack == \A r \in Ios : io[r] = "over" /\ returned[r] = "OK" => "channel" \notin holds[r]
=============================================================================
