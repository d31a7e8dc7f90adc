----------------------------- MODULE ReplicaRead -----------------------------
(***************************************************************************)
(* The read path of storage/volume_manager.c: xsan_volume_read_async tries *)
(* the replicas of a volume one after the other, replica 0 on the local    *)
(* disk and the others over connections of node_comm, until one of them    *)
(* delivers.  Every function runs to completion on the SPDK reactor, so    *)
(* each is one action; what interleaves is completions and responses.      *)
(*                                                                         *)
(* The context of a read is freed by hand when the read ends, and by the   *)
(* destructor of the table of pending reads when it leaves that table.     *)
(* libc aborts the process when memory is freed twice.                     *)
(***************************************************************************)
EXTENDS Naturals, Sequences, FiniteSets

CONSTANTS Reads,       \* the reads users submit; each has its own transaction id
          RemoteCount, \* the replicas besides the local one
          ReadFaults   \* what the environment does besides succeeding

ReadFaultKinds == {"submit", "reject", "io", "drop", "oom", "disconnect", "connect", "send",
                   "writev", "partial", "lost", "short"}

ASSUME ReadAssumption == RemoteCount \in Nat /\ ReadFaults \subseteq ReadFaultKinds

Peers == 1 .. RemoteCount

Exhausted == RemoteCount + 1

VARIABLES attempt,   \* current_replica_idx_to_try
          phase,     \* what the current attempt waits for
          listed,    \* the reads in pending_replica_reads
          answer,    \* requests to and responses of each remote replica, by transaction id
          peerConn,     \* the connection to each remote replica
          called,    \* the calls of each user's callback: the status, whose data the buffer holds
          bad,       \* history: the replicas that failed each read
          twice,     \* history: reads for which a replica answered twice
          process    \* "up" or "aborted"

readVars == <<attempt, phase, listed, answer, peerConn, called, bad, twice, process>>

\* "disk": at the local disk; "connecting", "partial": for a callback of node_comm that
\* never comes; "sent": for a response; "lost": the completion was dropped.
Phases == {"idle", "disk", "connecting", "partial", "sent", "lost", "ended"}

ReadInit == /\ attempt = [r \in Reads |-> 0]
            /\ phase = [r \in Reads |-> "idle"]
            /\ listed = {}
            /\ answer = [r \in Reads |-> [i \in Peers |-> "none"]]
            /\ peerConn \in [Peers -> IF "disconnect" \in ReadFaults THEN {"none", "idle"} ELSE {"idle"}]
            /\ called = [r \in Reads |-> <<>>]
            /\ bad = [r \in Reads |-> {}]
            /\ twice = {}
            /\ process = "up"

-----------------------------------------------------------------------------
Given(fault, outcomes) == IF fault \in ReadFaults THEN outcomes ELSE {}

\* _xsan_volume_submit_single_io_attempt.  What SPDK refuses is reported by the return
\* value and perhaps also by the completion callback, which frees the context that
\* the caller then frees again.
LocalStarts == {"disk"} \cup Given("submit", {"failed"}) \cup Given("reject", {"failed", "crash"})

\* A remote attempt up to its first wait.  "failed": no memory; "unconnected": the
\* connection failed at once, the read is in the table; "refused": send_msg refused
\* the message.  After a failed writev the operation is reported on, and freed, twice.
RemoteStarts(c) ==
  Given("oom", {"failed"})
  \cup CASE c = "none" -> {"connecting"} \cup Given("connect", {"unconnected"})
         [] c = "busy" -> {"refused"}
         [] c = "idle" -> {"sent"} \cup Given("send", {"refused"}) \cup Given("writev", {"crash"})
                                   \cup Given("partial", {"partial"})

Starts(i) == IF i = 0 THEN LocalStarts ELSE RemoteStarts(peerConn[i])

Failures == {"failed", "unconnected", "refused", "crash"}

\* The user is called back.
Tell(r, status, data) == called' = [called EXCEPT ![r] = Append(@, [status |-> status, data |-> data])]

\* _xsan_try_read_from_next_replica from index k on, after the replicas failed: the
\* attempts k .. j - 1 fail at once and j waits, or all fail and the user gets the
\* status of the last.  After a refused message the caller frees the operation that is
\* freed already; it survives that only if the next attempt was given the same memory
\* and still waits.  The end of a read that is in the table frees its context twice.
\* The abort comes last, when the calls nested in it have returned.
TryNext(r, k, failed, answers) ==
  \E j \in k .. Exhausted : \E out \in [k .. j - 1 -> Failures] :
    /\ \A i \in k .. j - 1 : out[i] \in Starts(i)
    /\ attempt' = [attempt EXCEPT ![r] = j]
    /\ bad' = [bad EXCEPT ![r] = @ \cup failed \cup (k .. j - 1)]
    /\ LET put == \E i \in k .. j - 1 : out[i] \in {"unconnected", "refused"}
           crash == \E i \in k .. j - 1 : out[i] = "crash"
           refused == \E i \in k .. j - 1 : out[i] = "refused"
       IN  \/ /\ j = Exhausted
              /\ Tell(r, "ERR", {})
              /\ phase' = [phase EXCEPT ![r] = "ended"]
              /\ listed' = listed \ {r}
              /\ answer' = answers
              /\ process' = IF r \in listed \/ put \/ crash THEN "aborted" ELSE "up"
              /\ UNCHANGED peerConn
           \/ /\ j # Exhausted
              /\ \E o \in Starts(j) \ Failures :
                   /\ phase' = [phase EXCEPT ![r] = o]
                   /\ answer' = IF o = "sent" THEN [answers EXCEPT ![r][j] = "asked"] ELSE answers
                   /\ peerConn' = IF o = "partial" THEN [peerConn EXCEPT ![j] = "busy"] ELSE peerConn
                   /\ listed' \in IF j = 0 THEN {listed}
                                  ELSE {listed \cup {r}} \cup Given("oom", {listed})
                   /\ process' \in CASE crash \/ (refused /\ o = "sent") -> {"aborted"}
                                     [] refused /\ ~crash /\ o # "sent" -> {"up", "aborted"}
                                     [] OTHER -> {"up"}
              /\ UNCHANGED called

\* xsan_volume_read_async
ReadAsync(r) ==
  /\ process = "up" /\ phase[r] = "idle"
  /\ TryNext(r, 0, {}, answer)
  /\ UNCHANGED twice

\* Faulty variant of Succeed: a read that never was in the table is freed twice too.
SucceedTwice(r, data) ==
  /\ Tell(r, "OK", data)
  /\ phase' = [phase EXCEPT ![r] = "ended"]
  /\ listed' = listed \ {r}
  /\ process' = "aborted"
  /\ UNCHANGED <<attempt, peerConn, bad>>

\* _xsan_replica_read_attempt_complete_cb with XSAN_OK.
Succeed(r, data) ==
  /\ Tell(r, "OK", data)
  /\ phase' = [phase EXCEPT ![r] = "ended"]
  /\ listed' = listed \ {r}
  /\ process' = IF r \in listed THEN "aborted" ELSE "up"
  /\ UNCHANGED <<attempt, peerConn, bad>>

\* Faulty variant of Retry: the index is advanced twice.
RetrySkip(r, i, answers) ==
  TryNext(r, IF attempt[r] < RemoteCount THEN attempt[r] + 2 ELSE Exhausted, {i}, answers)

\* Faulty variant of Retry: no other replica is tried.
RetryNever(r, i, answers) == /\ phase' = [phase EXCEPT ![r] = "ended"]
                             /\ answer' = answers
                             /\ UNCHANGED <<attempt, listed, peerConn, called, bad, process>>

\* The same with an error, which replica i reports.
Retry(r, i, answers) == TryNext(r, attempt[r] + 1, {i}, answers)

\* The disk finishes the local read.  _xsan_physical_io_complete_cb takes its context for
\* an xsan_io_request_t: it returns at once, or finds its fields beyond the end of
\* the context and copies the data, does not copy it, or turns OK into an error.
LocalReadDone(r) ==
  /\ process = "up" /\ phase[r] = "disk"
  /\ \/ Succeed(r, {0}) /\ UNCHANGED answer
     \/ "drop" \in ReadFaults /\ Succeed(r, {}) /\ UNCHANGED answer
     \/ {"io", "drop"} \cap ReadFaults # {} /\ Retry(r, 0, answer)
     \/ /\ "drop" \in ReadFaults
        /\ phase' = [phase EXCEPT ![r] = "lost"]
        /\ UNCHANGED <<attempt, listed, answer, peerConn, called, bad, process>>
  /\ UNCHANGED twice

\* xsan_volume_manager_handle_replica_read_req on the remote node: the data, fewer bytes
\* than asked for, an error, an error twice when SPDK refuses the read there and both
\* reports come through, or nothing.
Serve(r, i) ==
  /\ answer[r][i] = "asked"
  /\ \E o \in {"okay"} \cup Given("io", {"erred"}) \cup Given("reject", {"erred", "erred2"})
              \cup Given("short", {"short"}) \cup Given("drop", {"lost"}) \cup Given("lost", {"lost"}) :
       answer' = [answer EXCEPT ![r][i] = o]
  /\ UNCHANGED <<attempt, phase, listed, peerConn, called, bad, twice, process>>

\* Faulty variant of Usable: the length of the data is not compared.
UsableAny(o) == o \in {"okay", "short"}

Usable(o) == o = "okay"

\* xsan_volume_manager_process_replica_read_response: looked up by transaction id only,
\* a response ends whatever attempt the read is at; out of the table it is ignored.
ReadResponse(r, i) ==
  LET o == answer[r][i]
      left == [answer EXCEPT ![r][i] = IF o = "erred2" THEN "erred" ELSE "none"]
  IN  /\ process = "up"
      /\ o \in {"okay", "short", "erred", "erred2"}
      /\ \/ /\ r \notin listed
            /\ answer' = left
            /\ UNCHANGED <<attempt, phase, listed, peerConn, called, bad, process>>
         \/ r \in listed /\ Usable(o) /\ Succeed(r, IF o = "okay" THEN {i} ELSE {}) /\ answer' = left
         \/ r \in listed /\ ~Usable(o) /\ Retry(r, i, left)
      /\ twice' = IF o = "erred2" THEN twice \cup {r} ELSE twice

\* A peer's connection enters or leaves the active list of node_comm.
PeerChange(i) ==
  /\ "disconnect" \in ReadFaults
  /\ peerConn' = [peerConn EXCEPT ![i] = IF @ = "none" THEN "idle" ELSE "none"]
  /\ UNCHANGED <<attempt, phase, listed, answer, called, bad, twice, process>>

ReadNext == \/ \E r \in Reads : \/ ReadAsync(r) \/ LocalReadDone(r)
                               \/ \E i \in Peers : Serve(r, i) \/ ReadResponse(r, i)
            \/ \E i \in Peers : PeerChange(i)

\* The reactor polls the disks for ever.  Of the sockets the code promises nothing: no
\* group of sockets is created, and nothing calls the receive function or the handler
\* of responses.
ReadFairness == \A r \in Reads : WF_readVars(LocalReadDone(r))

ReadSpec == ReadInit /\ [][ReadNext]_readVars

LiveReadSpec == ReadSpec /\ ReadFairness

-----------------------------------------------------------------------------
(* Properties *)

Told(r, status) == \E n \in 1 .. Len(called[r]) : called[r][n].status = status

\* However responses are delayed or doubled, a user is called back at most once, and
\* with XSAN_OK only when the buffer holds all the data one remote replica sent for
\* this read, or when the local attempt ended it.
ReadAnswersOnce ==
  \A r \in Reads :
    /\ Len(called[r]) <= 1
    /\ Told(r, "OK") => \/ attempt[r] = 0
                        \/ \E i \in Peers : called[r][1].data = {i}

\* A read fails only when every replica has failed it, unless a replica answered
\* twice and its second answer was taken for that of the next one.
FailsOnlyIfAllFail ==
  \A r \in Reads \ twice : Told(r, "ERR") => bad[r] = 0 .. RemoteCount

\* The process outlives every read that ends at the local replica: it aborts only when
\* the local attempt of some read failed and the read went on.
AbortsOnlyBeyondLocal == process = "aborted" => \E r \in Reads : attempt[r] > 0

\* What a read waits for besides the local disk: a completion the volume manager has
\* dropped, a callback of node_comm, or the response of the replica it asked last, which
\* is under way unless a replica answered twice or memory ran out for the table.
Awaits(r) == \/ phase[r] \in {"lost", "connecting", "partial"}
             \/ phase[r] = "sent" /\ (answer[r][attempt[r]] # "none" \/ r \in twice \/ r \notin listed)

\* A read is not forgotten between two replicas: from some moment on it has ended, the
\* process has aborted, or something outside the volume manager is owed to the read.
ReadEnds == \A r \in Reads : phase[r] # "idle" ~> [](called[r] # <<>> \/ process = "aborted" \/ Awaits(r))
=============================================================================
