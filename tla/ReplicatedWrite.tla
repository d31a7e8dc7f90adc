--------------------------- MODULE ReplicatedWrite ---------------------------
(***************************************************************************)
(* The replicated write path of storage/volume_manager.c, from             *)
(* xsan_volume_write_async to the user's callback, for one volume: the     *)
(* coordinator's contexts, its disk, its connections to the nodes that     *)
(* hold the other replicas, and those nodes.                               *)
(*                                                                         *)
(* Every function of the coordinator runs to completion on one SPDK        *)
(* reactor, so each of them is one action; what interleaves is the         *)
(* completions, requests and responses of several writes.                  *)
(***************************************************************************)
EXTENDS Naturals, FiniteSets

CONSTANTS Writes,   \* the writes users submit; each gets its own transaction id
          Local,    \* replica 0 of the volume, on the coordinator's own disk
          Remotes,  \* the other replicas, one per remote node
          Origin,   \* how the volume came to be: "created" or "loaded"
          Faults    \* what the environment does besides succeeding

FaultKinds == {"oom",        \* the coordinator has no memory for an operation
               "submit",     \* the local I/O is refused before it reaches SPDK
               "reject",     \* SPDK refuses a submitted request
               "io",         \* a disk I/O completes with an error
               "drop",       \* the completion reads past its context and returns
               "disconnect", \* no connection to a replica, or it goes away
               "connect",    \* spdk_sock_connect_ext fails at once
               "send",       \* send_msg refuses the message
               "writev",     \* spdk_sock_writev fails
               "partial",    \* spdk_sock_writev takes a part of the message
               "lost"}       \* a request or its response does not arrive, or is not sent

Replicas == {Local} \cup Remotes

\* rep_ctx->total_replicas_targeted.
Total == Cardinality(Replicas)

ASSUME ReplicaAssumption == Local \notin Remotes /\ IsFiniteSet(Remotes)
ASSUME OriginAssumption == Origin \in {"created", "loaded"}
ASSUME FaultAssumption == Faults \subseteq FaultKinds

States == {"INITIALIZING", "ONLINE", "DEGRADED", "OFFLINE", "FAILED"}

VARIABLES volState,     \* vol->state
          replicaState, \* vol->replica_nodes[i].state
          ctx,          \* the xsan_replicated_io_ctx_t of each write
          op,           \* where the write to each replica stands
          conn,         \* the connection to each remote node
          durable,      \* the writes each replica's disk holds
          ret,          \* what xsan_volume_write_async returned
          cb,           \* the status the user's callback received
          doubled,      \* history: writes that counted a replica twice
          stale         \* history: writes whose freed context was counted on

vars == <<volState, replicaState, ctx, op, conn, durable, ret, cb, doubled, stale>>

\* "disk": at the local disk; "connecting", "partial": waiting for a callback
\* of node_comm that never comes; "sent": request on its way; "okay", "erred",
\* "erred2": one OK, one error or two error responses on their way back;
\* "lost": nothing will ever be heard; "done": counted or warned about.
OpStates == {"none", "disk", "connecting", "partial", "sent",
             "okay", "erred", "erred2", "lost", "done"}

Idle == [life |-> "none", success |-> 0, failed |-> 0]

Writable(s) == s \in {"ONLINE", "DEGRADED"}

\* _xsan_volume_update_overall_state; FTT + 1 is the number of replicas.
OverallState(rs) ==
  LET online == {i \in Replicas : rs[i] = "ONLINE"}
  IN  CASE online = Replicas -> "ONLINE"
        [] online # Replicas /\ online # {} -> "DEGRADED"
        [] OTHER -> "OFFLINE"

\* xsan_volume_create sets the local replica ONLINE and the remote ones
\* INITIALIZING; a loaded record may hold any state.
Init == /\ replicaState \in
             IF Origin = "created"
             THEN {[i \in Replicas |-> IF i = Local THEN "ONLINE" ELSE "INITIALIZING"]}
             ELSE [Replicas -> States]
        /\ volState = OverallState(replicaState)
        /\ ctx = [w \in Writes |-> Idle]
        /\ op = [w \in Writes |-> [i \in Replicas |-> "none"]]
        /\ conn \in [Remotes -> IF "disconnect" \in Faults THEN {"none", "idle"} ELSE {"idle"}]
        /\ durable = [i \in Replicas |-> {}]
        /\ ret = [w \in Writes |-> "none"]
        /\ cb = [w \in Writes |-> "none"]
        /\ doubled = {}
        /\ stale = {}

-----------------------------------------------------------------------------
(* What one pass of the loop in write_async does for one replica: the       *)
(* number of failures it counts, the replica's new state, the new state of  *)
(* the operation.                                                           *)

Counted(n, s) == [reports |-> n, state |-> s, op |-> "done"]

Pending(s, o) == [reports |-> 0, state |-> s, op |-> o]

If(fault, outcomes) == IF fault \in Faults THEN outcomes ELSE {}

\* Faulty variant of LocalOutcomes: a refused submission is not counted.
LocalOutcomesSilent(s) ==
  IF Writable(s)
  THEN {Pending(s, "disk")}
       \cup If("submit", {Counted(0, "FAILED")})
       \cup If("reject", {Counted(1, "FAILED"), Counted(2, "FAILED")})
  ELSE {Counted(1, "FAILED")}

\* A request SPDK refuses is reported through the callback and again through
\* the return value.  The callback reads beyond its context: it reaches
\* the upper callback or returns without it.
LocalOutcomes(s) ==
  IF Writable(s)
  THEN {Pending(s, "disk")}
       \cup If("submit", {Counted(1, "FAILED")})
       \cup If("reject", {Counted(1, "FAILED"), Counted(2, "FAILED")})
  ELSE {Counted(1, "FAILED")}

\* xsan_node_comm_send_msg and the caller's reaction.  A failed writev is
\* reported by the callback, which frees the operation, and again by the caller
\* through the freed operation: the second report counts or is lost.
SendOutcomes(s, c) ==
  IF c = "busy"
  THEN {Counted(1, "OFFLINE")}
  ELSE {Pending(s, "sent")}
       \cup If("send", {Counted(1, "OFFLINE")})
       \cup If("writev", {Counted(1, "OFFLINE"), Counted(2, "OFFLINE")})
       \cup If("partial", {Pending(s, "partial")})

\* xsan_node_comm_connect: only an immediate failure is called back, and the
\* caller ignores the result.
ConnectOutcomes(s) == {Pending(s, "connecting")} \cup If("connect", {Counted(1, "OFFLINE")})

RemoteOutcomes(s, c) ==
  If("oom", {Counted(1, s)})
  \cup IF ~Writable(s) THEN {Counted(1, "OFFLINE")}
       ELSE IF c = "none" THEN ConnectOutcomes(s) ELSE SendOutcomes(s, c)

Outcomes(i) == IF i = Local THEN LocalOutcomes(replicaState[i])
                            ELSE RemoteOutcomes(replicaState[i], conn[i])

-----------------------------------------------------------------------------
(* Completion.  _xsan_check_replicated_write_completion is declared and     *)
(* called but not defined in the repository: it is modelled from its calls. *)

\* Faulty variant of Finished: off by one.
FinishedEarly(c) == c.success + c.failed >= Total - 1

Finished(c) == c.success + c.failed >= Total

\* All replicas have to succeed for the write to succeed.
Status(c) == IF c.failed = 0 THEN "OK" ELSE "ERR"

\* Store the counts c of write w; when they reach the target, call the user
\* back, drop the transaction from the pending table and free the context.
Settle(w, c) ==
  /\ ctx' = [ctx EXCEPT ![w] = IF Finished(c) THEN [c EXCEPT !.life = "freed"] ELSE c]
  /\ cb' = IF Finished(c) THEN [cb EXCEPT ![w] = Status(c)] ELSE cb

-----------------------------------------------------------------------------
(* xsan_volume_write_async *)

\* Invalid or misaligned parameters, no memory for the context, or a volume
\* that is not in service: an error and nothing else.
WriteRefused(w) ==
  /\ ret[w] = "none"
  /\ ret' = [ret EXCEPT ![w] = "ERR"]
  /\ UNCHANGED <<volState, replicaState, ctx, op, conn, durable, cb, doubled, stale>>

Attempted == \E i \in Replicas : Writable(replicaState[i])

\* The failures counted before write_async returns.  When no replica was
\* writable, every one of them is counted once more after the loop.
Failures(out) == Cardinality({i \in Replicas : out[i].reports >= 1})
                 + Cardinality({i \in Replicas : out[i].reports >= 2})
                 + (IF Attempted THEN 0 ELSE Total)

\* The remote replicas whose failure may be reported on the freed context: the
\* volume is looked up through it, and found or not.
Unreached(out) == IF Attempted /\ Failures(out) > Total THEN Remotes ELSE {}

WriteAsync(w) ==
  /\ ret[w] = "none"
  /\ volState \notin {"OFFLINE", "FAILED"}
  /\ \E out \in [Replicas -> UNION {Outcomes(i) : i \in Replicas}] :
       /\ \A i \in Replicas : out[i] \in Outcomes(i)
       /\ \E kept \in SUBSET Unreached(out) :
            replicaState' = [i \in Replicas |-> IF i \in kept THEN replicaState[i] ELSE out[i].state]
       /\ op' = [op EXCEPT ![w] = [i \in Replicas |-> out[i].op]]
       /\ conn' = [i \in Remotes |-> IF out[i].op = "partial" THEN "busy" ELSE conn[i]]
       /\ Settle(w, [life |-> "live", success |-> 0, failed |-> Failures(out)])
       /\ doubled' = IF Attempted /\ \A i \in Replicas : out[i].reports <= 1
                     THEN doubled ELSE doubled \cup {w}
       /\ stale' = IF Failures(out) > Total THEN stale \cup {w} ELSE stale
  /\ ret' = [ret EXCEPT ![w] = IF Attempted THEN "OK" ELSE "ERR"]
  /\ UNCHANGED <<volState, durable>>

-----------------------------------------------------------------------------
(* Completions, requests and responses *)

\* Faulty variant of Count: the status is not looked at.
CountAny(c, status) == [c EXCEPT !.success = @ + 1]

\* Faulty variant of Count: a failure takes a success back.
CountBack(c, status) == [c EXCEPT !.success = IF status = "OK" THEN @ + 1 ELSE @ - 1]

Count(c, status) == IF status = "OK" THEN [c EXCEPT !.success = @ + 1]
                                     ELSE [c EXCEPT !.failed = @ + 1]

Hold(i, w, status) ==
  durable' = IF status = "OK" THEN [durable EXCEPT ![i] = @ \cup {w}] ELSE durable

\* The disk finishes the local write and _xsan_local_replica_write_complete_cb
\* runs with the raw context pointer.  On a freed context what it updates is
\* undefined; the replica may or may not be found through it.
LocalComplete(w, status) ==
  /\ op[w][Local] = "disk"
  /\ status = "OK" \/ "io" \in Faults
  /\ op' = [op EXCEPT ![w][Local] = "done"]
  /\ Hold(Local, w, status)
  /\ LET rs == [replicaState EXCEPT ![Local] = IF status = "OK" THEN "ONLINE" ELSE "FAILED"]
     IN  \/ /\ ctx[w].life = "live"
            /\ replicaState' = rs
            /\ Settle(w, Count(ctx[w], status))
            /\ stale' = stale
         \/ /\ ctx[w].life = "freed"
            /\ replicaState' \in {replicaState, rs}
            /\ stale' = stale \cup {w}
            /\ UNCHANGED <<ctx, cb>>
  /\ UNCHANGED <<volState, conn, ret, doubled>>

\* The disk finishes the local write and _xsan_physical_io_complete_cb, reading
\* its context as an xsan_io_request_t, finds no upper context and returns.
LocalDropped(w, status) ==
  /\ "drop" \in Faults
  /\ op[w][Local] = "disk"
  /\ status = "OK" \/ "io" \in Faults
  /\ op' = [op EXCEPT ![w][Local] = "lost"]
  /\ Hold(Local, w, status)
  /\ UNCHANGED <<volState, replicaState, ctx, conn, ret, cb, doubled, stale>>

\* xsan_volume_manager_handle_replica_write_req on the remote node: the write
\* is done and answered, refused and answered (twice when SPDK refuses it and
\* both reports come through), or not answered.
ReplicaHandle(w, i) ==
  /\ op[w][i] = "sent"
  /\ \E status \in {"OK", "ERR"}, o \in {"okay"} \cup If("io", {"erred"})
                               \cup If("reject", {"erred", "erred2"})
                               \cup If("drop", {"lost"}) \cup If("lost", {"lost"}) :
       /\ o = "okay" => status = "OK"
       /\ o \in {"erred", "erred2"} => status = "ERR"
       /\ op' = [op EXCEPT ![w][i] = o]
       /\ Hold(i, w, status)
  /\ UNCHANGED <<volState, replicaState, ctx, conn, ret, cb, doubled, stale>>

ResponseLost(w, i) ==
  /\ "lost" \in Faults
  /\ op[w][i] \in {"okay", "erred", "erred2"}
  /\ op' = [op EXCEPT ![w][i] = "lost"]
  /\ UNCHANGED <<volState, replicaState, ctx, conn, durable, ret, cb, doubled, stale>>

\* xsan_volume_manager_process_replica_write_response: the context is looked up
\* by transaction id, so a response after completion is only warned about.
ProcessResponse(w, i) ==
  /\ op[w][i] \in {"okay", "erred", "erred2"}
  /\ op' = [op EXCEPT ![w][i] = IF @ = "erred2" THEN "erred" ELSE "done"]
  /\ doubled' = IF op[w][i] = "erred2" THEN doubled \cup {w} ELSE doubled
  /\ LET status == IF op[w][i] = "okay" THEN "OK" ELSE "ERR"
     IN  \/ /\ ctx[w].life = "live"
            /\ replicaState' = [replicaState EXCEPT ![i] = IF status = "OK" THEN "ONLINE"
                                                                  ELSE "DEGRADED"]
            /\ Settle(w, Count(ctx[w], status))
         \/ /\ ctx[w].life = "freed"
            /\ UNCHANGED <<replicaState, ctx, cb>>
  /\ UNCHANGED <<volState, conn, durable, ret, stale>>

\* A peer's connection is accepted into, or leaves, the active list.
ConnectionChange(i) ==
  /\ "disconnect" \in Faults
  /\ conn' = [conn EXCEPT ![i] = IF @ = "none" THEN "idle" ELSE "none"]
  /\ UNCHANGED <<volState, replicaState, ctx, op, durable, ret, cb, doubled, stale>>

Next == \/ \E w \in Writes :
             \/ WriteRefused(w)
             \/ WriteAsync(w)
             \/ \E status \in {"OK", "ERR"} : \/ LocalComplete(w, status)
                                            \/ LocalDropped(w, status)
             \/ \E i \in Remotes : \/ ReplicaHandle(w, i)
                                   \/ ResponseLost(w, i)
                                   \/ ProcessResponse(w, i)
        \/ \E i \in Remotes : ConnectionChange(i)

Spec == Init /\ [][Next]_vars

-----------------------------------------------------------------------------
(* Properties *)

\* The types of the volume, its replicas, the write contexts and the histories;
\* the success and failure counts of a context never go below zero.
TypeOK == /\ volState \in States
          /\ replicaState \in [Replicas -> States]
          /\ ctx \in [Writes -> [life : {"none", "live", "freed"}, success : Nat, failed : Nat]]
          /\ op \in [Writes -> [Replicas -> OpStates]]
          /\ conn \in [Remotes -> {"none", "idle", "busy"}]
          /\ durable \in [Replicas -> SUBSET Writes]
          /\ ret \in [Writes -> {"none", "OK", "ERR"}]
          /\ cb \in [Writes -> {"none", "OK", "ERR"}]
          /\ doubled \subseteq Writes
          /\ stale \subseteq Writes

\* A user told XSAN_OK has the write on every replica: whatever is lost,
\* refused, reported twice or late, the counters never reach the target with
\* no failure while a replica is missing.
OkMeansEveryReplica == \A w \in Writes, i \in Replicas : cb[w] = "OK" => w \in durable[i]

\* Premature completion and use of a freed context have one cause: a replica
\* that was counted twice (a request SPDK refused, a failed writev, two answers
\* of a replica, or the second count of write_async when no replica was
\* writable).  On every other path the callback comes when all replicas are
\* done and the context is counted on only while it is live.
EarlyOnlyIfDoubled ==
  \A w \in Writes \ doubled :
    /\ ctx[w].life = "freed" => \A i \in Replicas : op[w][i] = "done"
    /\ w \notin stale

\* No write is forgotten: as long as its callback is due, some replica of it has not
\* reported yet, so a write whose replicas have all reported has been called back.
\* No early return of write_async, refusal or double report loses count of one.
NoWriteForgotten ==
  \A w \in Writes : ctx[w].life = "live" => \E i \in Replicas : op[w][i] # "done"

\* xsan_vhost.c completes a request itself when write_async returns an error and
\* leaves it to the callback otherwise: an error means no callback.
ErrorMeansNoCallback == \A w \in Writes : ret[w] = "ERR" => cb[w] = "none"

-----------------------------------------------------------------------------
(* Liveness.  The reactor polls the disks, so a local completion is processed *)
(* in the end.  No group of sockets is ever created and nothing calls the      *)
(* receive function or the handlers of responses, so the code does not promise *)
(* that requests and responses are.  GenerousFairness assumes that as well: it  *)
(* serves to show what is lost even then.                                      *)

GenerousFairness ==
  \A w \in Writes :
    /\ WF_vars(\E status \in {"OK", "ERR"} : LocalComplete(w, status) \/ LocalDropped(w, status))
    /\ \A i \in Remotes : WF_vars(ReplicaHandle(w, i)) /\ WF_vars(ProcessResponse(w, i))

LiveSpec == Spec /\ GenerousFairness

\* xsan_volume_write_async delivers the result of the I/O through user_cb: every
\* write it accepted is eventually called back.
WriteCompletes == \A w \in Writes : ret[w] = "OK" ~> cb[w] # "none"

\* The repository promises recovery from failures: when a write has failed, every
\* replica is in the end one that is written to (again).
RecoversFromFailure ==
  \A w \in Writes, i \in Replicas : cb[w] = "ERR" ~> Writable(replicaState[i])
=============================================================================
