------------------------ MODULE ReplicatedWriteProofs ------------------------
(***************************************************************************)
(* For every number of writes and replicas and every set of faults: what   *)
(* an acknowledged write means, what causes a premature completion, and    *)
(* that no write is forgotten whose replicas have all reported.            *)
(***************************************************************************)
EXTENDS ReplicatedWrite, FiniteSetTheorems, TLAPS

-----------------------------------------------------------------------------
(* The operators the steps are built from *)

CtxType == [life : {"none", "live", "freed"}, success : Nat, failed : Nat]

OutcomeType == [reports : 0 .. 2, state : States, op : OpStates]

LEMMA ReplicasFinite ==
  /\ IsFiniteSet(Replicas)
  /\ Total \in Nat
  /\ Total >= 1
  /\ Local \in Replicas
  /\ Remotes \subseteq Replicas
<1>1. IsFiniteSet(Replicas)
  BY ReplicaAssumption, FS_Singleton, FS_Union DEF Replicas
<1>2. Total \in Nat
  BY <1>1, FS_CardinalityType DEF Total
<1>3. Total # 0
  BY <1>1, FS_EmptySet DEF Total, Replicas
<1> QED
  BY <1>1, <1>2, <1>3 DEF Replicas

\* A set of replicas is finite and no larger than the target; it reaches the
\* target only when it is the whole set.
LEMMA ReplicaSubsets ==
  ASSUME NEW S, S \subseteq Replicas
  PROVE  /\ IsFiniteSet(S)
         /\ Cardinality(S) \in Nat
         /\ Cardinality(S) <= Total
         /\ Cardinality(S) >= Total => S = Replicas
<1>1. IsFiniteSet(S) /\ Cardinality(S) <= Total
  BY ReplicasFinite, FS_Subset DEF Total
<1>2. Cardinality(S) \in Nat
  BY <1>1, FS_CardinalityType
<1>3. Cardinality(S) = Total => S = Replicas
  BY ReplicasFinite, FS_Subset DEF Total
<1> QED
  BY <1>1, <1>2, <1>3, ReplicasFinite

\* Every outcome of one pass of the loop: failures are counted exactly when the
\* operation is over.
LEMMA OutcomeFacts ==
  ASSUME TypeOK, NEW i \in Replicas, NEW o \in Outcomes(i)
  PROVE  /\ o \in OutcomeType
         /\ o.reports >= 1 <=> o.op = "done"
         /\ o.op # "okay"
<1>1. replicaState[i] \in States
  BY DEF TypeOK
<1>2. CASE i = Local
  <2>1. o \in LocalOutcomes(replicaState[i])
    BY <1>2 DEF Outcomes
  <2> QED
    BY <1>1, <2>1 DEF LocalOutcomes, If, Counted, Pending, OutcomeType, OpStates, States
<1>3. CASE i # Local
  <2>1. o \in RemoteOutcomes(replicaState[i], conn[i])
    BY <1>3 DEF Outcomes
  <2> QED
    BY <1>1, <2>1 DEF RemoteOutcomes, ConnectOutcomes, SendOutcomes, If, Counted, Pending,
                      OutcomeType, OpStates, States
<1> QED
  BY <1>2, <1>3

LEMMA CountType ==
  ASSUME NEW c \in CtxType, NEW status
  PROVE  /\ Count(c, status) \in CtxType
         /\ Count(c, status).life = c.life
         /\ Count(c, status).success + Count(c, status).failed = c.success + c.failed + 1
         /\ Count(c, status).success = IF status = "OK" THEN c.success + 1 ELSE c.success
  BY DEF Count, CtxType

LEMMA SettleType ==
  ASSUME TypeOK, NEW w \in Writes, NEW c \in CtxType, c.life = "live", Settle(w, c)
  PROVE  /\ ctx' \in [Writes -> CtxType]
         /\ cb' \in [Writes -> {"none", "OK", "ERR"}]
         /\ \A v \in Writes : v # w => ctx'[v] = ctx[v] /\ cb'[v] = cb[v]
         /\ ctx'[w].success = c.success
         /\ ctx'[w].failed = c.failed
         /\ Finished(c) => ctx'[w].life = "freed" /\ cb'[w] = Status(c)
         /\ ~Finished(c) => ctx'[w].life = "live" /\ cb'[w] = cb[w]
<1>1. ctx \in [Writes -> CtxType] /\ cb \in [Writes -> {"none", "OK", "ERR"}]
  BY DEF TypeOK, CtxType
<1>2. [c EXCEPT !.life = "freed"] \in CtxType
  BY DEF CtxType
<1>3. CASE Finished(c)
  BY <1>1, <1>2, <1>3 DEF Settle, Status, CtxType
<1>4. CASE ~Finished(c)
  BY <1>1, <1>4 DEF Settle, Status, CtxType
<1> QED
  BY <1>3, <1>4

\* The failures write_async counts make a context of the right type.
LEMMA FailuresType ==
  ASSUME NEW out
  PROVE  Failures(out) \in Nat
<1>1. /\ Cardinality({i \in Replicas : out[i].reports >= 1}) \in Nat
      /\ Cardinality({i \in Replicas : out[i].reports >= 2}) \in Nat
  BY ReplicaSubsets
<1> QED
  BY <1>1, ReplicasFinite DEF Failures

-----------------------------------------------------------------------------
(* Type correctness *)

LEMMA InitType == Init => TypeOK
<1> SUFFICES ASSUME Init PROVE TypeOK
  OBVIOUS
<1>1. replicaState \in [Replicas -> States]
  BY DEF Init, States
<1>2. volState \in States
  BY DEF Init, OverallState, States
<1>3. conn \in [Remotes -> {"none", "idle", "busy"}]
  BY DEF Init
<1> QED
  BY <1>1, <1>2, <1>3 DEF Init, TypeOK, Idle, OpStates

LEMMA HoldType ==
  ASSUME TypeOK, NEW i \in Replicas, NEW w \in Writes, NEW status, Hold(i, w, status)
  PROVE  /\ durable' \in [Replicas -> SUBSET Writes]
         /\ \A j \in Replicas : durable[j] \subseteq durable'[j]
         /\ \A j \in Replicas : j # i => durable'[j] = durable[j]
         /\ \A j \in Replicas, v \in Writes : v # w /\ v \in durable'[j] => v \in durable[j]
         /\ status = "OK" => w \in durable'[i]
  BY DEF TypeOK, Hold

LEMMA OpType ==
  ASSUME TypeOK, NEW w \in Writes, NEW i \in Replicas, NEW o \in OpStates,
         op' = [op EXCEPT ![w][i] = o]
  PROVE  /\ op' \in [Writes -> [Replicas -> OpStates]]
         /\ op'[w][i] = o
         /\ \A v \in Writes, j \in Replicas : v # w \/ j # i => op'[v][j] = op[v][j]
  BY DEF TypeOK

LEMMA NextType == TypeOK /\ [Next]_vars => TypeOK'
<1> SUFFICES ASSUME TypeOK, [Next]_vars PROVE TypeOK'
  OBVIOUS
<1> USE ReplicasFinite
<1>1. ASSUME NEW w \in Writes, WriteRefused(w) PROVE TypeOK'
  BY <1>1 DEF WriteRefused, TypeOK
<1>2. ASSUME NEW w \in Writes, WriteAsync(w) PROVE TypeOK'
  <2>1. PICK out \in [Replicas -> UNION {Outcomes(i) : i \in Replicas}] :
          /\ \A i \in Replicas : out[i] \in Outcomes(i)
          /\ \E kept : replicaState' = [i \in Replicas |-> IF i \in kept THEN replicaState[i]
                                                                      ELSE out[i].state]
          /\ op' = [op EXCEPT ![w] = [i \in Replicas |-> out[i].op]]
          /\ conn' = [i \in Remotes |-> IF out[i].op = "partial" THEN "busy" ELSE conn[i]]
          /\ Settle(w, [life |-> "live", success |-> 0, failed |-> Failures(out)])
          /\ doubled' \in {doubled, doubled \cup {w}}
          /\ stale' \in {stale, stale \cup {w}}
    BY <1>2 DEF WriteAsync
  <2>2. \A i \in Replicas : out[i].state \in States /\ out[i].op \in OpStates
    BY <2>1, OutcomeFacts DEF OutcomeType
  <2>3. replicaState' \in [Replicas -> States] /\ op' \in [Writes -> [Replicas -> OpStates]]
    BY <2>1, <2>2 DEF TypeOK
  <2>4. conn' \in [Remotes -> {"none", "idle", "busy"}]
    BY <2>1 DEF TypeOK
  <2>5. /\ ctx' \in [Writes -> CtxType]
        /\ cb' \in [Writes -> {"none", "OK", "ERR"}]
    BY <2>1, FailuresType, SettleType DEF CtxType
  <2>6. doubled' \subseteq Writes /\ stale' \subseteq Writes
    BY <2>1 DEF TypeOK
  <2>7. volState' = volState /\ durable' = durable /\ ret' \in [Writes -> {"none", "OK", "ERR"}]
    BY <1>2 DEF WriteAsync, TypeOK
  <2> QED
    BY <2>3, <2>4, <2>5, <2>6, <2>7 DEF TypeOK, CtxType
<1>3. ASSUME NEW w \in Writes, NEW status \in {"OK", "ERR"}, LocalComplete(w, status)
      PROVE  TypeOK'
  <2>1. op' \in [Writes -> [Replicas -> OpStates]]
    BY <1>3, OpType DEF LocalComplete, OpStates
  <2>2. durable' \in [Replicas -> SUBSET Writes]
    BY <1>3, HoldType DEF LocalComplete
  <2>3. replicaState' \in [Replicas -> States] /\ stale' \subseteq Writes
    BY <1>3 DEF LocalComplete, TypeOK, States
  <2>4. ctx' \in [Writes -> CtxType] /\ cb' \in [Writes -> {"none", "OK", "ERR"}]
    <3>1. ctx[w] \in CtxType
      BY DEF TypeOK, CtxType
    <3>2. CASE ctx[w].life = "live"
      BY <1>3, <3>1, <3>2, CountType, SettleType DEF LocalComplete
    <3>3. CASE ctx[w].life = "freed"
      BY <1>3, <3>3 DEF LocalComplete, TypeOK, CtxType
    <3> QED
      BY <1>3, <3>2, <3>3 DEF LocalComplete
  <2> QED
    BY <1>3, <2>1, <2>2, <2>3, <2>4 DEF LocalComplete, TypeOK, CtxType
<1>4. ASSUME NEW w \in Writes, NEW status \in {"OK", "ERR"}, LocalDropped(w, status)
      PROVE  TypeOK'
  <2>1. op' \in [Writes -> [Replicas -> OpStates]]
    BY <1>4, OpType DEF LocalDropped, OpStates
  <2>2. durable' \in [Replicas -> SUBSET Writes]
    BY <1>4, HoldType DEF LocalDropped
  <2> QED
    BY <1>4, <2>1, <2>2 DEF LocalDropped, TypeOK
<1>5. ASSUME NEW w \in Writes, NEW i \in Remotes, ReplicaHandle(w, i) PROVE TypeOK'
  <2>1. PICK status \in {"OK", "ERR"}, o \in OpStates :
          op' = [op EXCEPT ![w][i] = o] /\ Hold(i, w, status)
    BY <1>5 DEF ReplicaHandle, If, OpStates
  <2>2. op' \in [Writes -> [Replicas -> OpStates]] /\ durable' \in [Replicas -> SUBSET Writes]
    BY <2>1, OpType, HoldType
  <2> QED
    BY <1>5, <2>2 DEF ReplicaHandle, TypeOK
<1>6. ASSUME NEW w \in Writes, NEW i \in Remotes, ResponseLost(w, i) PROVE TypeOK'
  <2>1. op' \in [Writes -> [Replicas -> OpStates]]
    BY <1>6, OpType DEF ResponseLost, OpStates
  <2> QED
    BY <1>6, <2>1 DEF ResponseLost, TypeOK
<1>7. ASSUME NEW w \in Writes, NEW i \in Remotes, ProcessResponse(w, i) PROVE TypeOK'
  <2>1. op' \in [Writes -> [Replicas -> OpStates]]
    BY <1>7 DEF ProcessResponse, TypeOK, OpStates
  <2>2. replicaState' \in [Replicas -> States] /\ doubled' \subseteq Writes
    BY <1>7 DEF ProcessResponse, TypeOK, States
  <2>3. ctx' \in [Writes -> CtxType] /\ cb' \in [Writes -> {"none", "OK", "ERR"}]
    <3>1. ctx[w] \in CtxType
      BY DEF TypeOK, CtxType
    <3>2. CASE ctx[w].life = "live"
      BY <1>7, <3>1, <3>2, CountType, SettleType DEF ProcessResponse
    <3>3. CASE ctx[w].life = "freed"
      BY <1>7, <3>3 DEF ProcessResponse, TypeOK, CtxType
    <3> QED
      BY <1>7, <3>2, <3>3 DEF ProcessResponse
  <2> QED
    BY <1>7, <2>1, <2>2, <2>3 DEF ProcessResponse, TypeOK, CtxType
<1>8. ASSUME NEW i \in Remotes, ConnectionChange(i) PROVE TypeOK'
  BY <1>8 DEF ConnectionChange, TypeOK
<1>9. CASE UNCHANGED vars
  BY <1>9 DEF vars, TypeOK
<1> QED
  BY <1>1, <1>2, <1>3, <1>4, <1>5, <1>6, <1>7, <1>8, <1>9 DEF Next

\* Every variable of the write path keeps its type.
THEOREM WriteTypes == Spec => []TypeOK
  BY InitType, NextType, PTL DEF Spec

-----------------------------------------------------------------------------
(* An acknowledged write is on every replica.  The property is not           *)
(* inductive: the counters have to be tied to the replicas they count.       *)

\* Replicas that are through with write w and hold it.
Held(w) == {i \in Replicas : op[w][i] = "done" /\ w \in durable[i]}

Acks(w) == /\ ctx[w].success <= Cardinality(Held(w))
           /\ \A i \in Replicas : op[w][i] = "okay" => w \in durable[i]
           /\ cb[w] = "OK" => \A i \in Replicas : w \in durable[i]

AckInv == \A w \in Writes : Acks(w)

LEMMA SubsetCounts ==
  ASSUME NEW S, NEW T, S \subseteq T, T \subseteq Replicas
  PROVE  /\ Cardinality(S) \in Nat /\ Cardinality(T) \in Nat
         /\ Cardinality(S) <= Cardinality(T)
         /\ \A x \in T : x \notin S => Cardinality(S) + 1 <= Cardinality(T)
<1>1. /\ IsFiniteSet(T) /\ IsFiniteSet(S)
      /\ Cardinality(S) \in Nat /\ Cardinality(T) \in Nat
  BY ReplicaSubsets
<1>2. /\ Cardinality(S) <= Cardinality(T)
      /\ Cardinality(T) = Cardinality(S) => T = S
  BY <1>1, FS_Subset
<1> QED
  BY <1>1, <1>2

\* A step under which a write's replicas only move towards holding it keeps
\* the write's part of the invariant when the context and callback stay.
LEMMA HeldGrows ==
  ASSUME AckInv, TypeOK, TypeOK', NEW w \in Writes,
         \A i \in Replicas : op[w][i] = "done" => op'[w][i] = "done",
         \A i \in Replicas : durable[i] \subseteq durable'[i]
  PROVE  /\ Held(w) \subseteq Held(w)'
         /\ Cardinality(Held(w)) <= Cardinality(Held(w)')
         /\ Cardinality(Held(w)) \in Nat /\ Cardinality(Held(w)') \in Nat
         /\ ctx'[w] = ctx[w] => ctx'[w].success <= Cardinality(Held(w)')
         /\ cb'[w] = cb[w] => (cb'[w] = "OK" => \A i \in Replicas : w \in durable'[i])
<1>1. Held(w) \subseteq Held(w)' /\ Held(w)' \subseteq Replicas
  BY DEF Held
<1>2. /\ Cardinality(Held(w)) <= Cardinality(Held(w)')
      /\ Cardinality(Held(w)) \in Nat /\ Cardinality(Held(w)') \in Nat
  BY <1>1, SubsetCounts
<1>3. ctx[w].success \in Nat
  BY DEF TypeOK
<1>4. ctx'[w] = ctx[w] => ctx'[w].success <= Cardinality(Held(w)')
  BY <1>2, <1>3 DEF AckInv, Acks
<1>5. cb'[w] = cb[w] => (cb'[w] = "OK" => \A i \in Replicas : w \in durable'[i])
  BY DEF AckInv, Acks
<1> QED
  BY <1>1, <1>2, <1>4, <1>5

\* What storing counts that are backed by holders does to the user's callback.
LEMMA SettleAcks ==
  ASSUME AckInv, TypeOK, TypeOK', NEW w \in Writes, NEW c \in CtxType,
         \A i \in Replicas : durable[i] \subseteq durable'[i],
         c.success <= Cardinality(Held(w)'),
         Settle(w, c)
  PROVE  /\ ctx'[w].success <= Cardinality(Held(w)')
         /\ cb'[w] = "OK" => \A i \in Replicas : w \in durable'[i]
<1>1. ctx'[w].success = c.success
  <2>1. ctx'[w] = IF Finished(c) THEN [c EXCEPT !.life = "freed"] ELSE c
    BY DEF Settle, TypeOK
  <2>2. [c EXCEPT !.life = "freed"].success = c.success
    BY DEF CtxType
  <2> QED
    BY <2>1, <2>2
<1>2. CASE Finished(c)
  <2>1. cb'[w] = Status(c)
    BY <1>2 DEF Settle, TypeOK
  <2>2. ASSUME c.failed = 0 PROVE Held(w)' = Replicas
    <3>1. c.success >= Total
      BY <1>2, <2>2 DEF Finished, CtxType
    <3>2. Held(w)' \subseteq Replicas
      BY DEF Held
    <3>3. Cardinality(Held(w)') >= Total
      BY <3>1, <3>2, ReplicaSubsets, ReplicasFinite DEF CtxType
    <3> QED
      BY <3>2, <3>3, ReplicaSubsets
  <2>3. Held(w)' = Replicas => \A i \in Replicas : w \in durable'[i]
    BY DEF Held
  <2> QED
    BY <1>1, <2>1, <2>2, <2>3 DEF Status
<1>3. CASE ~Finished(c)
  <2>1. cb'[w] = cb[w]
    BY <1>3 DEF Settle
  <2> QED
    BY <1>1, <2>1 DEF AckInv, Acks
<1> QED
  BY <1>2, <1>3

\* The counts after one more report.
LEMMA CountAcks ==
  ASSUME AckInv, TypeOK, TypeOK', NEW w \in Writes, NEW i \in Replicas,
         NEW status \in {"OK", "ERR"},
         \A j \in Replicas : op[w][j] = "done" => op'[w][j] = "done",
         \A j \in Replicas : durable[j] \subseteq durable'[j],
         op[w][i] # "done",
         status = "OK" => op'[w][i] = "done" /\ w \in durable'[i]
  PROVE  /\ Count(ctx[w], status) \in CtxType
         /\ Count(ctx[w], status).success <= Cardinality(Held(w)')
<1>1. ctx[w] \in CtxType
  BY DEF TypeOK, CtxType
<1>2. Count(ctx[w], status) \in CtxType
  BY <1>1, CountType
<1>3. /\ Held(w) \subseteq Held(w)' /\ Held(w)' \subseteq Replicas
      /\ Cardinality(Held(w)) <= Cardinality(Held(w)')
      /\ Cardinality(Held(w)) \in Nat /\ Cardinality(Held(w)') \in Nat
  BY HeldGrows DEF Held
<1>4. ctx[w].success \in Nat /\ ctx[w].success <= Cardinality(Held(w))
  BY DEF TypeOK, AckInv, Acks
<1>5. CASE status = "OK"
  <2>1. i \in Held(w)' /\ i \notin Held(w)
    BY <1>5 DEF Held
  <2>2. Cardinality(Held(w)) + 1 <= Cardinality(Held(w)')
    BY <1>3, <2>1, SubsetCounts
  <2>3. Count(ctx[w], status).success = ctx[w].success + 1
    BY <1>1, <1>5 DEF Count, CtxType
  <2> QED
    BY <1>2, <1>3, <1>4, <2>2, <2>3
<1>6. CASE status = "ERR"
  <2>1. Count(ctx[w], status).success = ctx[w].success
    BY <1>1, <1>6 DEF Count, CtxType
  <2> QED
    BY <1>2, <1>3, <1>4, <2>1
<1> QED
  BY <1>5, <1>6

\* A write the step does not touch.
LEMMA AcksElsewhere ==
  ASSUME AckInv, TypeOK, TypeOK', NEW v \in Writes,
         op'[v] = op[v], ctx'[v] = ctx[v], cb'[v] = cb[v],
         \A i \in Replicas : durable[i] \subseteq durable'[i]
  PROVE  Acks(v)'
<1>1. \A i \in Replicas : op[v][i] = "done" => op'[v][i] = "done"
  OBVIOUS
<1>2. \A i \in Replicas : op'[v][i] = "okay" => v \in durable'[i]
  BY DEF AckInv, Acks
<1> QED
  BY <1>1, <1>2, HeldGrows DEF Acks

\* The steps of one write.
WriteStep(w) ==
  \/ WriteRefused(w) \/ WriteAsync(w)
  \/ \E status \in {"OK", "ERR"} : LocalComplete(w, status) \/ LocalDropped(w, status)
  \/ \E i \in Remotes : ReplicaHandle(w, i) \/ ResponseLost(w, i) \/ ProcessResponse(w, i)

\* What such a step leaves alone: other writes, and what is on disk.
Frame(w) ==
  /\ \A v \in Writes : v # w => op'[v] = op[v] /\ ctx'[v] = ctx[v] /\ cb'[v] = cb[v]
  /\ \A v \in Writes : v # w => (v \in doubled' <=> v \in doubled)
                               /\ (v \in stale' <=> v \in stale)
  /\ \A j \in Replicas : durable[j] \subseteq durable'[j]

LEMMA StepFrame ==
  ASSUME TypeOK, NEW w \in Writes, WriteStep(w)
  PROVE  Frame(w)
<1> USE ReplicasFinite DEF Frame
<1>1. CASE WriteRefused(w)
  BY <1>1 DEF WriteRefused
<1>2. CASE WriteAsync(w)
  BY <1>2 DEF WriteAsync, Settle, TypeOK
<1>3. ASSUME NEW status \in {"OK", "ERR"}, LocalComplete(w, status) PROVE Frame(w)
  BY <1>3, HoldType DEF LocalComplete, Settle, TypeOK
<1>4. ASSUME NEW status \in {"OK", "ERR"}, LocalDropped(w, status) PROVE Frame(w)
  BY <1>4, HoldType DEF LocalDropped, TypeOK
<1>5. ASSUME NEW i \in Remotes, ReplicaHandle(w, i) \/ ResponseLost(w, i) \/ ProcessResponse(w, i) PROVE Frame(w)
  <2>1. CASE ReplicaHandle(w, i)
    <3>1. PICK status \in {"OK", "ERR"}, o \in OpStates :
            op' = [op EXCEPT ![w][i] = o] /\ Hold(i, w, status)
      BY <2>1 DEF ReplicaHandle, If, OpStates
    <3> QED
      BY <2>1, <3>1, HoldType DEF ReplicaHandle, TypeOK
  <2>2. CASE ResponseLost(w, i)
    BY <2>2 DEF ResponseLost, TypeOK
  <2>3. CASE ProcessResponse(w, i)
    BY <2>3 DEF ProcessResponse, Settle, TypeOK
  <2> QED
    BY <1>5, <2>1, <2>2, <2>3
<1> QED
  BY <1>1, <1>2, <1>3, <1>4, <1>5 DEF WriteStep

LEMMA InitAck == Init => AckInv
<1> SUFFICES ASSUME Init, NEW w \in Writes PROVE Acks(w)
  BY DEF AckInv
<1>1. Cardinality(Held(w)) \in Nat
  BY ReplicaSubsets DEF Held
<1> QED
  BY <1>1 DEF Init, Idle, Acks

LEMMA NextAck == TypeOK /\ TypeOK' /\ AckInv /\ [Next]_vars => AckInv'
<1> SUFFICES ASSUME TypeOK, TypeOK', AckInv, [Next]_vars PROVE AckInv'
  OBVIOUS
<1> USE ReplicasFinite
<1>1. ASSUME NEW w \in Writes, Acks(w)', WriteStep(w) PROVE AckInv'
  BY <1>1, StepFrame, AcksElsewhere DEF AckInv, Frame
<1>2. ASSUME NEW w \in Writes, WriteRefused(w) PROVE Acks(w)'
  BY <1>2, AcksElsewhere DEF WriteRefused
<1>3. ASSUME NEW w \in Writes, WriteAsync(w) PROVE Acks(w)'
  <2>1. PICK out \in [Replicas -> UNION {Outcomes(i) : i \in Replicas}] :
          /\ \A i \in Replicas : out[i] \in Outcomes(i)
          /\ op' = [op EXCEPT ![w] = [i \in Replicas |-> out[i].op]]
          /\ Settle(w, [life |-> "live", success |-> 0, failed |-> Failures(out)])
    BY <1>3 DEF WriteAsync
  <2>2. \A i \in Replicas : op'[w][i] # "okay"
    BY <2>1, OutcomeFacts DEF TypeOK
  <2>3. [life |-> "live", success |-> 0, failed |-> Failures(out)] \in CtxType
    BY FailuresType DEF CtxType
  <2>4. Cardinality(Held(w)') \in Nat
    BY ReplicaSubsets DEF Held
  <2>5. \A i \in Replicas : durable[i] \subseteq durable'[i]
    BY <1>3, StepFrame DEF WriteStep, Frame
  <2> QED
    BY <2>1, <2>2, <2>3, <2>4, <2>5, SettleAcks DEF Acks
<1>4. ASSUME NEW w \in Writes, NEW status \in {"OK", "ERR"}, LocalComplete(w, status)
      PROVE  Acks(w)'
  <2>1. /\ op'[w][Local] = "done" /\ op[w][Local] # "done"
        /\ \A j \in Replicas : j # Local => op'[w][j] = op[w][j]
    BY <1>4 DEF LocalComplete, TypeOK
  <2>2. /\ \A j \in Replicas : durable[j] \subseteq durable'[j]
        /\ status = "OK" => w \in durable'[Local]
    BY <1>4, HoldType DEF LocalComplete
  <2>3. \A j \in Replicas : op'[w][j] = "okay" => w \in durable'[j]
    BY <2>1, <2>2 DEF AckInv, Acks
  <2>4. \A j \in Replicas : op[w][j] = "done" => op'[w][j] = "done"
    BY <2>1
  <2>5. CASE ctx[w].life = "live"
    <3>1. Settle(w, Count(ctx[w], status))
      BY <1>4, <2>5 DEF LocalComplete
    <3>2. /\ Count(ctx[w], status) \in CtxType
          /\ Count(ctx[w], status).success <= Cardinality(Held(w)')
      BY <2>1, <2>2, <2>4, CountAcks
    <3> QED
      BY <2>2, <2>3, <3>1, <3>2, SettleAcks DEF Acks
  <2>6. CASE ctx[w].life = "freed"
    <3>1. ctx' = ctx /\ cb' = cb
      BY <1>4, <2>6 DEF LocalComplete
    <3> QED
      BY <2>2, <2>3, <2>4, <3>1, HeldGrows DEF Acks
  <2> QED
    BY <1>4, <2>5, <2>6 DEF LocalComplete
<1>5. ASSUME NEW w \in Writes, NEW status \in {"OK", "ERR"}, LocalDropped(w, status)
      PROVE  Acks(w)'
  <2>1. /\ \A j \in Replicas : op[w][j] = "done" => op'[w][j] = "done"
        /\ \A j \in Replicas : op'[w][j] = "okay" => op[w][j] = "okay"
    BY <1>5 DEF LocalDropped, TypeOK
  <2>2. \A j \in Replicas : durable[j] \subseteq durable'[j]
    BY <1>5, StepFrame DEF WriteStep, Frame
  <2>3. ctx' = ctx /\ cb' = cb
    BY <1>5 DEF LocalDropped
  <2>4. \A j \in Replicas : op'[w][j] = "okay" => w \in durable'[j]
    BY <2>1, <2>2 DEF AckInv, Acks
  <2> QED
    BY <2>1, <2>2, <2>3, <2>4, HeldGrows DEF Acks
<1>6. ASSUME NEW w \in Writes, NEW i \in Remotes, ReplicaHandle(w, i) PROVE Acks(w)'
  <2>1. PICK status \in {"OK", "ERR"}, o \in OpStates :
          /\ o = "okay" => status = "OK"
          /\ op' = [op EXCEPT ![w][i] = o]
          /\ Hold(i, w, status)
    BY <1>6 DEF ReplicaHandle, If, OpStates
  <2>2. /\ \A j \in Replicas : durable[j] \subseteq durable'[j]
        /\ status = "OK" => w \in durable'[i]
    BY <2>1, HoldType
  <2>3. \A j \in Replicas : op'[w][j] = "okay" => w \in durable'[j]
    BY <2>1, <2>2, OpType DEF AckInv, Acks
  <2>4. \A j \in Replicas : op[w][j] = "done" => op'[w][j] = "done"
    BY <1>6, <2>1, OpType DEF ReplicaHandle
  <2>5. ctx' = ctx /\ cb' = cb
    BY <1>6 DEF ReplicaHandle
  <2> QED
    BY <2>2, <2>3, <2>4, <2>5, HeldGrows DEF Acks
<1>7. ASSUME NEW w \in Writes, NEW i \in Remotes, ResponseLost(w, i) PROVE Acks(w)'
  <2>1. /\ \A j \in Replicas : op[w][j] = "done" => op'[w][j] = "done"
        /\ \A j \in Replicas : op'[w][j] = "okay" => op[w][j] = "okay"
    BY <1>7 DEF ResponseLost, TypeOK
  <2>2. ctx' = ctx /\ cb' = cb /\ durable' = durable
    BY <1>7 DEF ResponseLost
  <2>3. \A j \in Replicas : op'[w][j] = "okay" => w \in durable'[j]
    BY <2>1, <2>2 DEF AckInv, Acks
  <2> QED
    BY <2>1, <2>2, <2>3, HeldGrows DEF Acks
<1>8. ASSUME NEW w \in Writes, NEW i \in Remotes, ProcessResponse(w, i) PROVE Acks(w)'
  <2> DEFINE status == IF op[w][i] = "okay" THEN "OK" ELSE "ERR"
  <2>1. /\ op[w][i] # "done" /\ status \in {"OK", "ERR"} /\ op'[w][i] # "okay"
        /\ status = "OK" => op'[w][i] = "done" /\ op[w][i] = "okay"
        /\ \A j \in Replicas : j # i => op'[w][j] = op[w][j]
    BY <1>8 DEF ProcessResponse, TypeOK
  <2>2. durable' = durable
    BY <1>8 DEF ProcessResponse
  <2>3. \A j \in Replicas : op'[w][j] = "okay" => w \in durable'[j]
    BY <2>1, <2>2 DEF AckInv, Acks
  <2>4. \A j \in Replicas : op[w][j] = "done" => op'[w][j] = "done"
    BY <2>1
  <2>5. status = "OK" => op'[w][i] = "done" /\ w \in durable'[i]
    BY <2>1, <2>2 DEF AckInv, Acks
  <2>6. CASE ctx[w].life = "live"
    <3>1. Settle(w, Count(ctx[w], status))
      BY <1>8, <2>6 DEF ProcessResponse
    <3> HIDE DEF status
    <3>2. /\ Count(ctx[w], status) \in CtxType
          /\ Count(ctx[w], status).success <= Cardinality(Held(w)')
      BY <2>1, <2>2, <2>4, <2>5, CountAcks
    <3> QED
      BY <2>2, <2>3, <3>1, <3>2, SettleAcks DEF Acks
  <2>7. CASE ctx[w].life = "freed"
    <3>1. ctx' = ctx /\ cb' = cb
      BY <1>8, <2>7 DEF ProcessResponse
    <3> QED
      BY <2>2, <2>3, <2>4, <3>1, HeldGrows DEF Acks
  <2> QED
    BY <1>8, <2>6, <2>7 DEF ProcessResponse
<1>9. ASSUME NEW i \in Remotes, ConnectionChange(i) PROVE AckInv'
  BY <1>9, AcksElsewhere DEF ConnectionChange, AckInv
<1>10. CASE UNCHANGED vars
  BY <1>10, AcksElsewhere DEF vars, AckInv
<1> QED
  BY <1>1, <1>2, <1>3, <1>4, <1>5, <1>6, <1>7, <1>8, <1>9, <1>10 DEF Next, WriteStep

\* OkMeansEveryReplica for any number of writes and replicas, and under any
\* of the faults: XSAN_OK is reported only for a write every replica holds.
THEOREM AckedIsEverywhere == Spec => []OkMeansEveryReplica
<1>1. AckInv => OkMeansEveryReplica
  BY DEF AckInv, Acks, OkMeansEveryReplica
<1> QED
  BY <1>1, InitType, NextType, InitAck, NextAck, PTL DEF Spec

-----------------------------------------------------------------------------
(* Completion is early, and a freed context counted on, only for a write     *)
(* that counted a replica twice.                                             *)

Done(w) == {i \in Replicas : op[w][i] = "done"}

\* While no replica of w was counted twice, its counters are exactly the
\* number of replicas done.
Exact(w) == /\ ctx[w].life = "live" => /\ ctx[w].success + ctx[w].failed = Cardinality(Done(w))
                                      /\ Cardinality(Done(w)) < Total
            /\ ctx[w].life = "freed" => Done(w) = Replicas
            /\ w \notin stale

ExactInv == \A w \in Writes \ doubled : Exact(w)

\* Storing counts that are exact.
LEMMA SettleExact ==
  ASSUME TypeOK, NEW w \in Writes, NEW c \in CtxType, Settle(w, c), c.life = "live",
         c.success + c.failed = Cardinality(Done(w)'), w \notin stale'
  PROVE  Exact(w)'
<1>1. /\ Done(w)' \subseteq Replicas
      /\ Cardinality(Done(w)') \in Nat /\ Total \in Nat
      /\ Cardinality(Done(w)') >= Total => Done(w)' = Replicas
  BY ReplicaSubsets, ReplicasFinite DEF Done
<1>2. ctx'[w] = IF Finished(c) THEN [c EXCEPT !.life = "freed"] ELSE c
  BY DEF Settle, TypeOK
<1>3. CASE Finished(c)
  <2>1. ctx'[w].life = "freed"
    BY <1>2, <1>3 DEF CtxType
  <2>2. Done(w)' = Replicas
    BY <1>1, <1>3 DEF Finished
  <2> QED
    BY <2>1, <2>2 DEF Exact
<1>4. CASE ~Finished(c)
  <2>1. ctx'[w] = c
    BY <1>2, <1>4
  <2>2. Cardinality(Done(w)') < Total
    BY <1>1, <1>4 DEF Finished
  <2> QED
    BY <2>1, <2>2 DEF Exact
<1> QED
  BY <1>3, <1>4

\* One report for a replica that becomes done.
LEMMA CountExact ==
  ASSUME TypeOK, TypeOK', NEW w \in Writes, NEW i \in Replicas, NEW status \in {"OK", "ERR"},
         Exact(w), ctx[w].life = "live", op[w][i] # "done", op'[w][i] = "done",
         \A j \in Replicas : j # i => op'[w][j] = op[w][j],
         Settle(w, Count(ctx[w], status)), w \notin stale'
  PROVE  Exact(w)'
<1>1. ctx[w] \in CtxType
  BY DEF TypeOK, CtxType
<1>2. /\ Count(ctx[w], status) \in CtxType /\ Count(ctx[w], status).life = "live"
      /\ Count(ctx[w], status).success + Count(ctx[w], status).failed
           = ctx[w].success + ctx[w].failed + 1
  <2>1. CASE status = "OK"
    BY <1>1, <2>1 DEF Count, CtxType
  <2>2. CASE status = "ERR"
    BY <1>1, <2>2 DEF Count, CtxType
  <2> QED
    BY <2>1, <2>2
<1>3. Done(w)' = Done(w) \cup {i} /\ i \notin Done(w)
  BY DEF Done
<1>4. IsFiniteSet(Done(w))
  BY ReplicaSubsets DEF Done
<1>5. Cardinality(Done(w)') = Cardinality(Done(w)) + 1
  BY <1>3, <1>4, FS_AddElement
<1> QED
  BY <1>2, <1>5, SettleExact DEF Exact

\* A step that leaves the context and the replicas done of a write alone.
LEMMA ExactElsewhere ==
  ASSUME NEW v \in Writes, Exact(v), ctx'[v] = ctx[v], v \notin stale',
         \A i \in Replicas : op'[v][i] = "done" <=> op[v][i] = "done"
  PROVE  Exact(v)'
<1>1. Done(v)' = Done(v)
  BY DEF Done
<1> QED
  BY <1>1 DEF Exact

LEMMA NextExact == TypeOK /\ TypeOK' /\ ExactInv /\ [Next]_vars => ExactInv'
<1> SUFFICES ASSUME TypeOK, TypeOK', ExactInv, [Next]_vars PROVE ExactInv'
  OBVIOUS
<1> USE ReplicasFinite
<1>1. ASSUME NEW w \in Writes, w \notin doubled' => Exact(w)', WriteStep(w) PROVE ExactInv'
  <2> SUFFICES ASSUME NEW v \in Writes, v \notin doubled', v # w PROVE Exact(v)'
    BY <1>1 DEF ExactInv
  <2>1. Frame(w)
    BY <1>1, StepFrame
  <2>2. Exact(v)
    BY <2>1 DEF Frame, ExactInv
  <2> QED
    BY <2>1, <2>2, ExactElsewhere DEF Frame, Exact
<1>2. ASSUME NEW w \in Writes, WriteRefused(w), w \notin doubled' PROVE Exact(w)'
  BY <1>2, ExactElsewhere DEF WriteRefused, ExactInv, Exact
<1>3. ASSUME NEW w \in Writes, WriteAsync(w), w \notin doubled' PROVE Exact(w)'
  <2>1. PICK out \in [Replicas -> UNION {Outcomes(i) : i \in Replicas}] :
          /\ \A i \in Replicas : out[i] \in Outcomes(i)
          /\ op' = [op EXCEPT ![w] = [i \in Replicas |-> out[i].op]]
          /\ Settle(w, [life |-> "live", success |-> 0, failed |-> Failures(out)])
          /\ doubled' = IF Attempted /\ \A i \in Replicas : out[i].reports <= 1
                        THEN doubled ELSE doubled \cup {w}
          /\ stale' = IF Failures(out) > Total THEN stale \cup {w} ELSE stale
    BY <1>3 DEF WriteAsync
  <2>2. /\ Attempted /\ w \notin doubled
        /\ \A i \in Replicas : out[i].reports <= 1
    BY <1>3, <2>1
  <2>3. \A i \in Replicas : /\ out[i].reports \in Nat
                            /\ out[i].reports >= 1 <=> out[i].op = "done"
    <3> SUFFICES ASSUME NEW i \in Replicas
                 PROVE  /\ out[i].reports \in Nat
                        /\ out[i].reports >= 1 <=> out[i].op = "done"
      OBVIOUS
    <3>1. /\ out[i] \in OutcomeType
          /\ out[i].reports >= 1 <=> out[i].op = "done"
      BY <2>1, OutcomeFacts
    <3>2. out[i].reports \in Nat
      BY <3>1 DEF OutcomeType
    <3> QED
      BY <3>1, <3>2
  <2>4. Done(w)' = {i \in Replicas : out[i].reports >= 1}
    BY <2>1, <2>3 DEF Done, TypeOK
  <2>5. {i \in Replicas : out[i].reports >= 2} = {}
    BY <2>2, <2>3
  <2>6. Cardinality(Done(w)') \in Nat /\ Cardinality(Done(w)') <= Total
    BY ReplicaSubsets DEF Done
  <2>7. Failures(out) = Cardinality(Done(w)')
    <3>1. Cardinality({i \in Replicas : out[i].reports >= 2}) = 0
      BY <2>5, FS_EmptySet
    <3>2. Failures(out) = Cardinality(Done(w)')
                          + Cardinality({i \in Replicas : out[i].reports >= 2})
                          + (IF Attempted THEN 0 ELSE Total)
      BY <2>4, Zenon DEF Failures
    <3> QED
      BY <2>2, <2>6, <3>1, <3>2
  <2>8. w \notin stale'
    BY <2>1, <2>2, <2>6, <2>7 DEF ExactInv, Exact
  <2> DEFINE c == [life |-> "live", success |-> 0, failed |-> Failures(out)]
  <2>9. /\ c \in CtxType /\ c.life = "live"
        /\ c.success + c.failed = Cardinality(Done(w)')
    BY <2>6, <2>7 DEF CtxType
  <2>10. Settle(w, c)
    BY <2>1
  <2> HIDE DEF c
  <2> QED
    BY <2>8, <2>9, <2>10, SettleExact
<1>4. ASSUME NEW w \in Writes, NEW status \in {"OK", "ERR"}, LocalComplete(w, status),
             w \notin doubled'
      PROVE  Exact(w)'
  <2>1. /\ op'[w][Local] = "done" /\ op[w][Local] # "done"
        /\ \A j \in Replicas : j # Local => op'[w][j] = op[w][j]
    <3>1. op[w][Local] = "disk" /\ op' = [op EXCEPT ![w][Local] = "done"]
      BY <1>4 DEF LocalComplete
    <3>2. op \in [Writes -> [Replicas -> OpStates]] /\ Local \in Replicas
      BY DEF TypeOK, Replicas
    <3> QED
      BY <3>1, <3>2
  <2>2. Exact(w)
    BY <1>4 DEF LocalComplete, ExactInv
  <2>3. ctx[w].life # "freed"
    BY <2>1, <2>2 DEF Exact, Done
  <2>4. ctx[w].life = "live" /\ Settle(w, Count(ctx[w], status)) /\ stale' = stale
    BY <1>4, <2>3 DEF LocalComplete
  <2> QED
    BY <2>1, <2>2, <2>4, CountExact DEF Exact
<1>5. ASSUME NEW w \in Writes, NEW status \in {"OK", "ERR"}, LocalDropped(w, status),
             w \notin doubled'
      PROVE  Exact(w)'
  <2>1. \A j \in Replicas : op'[w][j] = "done" <=> op[w][j] = "done"
    <3>1. op[w][Local] = "disk" /\ op' = [op EXCEPT ![w][Local] = "lost"]
      BY <1>5 DEF LocalDropped
    <3>2. op \in [Writes -> [Replicas -> OpStates]] /\ Local \in Replicas
      BY DEF TypeOK, Replicas
    <3> QED
      BY <3>1, <3>2
  <2> QED
    BY <1>5, <2>1, ExactElsewhere DEF LocalDropped, ExactInv, Exact
<1>6. ASSUME NEW w \in Writes, NEW i \in Remotes, ReplicaHandle(w, i), w \notin doubled'
      PROVE  Exact(w)'
  <2>1. PICK o \in OpStates : o # "done" /\ op' = [op EXCEPT ![w][i] = o]
    BY <1>6 DEF ReplicaHandle, If, OpStates
  <2>2. \A j \in Replicas : op'[w][j] = "done" <=> op[w][j] = "done"
    BY <1>6, <2>1, OpType DEF ReplicaHandle
  <2> QED
    BY <1>6, <2>2, ExactElsewhere DEF ReplicaHandle, ExactInv, Exact
<1>7. ASSUME NEW w \in Writes, NEW i \in Remotes, ResponseLost(w, i), w \notin doubled'
      PROVE  Exact(w)'
  <2>1. \A j \in Replicas : op'[w][j] = "done" <=> op[w][j] = "done"
    <3>1. op[w][i] \in {"okay", "erred", "erred2"} /\ op' = [op EXCEPT ![w][i] = "lost"]
      BY <1>7 DEF ResponseLost
    <3>2. op \in [Writes -> [Replicas -> OpStates]] /\ i \in Replicas
      BY DEF TypeOK, Replicas
    <3> QED
      BY <3>1, <3>2
  <2> QED
    BY <1>7, <2>1, ExactElsewhere DEF ResponseLost, ExactInv, Exact
<1>8. ASSUME NEW w \in Writes, NEW i \in Remotes, ProcessResponse(w, i), w \notin doubled'
      PROVE  Exact(w)'
  <2> DEFINE status == IF op[w][i] = "okay" THEN "OK" ELSE "ERR"
  <2>1. op[w][i] # "erred2" /\ w \notin doubled
    BY <1>8 DEF ProcessResponse
  <2>2. /\ op[w][i] # "done" /\ op'[w][i] = "done" /\ status \in {"OK", "ERR"}
        /\ \A j \in Replicas : j # i => op'[w][j] = op[w][j]
    <3>1. /\ op[w][i] \in {"okay", "erred"}
          /\ op' = [op EXCEPT ![w][i] = IF @ = "erred2" THEN "erred" ELSE "done"]
      BY <1>8, <2>1 DEF ProcessResponse
    <3>2. op \in [Writes -> [Replicas -> OpStates]] /\ i \in Replicas
      BY DEF TypeOK, Replicas
    <3> QED
      BY <3>1, <3>2
  <2>3. Exact(w)
    BY <2>1 DEF ExactInv
  <2>4. ctx[w].life # "freed"
    BY <2>2, <2>3 DEF Exact, Done
  <2>5. ctx[w].life = "live" /\ Settle(w, Count(ctx[w], status)) /\ stale' = stale
    BY <1>8, <2>4 DEF ProcessResponse
  <2> HIDE DEF status
  <2> QED
    BY <2>2, <2>3, <2>5, CountExact DEF Exact
<1>9. ASSUME NEW i \in Remotes, ConnectionChange(i) PROVE ExactInv'
  BY <1>9, ExactElsewhere DEF ConnectionChange, ExactInv, Exact
<1>10. CASE UNCHANGED vars
  BY <1>10, ExactElsewhere DEF vars, ExactInv, Exact
<1> QED
  BY <1>1, <1>2, <1>3, <1>4, <1>5, <1>6, <1>7, <1>8, <1>9, <1>10 DEF Next, WriteStep

\* EarlyOnlyIfDoubled for any number of writes and replicas: as long as no
\* replica was counted twice, the context is freed only after every replica is
\* done and is never used afterwards.
THEOREM FreedOnlyWhenDone == Spec => []EarlyOnlyIfDoubled
<1>1. Init => ExactInv
  BY DEF Init, Idle, ExactInv, Exact
<1>2. ExactInv => EarlyOnlyIfDoubled
  BY DEF ExactInv, Exact, Done, EarlyOnlyIfDoubled
<1> QED
  BY <1>1, <1>2, InitType, NextType, NextExact, PTL DEF Spec

-----------------------------------------------------------------------------
(* Every replica that has reported was counted at least once.               *)

\* The counts of a live context cover the replicas that are done and are short of the
\* target; a double report only makes them larger.
Covered(w) == ctx[w].life = "live" =>
                /\ Cardinality(Done(w)) <= ctx[w].success + ctx[w].failed
                /\ ctx[w].success + ctx[w].failed < Total

CoverInv == \A w \in Writes : Covered(w)

\* Storing counts that cover the replicas done.
LEMMA SettleCovers ==
  ASSUME TypeOK, NEW w \in Writes, NEW c \in CtxType, Settle(w, c),
         Cardinality(Done(w)') <= c.success + c.failed
  PROVE  Covered(w)'
<1>1. ctx'[w] = IF Finished(c) THEN [c EXCEPT !.life = "freed"] ELSE c
  BY DEF Settle, TypeOK
<1>2. CASE Finished(c)
  BY <1>1, <1>2 DEF Covered, CtxType
<1>3. CASE ~Finished(c)
  <2>1. ctx'[w] = c /\ c.success \in Nat /\ c.failed \in Nat
    BY <1>1, <1>3 DEF CtxType
  <2>2. c.success + c.failed < Total
    BY <1>3, <2>1, ReplicasFinite DEF Finished
  <2> QED
    BY <2>1, <2>2 DEF Covered
<1> QED
  BY <1>2, <1>3

\* One report for a replica, after which it is done or will report again.
LEMMA CountCovers ==
  ASSUME TypeOK, TypeOK', NEW w \in Writes, NEW i \in Replicas, NEW status,
         Covered(w), ctx[w].life = "live",
         \A j \in Replicas : j # i => op'[w][j] = op[w][j],
         Settle(w, Count(ctx[w], status))
  PROVE  Covered(w)'
<1>1. ctx[w] \in CtxType
  BY DEF TypeOK, CtxType
<1>2. /\ Count(ctx[w], status) \in CtxType
      /\ Count(ctx[w], status).success + Count(ctx[w], status).failed
           = ctx[w].success + ctx[w].failed + 1
  BY <1>1, CountType
<1>3. Done(w)' \subseteq Done(w) \cup {i} /\ Done(w) \cup {i} \subseteq Replicas
  BY DEF Done
<1>4. IsFiniteSet(Done(w)) /\ Cardinality(Done(w)) \in Nat
  BY ReplicaSubsets DEF Done
<1>5. Cardinality(Done(w) \cup {i}) <= Cardinality(Done(w)) + 1
  <2> DEFINE D == Done(w)
  <2>1. Cardinality(D \cup {i}) = IF i \in D THEN Cardinality(D) ELSE Cardinality(D) + 1
    <3>1. IsFiniteSet(D)
      BY <1>4
    <3> HIDE DEF D
    <3> QED
      BY <3>1, FS_AddElement
  <2>2. Cardinality(D) \in Nat
    BY <1>4
  <2> HIDE DEF D
  <2>3. Cardinality(D \cup {i}) <= Cardinality(D) + 1
    BY <2>1, <2>2
  <2> QED
    BY <2>3 DEF D
<1>6. /\ Cardinality(Done(w)') <= Cardinality(Done(w) \cup {i})
      /\ Cardinality(Done(w)') \in Nat /\ Cardinality(Done(w) \cup {i}) \in Nat
  BY <1>3, SubsetCounts
<1>7. Cardinality(Done(w)) <= ctx[w].success + ctx[w].failed
  BY DEF Covered
<1>8. ctx[w].success \in Nat /\ ctx[w].failed \in Nat
  BY <1>1 DEF CtxType
<1>9. Cardinality(Done(w)') <= ctx[w].success + ctx[w].failed + 1
  BY <1>4, <1>5, <1>6, <1>7, <1>8
<1> QED
  BY <1>2, <1>9, SettleCovers

\* A step that leaves the context and the replicas done of a write alone.
LEMMA CoveredElsewhere ==
  ASSUME NEW v \in Writes, Covered(v), ctx'[v] = ctx[v],
         \A i \in Replicas : op'[v][i] = "done" <=> op[v][i] = "done"
  PROVE  Covered(v)'
<1>1. Done(v)' = Done(v)
  BY DEF Done
<1> QED
  BY <1>1 DEF Covered

\* Every step keeps the counts at or above the number of replicas done.
LEMMA NextCover == TypeOK /\ TypeOK' /\ CoverInv /\ [Next]_vars => CoverInv'
<1> SUFFICES ASSUME TypeOK, TypeOK', CoverInv, [Next]_vars PROVE CoverInv'
  OBVIOUS
<1>1. ASSUME NEW w \in Writes, Covered(w)', WriteStep(w) PROVE CoverInv'
  <2> SUFFICES ASSUME NEW v \in Writes, v # w PROVE Covered(v)'
    BY <1>1 DEF CoverInv
  <2>1. Frame(w) /\ Covered(v)
    BY <1>1, StepFrame DEF CoverInv
  <2> QED
    BY <2>1, CoveredElsewhere DEF Frame
<1>2. ASSUME NEW w \in Writes, WriteRefused(w) PROVE Covered(w)'
  BY <1>2, CoveredElsewhere DEF WriteRefused, CoverInv
<1>3. ASSUME NEW w \in Writes, WriteAsync(w) PROVE Covered(w)'
  <2>1. PICK out \in [Replicas -> UNION {Outcomes(i) : i \in Replicas}] :
          /\ \A i \in Replicas : out[i] \in Outcomes(i)
          /\ op' = [op EXCEPT ![w] = [i \in Replicas |-> out[i].op]]
          /\ Settle(w, [life |-> "live", success |-> 0, failed |-> Failures(out)])
    BY <1>3 DEF WriteAsync
  <2>2. \A i \in Replicas : out[i].reports >= 1 <=> out[i].op = "done"
    BY <2>1, OutcomeFacts
  <2>3. Done(w)' = {i \in Replicas : out[i].reports >= 1}
    BY <2>1, <2>2 DEF Done, TypeOK
  <2>4. /\ Cardinality({i \in Replicas : out[i].reports >= 1}) \in Nat
        /\ Cardinality({i \in Replicas : out[i].reports >= 2}) \in Nat
    BY ReplicaSubsets
  <2>5. Cardinality(Done(w)') <= Failures(out)
    BY <2>3, <2>4, ReplicasFinite DEF Failures
  <2> DEFINE c == [life |-> "live", success |-> 0, failed |-> Failures(out)]
  <2>6. c \in CtxType /\ Cardinality(Done(w)') <= c.success + c.failed
    BY <2>5, FailuresType DEF CtxType
  <2>7. Settle(w, c)
    BY <2>1
  <2> HIDE DEF c
  <2> QED
    BY <2>6, <2>7, SettleCovers
<1>4. ASSUME NEW w \in Writes, NEW status \in {"OK", "ERR"}, LocalComplete(w, status)
      PROVE  Covered(w)'
  <2>1. \A j \in Replicas : j # Local => op'[w][j] = op[w][j]
    BY <1>4 DEF LocalComplete, TypeOK
  <2>2. CASE ctx[w].life = "live"
    <3>1. Settle(w, Count(ctx[w], status)) /\ Covered(w)
      BY <1>4, <2>2 DEF LocalComplete, CoverInv
    <3> QED
      BY <2>1, <2>2, <3>1, ReplicasFinite, CountCovers
  <2>3. CASE ctx[w].life # "live"
    BY <1>4, <2>3 DEF LocalComplete, Covered
  <2> QED
    BY <2>2, <2>3
<1>5. ASSUME NEW w \in Writes, NEW status \in {"OK", "ERR"}, LocalDropped(w, status)
      PROVE  Covered(w)'
  <2>1. \A j \in Replicas : op'[w][j] = "done" <=> op[w][j] = "done"
    <3>1. op[w][Local] = "disk" /\ op' = [op EXCEPT ![w][Local] = "lost"]
      BY <1>5 DEF LocalDropped
    <3>2. op \in [Writes -> [Replicas -> OpStates]] /\ Local \in Replicas
      BY DEF TypeOK, Replicas
    <3> QED
      BY <3>1, <3>2
  <2> QED
    BY <1>5, <2>1, CoveredElsewhere DEF LocalDropped, CoverInv
<1>6. ASSUME NEW w \in Writes, NEW i \in Remotes, ReplicaHandle(w, i) PROVE Covered(w)'
  <2>1. PICK o \in OpStates : o # "done" /\ op' = [op EXCEPT ![w][i] = o]
    BY <1>6 DEF ReplicaHandle, If, OpStates
  <2>2. \A j \in Replicas : op'[w][j] = "done" <=> op[w][j] = "done"
    BY <1>6, <2>1, OpType, ReplicasFinite DEF ReplicaHandle
  <2> QED
    BY <1>6, <2>2, CoveredElsewhere DEF ReplicaHandle, CoverInv
<1>7. ASSUME NEW w \in Writes, NEW i \in Remotes, ResponseLost(w, i) PROVE Covered(w)'
  <2>1. \A j \in Replicas : op'[w][j] = "done" <=> op[w][j] = "done"
    <3>1. op[w][i] \in {"okay", "erred", "erred2"} /\ op' = [op EXCEPT ![w][i] = "lost"]
      BY <1>7 DEF ResponseLost
    <3>2. op \in [Writes -> [Replicas -> OpStates]] /\ i \in Replicas
      BY DEF TypeOK, Replicas
    <3> QED
      BY <3>1, <3>2
  <2> QED
    BY <1>7, <2>1, CoveredElsewhere DEF ResponseLost, CoverInv
<1>8. ASSUME NEW w \in Writes, NEW i \in Remotes, ProcessResponse(w, i) PROVE Covered(w)'
  <2> DEFINE status == IF op[w][i] = "okay" THEN "OK" ELSE "ERR"
  <2>1. \A j \in Replicas : j # i => op'[w][j] = op[w][j]
    BY <1>8, ReplicasFinite DEF ProcessResponse, TypeOK
  <2>2. CASE ctx[w].life = "live"
    <3>1. Settle(w, Count(ctx[w], status)) /\ Covered(w)
      BY <1>8, <2>2 DEF ProcessResponse, CoverInv
    <3> HIDE DEF status
    <3> QED
      BY <2>1, <2>2, <3>1, ReplicasFinite, CountCovers
  <2>3. CASE ctx[w].life # "live"
    BY <1>8, <2>3 DEF ProcessResponse, Covered
  <2> QED
    BY <2>2, <2>3
<1>9. ASSUME NEW i \in Remotes, ConnectionChange(i) PROVE CoverInv'
  BY <1>9, CoveredElsewhere DEF ConnectionChange, CoverInv
<1>10. CASE UNCHANGED vars
  BY <1>10, CoveredElsewhere DEF vars, CoverInv
<1> QED
  BY <1>1, <1>2, <1>3, <1>4, <1>5, <1>6, <1>7, <1>8, <1>9, <1>10 DEF Next, WriteStep

\* NoWriteForgotten for any number of writes and replicas and under every fault: a write
\* whose callback is due has a replica that has not reported yet.
THEOREM NothingForgotten == Spec => []NoWriteForgotten
<1>1. Init => CoverInv
  BY DEF Init, Idle, CoverInv, Covered
<1>2. TypeOK /\ CoverInv => NoWriteForgotten
  <2> SUFFICES ASSUME TypeOK, CoverInv, NEW w \in Writes, ctx[w].life = "live",
                      \A i \in Replicas : op[w][i] = "done"
               PROVE  FALSE
    BY DEF NoWriteForgotten
  <2>1. Done(w) = Replicas
    BY DEF Done
  <2>2. ctx[w].success \in Nat /\ ctx[w].failed \in Nat
    BY DEF TypeOK
  <2>3. Total <= ctx[w].success + ctx[w].failed /\ ctx[w].success + ctx[w].failed < Total
    BY <2>1, Zenon DEF CoverInv, Covered, Total
  <2> QED
    BY <2>2, <2>3, ReplicasFinite
<1> QED
  BY <1>1, <1>2, InitType, NextType, NextCover, PTL DEF Spec
=============================================================================
