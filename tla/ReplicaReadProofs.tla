-------------------------- MODULE ReplicaReadProofs --------------------------
(***************************************************************************)
(* Proof of the safety of replica reads for any set of reads, any number   *)
(* of replicas and any combination of faults.                              *)
(***************************************************************************)
EXTENDS ReplicaRead, TLAPS

Answers == {"none", "asked", "okay", "short", "erred", "erred2", "lost"}

Calls == [status : {"OK", "ERR"}, data : SUBSET Nat]

ReadTypes == /\ attempt \in [Reads -> Nat]
             /\ phase \in [Reads -> Phases]
             /\ listed \subseteq Reads
             /\ answer \in [Reads -> [Peers -> Answers]]
             /\ peerConn \in [Peers -> {"none", "busy", "idle"}]
             /\ called \in [Reads -> Seq(Calls)]
             /\ bad \in [Reads -> SUBSET Nat]
             /\ twice \subseteq Reads

\* A read is called back when it ends and is then in no table; while it goes on, the
\* replicas before the current one have failed it and only the current one can answer.
\* A second answer of one replica voids the last two.
ReadOK(r) ==
  /\ called[r] # <<>> => phase[r] = "ended"
  /\ r \in listed => phase[r] \notin {"idle", "ended"} /\ attempt[r] > 0
  /\ phase[r] \in {"idle", "disk"} => attempt[r] = 0
  /\ phase[r] = "idle" => \A i \in Peers : answer[r][i] = "none"
  /\ Len(called[r]) <= 1
  /\ Told(r, "OK") => attempt[r] = 0 \/ \E i \in Peers : called[r][1].data = {i}
  /\ r \notin twice => /\ \A i \in Peers : answer[r][i] # "none" => attempt[r] = i
                       /\ phase[r] # "ended" => bad[r] = 0 .. attempt[r] - 1
                       /\ Told(r, "ERR") => bad[r] = 0 .. RemoteCount

ReadInv == /\ ReadTypes
           /\ \A r \in Reads : ReadOK(r)
           /\ AbortsOnlyBeyondLocal

-----------------------------------------------------------------------------
\* A read that a step leaves alone.
LEMMA OthersKept ==
  ASSUME NEW q \in Reads, ReadOK(q),
         attempt'[q] = attempt[q], phase'[q] = phase[q], called'[q] = called[q],
         bad'[q] = bad[q], answer'[q] = answer[q],
         q \in listed' => q \in listed, q \in twice => q \in twice'
  PROVE  ReadOK(q)'
BY DEF ReadOK, Told

\* No read has begun.
LEMMA InitReads == ReadInit => ReadInv
<1> SUFFICES ASSUME ReadInit PROVE ReadInv
  OBVIOUS
<1> USE ReadAssumption DEF ReadInit
<1>1. ReadTypes
  <2>1. <<>> \in Seq(Calls) /\ "idle" \in Phases /\ "none" \in Answers
    BY DEF Phases, Answers
  <2>2. peerConn \in [Peers -> {"none", "busy", "idle"}]
    OBVIOUS
  <2>3. called \in [Reads -> Seq(Calls)]
    BY <2>1
  <2>4. answer \in [Reads -> [Peers -> Answers]]
    BY <2>1
  <2> QED
    BY <2>1, <2>2, <2>3, <2>4 DEF ReadTypes
<1>2. ASSUME NEW r \in Reads PROVE ReadOK(r)
  <2>1. /\ attempt[r] = 0 /\ phase[r] = "idle" /\ called[r] = <<>> /\ bad[r] = {}
        /\ listed = {} /\ \A i \in Peers : answer[r][i] = "none"
    OBVIOUS
  <2>2. Len(called[r]) = 0 /\ bad[r] = 0 .. attempt[r] - 1
    BY <2>1
  <2> QED
    BY <2>1, <2>2 DEF ReadOK, Told
<1>3. AbortsOnlyBeyondLocal
  BY DEF AbortsOnlyBeyondLocal
<1> QED
  BY <1>1, <1>2, <1>3 DEF ReadInv

\* The callback of a user who was not called back before.
LEMMA ToldOnce ==
  ASSUME ReadTypes, NEW r \in Reads, called[r] = <<>>,
         NEW status \in {"OK", "ERR"}, NEW data \in SUBSET Nat, Tell(r, status, data)
  PROVE  /\ called' \in [Reads -> Seq(Calls)]
         /\ \A q \in Reads \ {r} : called'[q] = called[q]
         /\ Len(called'[r]) = 1
         /\ called'[r][1] = [status |-> status, data |-> data]
         /\ \A s : Told(r, s)' => s = status
<1> DEFINE call == [status |-> status, data |-> data]
<1>1. call \in Calls
  BY DEF Calls
<1>2. called \in [Reads -> Seq(Calls)]
  BY DEF ReadTypes
<1>3. called' = [called EXCEPT ![r] = Append(called[r], call)]
  BY DEF Tell
<1>4. call.status = status
  OBVIOUS
<1> HIDE DEF call
<1>5. Append(called[r], call) \in Seq(Calls) /\ Append(called[r], call) = <<call>>
  BY <1>1, <1>2
<1>6. called' \in [Reads -> Seq(Calls)]
  BY <1>2, <1>3, <1>5
<1>7. called'[r] = <<call>> /\ \A q \in Reads \ {r} : called'[q] = called[q]
  BY <1>2, <1>3, <1>5
<1>8. Len(called'[r]) = 1 /\ called'[r][1] = call
  BY <1>1, <1>7
<1>9. \A s : Told(r, s)' => s = status
  BY <1>4, <1>8 DEF Told
<1> QED
  BY <1>6, <1>7, <1>8, <1>9 DEF call

\* A read that waits after an attempt waits for the disk at replica 0 only.
LEMMA Waits ==
  ASSUME ReadTypes, NEW j \in 0 .. RemoteCount, NEW o \in Starts(j) \ Failures
  PROVE  /\ o \in Phases \ {"idle", "ended"}
         /\ o = "disk" => j = 0
         /\ o = "sent" => j \in Peers
         /\ o = "partial" => j \in Peers
<1>1. CASE j = 0
  BY <1>1 DEF Starts, LocalStarts, Given, Failures, Phases
<1>2. CASE j # 0
  <2>1. j \in Peers
    BY <1>2, ReadAssumption DEF Peers
  <2>2. peerConn[j] \in {"none", "busy", "idle"} /\ o \in RemoteStarts(peerConn[j])
    BY <1>2, <2>1 DEF ReadTypes, Starts
  <2>3. o \in {"connecting", "sent", "partial"}
    BY <2>2 DEF RemoteStarts, Given, Failures
  <2> QED
    BY <2>1, <2>3 DEF Phases
<1> QED
  BY <1>1, <1>2

\* The next replicas are tried: k is the first of them, all before it have failed.
LEMMA TryKeeps ==
  ASSUME ReadInv, NEW r \in Reads, NEW k \in Nat, NEW failed \in SUBSET Nat,
         NEW answers \in [Reads -> [Peers -> Answers]],
         TryNext(r, k, failed, answers),
         called[r] = <<>>, process = "up", attempt[r] <= k, r \in listed => k > 0,
         \A q \in Reads \ {r} : answers[q] = answer[q],
         twice \subseteq twice', twice' \subseteq Reads,
         r \notin twice' => /\ bad[r] \cup failed = 0 .. k - 1
                           /\ \A i \in Peers : answers[r][i] = "none"
  PROVE  ReadInv'
<1> USE ReadAssumption
<1> DEFINE Upto(j, out) ==
    /\ \A i \in k .. j - 1 : out[i] \in Starts(i)
    /\ attempt' = [attempt EXCEPT ![r] = j]
    /\ bad' = [bad EXCEPT ![r] = @ \cup failed \cup (k .. j - 1)]
    /\ LET put == \E i \in k .. j - 1 : out[i] \in {"unconnected", "refused"}
           crash == \E i \in k .. j - 1 : out[i] = "crash"
           refused == \E i \in k .. j - 1 : out[i] = "refused"
       IN  \/ /\ j = Exhausted
              /\ Tell(r, "ERR", {})
              /\ phase' = [phase EXCEPT ![r] = "ended"]
              /\ listed' = listed \ {r}
              /\ answer' = answers
              /\ process' = IF r \in listed \/ put \/ crash THEN "aborted" ELSE "up"
              /\ UNCHANGED peerConn
           \/ /\ j # Exhausted
              /\ \E o \in Starts(j) \ Failures :
                   /\ phase' = [phase EXCEPT ![r] = o]
                   /\ answer' = IF o = "sent" THEN [answers EXCEPT ![r][j] = "asked"] ELSE answers
                   /\ peerConn' = IF o = "partial" THEN [peerConn EXCEPT ![j] = "busy"] ELSE peerConn
                   /\ listed' \in IF j = 0 THEN {listed}
                                  ELSE {listed \cup {r}} \cup Given("oom", {listed})
                   /\ process' \in CASE crash \/ (refused /\ o = "sent") -> {"aborted"}
                                     [] refused /\ ~crash /\ o # "sent" -> {"up", "aborted"}
                                     [] OTHER -> {"up"}
              /\ UNCHANGED called
<1>0. PICK j \in k .. Exhausted : \E out \in [k .. j - 1 -> Failures] : Upto(j, out)
  BY DEF TryNext
<1>1. PICK out \in [k .. j - 1 -> Failures] : Upto(j, out)
  BY <1>0
<1>2. j \in Nat /\ k <= j /\ j <= Exhausted /\ Exhausted = RemoteCount + 1
  BY DEF Exhausted
<1>3. /\ attempt' \in [Reads -> Nat] /\ attempt'[r] = j
      /\ \A q \in Reads \ {r} : attempt'[q] = attempt[q]
  <2>1. attempt \in [Reads -> Nat] /\ attempt' = [attempt EXCEPT ![r] = j]
    BY <1>1 DEF ReadInv, ReadTypes
  <2> QED
    BY <1>2, <2>1
<1>4. /\ bad' \in [Reads -> SUBSET Nat] /\ bad'[r] = bad[r] \cup failed \cup (k .. j - 1)
      /\ \A q \in Reads \ {r} : bad'[q] = bad[q]
  <2>1. bad \in [Reads -> SUBSET Nat] /\ bad' = [bad EXCEPT ![r] = bad[r] \cup failed \cup (k .. j - 1)]
    BY <1>1 DEF ReadInv, ReadTypes
  <2>2. k .. j - 1 \in SUBSET Nat
    BY <1>2
  <2> QED
    BY <2>1, <2>2
<1>5. r \notin twice' => bad'[r] = 0 .. j - 1
  <2>1. (0 .. k - 1) \cup (k .. j - 1) = 0 .. j - 1
    BY <1>2
  <2> QED
    BY <1>4, <2>1
<1>6. \A q \in Reads : ReadOK(q)
  BY DEF ReadInv
<1>7. process' = "aborted" => attempt'[r] > 0
  <2>1. (\E i \in k .. j - 1 : TRUE) => j > 0
    BY <1>2
  <2>2. r \in listed => j > 0
    BY <1>2
  <2>3. j = Exhausted => j > 0
    BY <1>2
  <2>4. CASE j = Exhausted
    BY <1>3, <2>3, <2>4
  <2>5. CASE j # Exhausted
    <3>1. process' = "aborted" => \E i \in k .. j - 1 : TRUE
      BY <1>1, <2>5
    <3> QED
      BY <1>3, <2>1, <3>1
  <2> QED
    BY <2>4, <2>5
<1>8. AbortsOnlyBeyondLocal'
  BY <1>7 DEF AbortsOnlyBeyondLocal
<1> DEFINE Ends == /\ j = Exhausted
                   /\ Tell(r, "ERR", {})
                   /\ phase' = [phase EXCEPT ![r] = "ended"]
                   /\ listed' = listed \ {r}
                   /\ answer' = answers
                   /\ UNCHANGED peerConn
           Goes(o) == /\ phase' = [phase EXCEPT ![r] = o]
                      /\ answer' = IF o = "sent" THEN [answers EXCEPT ![r][j] = "asked"] ELSE answers
                      /\ peerConn' = IF o = "partial" THEN [peerConn EXCEPT ![j] = "busy"] ELSE peerConn
                      /\ listed' \in IF j = 0 THEN {listed}
                                     ELSE {listed \cup {r}} \cup Given("oom", {listed})
<1>9. Ends \/ (j # Exhausted /\ UNCHANGED called /\ \E o \in Starts(j) \ Failures : Goes(o))
  BY <1>1
<1> HIDE DEF Upto
<1>10. CASE Ends
  <2>1. /\ called' \in [Reads -> Seq(Calls)]
        /\ \A q \in Reads \ {r} : called'[q] = called[q]
        /\ Len(called'[r]) = 1
        /\ \A s : Told(r, s)' => s = "ERR"
    <3>1. ReadTypes /\ Tell(r, "ERR", {}) /\ {} \in SUBSET Nat /\ "ERR" \in {"OK", "ERR"}
      BY <1>10 DEF ReadInv
    <3> HIDE DEF Ends
    <3> QED
      BY <3>1, ToldOnce
  <2>2. phase' \in [Reads -> Phases] /\ phase'[r] = "ended" /\ \A q \in Reads \ {r} : phase'[q] = phase[q]
    BY <1>10 DEF ReadInv, ReadTypes, Phases
  <2>3. ReadTypes'
    BY <1>3, <1>4, <1>10, <2>1, <2>2 DEF ReadInv, ReadTypes
  <2>4. 0 .. j - 1 = 0 .. RemoteCount
    BY <1>2, <1>10
  <2>5. ReadOK(r)'
    BY <1>5, <1>10, <2>1, <2>2, <2>4 DEF ReadOK
  <2>6. \A q \in Reads \ {r} : ReadOK(q)'
    BY <1>3, <1>4, <1>6, <1>10, <2>1, <2>2, OthersKept
  <2> QED
    BY <1>8, <2>3, <2>5, <2>6 DEF ReadInv
<1>11. ASSUME NEW o \in Starts(j) \ Failures, Goes(o), j # Exhausted, UNCHANGED called PROVE ReadInv'
  <2>1. j \in 0 .. RemoteCount
    BY <1>2, <1>11
  <2>2. /\ o \in Phases \ {"idle", "ended"}
        /\ o = "disk" => j = 0
        /\ o = "sent" => j \in Peers
        /\ o = "partial" => j \in Peers
    BY <1>11, <2>1, Waits DEF ReadInv
  <2>3. phase' \in [Reads -> Phases] /\ phase'[r] = o /\ \A q \in Reads \ {r} : phase'[q] = phase[q]
    BY <1>11, <2>2 DEF ReadInv, ReadTypes
  <2>4. /\ answer' \in [Reads -> [Peers -> Answers]]
        /\ \A q \in Reads \ {r} : answer'[q] = answers[q]
        /\ \A i \in Peers : answer'[r][i] = answers[r][i] \/ (o = "sent" /\ i = j)
    <3>1. CASE o = "sent"
      <4>1. answer' = [answers EXCEPT ![r] = [answers[r] EXCEPT ![j] = "asked"]]
        BY <1>11, <3>1
      <4>2. answers[r] \in [Peers -> Answers] /\ "asked" \in Answers
        BY DEF Answers
      <4>3. [answers[r] EXCEPT ![j] = "asked"] \in [Peers -> Answers]
        BY <4>2
      <4> QED
        BY <3>1, <4>1, <4>2, <4>3
    <3>2. CASE o # "sent"
      BY <1>11, <3>2
    <3> QED
      BY <3>1, <3>2
  <2>5. peerConn' \in [Peers -> {"none", "busy", "idle"}]
    BY <1>11 DEF ReadInv, ReadTypes
  <2>6. listed' \subseteq listed \cup {r} /\ (r \in listed' => j > 0)
    <3>1. CASE j = 0
      BY <1>2, <1>11, <3>1
    <3>2. CASE j # 0
      BY <1>2, <1>11, <3>2 DEF Given
    <3> QED
      BY <3>1, <3>2
  <2>7. ReadTypes'
    BY <1>3, <1>4, <1>11, <2>3, <2>4, <2>5, <2>6 DEF ReadInv, ReadTypes
  <2>8. ReadOK(r)'
    <3>1. r \notin twice' => \A i \in Peers : answer'[r][i] # "none" => attempt'[r] = i
      BY <1>3, <2>4
    <3>2. Len(called'[r]) = 0 /\ called'[r] = <<>> /\ ~Told(r, "OK")' /\ ~Told(r, "ERR")'
      <4>1. called'[r] = <<>>
        BY <1>11
      <4> QED
        BY <4>1 DEF Told
    <3> QED
      BY <1>3, <1>5, <2>2, <2>3, <2>6, <3>1, <3>2 DEF ReadOK
  <2>9. \A q \in Reads \ {r} : ReadOK(q)'
    BY <1>3, <1>4, <1>6, <1>11, <2>3, <2>4, <2>6, OthersKept
  <2> QED
    BY <1>8, <2>7, <2>8, <2>9 DEF ReadInv
<1> QED
  BY <1>9, <1>10, <1>11

\* A read that ends well.
LEMMA SucceedKeeps ==
  ASSUME ReadInv, NEW r \in Reads, NEW data \in SUBSET Nat, Succeed(r, data),
         called[r] = <<>>, process = "up",
         attempt[r] = 0 \/ \E i \in Peers : data = {i},
         answer' \in [Reads -> [Peers -> Answers]],
         \A q \in Reads \ {r} : answer'[q] = answer[q],
         \A i \in Peers : answer'[r][i] # "none" => answer[r][i] # "none" \/ r \in twice',
         twice \subseteq twice', twice' \subseteq Reads
  PROVE  ReadInv'
<1>1. /\ Tell(r, "OK", data)
      /\ phase' = [phase EXCEPT ![r] = "ended"]
      /\ listed' = listed \ {r}
      /\ process' = IF r \in listed THEN "aborted" ELSE "up"
      /\ UNCHANGED <<attempt, peerConn, bad>>
  BY DEF Succeed
<1>2. ReadTypes /\ "OK" \in {"OK", "ERR"} /\ ReadOK(r)
  BY DEF ReadInv
<1>3. /\ called' \in [Reads -> Seq(Calls)]
      /\ \A q \in Reads \ {r} : called'[q] = called[q]
      /\ Len(called'[r]) = 1
      /\ called'[r][1] = [status |-> "OK", data |-> data]
      /\ \A s : Told(r, s)' => s = "OK"
  BY <1>1, <1>2, ToldOnce
<1>4. phase' \in [Reads -> Phases] /\ phase'[r] = "ended" /\ \A q \in Reads \ {r} : phase'[q] = phase[q]
  BY <1>1, <1>2 DEF ReadTypes, Phases
<1>5. ReadTypes'
  BY <1>1, <1>2, <1>3, <1>4 DEF ReadTypes
<1>6. ReadOK(r)'
  <2>1. r \notin twice' => \A i \in Peers : answer'[r][i] # "none" => attempt'[r] = i
    BY <1>1, <1>2 DEF ReadOK
  <2>2. called'[r][1].data = data
    BY <1>3
  <2>3. attempt'[r] = 0 \/ \E i \in Peers : called'[r][1].data = {i}
    BY <1>1, <2>2
  <2> QED
    BY <1>1, <1>3, <1>4, <2>1, <2>3 DEF ReadOK
<1>7. \A q \in Reads \ {r} : ReadOK(q)'
  BY <1>1, <1>3, <1>4, OthersKept DEF ReadInv
<1>8. AbortsOnlyBeyondLocal'
  BY <1>1, <1>2 DEF AbortsOnlyBeyondLocal, ReadOK
<1> QED
  BY <1>5, <1>6, <1>7, <1>8 DEF ReadInv

\* The local disk finishes.
LEMMA LocalKeeps ==
  ASSUME ReadInv, NEW r \in Reads, LocalReadDone(r)
  PROVE  ReadInv'
<1> USE ReadAssumption
<1>1. process = "up" /\ phase[r] = "disk" /\ twice' = twice
  BY DEF LocalReadDone
<1>2. ReadTypes /\ ReadOK(r)
  BY DEF ReadInv
<1>3. called[r] = <<>> /\ attempt[r] = 0 /\ r \notin listed
  BY <1>1, <1>2 DEF ReadOK, ReadTypes
<1>4. answer \in [Reads -> [Peers -> Answers]] /\ twice \subseteq Reads
  BY <1>2 DEF ReadTypes
<1>5. ASSUME NEW data \in SUBSET Nat, Succeed(r, data), UNCHANGED answer PROVE ReadInv'
  BY <1>1, <1>3, <1>4, <1>5, SucceedKeeps
<1>6. CASE Retry(r, 0, answer)
  <2>1. TryNext(r, 1, {0}, answer)
    BY <1>3, <1>6 DEF Retry
  <2>2. r \notin twice => bad[r] \cup {0} = 0 .. 1 - 1 /\ \A i \in Peers : answer[r][i] = "none"
    <3> SUFFICES ASSUME r \notin twice PROVE bad[r] \cup {0} = 0 .. 1 - 1 /\ \A i \in Peers : answer[r][i] = "none"
      OBVIOUS
    <3>1. bad[r] = 0 .. attempt[r] - 1
      BY <1>1, <1>2 DEF ReadOK
    <3>2. \A i \in Peers : answer[r][i] # "none" => attempt[r] = i
      BY <1>2 DEF ReadOK
    <3>3. 0 \notin Peers
      BY DEF Peers
    <3> QED
      BY <1>3, <3>1, <3>2, <3>3
  <2>3. 1 \in Nat /\ {0} \in SUBSET Nat /\ attempt[r] <= 1
    BY <1>3
  <2> QED
    BY <1>1, <1>3, <1>4, <2>1, <2>2, <2>3, TryKeeps
<1>7. CASE /\ phase' = [phase EXCEPT ![r] = "lost"]
           /\ UNCHANGED <<attempt, listed, answer, peerConn, called, bad, process>>
  <2>1. phase' \in [Reads -> Phases] /\ phase'[r] = "lost" /\ \A q \in Reads \ {r} : phase'[q] = phase[q]
    BY <1>2, <1>7 DEF ReadTypes, Phases
  <2>2. ReadTypes'
    BY <1>1, <1>2, <1>7, <2>1 DEF ReadTypes
  <2>3. ReadOK(r)'
    BY <1>1, <1>2, <1>3, <1>7, <2>1 DEF ReadOK, Told
  <2>4. \A q \in Reads \ {r} : ReadOK(q)'
    BY <1>1, <1>7, <2>1, OthersKept DEF ReadInv
  <2> QED
    BY <1>7, <2>2, <2>3, <2>4 DEF ReadInv, AbortsOnlyBeyondLocal
<1>8. {0} \in SUBSET Nat /\ {} \in SUBSET Nat
  OBVIOUS
<1> QED
  BY <1>5, <1>6, <1>7, <1>8 DEF LocalReadDone

\* A response arrives.
LEMMA ResponseKeeps ==
  ASSUME ReadInv, NEW r \in Reads, NEW i \in Peers, ReadResponse(r, i)
  PROVE  ReadInv'
<1> USE ReadAssumption
<1> DEFINE o == answer[r][i]
           left == [answer EXCEPT ![r][i] = IF o = "erred2" THEN "erred" ELSE "none"]
<1>1. /\ process = "up" /\ o \in {"okay", "short", "erred", "erred2"}
      /\ twice' = IF o = "erred2" THEN twice \cup {r} ELSE twice
  BY DEF ReadResponse
<1>2. ReadTypes /\ ReadOK(r) /\ i \in Nat
  BY DEF ReadInv, Peers
<1>3. /\ left \in [Reads -> [Peers -> Answers]]
      /\ \A q \in Reads \ {r} : left[q] = answer[q]
      /\ \A p \in Peers \ {i} : left[r][p] = answer[r][p]
      /\ left[r][i] = IF o = "erred2" THEN "erred" ELSE "none"
  <2>1. answer \in [Reads -> [Peers -> Answers]]
    BY <1>2 DEF ReadTypes
  <2>2. answer[r] \in [Peers -> Answers] /\ "erred" \in Answers /\ "none" \in Answers
    BY <2>1 DEF Answers
  <2>3. [answer[r] EXCEPT ![i] = IF o = "erred2" THEN "erred" ELSE "none"] \in [Peers -> Answers]
    BY <2>2
  <2>4. left = [answer EXCEPT ![r] = [answer[r] EXCEPT ![i] = IF o = "erred2" THEN "erred" ELSE "none"]]
    OBVIOUS
  <2> QED
    BY <2>1, <2>2, <2>3, <2>4
<1>4. \/ /\ r \notin listed
         /\ answer' = left
         /\ UNCHANGED <<attempt, phase, listed, peerConn, called, bad, process>>
      \/ r \in listed /\ o = "okay" /\ Succeed(r, {i}) /\ answer' = left
      \/ r \in listed /\ Retry(r, i, left)
  BY DEF ReadResponse, Usable
<1>5. twice \subseteq twice' /\ twice' \subseteq Reads /\ (o = "erred2" => r \in twice')
  BY <1>1, <1>2 DEF ReadTypes
<1>6. r \in listed => called[r] = <<>>
  BY <1>2 DEF ReadOK, ReadTypes
<1>7. attempt[r] \in Nat /\ (r \in listed => attempt[r] > 0) /\ (r \in listed => phase[r] # "ended")
  BY <1>2 DEF ReadTypes, ReadOK
<1>8. \A p \in Peers : left[r][p] # "none" => answer[r][p] # "none" \/ r \in twice'
  BY <1>3, <1>5
<1>9. r \notin twice' => attempt[r] = i /\ \A p \in Peers : left[r][p] = "none"
  <2> SUFFICES ASSUME r \notin twice' PROVE attempt[r] = i /\ \A p \in Peers : left[r][p] = "none"
    OBVIOUS
  <2>1. r \notin twice /\ o # "erred2" /\ o # "none"
    BY <1>1, <1>5
  <2>2. \A p \in Peers : answer[r][p] # "none" => attempt[r] = p
    BY <1>2, <2>1 DEF ReadOK
  <2>3. attempt[r] = i
    BY <2>1, <2>2
  <2> QED
    BY <1>3, <2>1, <2>2, <2>3
<1>10. o # "none"
  BY <1>1
<1> HIDE DEF o, left
<1>11. CASE r \notin listed /\ answer' = left /\ UNCHANGED <<attempt, phase, listed, peerConn, called, bad, process>>
  <2>1. ReadTypes'
    BY <1>2, <1>3, <1>5, <1>11 DEF ReadTypes
  <2>2. ReadOK(r)'
    <3>1. phase[r] # "idle"
      BY <1>2, <1>10 DEF ReadOK, o
    <3>2. r \notin twice' => r \notin twice /\ \A p \in Peers : answer'[r][p] # "none" => attempt'[r] = p
      BY <1>5, <1>9, <1>11
    <3> QED
      BY <1>2, <1>11, <3>1, <3>2 DEF ReadOK, Told
  <2>3. \A q \in Reads \ {r} : ReadOK(q)'
    BY <1>3, <1>5, <1>11, OthersKept DEF ReadInv
  <2> QED
    BY <1>11, <2>1, <2>2, <2>3 DEF ReadInv, AbortsOnlyBeyondLocal
<1>12. CASE r \in listed /\ o = "okay" /\ Succeed(r, {i}) /\ answer' = left
  <2>1. {i} \in SUBSET Nat
    BY <1>2
  <2> QED
    BY <1>1, <1>3, <1>5, <1>6, <1>8, <1>12, <2>1, SucceedKeeps
<1>13. CASE r \in listed /\ Retry(r, i, left)
  <2> DEFINE k == attempt[r] + 1
  <2>1. k \in Nat /\ k > 0 /\ attempt[r] <= k /\ {i} \in SUBSET Nat /\ TryNext(r, k, {i}, left)
    BY <1>2, <1>7, <1>13 DEF Retry
  <2>2. r \notin twice' => bad[r] \cup {i} = 0 .. k - 1
    <3> SUFFICES ASSUME r \notin twice' PROVE bad[r] \cup {i} = 0 .. k - 1
      OBVIOUS
    <3>1. bad[r] = 0 .. attempt[r] - 1
      BY <1>2, <1>5, <1>7, <1>13 DEF ReadOK
    <3>2. attempt[r] = i
      BY <1>9
    <3> QED
      BY <1>7, <3>1, <3>2
  <2> HIDE DEF k
  <2> QED
    BY <1>1, <1>3, <1>5, <1>6, <1>9, <1>13, <2>1, <2>2, TryKeeps
<1> QED
  BY <1>4, <1>11, <1>12, <1>13

\* A remote replica serves a request.
LEMMA ServeKeeps ==
  ASSUME ReadInv, NEW r \in Reads, NEW i \in Peers, Serve(r, i)
  PROVE  ReadInv'
<1> DEFINE Served == {"okay", "erred", "erred2", "short", "lost"}
<1>1. PICK o \in Served : answer' = [answer EXCEPT ![r][i] = o]
  BY DEF Serve, Given
<1>2. answer[r][i] = "asked" /\ UNCHANGED <<attempt, phase, listed, peerConn, called, bad, twice, process>>
  BY DEF Serve
<1>3. answer \in [Reads -> [Peers -> Answers]] /\ o \in Answers /\ ReadOK(r)
  BY DEF ReadInv, ReadTypes, Answers
<1>4. /\ answer' \in [Reads -> [Peers -> Answers]]
      /\ \A q \in Reads \ {r} : answer'[q] = answer[q]
      /\ \A p \in Peers \ {i} : answer'[r][p] = answer[r][p]
  <2>1. answer' = [answer EXCEPT ![r] = [answer[r] EXCEPT ![i] = o]]
    BY <1>1
  <2>2. answer[r] \in [Peers -> Answers]
    BY <1>3
  <2>3. [answer[r] EXCEPT ![i] = o] \in [Peers -> Answers]
    BY <1>3, <2>2
  <2> QED
    BY <1>3, <2>1, <2>2, <2>3
<1>5. ReadTypes'
  BY <1>2, <1>4 DEF ReadInv, ReadTypes
<1>6. ReadOK(r)'
  <2>1. phase[r] # "idle"
    BY <1>2, <1>3 DEF ReadOK
  <2>2. r \notin twice => \A p \in Peers : answer'[r][p] # "none" => attempt[r] = p
    BY <1>2, <1>3, <1>4 DEF ReadOK
  <2> QED
    BY <1>2, <1>3, <2>1, <2>2 DEF ReadOK, Told
<1>7. \A q \in Reads \ {r} : ReadOK(q)'
  BY <1>2, <1>4, OthersKept DEF ReadInv
<1> QED
  BY <1>2, <1>5, <1>6, <1>7 DEF ReadInv, AbortsOnlyBeyondLocal

\* Every step keeps the invariant.
LEMMA NextReads == ReadInv /\ [ReadNext]_readVars => ReadInv'
<1> SUFFICES ASSUME ReadInv, [ReadNext]_readVars PROVE ReadInv'
  OBVIOUS
<1>1. ASSUME NEW r \in Reads, ReadAsync(r) PROVE ReadInv'
  <2>1. process = "up" /\ phase[r] = "idle" /\ TryNext(r, 0, {}, answer) /\ twice' = twice
    BY <1>1 DEF ReadAsync
  <2>2. ReadTypes /\ ReadOK(r)
    BY DEF ReadInv
  <2>3. /\ called[r] = <<>> /\ attempt[r] = 0 /\ r \notin listed
        /\ \A i \in Peers : answer[r][i] = "none"
    BY <2>1, <2>2 DEF ReadOK, ReadTypes
  <2>4. r \notin twice => bad[r] \cup {} = 0 .. 0 - 1
    BY <2>1, <2>2, <2>3 DEF ReadOK
  <2>5. answer \in [Reads -> [Peers -> Answers]] /\ twice \subseteq Reads
    BY <2>2 DEF ReadTypes
  <2>6. 0 \in Nat /\ {} \in SUBSET Nat /\ attempt[r] <= 0
    BY <2>3
  <2> QED
    BY <2>1, <2>3, <2>4, <2>5, <2>6, TryKeeps
<1>2. ASSUME NEW r \in Reads, LocalReadDone(r) PROVE ReadInv'
  BY <1>2, LocalKeeps
<1>3. ASSUME NEW r \in Reads, NEW i \in Peers, Serve(r, i) PROVE ReadInv'
  BY <1>3, ServeKeeps
<1>4. ASSUME NEW r \in Reads, NEW i \in Peers, ReadResponse(r, i) PROVE ReadInv'
  BY <1>4, ResponseKeeps
<1>5. ASSUME NEW i \in Peers, PeerChange(i) PROVE ReadInv'
  <2>1. UNCHANGED <<attempt, phase, listed, answer, called, bad, twice, process>>
    BY <1>5 DEF PeerChange
  <2>2. peerConn' \in [Peers -> {"none", "busy", "idle"}]
    BY <1>5 DEF PeerChange, ReadInv, ReadTypes
  <2>3. ReadTypes'
    BY <2>1, <2>2 DEF ReadInv, ReadTypes
  <2>4. \A q \in Reads : ReadOK(q)'
    BY <2>1, OthersKept DEF ReadInv
  <2> QED
    BY <2>1, <2>3, <2>4 DEF ReadInv, AbortsOnlyBeyondLocal
<1>6. CASE UNCHANGED readVars
  <2>1. UNCHANGED <<attempt, phase, listed, answer, peerConn, called, bad, twice, process>>
    BY <1>6 DEF readVars
  <2>2. ReadTypes'
    BY <2>1 DEF ReadInv, ReadTypes
  <2>3. \A q \in Reads : ReadOK(q)'
    BY <2>1, OthersKept DEF ReadInv
  <2> QED
    BY <2>1, <2>2, <2>3 DEF ReadInv, AbortsOnlyBeyondLocal
<1> QED
  BY <1>1, <1>2, <1>3, <1>4, <1>5, <1>6 DEF ReadNext

-----------------------------------------------------------------------------
\* ReadAnswersOnce, for any reads, replicas and faults: late, lost or repeated responses
\* never call a user back twice, nor with XSAN_OK and the data of no replica.
THEOREM EveryReadAnsweredOnce == ReadSpec => []ReadAnswersOnce
<1>1. ReadInv => ReadAnswersOnce
  BY DEF ReadInv, ReadOK, ReadAnswersOnce
<1> QED
  BY InitReads, NextReads, <1>1, PTL DEF ReadSpec

\* FailsOnlyIfAllFail, for any reads, replicas and faults: the user is told of an error only
\* after every replica has failed, unless one replica answered twice.
THEOREM FailureMeansAllFailed == ReadSpec => []FailsOnlyIfAllFail
<1>1. ReadInv => FailsOnlyIfAllFail
  BY DEF ReadInv, ReadOK, FailsOnlyIfAllFail
<1> QED
  BY InitReads, NextReads, <1>1, PTL DEF ReadSpec

\* AbortsOnlyBeyondLocal, for any reads, replicas and faults: the double free of a read
\* context needs an attempt beyond the local replica.
THEOREM LocalReadsNeverAbort == ReadSpec => []AbortsOnlyBeyondLocal
<1>1. ReadInv => AbortsOnlyBeyondLocal
  BY DEF ReadInv
<1> QED
  BY InitReads, NextReads, <1>1, PTL DEF ReadSpec
=============================================================================
