---------------------------- MODULE BlockIOProofs ----------------------------
(***************************************************************************)
(* Proof that block I/O accounts for what it acquires and whom it tells,   *)
(* for any asynchronous and synchronous requests in flight together.       *)
(***************************************************************************)
EXTENDS BlockIO, TLAPS

Resources == {"request", "descriptor", "channel", "buffer"}

IoTypes == /\ io \in [Ios -> {"new", "queued", "over"}]
           /\ own \subseteq Requests
           /\ holds \in [Ios -> SUBSET Resources]
           /\ returned \in [Ios -> {"-", "OK", "ERR"}]
           /\ told \in [Ios -> Seq({"OK", "ERR"})]
           /\ refused \subseteq Requests

\* What the end of an I/O accounts for: IoAccounted and, which it does not say, that a
\* channel stays behind only when the descriptor was the caller's.
Accounted(r) ==
  /\ holds[r] \subseteq {"request", "channel"}
  /\ "channel" \in holds[r] => r \in Requests \ own
  /\ "request" \in holds[r] => returned[r] = "ERR" /\ told[r] = <<>>
  /\ Len(told[r]) <= 1
  /\ returned[r] = "OK" /\ r \in Requests => Len(told[r]) = 1
  /\ returned[r] = "ERR" /\ told[r] # <<>> => r \in refused

\* Nobody was told of an I/O that has not ended; a request that holds a descriptor while
\* it is queued at SPDK is one that owns what it acquired.
IoOK(r) ==
  /\ io[r] = "new" => r \notin own /\ told[r] = <<>> /\ holds[r] = {}
  /\ io[r] = "queued" => /\ told[r] = <<>>
                         /\ r \in Requests => /\ returned[r] = "OK"
                                              /\ "descriptor" \in holds[r] => r \in own
  /\ io[r] = "over" => Accounted(r)

IoInv == IoTypes /\ \A r \in Ios : IoOK(r)

-----------------------------------------------------------------------------
\* No I/O was submitted.
LEMMA InitIo == IoInit => IoInv
<1> SUFFICES ASSUME IoInit PROVE IoInv
  OBVIOUS
<1>1. told \in [Ios -> Seq({"OK", "ERR"})]
  BY DEF IoInit
<1>2. IoTypes
  BY <1>1 DEF IoInit, IoTypes, Resources
<1> QED
  BY <1>2 DEF IoInit, IoInv, IoOK

\* A step of one I/O leaves the others alone.
LEMMA OneIo ==
  ASSUME IoInv, NEW r \in Ios, IoTypes', IoOK(r)',
         \A q \in Ios \ {r} : /\ io'[q] = io[q] /\ holds'[q] = holds[q]
                              /\ returned'[q] = returned[q] /\ told'[q] = told[q]
                              /\ (q \in own') = (q \in own)
                              /\ q \in refused => q \in refused'
  PROVE  IoInv'
<1>1. ASSUME NEW q \in Ios \ {r} PROVE IoOK(q)'
  BY <1>1 DEF IoInv, IoOK, Accounted
<1> QED
  BY <1>1 DEF IoInv

\* A status is appended for a user who was told nothing before.
LEMMA ToldFirst ==
  ASSUME IoTypes, NEW r \in Ios, told[r] = <<>>, NEW status \in {"OK", "ERR"},
         told' = [told EXCEPT ![r] = Append(@, status)]
  PROVE  /\ told' \in [Ios -> Seq({"OK", "ERR"})]
         /\ Len(told'[r]) = 1
         /\ \A q \in Ios \ {r} : told'[q] = told[q]
<1>1. told \in [Ios -> Seq({"OK", "ERR"})]
  BY DEF IoTypes
<1>2. Append(told[r], status) \in Seq({"OK", "ERR"}) /\ Len(Append(told[r], status)) = 1
  BY <1>1
<1> QED
  BY <1>1, <1>2

\* xsan_io_submit_request_to_bdev returns.
LEMMA SubmitKeeps ==
  ASSUME IoInv, NEW r \in Requests, NEW given \in BOOLEAN, NEW mapped \in BOOLEAN,
         Submit(r, given, mapped)
  PROVE  IoInv'
<1>1. r \in Ios /\ io[r] = "new" /\ r \notin own /\ told[r] = <<>> /\ IoTypes
  BY DEF Submit, IoInv, IoOK, Ios
<1>2. ASSUME NEW opened \in BOOLEAN, NEW left \in SUBSET {"channel"}, Leave(r, opened, left),
             "channel" \in left => ~opened
      PROVE  IoInv'
  <2>1. /\ io'[r] = "over" /\ holds'[r] = {"request"} \cup left /\ returned'[r] = "ERR"
        /\ told' = told /\ refused' = refused /\ own' = IF opened THEN own \cup {r} ELSE own
        /\ \A q \in Ios \ {r} : io'[q] = io[q] /\ holds'[q] = holds[q] /\ returned'[q] = returned[q]
    BY <1>1, <1>2 DEF Leave, IoTypes
  <2>2. IoTypes'
    BY <1>1, <1>2 DEF Leave, IoTypes, Resources
  <2>3. Len(told'[r]) = 0 /\ told'[r] = <<>>
    BY <1>1, <2>1
  <2>4. IoOK(r)'
    BY <1>1, <1>2, <2>1, <2>3 DEF IoOK, Accounted
  <2> QED
    BY <1>1, <2>1, <2>2, <2>4, OneIo
<1>3. ASSUME NEW got \in SUBSET {"descriptor", "channel"}, NEW owner \in BOOLEAN,
             "descriptor" \in got => owner, SpdkRefuses(r, owner, got)
      PROVE  IoInv'
  <2>1. /\ told' \in [Ios -> Seq({"OK", "ERR"})]
        /\ Len(told'[r]) = 1
        /\ \A q \in Ios \ {r} : told'[q] = told[q]
    BY <1>1, <1>3, ToldFirst DEF SpdkRefuses
  <2>2. /\ io'[r] = "over" /\ holds'[r] = got \ GivesBack(owner) /\ returned'[r] = "ERR"
        /\ refused' = refused \cup {r} /\ own' = IF owner THEN own \cup {r} ELSE own
        /\ \A q \in Ios \ {r} : io'[q] = io[q] /\ holds'[q] = holds[q] /\ returned'[q] = returned[q]
    BY <1>1, <1>3 DEF SpdkRefuses, IoTypes
  <2>3. IoTypes'
    BY <1>1, <1>3, <2>1 DEF SpdkRefuses, IoTypes, Resources
  <2>4. IoOK(r)'
    BY <1>1, <1>3, <2>1, <2>2 DEF IoOK, Accounted, GivesBack
  <2> QED
    BY <1>1, <2>1, <2>2, <2>3, <2>4, OneIo
<1>4. ASSUME NEW got \in SUBSET Resources,
             "descriptor" \in got => ~given,
             io' = [io EXCEPT ![r] = "queued"], own' = IF given THEN own ELSE own \cup {r},
             holds' = [holds EXCEPT ![r] = got],
             returned' = [returned EXCEPT ![r] = "OK"], UNCHANGED <<told, refused>>
      PROVE  IoInv'
  <2>1. /\ io'[r] = "queued" /\ holds'[r] = got /\ returned'[r] = "OK"
        /\ \A q \in Ios \ {r} : io'[q] = io[q] /\ holds'[q] = holds[q] /\ returned'[q] = returned[q]
    BY <1>1, <1>4 DEF IoTypes
  <2>2. IoTypes'
    BY <1>1, <1>4 DEF IoTypes
  <2>3. IoOK(r)'
    BY <1>1, <1>4, <2>1 DEF IoOK
  <2> QED
    BY <1>1, <1>4, <2>1, <2>2, <2>3, OneIo
<1> DEFINE opened == IF given THEN {} ELSE {"descriptor"}
           got == {"request", "channel"} \cup opened \cup IF mapped THEN {} ELSE {"buffer"}
<1>5. got \in SUBSET Resources /\ ("descriptor" \in got => ~given)
  BY DEF Resources
<1>6. opened \cup {"channel"} \in SUBSET {"descriptor", "channel"} /\ ("descriptor" \in opened \cup {"channel"} => ~given)
  OBVIOUS
<1>7. \/ Leave(r, FALSE, {})
      \/ Leave(r, ~given, {})
      \/ Leave(r, ~given, IF given THEN {"channel"} ELSE {})
      \/ SpdkRefuses(r, ~given, opened \cup {"channel"})
      \/ /\ io' = [io EXCEPT ![r] = "queued"]
         /\ own' = IF given THEN own ELSE own \cup {r}
         /\ holds' = [holds EXCEPT ![r] = got]
         /\ returned' = [returned EXCEPT ![r] = "OK"]
         /\ UNCHANGED <<told, refused>>
  BY DEF Submit
<1>8. FALSE \in BOOLEAN /\ (~given) \in BOOLEAN
  OBVIOUS
<1>9. (IF given THEN {"channel"} ELSE {}) \in SUBSET {"channel"}
      /\ ("channel" \in (IF given THEN {"channel"} ELSE {}) => given)
  OBVIOUS
<1> HIDE DEF opened, got
<1> QED
  BY <1>2, <1>3, <1>4, <1>5, <1>6, <1>7, <1>8, <1>9

\* SPDK completes an asynchronous request.
LEMMA CompletionKeeps ==
  ASSUME IoInv, NEW r \in Requests, NEW status \in {"OK", "ERR"}, Completion(r, status)
  PROVE  IoInv'
<1>1. r \in Ios /\ io[r] = "queued" /\ IoTypes /\ IoOK(r)
  BY DEF Completion, IoInv, Ios
<1>2. told[r] = <<>> /\ returned[r] = "OK" /\ ("descriptor" \in holds[r] => r \in own) /\ holds[r] \subseteq Resources
  BY <1>1 DEF IoOK, IoTypes
<1>3. /\ told' \in [Ios -> Seq({"OK", "ERR"})]
      /\ Len(told'[r]) = 1
      /\ \A q \in Ios \ {r} : told'[q] = told[q]
  BY <1>1, <1>2, ToldFirst DEF Completion
<1>4. /\ io'[r] = "over" /\ holds'[r] = (holds[r] \ GivesBack(r \in own)) \ {"request", "buffer"}
      /\ \A q \in Ios \ {r} : io'[q] = io[q] /\ holds'[q] = holds[q]
      /\ UNCHANGED <<own, returned, refused>>
  BY <1>1 DEF Completion, IoTypes
<1>5. IoTypes'
  BY <1>1, <1>3 DEF Completion, IoTypes
<1>6. holds'[r] \subseteq {"channel"} /\ (r \in own => holds'[r] = {})
  BY <1>2, <1>4 DEF GivesBack, Resources
<1>7. IoOK(r)'
  BY <1>1, <1>2, <1>3, <1>4, <1>6 DEF IoOK, Accounted
<1> QED
  BY <1>1, <1>3, <1>4, <1>5, <1>7, OneIo

\* The synchronous calls give everything back themselves.
LEMMA SyncKeeps ==
  ASSUME IoInv, NEW r \in Syncs,
         \/ \E internal \in BOOLEAN : SyncStart(r, internal)
         \/ \E status \in {"OK", "ERR"} : SyncEnd(r, status)
  PROVE  IoInv'
<1>1. r \in Ios /\ r \notin Requests /\ IoTypes /\ IoOK(r)
  BY IoAssumption DEF IoInv, Ios
<1>2. r \notin own /\ told[r] = <<>> /\ UNCHANGED <<own, told, refused>>
  BY <1>1 DEF SyncStart, SyncEnd, IoTypes, IoOK
<1>3. Len(told[r]) = 0
  BY <1>2
<1>4. ASSUME NEW internal \in BOOLEAN, SyncStart(r, internal) PROVE IoInv'
  <2>0. {"descriptor", "channel"} \cup (IF internal THEN {"buffer"} ELSE {}) \in SUBSET Resources
    BY DEF Resources
  <2>1. IoTypes'
    <3>1. holds' \in [Ios -> SUBSET Resources]
      BY <1>1, <1>4, <2>0 DEF SyncStart, IoTypes
    <3>2. io' \in [Ios -> {"new", "queued", "over"}] /\ returned' \in [Ios -> {"-", "OK", "ERR"}]
      BY <1>1, <1>4 DEF SyncStart, IoTypes
    <3> QED
      BY <1>1, <1>2, <3>1, <3>2 DEF IoTypes
  <2>2. \A q \in Ios \ {r} : io'[q] = io[q] /\ holds'[q] = holds[q] /\ returned'[q] = returned[q]
    BY <1>1, <1>4 DEF SyncStart, IoTypes
  <2>3. CASE io' = [io EXCEPT ![r] = "over"] /\ UNCHANGED holds
    <3>1. io'[r] = "over" /\ io[r] = "new"
      BY <1>1, <1>4, <2>3 DEF SyncStart, IoTypes
    <3>2. holds'[r] = {} /\ told'[r] = <<>>
      BY <1>1, <1>2, <2>3, <3>1 DEF IoOK
    <3>3. IoOK(r)'
      BY <1>1, <1>2, <1>3, <3>1, <3>2 DEF IoOK, Accounted
    <3> QED
      BY <1>1, <1>2, <2>1, <2>2, <3>3, OneIo
  <2>4. CASE io' = [io EXCEPT ![r] = "queued"]
    <3>1. io'[r] = "queued"
      BY <1>1, <2>4 DEF IoTypes
    <3>2. IoOK(r)'
      BY <1>1, <1>2, <3>1 DEF IoOK
    <3> QED
      BY <1>1, <1>2, <2>1, <2>2, <3>2, OneIo
  <2> QED
    BY <1>4, <2>3, <2>4 DEF SyncStart
<1>5. ASSUME NEW status \in {"OK", "ERR"}, SyncEnd(r, status) PROVE IoInv'
  <2>1. IoTypes'
    BY <1>1, <1>2, <1>5 DEF SyncEnd, IoTypes
  <2>2. /\ io'[r] = "over" /\ holds'[r] = {}
        /\ \A q \in Ios \ {r} : io'[q] = io[q] /\ holds'[q] = holds[q] /\ returned'[q] = returned[q]
    BY <1>1, <1>5 DEF SyncEnd, IoTypes
  <2>3. IoOK(r)'
    BY <1>1, <1>2, <1>3, <2>2 DEF IoOK, Accounted
  <2> QED
    BY <1>1, <1>2, <2>1, <2>2, <2>3, OneIo
<1> QED
  BY <1>4, <1>5

\* Every step keeps the invariant.
LEMMA NextIo == IoInv /\ [IoNext]_ioVars => IoInv'
<1> SUFFICES ASSUME IoInv, [IoNext]_ioVars PROVE IoInv'
  OBVIOUS
<1>1. ASSUME NEW r \in Requests, NEW given \in BOOLEAN, NEW mapped \in BOOLEAN, Submit(r, given, mapped)
      PROVE  IoInv'
  BY <1>1, SubmitKeeps
<1>2. ASSUME NEW r \in Syncs, NEW internal \in BOOLEAN, SyncStart(r, internal) PROVE IoInv'
  BY <1>2, SyncKeeps
<1>3. ASSUME NEW r \in Ios, Finish(r) PROVE IoInv'
  BY <1>3, CompletionKeeps, SyncKeeps DEF Finish, Ios
<1>4. CASE UNCHANGED ioVars
  BY <1>4 DEF ioVars, IoInv, IoTypes, IoOK, Accounted
<1> QED
  BY <1>1, <1>2, <1>3, <1>4 DEF IoNext

-----------------------------------------------------------------------------
\* IoAccounted, for any number of requests in flight: every way out of the asynchronous and
\* the synchronous path gives back what it must and tells the user what it must.
THEOREM EveryIoAccounted == IoSpec => []IoAccounted
<1>1. ASSUME NEW r \in Ios, Accounted(r) PROVE holds[r] \cap {"descriptor", "buffer"} = {}
  BY <1>1 DEF Accounted
<1>2. IoInv => IoAccounted
  BY <1>1 DEF IoInv, IoOK, Accounted, IoAccounted
<1> QED
  BY InitIo, NextIo, <1>2, PTL DEF IoSpec
=============================================================================
