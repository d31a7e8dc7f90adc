----------------------- MODULE VolumeLifecycleProofs -----------------------
(***************************************************************************)
(* What VolumeLifecycle promises for any number of volumes, names and      *)
(* extents and under any set of faults.                                    *)
(***************************************************************************)
EXTENDS VolumeLifecycle, TLAPS

\* Every step of create, delete, load and shutdown keeps the types.
LEMMA VolumeNextType == VolumeTypeOK /\ [VolumeNext]_volumeVars => VolumeTypeOK'
<1> SUFFICES ASSUME VolumeTypeOK, [VolumeNext]_volumeVars PROVE VolumeTypeOK'
  OBVIOUS
<1> USE DEF VolumeTypeOK, CreateSteps, DeleteSteps, VolumeFaultKinds
<1>1. ASSUME NEW v \in VolumeIds, CreateRefused(v) PROVE VolumeTypeOK'
  BY <1>1 DEF CreateRefused, Tell
<1>2. ASSUME NEW v \in VolumeIds, CreateBegin(v) PROVE VolumeTypeOK'
  BY <1>2 DEF CreateBegin, Tell
<1>3. ASSUME NEW v \in VolumeIds, DeleteBegin(v) PROVE VolumeTypeOK'
  BY <1>3, Zenon DEF DeleteBegin, Tell
<1>4. CASE PutAlloc
  BY <1>4 DEF PutAlloc
<1>5. CASE PutVol
  BY <1>5 DEF PutVol
<1>6. CASE AppendManaged
  BY <1>6 DEF AppendManaged, Tell
<1>7. CASE UndoAlloc
  BY <1>7, Zenon DEF UndoAlloc, Erase
<1>8. CASE UndoVol
  BY <1>8, Zenon DEF UndoVol, Erase
<1>9. CASE UndoExtents
  BY <1>9, Zenon DEF UndoExtents, FreeExtents, Tell
<1>10. CASE DeleteFree
  BY <1>10, Zenon DEF DeleteFree, FreeExtents
<1>11. CASE DeleteAlloc
  BY <1>11, Zenon DEF DeleteAlloc, Erase
<1>12. CASE DeleteVol
  BY <1>12, Zenon DEF DeleteVol, Erase, Tell
<1>13. CASE Fini
  BY <1>13 DEF Fini
<1>14. CASE Crash
  BY <1>14 DEF Crash
<1>15. CASE Load
  BY <1>15, Zenon DEF Load
<1>16. CASE UNCHANGED volumeVars
  BY <1>16 DEF volumeVars
<1> QED
  BY <1>1, <1>2, <1>3, <1>4, <1>5, <1>6, <1>7, <1>8, <1>9, <1>10, <1>11, <1>12,
     <1>13, <1>14, <1>15, <1>16 DEF VolumeNext

\* Every variable of the volume lifecycle keeps its type.
THEOREM LifecycleTypes == VolumeSpec => []VolumeTypeOK
<1>1. VolumeInit => VolumeTypeOK
  BY Zenon DEF VolumeInit, VolumeTypeOK
<1> QED
  BY <1>1, VolumeNextType, PTL DEF VolumeSpec

-----------------------------------------------------------------------------
(* Created volumes are safe.  The invariant adds what the operation in       *)
(* progress owns, and that it is apart from every created volume.            *)

Safe(v) == v \in vrec /\ v \in arec /\ ext[v] \subseteq used

Apart == \A u, v \in VolumeIds : u # v /\ reply[u] = "created" /\ reply[v] = "created"
                               => ext[u] \cap ext[v] = {}

\* The operation holding vm->lock.
InProgress ==
  pc # "idle" =>
    /\ reply[cur] = "pending"
    /\ \A v \in VolumeIds : reply[v] = "created" => ext[cur] \cap ext[v] = {}
    /\ pc \in {"put_alloc", "put_vol", "append"} => ext[cur] \subseteq used
    /\ pc \in {"put_vol", "append"} => cur \in arec
    /\ pc = "append" => cur \in vrec

\* What a running manager lists was created, or is being deleted.
ListedStored == process = "running" => \A v \in managed :
            reply[v] = "created" \/ (v = cur /\ pc \in DeleteSteps)

SafeInv == /\ \A v \in VolumeIds : reply[v] = "created" => Safe(v)
           /\ Apart /\ InProgress /\ ListedStored

\* No step of a creation, a deletion, a crash or a load breaks what a created volume
\* relies on: its extents stay its own and its record stays stored.
LEMMA NextSafe == VolumeTypeOK /\ SafeInv /\ [VolumeNext]_volumeVars => SafeInv'
<1> SUFFICES ASSUME VolumeTypeOK, SafeInv, [VolumeNext]_volumeVars PROVE SafeInv'
  OBVIOUS
<1> USE DEF VolumeTypeOK, SafeInv, Safe, Apart, InProgress, ListedStored, At, CreateSteps, DeleteSteps
<1>1. ASSUME NEW v \in VolumeIds, CreateRefused(v) PROVE SafeInv'
  BY <1>1 DEF CreateRefused, Tell
<1>2. ASSUME NEW v \in VolumeIds, CreateBegin(v) PROVE SafeInv'
  <2>1. PICK E \in SUBSET (GroupExtents \ used) : ext' = [ext EXCEPT ![v] = E] /\ used' = used \cup E
    BY <1>2, Zenon DEF CreateBegin
  <2>2. /\ reply[v] = "none" /\ reply' = [reply EXCEPT ![v] = "pending"]
        /\ pc = "idle" /\ pc' = "put_alloc" /\ cur' = v /\ process = "running"
        /\ vrec' = vrec /\ arec' = arec /\ managed' = managed /\ process' = process
    BY <1>2 DEF CreateBegin, Tell
  <2>3. \A u \in VolumeIds : reply'[u] = "created" => u # v /\ reply[u] = "created" /\ ext'[u] = ext[u]
    BY <2>1, <2>2
  <2>4. (\A u \in VolumeIds : reply[u] = "created" => Safe(u))'
    BY <2>1, <2>2, <2>3
  <2>5. Apart'
    BY <2>3
  <2>6. InProgress'
    BY <2>1, <2>2, <2>3
  <2>7. ListedStored'
    BY <2>2
  <2> QED
    BY <2>4, <2>5, <2>6, <2>7
<1>3. ASSUME NEW v \in VolumeIds, DeleteBegin(v) PROVE SafeInv'
  <2>1. /\ reply[v] = "created" /\ reply' = [reply EXCEPT ![v] = "pending"] /\ pc = "idle"
        /\ cur' = v /\ pc' \in {"free", "del_alloc"} /\ process = "running" /\ process' = process
        /\ UNCHANGED <<managed, vrec, arec, ext, used>>
    BY <1>3 DEF DeleteBegin, Tell
  <2>2. \A u \in VolumeIds : reply'[u] = "created" => u # v /\ reply[u] = "created"
    BY <2>1
  <2> QED
    BY <2>1, <2>2
<1>4. CASE PutAlloc
  BY <1>4 DEF PutAlloc
<1>5. CASE PutVol
  BY <1>5 DEF PutVol
<1>6. CASE AppendManaged
  <2>1. CASE managed' = managed \cup {cur} /\ pc' = "idle" /\ Tell(cur, "created")
    BY <1>6, <2>1 DEF AppendManaged, Tell
  <2>2. CASE pc' = "undo_alloc" /\ UNCHANGED <<managed, reply>>
    BY <1>6, <2>2 DEF AppendManaged
  <2> QED
    BY <1>6, <2>1, <2>2 DEF AppendManaged
<1>7. CASE UndoAlloc
  BY <1>7 DEF UndoAlloc, Erase
<1>8. CASE UndoVol
  BY <1>8 DEF UndoVol, Erase
<1>9. CASE UndoExtents
  BY <1>9 DEF UndoExtents, FreeExtents, Tell
<1>10. CASE DeleteFree
  BY <1>10 DEF DeleteFree, FreeExtents
<1>11. CASE DeleteAlloc
  BY <1>11 DEF DeleteAlloc, Erase
<1>12. CASE DeleteVol
  BY <1>12 DEF DeleteVol, Erase, Tell
<1>13. CASE Fini
  BY <1>13 DEF Fini
<1>14. CASE Crash
  BY <1>14 DEF Crash
<1>15. CASE Load
  BY <1>15 DEF Load
<1>16. CASE UNCHANGED volumeVars
  BY <1>16 DEF volumeVars
<1> QED
  BY <1>1, <1>2, <1>3, <1>4, <1>5, <1>6, <1>7, <1>8, <1>9, <1>10, <1>11, <1>12,
     <1>13, <1>14, <1>15, <1>16 DEF VolumeNext

\* CreatedIsSafe for any number of volumes and extents: no roll-back, deletion or
\* crash takes a record or an extent from a volume reported as created.
THEOREM CreatedStaysSafe == VolumeSpec => []CreatedIsSafe
<1>1. VolumeInit => VolumeTypeOK /\ SafeInv
  BY DEF VolumeInit, VolumeTypeOK, SafeInv, Safe, Apart, InProgress, ListedStored
<1>2. SafeInv => CreatedIsSafe
  BY DEF SafeInv, Safe, Apart, CreatedIsSafe
<1> QED
  BY <1>1, <1>2, VolumeNextType, NextSafe, PTL DEF VolumeSpec

-----------------------------------------------------------------------------
(* Store, list and extents agree.  The invariant says how far they differ at *)
(* every step of an operation while nothing has leaked.                      *)

\* Exactly the extents of the volumes in S are allocated.
Allocated(S) == \A e \in GroupExtents : e \in used <=> \E v \in S : e \in ext[v]

ListWith == managed \cup {cur}

ListWithout == managed \ {cur}

\* The volumes that have a "v:" record, a "volalloc:" record, and extents.
Agree(V, A, U) == vrec = V /\ arec = A /\ Allocated(U)

StepAgrees ==
  /\ pc = "idle"         => Agree(managed, managed, managed)
  /\ pc = "put_alloc"    => Agree(managed, managed, ListWith)
  /\ pc = "put_vol"      => Agree(managed, ListWith, ListWith)
  /\ pc = "append"       => Agree(ListWith, ListWith, ListWith)
  /\ pc = "undo_alloc"   => Agree(managed, ListWith, ListWith) \/ Agree(ListWith, ListWith, ListWith)
  /\ pc = "undo_vol"     => Agree(ListWith, managed, ListWith)
  /\ pc = "undo_extents" => Agree(managed, managed, ListWith)
  /\ pc = "free"         => Agree(managed, managed, managed)
  /\ pc = "del_alloc"    => Agree(managed, managed, ListWithout)
  /\ pc = "del_vol"      => Agree(managed, ListWithout, ListWithout)

DistinctNames(S) == \A u, v \in S : u # v => volName[u] # volName[v]

AgreeInv ==
  leaks = {} =>
    /\ process = "running" =>
         /\ StepAgrees
         /\ pc \in CreateSteps => cur \notin managed /\ DistinctNames(ListWith)
         /\ pc \in DeleteSteps => cur \in managed
         /\ DistinctNames(managed)
    /\ process # "running" => pc = "idle" /\ Agree(vrec, vrec, vrec)

\* A volume in the list of a running manager shares no extent with the volume
\* the operation in progress is about.
LEMMA ListedApart ==
  ASSUME VolumeTypeOK, SafeInv, process = "running", pc # "idle", NEW v \in managed, v # cur
  PROVE  ext[cur] \cap ext[v] = {}
  BY DEF VolumeTypeOK, SafeInv, ListedStored, InProgress

\* Freeing the extents of cur leaves those of the other listed volumes.
LEMMA FreeAgrees ==
  ASSUME VolumeTypeOK, SafeInv, process = "running", pc # "idle", Allocated(ListWith),
         used' = used \ ext[cur], ext' = ext
  PROVE  \A e \in GroupExtents : e \in used' <=> \E v \in ListWithout : e \in ext'[v]
  BY ListedApart DEF Allocated, ListWith, ListWithout

\* While nothing has leaked, every step keeps the allocator's bitmap, the stored records
\* and the list of managed volumes in agreement.
LEMMA NextAgree == VolumeTypeOK /\ SafeInv /\ AgreeInv /\ [VolumeNext]_volumeVars => AgreeInv'
<1> SUFFICES ASSUME VolumeTypeOK, SafeInv, AgreeInv, [VolumeNext]_volumeVars, leaks' = {} PROVE AgreeInv'
  BY DEF AgreeInv
<1> USE DEF AgreeInv, StepAgrees, Agree, Allocated, ListWith, ListWithout, DistinctNames, At,
            CreateSteps, DeleteSteps
<1>1. ASSUME NEW v \in VolumeIds, CreateRefused(v) PROVE AgreeInv'
  BY <1>1 DEF CreateRefused
<1>2. ASSUME NEW v \in VolumeIds, CreateBegin(v) PROVE AgreeInv'
  <2>1. PICK E \in SUBSET (GroupExtents \ used) : ext' = [ext EXCEPT ![v] = E] /\ used' = used \cup E
    BY <1>2, Zenon DEF CreateBegin
  <2>2. /\ reply[v] = "none" /\ ~VolumeNameTaken(v) /\ pc = "idle" /\ pc' = "put_alloc" /\ cur' = v
        /\ process = "running" /\ UNCHANGED <<process, managed, vrec, arec, volName, leaks>>
    BY <1>2 DEF CreateBegin
  <2>3. v \notin managed
    BY <2>2 DEF SafeInv, ListedStored
  <2>4. ext'[v] = E /\ \A u \in managed : ext'[u] = ext[u]
    BY <2>1, <2>3 DEF VolumeTypeOK
  <2>5. \A e \in GroupExtents : e \in used' <=> \E u \in managed \cup {v} : e \in ext'[u]
    BY <2>1, <2>2, <2>4
  <2>6. \A u, t \in managed \cup {v} : u # t => volName[u] # volName[t]
    BY <2>2 DEF VolumeNameTaken
  <2> QED
    BY <2>2, <2>3, <2>5, <2>6
<1>3. ASSUME NEW v \in VolumeIds, DeleteBegin(v) PROVE AgreeInv'
  BY <1>3, Zenon DEF DeleteBegin
<1>4. CASE PutAlloc
  BY <1>4, Zenon DEF PutAlloc
<1>5. CASE PutVol
  BY <1>5, Zenon DEF PutVol
<1>6. CASE AppendManaged
  BY <1>6 DEF AppendManaged
<1>7. CASE UndoAlloc
  <2>1. leaks = {} /\ arec' = arec \ {cur}
    BY <1>7 DEF UndoAlloc, Erase
  <2> QED
    BY <1>7, <2>1, Zenon DEF UndoAlloc
<1>8. CASE UndoVol
  <2>1. leaks = {} /\ vrec' = vrec \ {cur}
    BY <1>8, Zenon DEF UndoVol, Erase
  <2> QED
    BY <1>8, <2>1 DEF UndoVol
<1>9. CASE UndoExtents
  <2>1. leaks = {} /\ used' = used \ ext[cur]
    BY <1>9 DEF UndoExtents, FreeExtents
  <2>2. \A e \in GroupExtents : e \in used' <=> \E v \in ListWithout : e \in ext'[v]
    BY <1>9, <2>1, FreeAgrees DEF UndoExtents
  <2>3. ListWithout = managed
    BY <1>9, <2>1, Zenon DEF UndoExtents
  <2> QED
    BY <1>9, <2>1, <2>2, <2>3 DEF UndoExtents
<1>10. CASE DeleteFree
  <2>1. leaks = {} /\ used' = used \ ext[cur]
    BY <1>10 DEF DeleteFree, FreeExtents
  <2>2. ListWith = managed
    BY <1>10, <2>1 DEF DeleteFree
  <2>3. \A e \in GroupExtents : e \in used' <=> \E v \in ListWithout : e \in ext'[v]
    BY <1>10, <2>1, <2>2, FreeAgrees, Zenon DEF DeleteFree
  <2> QED
    BY <1>10, <2>1, <2>3 DEF DeleteFree
<1>11. CASE DeleteAlloc
  <2>1. leaks = {} /\ arec' = arec \ {cur}
    BY <1>11, Zenon DEF DeleteAlloc, Erase
  <2> QED
    BY <1>11, <2>1 DEF DeleteAlloc
<1>12. CASE DeleteVol
  <2>1. leaks = {} /\ vrec' = vrec \ {cur}
    BY <1>12 DEF DeleteVol, Erase
  <2> QED
    BY <1>12, <2>1 DEF DeleteVol
<1>13. CASE Fini
  BY <1>13 DEF Fini
<1>14. CASE Crash
  BY <1>14, Zenon DEF Crash, VolumeTypeOK
<1>15. CASE Load
  BY <1>15, Zenon DEF Load
<1>16. CASE UNCHANGED volumeVars
  BY <1>16 DEF volumeVars
<1> QED
  BY <1>1, <1>2, <1>3, <1>4, <1>5, <1>6, <1>7, <1>8, <1>9, <1>10, <1>11, <1>12,
     <1>13, <1>14, <1>15, <1>16, Zenon DEF VolumeNext

\* Consistent for any number of volumes, names and extents: refused and rolled
\* back creations leave nothing behind, and deletions leave nothing either.
THEOREM StoreAgrees == VolumeSpec => []Consistent
<1>1. VolumeInit => VolumeTypeOK /\ SafeInv /\ AgreeInv
  BY Zenon DEF VolumeInit, VolumeTypeOK, SafeInv, Safe, Apart, InProgress, ListedStored, AgreeInv, StepAgrees, Agree,
         Allocated, DistinctNames, CreateSteps, DeleteSteps
<1>2. VolumeTypeOK /\ AgreeInv => Consistent
  <2> SUFFICES ASSUME VolumeTypeOK, AgreeInv, At("idle"), leaks = {}
               PROVE  /\ managed = vrec /\ managed = arec
                      /\ used = UNION {ext[v] : v \in managed}
                      /\ \A u, v \in managed : u # v => volName[u] # volName[v]
    BY DEF Consistent
  <2>1. Agree(managed, managed, managed) /\ DistinctNames(managed)
    BY DEF AgreeInv, StepAgrees, At
  <2>2. used \subseteq GroupExtents /\ \A v \in managed : ext[v] \subseteq GroupExtents
    BY DEF VolumeTypeOK
  <2>3. used = UNION {ext[v] : v \in managed}
    BY <2>1, <2>2 DEF Agree, Allocated
  <2> QED
    BY <2>1, <2>3, Zenon DEF Agree, DistinctNames
<1> QED
  BY <1>1, <1>2, VolumeNextType, NextSafe, NextAgree, PTL DEF VolumeSpec
=============================================================================
