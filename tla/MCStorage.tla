------------------------------ MODULE MCStorage ------------------------------
(***************************************************************************)
(* The two parts of the volume manager that change volumes, for TLC: the   *)
(* replicated writes of one volume, and the creation, deletion and reload  *)
(* of several.  The model of the first fixes its volume, so they share no  *)
(* state, and each behaviour exercises one of them.                        *)
(***************************************************************************)
EXTENDS ReplicatedWrite, VolumeLifecycle, TLC

VARIABLE part

\* The part that rests starts in one state, up to the names of things.
MCInit == /\ part \in {"write", "lifecycle"} /\ Init /\ VolumeInit
          /\ part = "write" => \A v \in VolumeIds : volName[v] = volName[cur]
          /\ part = "lifecycle" => /\ \A i \in Replicas : replicaState[i] = "ONLINE"
                                  /\ \A r \in Remotes : conn[r] = "idle"

MCNext == \/ part = "write" /\ Next /\ UNCHANGED <<part, volumeVars>>
          \/ part = "lifecycle" /\ VolumeNext /\ UNCHANGED <<part, vars>>

MCSpec == MCInit /\ [][MCNext]_<<part, vars, volumeVars>>

AllFaults == FaultKinds

AllVolumeFaults == VolumeFaultKinds

\* Writes, volumes, names and extents are only ever compared.
Symmetry == Permutations(Writes) \cup Permutations(VolumeIds)
              \cup Permutations(Names) \cup Permutations(GroupExtents)
=============================================================================
