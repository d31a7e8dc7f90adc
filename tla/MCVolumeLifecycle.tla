------------------------- MODULE MCVolumeLifecycle -------------------------
(* Instances of VolumeLifecycle for TLC. *)
EXTENDS VolumeLifecycle, TLC

Symmetry == Permutations(VolumeIds) \cup Permutations(Names) \cup Permutations(GroupExtents)

\* Only deletions in the store fail.
EraseOnly == {"delete"}

NoFaults == {}
=============================================================================
