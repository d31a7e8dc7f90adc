------------------------------ MODULE MCExtentIO ------------------------------
(* Two volumes of two extents each on two disks, with block sizes of one and two units. *)
EXTENDS ExtentIO, TLC

TestUnits == "d1" :> 7 @@ "d2" :> 6

TestDiskBlock == "d1" :> 1 @@ "d2" :> 2

TestVolumeBlock == "v1" :> 1 @@ "v2" :> 2

TestNumBlocks == "v1" :> 4 @@ "v2" :> 3

\* The second extent of v2 ends with a unit that is no whole block.
TestExtents ==
  "v1" :> <<[disk |-> "d1", start |-> 0, num |-> 2, lba |-> 0], [disk |-> "d2", start |-> 1, num |-> 1, lba |-> 2]>>
  @@ "v2" :> <<[disk |-> "d2", start |-> 2, num |-> 1, lba |-> 0], [disk |-> "d1", start |-> 2, num |-> 5, lba |-> 1]>>
=============================================================================
