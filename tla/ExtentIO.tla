------------------------------- MODULE ExtentIO -------------------------------
(***************************************************************************)
(* Where the bytes of a volume go: xsan_volume_map_lba_to_physical and     *)
(* _xsan_volume_submit_single_io_attempt of storage/volume_manager.c, over *)
(* the extents stored with each volume.  Sizes are in units of which every *)
(* block size is a multiple.  The volumes and their extents are fixed: the *)
(* code never changes the extents of a volume.                             *)
(***************************************************************************)
EXTENDS Naturals, Sequences

CONSTANTS Volumes,
          Disks,
          DiskUnits,    \* the size of each disk
          DiskBlock,    \* block_size_bytes of each disk
          VolumeBlock,  \* block_size_bytes of each volume
          NumBlocks,    \* num_blocks of each volume
          Extents,      \* the extents of each volume, as they were allocated
          MaxExtents,   \* XSAN_MAX_EXTENTS_PER_VOLUME
          MaxWrites     \* bound: how often the volumes are written

VARIABLES disk,         \* what each unit of each disk holds
          volume,       \* history: what was last written to each unit of each volume
          present,      \* the disks the disk manager finds, with an open descriptor
          strayed,      \* history: a write left its extent, or began inside a disk block
          writes        \* how many writes there were

extentVars == <<disk, volume, present, strayed, writes>>

Unwritten == <<>>

\* _xsan_json_string_to_volume_allocation_meta after _xsan_volume_allocation_meta_to_json_string:
\* the extents come back as they were, but no more than the array holds.
Stored(v) == IF Len(Extents[v]) <= MaxExtents THEN Extents[v] ELSE SubSeq(Extents[v], 1, MaxExtents)

\* How many blocks of the volume an extent holds.
BlocksIn(v, e) == (e.num * DiskBlock[e.disk]) \div VolumeBlock[v]

\* What the volumes were created with: xsan_volume_create refuses an allocation of more
\* extents than the array holds, the allocator hands out parts of a disk that lie apart,
\* and each extent has blocks of the volume of its own.
ASSUME ExtentAssumption ==
  /\ DiskUnits \in [Disks -> Nat] /\ DiskBlock \in [Disks -> Nat \ {0}]
  /\ VolumeBlock \in [Volumes -> Nat \ {0}] /\ NumBlocks \in [Volumes -> Nat]
  /\ Extents \in [Volumes -> Seq([disk : Disks, start : Nat, num : Nat, lba : Nat])]
  /\ MaxExtents \in Nat /\ \A v \in Volumes : Len(Extents[v]) <= MaxExtents
  /\ \A v \in Volumes : \A i \in DOMAIN Extents[v] :
       LET e == Extents[v][i]
       IN  /\ (e.start + e.num) * DiskBlock[e.disk] <= DiskUnits[e.disk]
           /\ \A w \in Volumes : \A j \in DOMAIN Extents[w] :
                LET f == Extents[w][j]
                IN  /\ <<v, i>> # <<w, j>> /\ e.disk = f.disk =>
                         e.start + e.num <= f.start \/ f.start + f.num <= e.start
                    /\ v = w /\ i # j =>
                         e.lba + BlocksIn(v, e) <= f.lba \/ f.lba + BlocksIn(v, f) <= e.lba

Blocks(v) == 0 .. NumBlocks[v] - 1

Units(v) == 0 .. NumBlocks[v] * VolumeBlock[v] - 1

ExtentInit == /\ disk = [d \in Disks |-> [p \in 0 .. DiskUnits[d] - 1 |-> Unwritten]]
              /\ volume = [v \in Volumes |-> [u \in Units(v) |-> Unwritten]]
              /\ present = Disks
              /\ strayed = FALSE
              /\ writes = 0

-----------------------------------------------------------------------------
Holds(v, e, lba) == e.disk \in present /\ e.lba <= lba /\ lba < e.lba + BlocksIn(v, e)

\* The first extent on a disk that is there and that holds the block; 0 when there is none.
Holder(v, lba) ==
  LET holders == {i \in 1 .. Len(Stored(v)) : Holds(v, Stored(v)[i], lba)}
  IN  IF holders = {} THEN 0 ELSE CHOOSE i \in holders : \A j \in holders : i <= j

\* Faulty variant of Maps: the offset is added in blocks of the volume.
MapsUnscaled(v, lba) ==
  LET s == Stored(v)
      i == Holder(v, lba)
  IN  IF i = 0 THEN <<>>
      ELSE <<[disk |-> s[i].disk, block |-> s[i].start + (lba - s[i].lba)]>>

\* xsan_volume_map_lba_to_physical: the extent that holds the block gives the disk and
\* the block on it.  Empty when there is none.
Maps(v, lba) ==
  LET s == Stored(v)
      i == Holder(v, lba)
  IN  IF i = 0 THEN <<>>
      ELSE <<[disk |-> s[i].disk,
              block |-> s[i].start + ((lba - s[i].lba) * VolumeBlock[v]) \div DiskBlock[s[i].disk]]>>

\* _xsan_volume_submit_single_io_attempt for n blocks from lba: only the first block is
\* mapped, and the I/O goes to as many units from there on.  Empty when it is refused:
\* the first block is not mapped, the length is no multiple of the disk's block, or
\* the disk ends before (the last is SPDK's answer).
Target(v, lba, n) ==
  LET m == Maps(v, lba)
      len == n * VolumeBlock[v]
      from == m[1].block * DiskBlock[m[1].disk]
  IN  IF m = <<>> THEN <<>>
      ELSE IF len % DiskBlock[m[1].disk] # 0 \/ from + len > DiskUnits[m[1].disk] THEN <<>>
      ELSE <<[disk |-> m[1].disk, from |-> from]>>

\* The I/O lies in one extent and begins with a block of the disk.
Proper(v, lba, n) ==
  \E i \in DOMAIN Extents[v] :
    LET e == Extents[v][i]
    IN  /\ Holds(v, e, lba) /\ Holds(v, e, lba + n - 1)
        /\ ((lba - e.lba) * VolumeBlock[v]) % DiskBlock[e.disk] = 0

Ranges(v) == {r \in Blocks(v) \X (1 .. NumBlocks[v]) : r[1] + r[2] <= NumBlocks[v]}

\* An accepted write that SPDK carries out.
VolumeWrite(v, lba, n) ==
  /\ writes < MaxWrites /\ Target(v, lba, n) # <<>>
  /\ LET t == Target(v, lba, n)[1]
         len == n * VolumeBlock[v]
         first == lba * VolumeBlock[v]
     IN  /\ disk' = [disk EXCEPT ![t.disk] =
                       [p \in DOMAIN @ |-> IF p \in t.from .. t.from + len - 1
                                           THEN <<v, first + p - t.from, writes + 1>> ELSE @[p]]]
         /\ volume' = [volume EXCEPT ![v] =
                         [u \in DOMAIN @ |-> IF u \in first .. first + len - 1
                                             THEN <<v, u, writes + 1>> ELSE @[u]]]
  /\ strayed' = (strayed \/ ~Proper(v, lba, n))
  /\ writes' = writes + 1
  /\ UNCHANGED present

\* A read that SPDK carries out.
VolumeRead(v, lba, n) ==
  LET t == Target(v, lba, n)[1]
  IN  [i \in 0 .. n * VolumeBlock[v] - 1 |-> disk[t.disk][t.from + i]]

\* The disk manager loses a disk or finds it again.
DiskChange(d) == /\ present' = IF d \in present THEN present \ {d} ELSE present \cup {d}
                 /\ UNCHANGED <<disk, volume, strayed, writes>>

ExtentNext == \/ \E v \in Volumes : \E r \in Ranges(v) : VolumeWrite(v, r[1], r[2])
              \/ \E d \in Disks : DiskChange(d)

ExtentSpec == ExtentInit /\ [][ExtentNext]_extentVars

-----------------------------------------------------------------------------
(* Properties *)

ReadsBack(v, lba, n) ==
  Target(v, lba, n) # <<>> =>
    \A i \in 0 .. n * VolumeBlock[v] - 1 :
      VolumeRead(v, lba, n)[i] = volume[v][lba * VolumeBlock[v] + i]

\* As long as no write left its extent or began inside a disk block, a read that does
\* neither returns what was last written to those blocks of that volume, whatever the
\* block sizes, the other volumes and the disks that came and went; and it is refused
\* only if its length is no multiple of the disk's block size.
VolumesApart ==
  \A v \in Volumes : \A r \in Ranges(v) :
    /\ ~strayed /\ Proper(v, r[1], r[2]) => ReadsBack(v, r[1], r[2])
    /\ Proper(v, r[1], r[2]) /\ Target(v, r[1], r[2]) = <<>> =>
         (r[2] * VolumeBlock[v]) % DiskBlock[Maps(v, r[1])[1].disk] # 0

\* What xsan_volume_read_async and xsan_volume_write_async promise of a volume of blocks:
\* every accepted read returns what was last written there.
ReadsWhatWasWritten == \A v \in Volumes : \A r \in Ranges(v) : ReadsBack(v, r[1], r[2])
=============================================================================
