----------------------------- MODULE MemoryPool -----------------------------
(***************************************************************************)
(* The memory pool of utils/memory.c.  Free blocks and all blocks are kept *)
(* in two lists that share the one link of a block.  A thread-safe pool    *)
(* holds its mutex through every call, so each call is one action.  The    *)
(* hit and miss counters are left out.                                     *)
(***************************************************************************)
EXTENDS Naturals, Sequences, FiniteSets

CONSTANTS Blocks,         \* addresses of blocks; a block and its data are one
          NoBlock,        \* the NULL pointer
          InitialBlocks, MaxBlocks

ASSUME PoolAssumption == NoBlock \notin Blocks /\ InitialBlocks \in Nat /\ MaxBlocks \in Nat

VARIABLES poolOpen,
          freeBlocks, allBlocks,  \* the heads of the two lists
          link,                   \* block->next
          inUse,                  \* blocks with in_use set
          currentBlocks,
          owned,                  \* the blocks of this pool that are allocated
          leased,                 \* history: blocks callers hold
          leaked                  \* history: blocks no pool will free any more

poolVars == <<poolOpen, freeBlocks, allBlocks, link, inUse, currentBlocks, owned, leased, leaked>>

PoolInit == /\ poolOpen = FALSE
            /\ freeBlocks = NoBlock /\ allBlocks = NoBlock
            /\ link = [b \in Blocks |-> NoBlock]
            /\ inUse = {} /\ currentBlocks = 0
            /\ owned = {} /\ leased = {} /\ leaked = {}

\* The blocks a walk from p along the links meets: the smallest set that holds p
\* and the block after each of its blocks.
Closed(p, C) == /\ p # NoBlock => p \in C
                /\ \A c \in C : link[c] # NoBlock => link[c] \in C

Reach(p) == {b \in Blocks : \A C \in SUBSET Blocks : Closed(p, C) => b \in C}

Heap == Blocks \ (owned \cup leaked)

\* The initial blocks, the first one last in both lists.  The loop stops early
\* when memory runs out.
PoolCreate ==
  /\ ~poolOpen /\ poolOpen' = TRUE
  /\ \E n \in 0 .. InitialBlocks : \E s \in [1 .. n -> Heap] :
       /\ \A i, j \in 1 .. n : s[i] = s[j] => i = j
       /\ owned' = {s[i] : i \in 1 .. n}
       /\ link' = [b \in Blocks |-> IF \E i \in 1 .. n : s[i] = b
                                    THEN LET i == CHOOSE i \in 1 .. n : s[i] = b
                                         IN  IF i = 1 THEN NoBlock ELSE s[i - 1]
                                    ELSE NoBlock]
       /\ allBlocks' = IF n = 0 THEN NoBlock ELSE s[n]
       /\ freeBlocks' = IF n = 0 THEN NoBlock ELSE s[n]
       /\ currentBlocks' = n
  /\ inUse' = {} /\ leased' = {} /\ leaked' = leaked

\* What the walk over all_blocks does not meet is never freed.
PoolDestroy ==
  /\ poolOpen /\ poolOpen' = FALSE
  /\ leaked' = leaked \cup (owned \ Reach(allBlocks))
  /\ owned' = {} /\ inUse' = {} /\ leased' = {} /\ currentBlocks' = 0
  /\ freeBlocks' = NoBlock /\ allBlocks' = NoBlock
  /\ link' = [b \in Blocks |-> NoBlock]

AllocFree ==
  /\ freeBlocks # NoBlock
  /\ freeBlocks' = link[freeBlocks]
  /\ inUse' = inUse \cup {freeBlocks}
  /\ leased' = leased \cup {freeBlocks}
  /\ UNCHANGED <<allBlocks, link, currentBlocks, owned>>

\* Faulty variant of AllocNew: the new block also stays on the free list.
AllocNewShared ==
  /\ freeBlocks = NoBlock /\ currentBlocks < MaxBlocks
  /\ \E b \in Heap :
       /\ inUse' = inUse \cup {b} /\ owned' = owned \cup {b} /\ leased' = leased \cup {b}
       /\ link' = [link EXCEPT ![b] = allBlocks]
       /\ allBlocks' = b /\ freeBlocks' = b
  /\ currentBlocks' = currentBlocks + 1

AllocNew ==
  /\ freeBlocks = NoBlock /\ currentBlocks < MaxBlocks
  /\ \E b \in Heap :
       /\ inUse' = inUse \cup {b} /\ owned' = owned \cup {b} /\ leased' = leased \cup {b}
       /\ link' = [link EXCEPT ![b] = allBlocks]
       /\ allBlocks' = b
  /\ currentBlocks' = currentBlocks + 1
  /\ UNCHANGED freeBlocks

\* A miss: the pool is at its limit or memory has run out.
AllocMiss == freeBlocks = NoBlock /\ UNCHANGED <<freeBlocks, allBlocks, link, inUse, currentBlocks, owned, leased>>

PoolAlloc == poolOpen /\ (AllocFree \/ AllocNew \/ AllocMiss) /\ UNCHANGED <<poolOpen, leaked>>

Restore(b) == /\ inUse' = inUse \ {b}
              /\ link' = [link EXCEPT ![b] = freeBlocks]
              /\ freeBlocks' = b

\* Faulty variant of PoolFree: the block is not looked for on the list of all blocks.
PoolFreeAnywhere(b) ==
  /\ poolOpen /\ b \in owned
  /\ leased' = leased \ {b}
  /\ \/ b \in inUse /\ Restore(b)
     \/ b \notin inUse /\ UNCHANGED <<inUse, link, freeBlocks>>
  /\ UNCHANGED <<poolOpen, allBlocks, currentBlocks, owned, leaked>>

\* A caller returns a block, or returns it once more.  Only a block found on the
\* list of all blocks and marked as in use is put on the free list.
PoolFree(b) ==
  /\ poolOpen /\ b \in owned
  /\ leased' = leased \ {b}
  /\ \/ b \in Reach(allBlocks) /\ b \in inUse /\ Restore(b)
     \/ ~(b \in Reach(allBlocks) /\ b \in inUse) /\ UNCHANGED <<inUse, link, freeBlocks>>
  /\ UNCHANGED <<poolOpen, allBlocks, currentBlocks, owned, leaked>>

PoolNext == PoolCreate \/ PoolDestroy \/ PoolAlloc \/ \E b \in Blocks : PoolFree(b)

PoolSpec == PoolInit /\ [][PoolNext]_poolVars

-----------------------------------------------------------------------------
(* Properties *)

\* Although free rewrites links of the list of all blocks, no block on the free
\* list is in use, and a block a caller holds is marked as in use: alloc never
\* hands out a block that somebody has.
NoBlockTwice == /\ Reach(freeBlocks) \cap inUse = {}
                /\ leased \subseteq inUse

\* free can cut only blocks in use out of the list of all blocks: every block that
\* is not in use is still found there, so destroy frees it.
FreeNotLost == owned \ inUse \subseteq Reach(allBlocks)
=============================================================================
