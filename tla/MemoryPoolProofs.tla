--------------------------- MODULE MemoryPoolProofs ---------------------------
(***************************************************************************)
(* Proof that the two lists of a memory pool, which share one link, never  *)
(* hand out a block twice and never lose a free one, for every set of      *)
(* blocks and every limit.                                                 *)
(***************************************************************************)
EXTENDS MemoryPool, NaturalsInduction, WellFoundedInduction, TLAPS

Free == owned \ inUse

\* The free list stays among the free blocks, no free block precedes its head, and no
\* two precede the same block: the links of the free blocks form one chain.
FreeChain ==
  /\ freeBlocks # NoBlock => freeBlocks \in Free
  /\ \A c \in Free : /\ link[c] # NoBlock => link[c] \in Free
                     /\ link[c] # NoBlock => link[c] # freeBlocks
  /\ \A c, d \in Free : link[c] = link[d] /\ link[c] # NoBlock => c = d

\* Both lists lead to every free block.  The second conjunct is FreeNotLost; the first
\* is what free relies on when it makes a block in use the new head.
FreeReached == /\ Free \subseteq Reach(freeBlocks)
               /\ Free \subseteq Reach(allBlocks)

PoolTypes == /\ owned \subseteq Blocks
             /\ inUse \subseteq owned
             /\ leased \subseteq inUse
             /\ link \in [Blocks -> Blocks \cup {NoBlock}]
             /\ \A b \in Blocks \ owned : link[b] = NoBlock
             /\ allBlocks \in Blocks \cup {NoBlock}

PoolInv == PoolTypes /\ FreeChain /\ FreeReached

-----------------------------------------------------------------------------
\* What it means to be reached by a walk.
LEMMA ReachIn ==
  ASSUME NEW p, NEW b \in Reach(p), NEW C \in SUBSET Blocks, Closed(p, C)
  PROVE  b \in C
BY DEF Reach

\* No block is found on an empty list.
LEMMA ReachNothing == Reach(NoBlock) = {}
<1>1. {} \in SUBSET Blocks /\ Closed(NoBlock, {})
  BY DEF Closed
<1> QED
  BY <1>1 DEF Reach

\* A pool that was not created yet has no blocks.
LEMMA InitPool == PoolInit => PoolInv
BY PoolAssumption DEF PoolInit, PoolInv, PoolTypes, FreeChain, FreeReached, Free

\* An empty pool, as destroy leaves it.
LEMMA DestroyKeeps ==
  ASSUME PoolInv, PoolDestroy
  PROVE  PoolInv'
BY PoolAssumption DEF PoolDestroy, PoolInv, PoolTypes, FreeChain, FreeReached, Free

\* The initial blocks form one chain that both heads begin.
LEMMA CreateKeeps ==
  ASSUME PoolInv, PoolCreate
  PROVE  PoolInv'
<1> USE PoolAssumption
<1> DEFINE Chain(n, s) ==
       /\ \A i, j \in 1 .. n : s[i] = s[j] => i = j
       /\ owned' = {s[i] : i \in 1 .. n}
       /\ link' = [b \in Blocks |-> IF \E i \in 1 .. n : s[i] = b
                                    THEN LET i == CHOOSE i \in 1 .. n : s[i] = b
                                         IN  IF i = 1 THEN NoBlock ELSE s[i - 1]
                                    ELSE NoBlock]
       /\ allBlocks' = IF n = 0 THEN NoBlock ELSE s[n]
       /\ freeBlocks' = IF n = 0 THEN NoBlock ELSE s[n]
       /\ currentBlocks' = n
<1>0. PICK n \in 0 .. InitialBlocks : \E s \in [1 .. n -> Heap] : Chain(n, s)
  BY DEF PoolCreate
<1>1. PICK s \in [1 .. n -> Heap] : Chain(n, s)
  BY <1>0
<1>2. inUse' = {} /\ leased' = {}
  BY DEF PoolCreate
<1>3. n \in Nat /\ \A i \in 1 .. n : s[i] \in Blocks
  BY <1>1 DEF Heap
<1>4. ASSUME NEW i \in 1 .. n PROVE link'[s[i]] = IF i = 1 THEN NoBlock ELSE s[i - 1]
  <2> DEFINE k == CHOOSE k \in 1 .. n : s[k] = s[i]
  <2>1. k \in 1 .. n /\ s[k] = s[i]
    OBVIOUS
  <2>2. k = i
    BY <1>1, <2>1
  <2>3. link'[s[i]] = IF k = 1 THEN NoBlock ELSE s[k - 1]
    BY <1>1, <1>3
  <2> HIDE DEF k
  <2> QED
    BY <2>2, <2>3
<1>5. Free' = {s[i] : i \in 1 .. n}
  BY <1>1, <1>2 DEF Free
<1>6. PoolTypes'
  <2>1. \A b \in Blocks \ owned' : link'[b] = NoBlock
    BY <1>1
  <2>2. ASSUME NEW b \in Blocks PROVE link'[b] \in Blocks \cup {NoBlock}
    <3>1. CASE b \in owned'
      <4>1. PICK i \in 1 .. n : b = s[i]
        BY <1>1, <3>1
      <4>2. i # 1 => i - 1 \in 1 .. n
        BY <1>3
      <4> QED
        BY <1>3, <1>4, <4>1, <4>2
    <3>2. CASE b \notin owned'
      BY <2>1, <3>2
    <3> QED
      BY <3>1, <3>2
  <2>3. link' = [b \in Blocks |-> link'[b]]
    BY <1>1
  <2>4. link' \in [Blocks -> Blocks \cup {NoBlock}]
    BY <2>2, <2>3
  <2>5. allBlocks' \in Blocks \cup {NoBlock}
    BY <1>1, <1>3
  <2> QED
    BY <1>1, <1>2, <1>3, <2>1, <2>4, <2>5 DEF PoolTypes
<1>7. FreeChain'
  <2>1. freeBlocks' # NoBlock => freeBlocks' \in Free'
    BY <1>1, <1>3, <1>5
  <2>2. ASSUME NEW c \in Free', link'[c] # NoBlock
        PROVE  link'[c] \in Free' /\ link'[c] # freeBlocks'
    <3>1. PICK i \in 1 .. n : c = s[i]
      BY <1>5
    <3>2. i # 1 /\ link'[c] = s[i - 1] /\ i - 1 \in 1 .. n /\ i - 1 # n /\ n # 0 /\ n \in 1 .. n
      BY <1>3, <1>4, <2>2, <3>1
    <3>3. s[i - 1] # s[n]
      BY <1>1, <3>2
    <3>4. s[i - 1] \in Free'
      BY <1>5, <3>2
    <3>5. freeBlocks' = s[n]
      BY <1>1, <3>2
    <3> QED
      BY <3>2, <3>3, <3>4, <3>5
  <2>3. ASSUME NEW c \in Free', NEW d \in Free', link'[c] = link'[d], link'[c] # NoBlock
        PROVE  c = d
    <3>1. PICK i \in 1 .. n, j \in 1 .. n : c = s[i] /\ d = s[j]
      BY <1>5
    <3>2. i # 1 /\ j # 1 /\ s[i - 1] = s[j - 1] /\ i - 1 \in 1 .. n /\ j - 1 \in 1 .. n
      BY <1>3, <1>4, <2>3, <3>1
    <3>3. i - 1 = j - 1
      BY <1>1, <3>2
    <3> QED
      BY <1>3, <3>1, <3>3
  <2> QED
    BY <2>1, <2>2, <2>3 DEF FreeChain
<1>8. ASSUME NEW C \in SUBSET Blocks, Closed(freeBlocks, C)', NEW i \in 1 .. n
      PROVE  s[i] \in C
  <2> SUFFICES ASSUME s[i] \notin C PROVE FALSE
    OBVIOUS
  <2> DEFINE T == {m \in Nat : m < n /\ s[n - m] \notin C}
  <2>1. n - i \in T
    <3>1. n - (n - i) = i /\ n - i \in Nat /\ n - i < n
      BY <1>3
    <3> QED
      BY <3>1
  <2>2. PICK m \in T : \A x \in T : <<x, m>> \notin OpToRel(<, Nat)
    BY <2>1, NatLessThanWellFounded, WFMin, T \subseteq Nat
  <2>3. s[n] \in C
    <3>1. n # 0 /\ s[n] \in Blocks
      BY <1>3
    <3> QED
      BY <1>1, <1>8, <3>1 DEF Closed
  <2>4. m \in Nat /\ m < n /\ s[n - m] \notin C /\ m # 0
    BY <1>3, <2>3
  <2>5. m - 1 \notin T
    <3>1. m - 1 \in Nat /\ m - 1 < m
      BY <2>4
    <3>2. <<m - 1, m>> \in OpToRel(<, Nat)
      BY <2>4, <3>1 DEF OpToRel
    <3> QED
      BY <2>2, <3>2
  <2>6. n - (m - 1) \in 1 .. n /\ n - (m - 1) # 1 /\ n - (m - 1) - 1 = n - m
    BY <1>3, <2>4
  <2>7. s[n - (m - 1)] \in C
    BY <1>3, <2>4, <2>5
  <2>8. link'[s[n - (m - 1)]] = s[n - m] /\ s[n - m] \in Blocks
    <3>1. n - m \in 1 .. n
      BY <1>3, <2>4, <2>6
    <3> QED
      BY <1>3, <1>4, <2>6, <3>1
  <2> QED
    BY <1>8, <2>4, <2>7, <2>8 DEF Closed
<1>9. FreeReached'
  <2>1. Free' \subseteq Reach(freeBlocks)'
    <3>1. Free' \subseteq Blocks
      BY <1>3, <1>5
    <3> QED
      BY <1>5, <1>8, <3>1 DEF Reach
  <2>2. freeBlocks' = allBlocks'
    BY <1>1
  <2>3. Reach(allBlocks)' = Reach(freeBlocks)'
    BY <2>2 DEF Reach, Closed
  <2> QED
    BY <2>1, <2>3 DEF FreeReached
<1> QED
  BY <1>6, <1>7, <1>9 DEF PoolInv

\* alloc takes the head of the free list.
LEMMA AllocFreeKeeps ==
  ASSUME PoolInv, AllocFree
  PROVE  PoolInv'
<1> USE PoolAssumption
<1>1. /\ freeBlocks # NoBlock /\ freeBlocks \in Free
      /\ freeBlocks' = link[freeBlocks]
      /\ inUse' = inUse \cup {freeBlocks} /\ leased' = leased \cup {freeBlocks}
      /\ UNCHANGED <<allBlocks, link, currentBlocks, owned>>
  BY DEF AllocFree, PoolInv, FreeChain
<1>2. Free' = Free \ {freeBlocks}
  BY <1>1 DEF Free
<1>3. PoolTypes'
  BY <1>1 DEF PoolInv, PoolTypes, Free
<1>4. FreeChain'
  BY <1>1, <1>2 DEF PoolInv, FreeChain
<1>5. \A p, C : Closed(p, C)' <=> Closed(p', C)
  BY <1>1 DEF Closed
<1>6. Free \subseteq Blocks
  BY DEF PoolInv, PoolTypes, Free
<1>7. ASSUME NEW b \in Free', NEW C \in SUBSET Blocks, Closed(freeBlocks, C)' PROVE b \in C
  <2>1. Closed(freeBlocks, C \cup {freeBlocks})
    BY <1>1, <1>7 DEF Closed
  <2>2. C \cup {freeBlocks} \in SUBSET Blocks
    BY <1>1, <1>6
  <2>3. b \in C \cup {freeBlocks}
    BY <1>2, <1>7, <2>1, <2>2, ReachIn DEF PoolInv, FreeReached
  <2> QED
    BY <1>2, <1>7, <2>3
<1>8. ASSUME NEW b \in Free', NEW C \in SUBSET Blocks, Closed(allBlocks, C)' PROVE b \in C
  <2>1. Closed(allBlocks, C)
    BY <1>1, <1>8 DEF Closed
  <2> QED
    BY <1>2, <1>8, <2>1, ReachIn DEF PoolInv, FreeReached
<1>9. FreeReached'
  BY <1>2, <1>6, <1>7, <1>8 DEF FreeReached, Reach
<1> QED
  BY <1>3, <1>4, <1>9 DEF PoolInv

\* alloc takes a new block from the heap and puts it in front of all the others.
LEMMA AllocNewKeeps ==
  ASSUME PoolInv, AllocNew
  PROVE  PoolInv'
<1>1. PICK b \in Heap :
        /\ inUse' = inUse \cup {b} /\ owned' = owned \cup {b} /\ leased' = leased \cup {b}
        /\ link' = [link EXCEPT ![b] = allBlocks]
        /\ allBlocks' = b
  BY DEF AllocNew
<1>2. freeBlocks = NoBlock /\ freeBlocks' = NoBlock /\ currentBlocks' = currentBlocks + 1
  BY DEF AllocNew
<1>3. b \in Blocks /\ b \notin owned
  BY <1>1 DEF Heap
<1>4. Free' = {}
  <2>1. Free = {}
    BY <1>2, ReachNothing DEF PoolInv, FreeReached
  <2> QED
    BY <1>1, <1>3, <2>1 DEF Free
<1>5. PoolTypes'
  <2>1. allBlocks \in Blocks \cup {NoBlock}
    BY DEF PoolInv, PoolTypes
  <2>2. link' \in [Blocks -> Blocks \cup {NoBlock}]
    BY <1>1, <2>1 DEF PoolInv, PoolTypes
  <2>3. \A c \in Blocks \ owned' : link'[c] = NoBlock
    BY <1>1, <1>3 DEF PoolInv, PoolTypes
  <2> QED
    BY <1>1, <1>2, <1>3, <2>2, <2>3 DEF PoolInv, PoolTypes
<1>6. FreeChain' /\ FreeReached'
  BY <1>2, <1>4 DEF FreeChain, FreeReached
<1> QED
  BY <1>5, <1>6 DEF PoolInv

\* free makes a block in use the head of the free list: the blocks between it and the
\* free ones drop out of the list of all blocks, and they are all in use.
LEMMA RestoreKeeps ==
  ASSUME PoolInv, NEW b \in Reach(allBlocks), b \in inUse, Restore(b),
         leased' = leased \ {b}, UNCHANGED <<allBlocks, currentBlocks, owned>>
  PROVE  PoolInv'
<1> USE PoolAssumption
<1>1. /\ inUse' = inUse \ {b} /\ freeBlocks' = b
      /\ link' = [link EXCEPT ![b] = freeBlocks]
  BY DEF Restore
<1>2. b \in owned /\ b \in Blocks /\ b \notin Free /\ Free \subseteq Blocks /\ freeBlocks \in Free \cup {NoBlock}
  BY DEF PoolInv, PoolTypes, FreeChain, Free
<1>3. Free' = Free \cup {b}
  BY <1>1, <1>2 DEF Free
<1>4. link'[b] = freeBlocks /\ \A c \in Blocks : c # b => link'[c] = link[c]
  BY <1>1, <1>2 DEF PoolInv, PoolTypes
<1>5. PoolTypes'
  <2>1. link' \in [Blocks -> Blocks \cup {NoBlock}]
    BY <1>1, <1>2 DEF PoolInv, PoolTypes
  <2> QED
    BY <1>1, <1>2, <1>4, <2>1 DEF PoolInv, PoolTypes
<1>6. FreeChain'
  <2>1. b # NoBlock
    BY <1>2
  <2>2. \A c \in Free : c # b /\ link'[c] = link[c]
    BY <1>2, <1>4
  <2>3. \A c \in Free' : link'[c] # NoBlock => link'[c] \in Free' /\ link'[c] # freeBlocks'
    BY <1>1, <1>2, <1>3, <1>4, <2>2 DEF PoolInv, FreeChain
  <2>4. \A c, d \in Free' : link'[c] = link'[d] /\ link'[c] # NoBlock => c = d
    BY <1>3, <1>4, <2>2 DEF PoolInv, FreeChain
  <2> QED
    BY <1>1, <1>3, <2>3, <2>4 DEF FreeChain
<1>7. ASSUME NEW C \in SUBSET Blocks, b \in C, \A c \in C : link'[c] # NoBlock => link'[c] \in C
      PROVE  Free' \subseteq C
  <2>1. freeBlocks # NoBlock => freeBlocks \in C
    BY <1>4, <1>7
  <2>2. Closed(freeBlocks, C \cap Free)
    BY <1>2, <1>4, <1>7, <2>1 DEF Closed, PoolInv, FreeChain
  <2>3. C \cap Free \in SUBSET Blocks
    OBVIOUS
  <2>4. Free \subseteq C \cap Free
    BY <2>2, <2>3, ReachIn DEF PoolInv, FreeReached
  <2> QED
    BY <1>3, <1>7, <2>4
<1>8. ASSUME NEW C \in SUBSET Blocks, Closed(allBlocks, C)' PROVE b \in C
  <2> SUFFICES ASSUME b \notin C PROVE FALSE
    OBVIOUS
  <2>1. Closed(allBlocks, C)
    BY <1>4, <1>8 DEF Closed
  <2> QED
    BY <2>1, ReachIn
<1>9. ASSUME NEW C \in SUBSET Blocks, Closed(allBlocks, C)' \/ Closed(freeBlocks, C)'
      PROVE  Free' \subseteq C
  <2>1. b \in C
    <3>1. b # NoBlock
      BY <1>2
    <3> QED
      BY <1>1, <1>8, <1>9, <3>1 DEF Closed
  <2>2. \A c \in C : link'[c] # NoBlock => link'[c] \in C
    BY <1>9 DEF Closed
  <2> QED
    BY <1>7, <2>1, <2>2
<1>10. FreeReached'
  <2>1. Free' \subseteq Blocks
    BY <1>2, <1>3
  <2> QED
    BY <1>9, <2>1 DEF FreeReached, Reach
<1> QED
  BY <1>5, <1>6, <1>10 DEF PoolInv

\* Every step keeps the invariant.
LEMMA NextPool == PoolInv /\ [PoolNext]_poolVars => PoolInv'
<1> SUFFICES ASSUME PoolInv, [PoolNext]_poolVars PROVE PoolInv'
  OBVIOUS
<1>1. CASE PoolCreate
  BY <1>1, CreateKeeps
<1>2. CASE PoolDestroy
  BY <1>2, DestroyKeeps
<1>3. ASSUME UNCHANGED <<freeBlocks, allBlocks, link, inUse, currentBlocks, owned>>, leased' \subseteq leased
      PROVE  PoolInv'
  BY <1>3 DEF PoolInv, PoolTypes, FreeChain, FreeReached, Free, Reach, Closed
<1>4. CASE PoolAlloc
  BY <1>3, <1>4, AllocFreeKeeps, AllocNewKeeps DEF PoolAlloc, AllocMiss
<1>5. ASSUME NEW b \in Blocks, PoolFree(b) PROVE PoolInv'
  <2>1. CASE b \in Reach(allBlocks) /\ b \in inUse /\ Restore(b)
    BY <1>5, <2>1, RestoreKeeps DEF PoolFree
  <2>2. CASE UNCHANGED <<inUse, link, freeBlocks>>
    BY <1>3, <1>5, <2>2 DEF PoolFree
  <2> QED
    BY <1>5, <2>1, <2>2 DEF PoolFree
<1>6. CASE UNCHANGED poolVars
  BY <1>3, <1>6 DEF poolVars
<1> QED
  BY <1>1, <1>2, <1>4, <1>5, <1>6 DEF PoolNext

-----------------------------------------------------------------------------
\* NoBlockTwice, for every set of blocks and every limit: alloc never hands out a block
\* that a caller still holds, although free rewrites the links of both lists.
THEOREM BlocksHandedOutOnce == PoolSpec => []NoBlockTwice
<1>1. PoolInv => NoBlockTwice
  <2> SUFFICES ASSUME PoolInv PROVE NoBlockTwice
    OBVIOUS
  <2>1. Closed(freeBlocks, Free) /\ Free \in SUBSET Blocks
    BY DEF PoolInv, FreeChain, PoolTypes, Closed, Free
  <2>2. Reach(freeBlocks) \subseteq Free
    BY <2>1, ReachIn
  <2> QED
    BY <2>2 DEF PoolInv, PoolTypes, NoBlockTwice, Free
<1> QED
  BY InitPool, NextPool, <1>1, PTL DEF PoolSpec

\* FreeNotLost, for every set of blocks and every limit: a block that is not in use is on
\* the list that destroy walks.
THEOREM FreeBlocksKept == PoolSpec => []FreeNotLost
<1>1. PoolInv => FreeNotLost
  BY DEF PoolInv, FreeReached, FreeNotLost, Free
<1> QED
  BY InitPool, NextPool, <1>1, PTL DEF PoolSpec
=============================================================================
