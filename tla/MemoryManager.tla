--------------------------- MODULE MemoryManager ----------------------------
(***************************************************************************)
(* The allocator of utils/memory.c: xsan_malloc and its relatives, with    *)
(* the list of allocated blocks and the statistics kept in debug mode.     *)
(* Every call holds g_memory_mgr.mutex, so each is one action; realloc and *)
(* cleanup may lock it again while they hold it.  Memory obtained in one   *)
(* mode may be returned in another.                                        *)
(***************************************************************************)
EXTENDS Naturals, FiniteSets

CONSTANTS Addresses, NoAddress,
          Sizes,      \* the numbers callers ask for, in bytes or elements
          Word,       \* size_t counts modulo this
          HeaderBytes \* sizeof(memory_block_header_t)

ASSUME MemoryAssumption == /\ IsFiniteSet(Addresses) /\ NoAddress \notin Addresses
                           /\ Word \in Nat \ {0} /\ HeaderBytes \in 0 .. Word - 1
                           /\ Sizes \subseteq 0 .. Word - 1

VARIABLES initialized, debugEnabled,
          memory,     \* what is at each address
          blockList,  \* allocated_blocks
          blockNext, blockPrev,
          stats,
          fate        \* "ok"; "stuck": waits for its own mutex; "abort": libc gave up;
                      \* "overrun": a header was written beyond the end of its block

memoryVars == <<initialized, debugEnabled, memory, blockList, blockNext, blockPrev,
                stats, fate>>

Unused == [kind |-> "none", size |-> 0, asked |-> 0]

NoStats == [total |-> 0, freed |-> 0, current |-> 0, peak |-> 0]

MemoryInit == /\ initialized = FALSE /\ debugEnabled = FALSE
              /\ memory = [a \in Addresses |-> Unused]
              /\ blockList = NoAddress
              /\ blockNext = [a \in Addresses |-> NoAddress]
              /\ blockPrev = [a \in Addresses |-> NoAddress]
              /\ stats = NoStats
              /\ fate = "ok"

Live == {a \in Addresses : memory[a].kind # "none"}

Headed == {a \in Addresses : memory[a].kind = "headed"}

Debugging == initialized /\ debugEnabled

Link(f, a, b) == IF a = NoAddress THEN f ELSE [f EXCEPT ![a] = b]

\* xsan_memory_init; a second call changes nothing.
MemInit(debug) ==
  /\ fate = "ok"
  /\ \/ initialized /\ UNCHANGED memoryVars
     \/ /\ ~initialized
        /\ initialized' = TRUE /\ debugEnabled' = debug
        /\ blockList' = NoAddress /\ stats' = NoStats
        /\ UNCHANGED <<memory, blockNext, blockPrev, fate>>

\* xsan_memory_cleanup: in debug mode with blocks left it calls the leak check,
\* which locks the mutex cleanup holds.
MemCleanup ==
  /\ fate = "ok"
  /\ \/ ~initialized /\ UNCHANGED memoryVars
     \/ /\ Debugging /\ blockList # NoAddress
        /\ fate' = "stuck"
        /\ UNCHANGED <<initialized, debugEnabled, memory, blockList, blockNext, blockPrev, stats>>
     \/ /\ initialized /\ ~(debugEnabled /\ blockList # NoAddress)
        /\ initialized' = FALSE
        /\ UNCHANGED <<debugEnabled, memory, blockList, blockNext, blockPrev, stats, fate>>

\* The statistics after size bytes were handed out, or returned in debug mode.
Charged(s, size) == LET c == (s.current + size) % Word
                    IN  [s EXCEPT !.total = (@ + size) % Word, !.current = c, !.peak = IF c > @ THEN c ELSE @]

\* Faulty variant of Credited: the size is added to freed only.
CreditedHalf(s, size) == [s EXCEPT !.freed = (@ + size) % Word]

Credited(s, size) == [s EXCEPT !.freed = (@ + size) % Word, !.current = (@ + Word - size) % Word]

\* The bytes of the blocks at the addresses S.
SizeOf[S \in SUBSET Addresses] ==
  IF S = {} THEN 0 ELSE LET a == CHOOSE a \in S : TRUE IN memory[a].size + SizeOf[S \ {a}]

\* What libc's malloc is asked for: in debug mode a header in front, a sum that may wrap.
Bytes(size) == IF Debugging THEN (HeaderBytes + size) % Word ELSE size

\* xsan_malloc of size bytes for a caller that needs asked: before init and after
\* cleanup plain memory; in debug mode a header in front, linked at the list's head.
\* When the sum wraps, the block has no room for the header that is written to it.
\* What the callers hold never exceeds what size_t can count.
Obtain(a, size, asked) ==
  /\ memory[a].kind = "none"
  /\ SizeOf[Live] + size < Word
  /\ \/ /\ Debugging /\ Bytes(size) < HeaderBytes
        /\ fate' = "overrun"
        /\ UNCHANGED <<memory, stats, blockNext, blockPrev, blockList>>
     \/ /\ Debugging /\ Bytes(size) >= HeaderBytes
        /\ memory' = [memory EXCEPT ![a] = [kind |-> "headed", size |-> size, asked |-> asked]]
        /\ stats' = Charged(stats, size)
        /\ blockNext' = [blockNext EXCEPT ![a] = blockList]
        /\ blockPrev' = Link([blockPrev EXCEPT ![a] = NoAddress], blockList, a)
        /\ blockList' = a
        /\ fate' = "ok"
     \/ /\ ~Debugging
        /\ memory' = [memory EXCEPT ![a] = [kind |-> "plain", size |-> size, asked |-> asked]]
        /\ stats' = IF initialized THEN Charged(stats, size) ELSE stats
        /\ fate' = "ok"
        /\ UNCHANGED <<blockNext, blockPrev, blockList>>

\* A call that returns NULL: the size is 0, the product wraps, memory has run out.
NoMemory == UNCHANGED memoryVars

Malloc(size) ==
  /\ fate = "ok"
  /\ \/ NoMemory
     \/ size # 0 /\ \E a \in Addresses : Obtain(a, size, size)
  /\ UNCHANGED <<initialized, debugEnabled>>

\* Faulty variant of Calloc: the product is not checked.
CallocUnchecked(n, size) ==
  /\ fate = "ok"
  /\ \/ NoMemory
     \/ /\ (n * size) % Word # 0
        /\ \E a \in Addresses : Obtain(a, (n * size) % Word, n * size)
  /\ UNCHANGED <<initialized, debugEnabled>>

Calloc(n, size) ==
  LET total == (n * size) % Word
  IN  /\ fate = "ok"
      /\ \/ NoMemory
         \/ /\ n # 0 => total \div n = size
            /\ total # 0
            /\ \E a \in Addresses : Obtain(a, total, n * size)
      /\ UNCHANGED <<initialized, debugEnabled>>

\* Faulty variant of Unlisted: the back link of the successor is left as it is.
UnlistedOneWay(a) == /\ blockNext' = Link(blockNext, blockPrev[a], blockNext[a])
                     /\ blockPrev' = blockPrev
                     /\ blockList' = IF blockPrev[a] = NoAddress THEN blockNext[a] ELSE blockList

\* The header leaves the list, through its neighbours or the head.
Unlisted(a) == /\ blockNext' = Link(blockNext, blockPrev[a], blockNext[a])
               /\ blockPrev' = Link(blockPrev, blockNext[a], blockPrev[a])
               /\ blockList' = IF blockPrev[a] = NoAddress THEN blockNext[a] ELSE blockList

\* xsan_free.  In debug mode the bytes in front of a plain block are taken not to
\* hold the magic number, and the block stays; without it libc aborts on a pointer past a header.
Free(a) ==
  /\ fate = "ok" /\ a \in Live
  /\ \/ /\ Debugging /\ a \in Headed
        /\ Unlisted(a)
        /\ stats' = Credited(stats, memory[a].size)
        /\ memory' = [memory EXCEPT ![a] = Unused] /\ fate' = "ok"
     \/ /\ Debugging /\ a \notin Headed
        /\ UNCHANGED <<memory, blockList, blockNext, blockPrev, stats, fate>>
     \/ /\ ~Debugging
        /\ fate' = IF a \in Headed THEN "abort" ELSE "ok"
        /\ memory' = IF a \in Headed THEN memory ELSE [memory EXCEPT ![a] = Unused]
        /\ UNCHANGED <<blockList, blockNext, blockPrev, stats>>
  /\ UNCHANGED <<initialized, debugEnabled>>

\* xsan_realloc of a block to a size other than 0; with NULL it is malloc and to 0
\* it is free.  In debug mode it calls malloc with the mutex held.
Realloc(a, size) ==
  /\ fate = "ok" /\ a \in Live /\ size # 0
  /\ \/ /\ Debugging
        /\ fate' = IF a \in Headed THEN "stuck" ELSE "ok"
        /\ memory' = memory
     \/ /\ ~Debugging
        /\ fate' = IF a \in Headed THEN "abort" ELSE "ok"
        /\ memory' \in {memory, [memory EXCEPT ![a] = IF a \in Headed THEN @
                                                      ELSE [@ EXCEPT !.size = size, !.asked = size]]}
  /\ UNCHANGED <<initialized, debugEnabled, blockList, blockNext, blockPrev, stats>>

MemoryNext == \/ \E debug \in BOOLEAN : MemInit(debug)
              \/ MemCleanup
              \/ \E size \in Sizes : Malloc(size) \/ \E n \in Sizes : Calloc(n, size)
              \/ \E a \in Addresses : Free(a) \/ \E size \in Sizes : Realloc(a, size)

MemorySpec == MemoryInit /\ [][MemoryNext]_memoryVars

-----------------------------------------------------------------------------
(* Properties *)

\* The blocks xsan_memory_check_leaks meets: the smallest set with the head of
\* the list and the successor of each of its blocks.
Listed == {a \in Addresses : \A C \in SUBSET Addresses :
             /\ blockList # NoAddress => blockList \in C
             /\ \A c \in C : blockNext[c] # NoAddress => blockNext[c] \in C
             => a \in C}

\* Whatever calls of init and cleanup come between an allocation and its free,
\* the leak check never meets freed memory: the list holds blocks with a
\* header that are still allocated, linked both ways, and no call hands libc a
\* pointer past a header.
ListHoldsLiveBlocks ==
  /\ fate # "abort"
  /\ Listed \subseteq Headed
  /\ \A a, b \in Headed : blockNext[a] = b <=> blockPrev[b] = a

\* The size malloc is called with, and that is counted, is what the caller asked for: calloc
\* refuses every product that wraps around size_t, and no other that memory is left for.
SizesExact == \A a \in Live : memory[a].size = memory[a].asked

\* In debug mode the books are exact whatever was allocated before initialisation, in
\* another mode or twice over: the list holds every block with a header, current_allocated
\* is their size and the difference of the totals, and the peak is at least that.
DebugBooksExact ==
  Debugging =>
    /\ Listed = Headed
    /\ stats.current = SizeOf[Headed] /\ stats.current <= stats.peak
    /\ stats.total = (stats.freed + stats.current) % Word
=============================================================================
