----------------------------- MODULE RingBuffer -----------------------------
(***************************************************************************)
(* The ring buffer of common/ring_buffer.c: a fixed array of slots, the    *)
(* number of values, and two indices that wrap around.  A caller holds at  *)
(* most one buffer; a call without a buffer is a call with rb = NULL.      *)
(***************************************************************************)
EXTENDS Integers, Sequences

CONSTANTS Value, Null, Capacity

\* xsan_ring_buffer_create returns NULL for a capacity of 0.
ASSUME CapacityAssumption == Capacity \in Nat \ {0}
ASSUME NullAssumption == Null \in Value

VARIABLES rb,         \* the caller's pointer: NULL or LIVE
          value_destroy_func, \* the destructor given to create: NULL or LIVE
          buffer,     \* the slots
          count, head, tail,
          result      \* what the last call returned and destroyed

vars == <<rb, value_destroy_func, buffer, count, head, tail, result>>

\* The two values of a pointer whose target does not matter.
NULL == "NULL"

LIVE == "LIVE"

Slot == 0 .. Capacity - 1

Result(err, val, destroyed) == [err |-> err, val |-> val, destroyed |-> destroyed]

Quiet(err) == Result(err, Null, <<>>)

\* The values a walk over n slots of b from h meets: the loop of clear.
Walk(b, h, n) == [i \in 1 .. n |-> b[(h + i - 1) % Capacity]]

Contents == Walk(buffer, head, count)

Init == /\ rb = NULL
        /\ value_destroy_func = NULL
        /\ buffer = [s \in Slot |-> Null]
        /\ count = 0
        /\ head = 0
        /\ tail = 0
        /\ result = Quiet("OK")

\* calloc zeroes the slots; either allocation may fail and yields NULL.
Create == /\ rb = NULL
          /\ buffer' = [s \in Slot |-> Null]
          /\ count' = 0
          /\ head' = 0
          /\ tail' = 0
          /\ \/ /\ rb' = LIVE
                /\ value_destroy_func' \in {NULL, LIVE}
                /\ result' = Quiet("OK")
             \/ /\ rb' = NULL
                /\ value_destroy_func' = NULL
                /\ result' = Quiet("NO_MEMORY")

Return(err) == /\ result' = Quiet(err)
               /\ UNCHANGED <<rb, value_destroy_func, buffer, count, head, tail>>

Push(v) == \/ rb = NULL /\ Return("INVALID_PARAM")
           \/ rb = LIVE /\ count = Capacity /\ Return("INSUFFICIENT_SPACE")
           \/ /\ rb = LIVE
              /\ count # Capacity
              /\ buffer' = [buffer EXCEPT ![tail] = v]
              /\ tail' = (tail + 1) % Capacity
              /\ count' = count + 1
              /\ result' = Quiet("OK")
              /\ UNCHANGED <<rb, value_destroy_func, head>>

\* The slot keeps its old pointer: only head and count move.
Pop == \/ rb = NULL /\ Return("INVALID_PARAM")
       \/ rb = LIVE /\ count = 0 /\ Return("NOT_FOUND")
       \/ /\ rb = LIVE
          /\ count # 0
          /\ head' = (head + 1) % Capacity
          /\ count' = count - 1
          /\ result' = Result("OK", buffer[head], <<>>)
          /\ UNCHANGED <<rb, value_destroy_func, buffer, tail>>

Peek == \/ rb = NULL /\ Return("INVALID_PARAM")
        \/ rb = LIVE /\ count = 0 /\ Return("NOT_FOUND")
        \/ /\ rb = LIVE
           /\ count # 0
           /\ result' = Result("OK", buffer[head], <<>>)
           /\ UNCHANGED <<rb, value_destroy_func, buffer, count, head, tail>>

NotNull(v) == v # Null

\* Faulty variant of Destroyed: the walk starts at slot 0.
DestroyedFromZero == IF value_destroy_func = LIVE
                     THEN SelectSeq(Walk(buffer, 0, count), NotNull) ELSE <<>>

\* The loop of xsan_ring_buffer_clear: NULL pointers are skipped.
Destroyed == IF value_destroy_func = LIVE THEN SelectSeq(Contents, NotNull) ELSE <<>>

\* Faulty variant of Reset: tail is forgotten.
ResetKeepsTail == /\ head' = 0
                  /\ count' = 0
                  /\ UNCHANGED tail
                  /\ result' = Result("OK", Null, Destroyed)

Reset == /\ head' = 0
         /\ tail' = 0
         /\ count' = 0
         /\ result' = Result("OK", Null, Destroyed)

Clear == \/ rb = NULL /\ Return("OK")
         \/ rb = LIVE /\ Reset /\ UNCHANGED <<rb, value_destroy_func, buffer>>

\* Clear, then both blocks are freed.
Destroy == \/ rb = NULL /\ Return("OK")
           \/ /\ rb = LIVE
              /\ Reset
              /\ rb' = NULL
              /\ value_destroy_func' = NULL
              /\ UNCHANGED buffer

Next == \/ Create
        \/ \E v \in Value : Push(v)
        \/ Pop
        \/ Peek
        \/ Clear
        \/ Destroy

Spec == Init /\ [][Next]_vars

-----------------------------------------------------------------------------
(* Properties *)

\* The indices stay inside the array, the fill level inside the capacity.
TypeOK == /\ rb \in {NULL, LIVE}
          /\ value_destroy_func \in {NULL, LIVE}
          /\ buffer \in [Slot -> Value]
          /\ count \in 0 .. Capacity
          /\ head \in Slot
          /\ tail \in Slot

\* The three indices of struct xsan_ring_buffer are redundant: tail is always
\* count slots after head.  Every push, pop and clear has to keep them in step,
\* or a later push overwrites a value that was never popped.
IndicesAgree == tail = (head + count) % Capacity

\* A ring buffer behaves like a bounded queue: values come out in the order
\* they went in, a full buffer refuses and an empty one reports it, NULL is an
\* ordinary value, and clear or destroy hands every value still stored, and no
\* value that was popped, to the destructor exactly once.
Abstract == INSTANCE BoundedQueue WITH open <- rb, destructor <- value_destroy_func,
                                       queue <- Contents

ImplementsQueue == Abstract!Spec
=============================================================================
