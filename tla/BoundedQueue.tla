---------------------------- MODULE BoundedQueue ----------------------------
(***************************************************************************)
(* What a bounded first-in first-out buffer promises its callers: the      *)
(* order of its values, the limit on their number, the result of every     *)
(* call, and which values the buffer hands to the destructor it was given. *)
(* RingBuffer implements it.                                               *)
(***************************************************************************)
EXTENDS Naturals, Sequences

CONSTANTS Value,      \* pointers a caller may store, Null among them
          Null,       \* the NULL pointer
          Capacity    \* the capacity the buffer is created with

VARIABLES open,       \* LIVE while the caller holds a buffer, NULL otherwise
          destructor, \* LIVE when the buffer was created with a destructor
          queue,      \* the stored values, oldest first
          result      \* what the last call returned and destroyed

vars == <<open, destructor, queue, result>>

NULL == "NULL"

LIVE == "LIVE"

Result(err, val, destroyed) == [err |-> err, val |-> val, destroyed |-> destroyed]

Quiet(err) == Result(err, Null, <<>>)

NotNull(v) == v # Null

Init == /\ open = NULL
        /\ destructor = NULL
        /\ queue = <<>>
        /\ result = Quiet("OK")

\* A buffer is created empty, or memory runs out and the caller gets NULL.
Create == /\ open = NULL
          /\ queue' = <<>>
          /\ \/ /\ open' = LIVE
                /\ destructor' \in {NULL, LIVE}
                /\ result' = Quiet("OK")
             \/ /\ open' = NULL
                /\ destructor' = NULL
                /\ result' = Quiet("NO_MEMORY")

\* A call that changes nothing and returns err.
Refuse(err) == /\ result' = Quiet(err)
               /\ UNCHANGED <<open, destructor, queue>>

Push(v) == \/ open = NULL /\ Refuse("INVALID_PARAM")
           \/ open = LIVE /\ Len(queue) = Capacity /\ Refuse("INSUFFICIENT_SPACE")
           \/ /\ open = LIVE
              /\ Len(queue) < Capacity
              /\ queue' = Append(queue, v)
              /\ result' = Quiet("OK")
              /\ UNCHANGED <<open, destructor>>

Pop == \/ open = NULL /\ Refuse("INVALID_PARAM")
       \/ open = LIVE /\ queue = <<>> /\ Refuse("NOT_FOUND")
       \/ /\ open = LIVE
          /\ queue # <<>>
          /\ queue' = Tail(queue)
          /\ result' = Result("OK", Head(queue), <<>>)
          /\ UNCHANGED <<open, destructor>>

Peek == \/ open = NULL /\ Refuse("INVALID_PARAM")
        \/ open = LIVE /\ queue = <<>> /\ Refuse("NOT_FOUND")
        \/ /\ open = LIVE
           /\ queue # <<>>
           /\ result' = Result("OK", Head(queue), <<>>)
           /\ UNCHANGED <<open, destructor, queue>>

\* The non-NULL values are destroyed, each once, oldest first.
Discarded == IF destructor = LIVE THEN SelectSeq(queue, NotNull) ELSE <<>>

Clear == \/ open = NULL /\ Refuse("OK")
         \/ /\ open = LIVE
            /\ queue' = <<>>
            /\ result' = Result("OK", Null, Discarded)
            /\ UNCHANGED <<open, destructor>>

Destroy == \/ open = NULL /\ Refuse("OK")
           \/ /\ open = LIVE
              /\ open' = NULL
              /\ destructor' = NULL
              /\ queue' = <<>>
              /\ result' = Result("OK", Null, Discarded)

Next == \/ Create
        \/ \E v \in Value : Push(v)
        \/ Pop
        \/ Peek
        \/ Clear
        \/ Destroy

Spec == Init /\ [][Next]_vars
=============================================================================
