---------------------------- MODULE NodeSequence ----------------------------
(***************************************************************************)
(* What a linked list promises its callers: a sequence of nodes that stay  *)
(* valid handles until they are removed, with insertion and removal at     *)
(* either end or at a handle.  LinkedList implements it.                   *)
(***************************************************************************)
EXTENDS Naturals, Sequences

CONSTANTS ListNodes,  \* addresses of nodes
          ListValues, \* value pointers
          NoPtr       \* the NULL pointer, also a value

VARIABLES open, owns, nodes, value, result

vars == <<open, owns, nodes, value, result>>

\* A call, with the node and the value it was given; what it returned and destroyed.
Call(name, at, v) == [name |-> name, at |-> at, val |-> v]

Bare(name) == Call(name, NoPtr, NoPtr)

Answer(call, node, val, destroyed) ==
  [call |-> call, node |-> node, val |-> val, destroyed |-> destroyed]

Nothing(call) == Answer(call, NoPtr, NoPtr, <<>>)

Used == {nodes[i] : i \in DOMAIN nodes}

Before(i) == SubSeq(nodes, 1, i)

After(i) == SubSeq(nodes, i + 1, Len(nodes))

Init == /\ open = FALSE /\ owns = FALSE
        /\ nodes = <<>>
        /\ value = [n \in ListNodes |-> NoPtr]
        /\ result = Nothing(Bare("none"))

\* A call that has no effect.
Refuse(call) == result' = Nothing(call) /\ UNCHANGED <<open, owns, nodes, value>>

Create == \/ ~open /\ Refuse(Bare("create"))
          \/ /\ ~open /\ open' = TRUE /\ owns' \in BOOLEAN
             /\ result' = Nothing(Bare("create"))
             /\ UNCHANGED <<nodes, value>>

\* A new node with the call's value comes to stand after the first i nodes, or there is
\* no memory for one.
Insert(call, i) ==
  \/ Refuse(call)
  \/ /\ open
     /\ \E n \in ListNodes \ Used :
          /\ nodes' = Before(i) \o <<n>> \o After(i)
          /\ value' = [value EXCEPT ![n] = call.val]
          /\ result' = Answer(call, n, NoPtr, <<>>)
     /\ UNCHANGED <<open, owns>>

\* The node at place i leaves; its value goes to the caller or the destructor.
Take(call, i, val, destroyed) ==
  /\ open
  /\ nodes' = Before(i - 1) \o After(i)
  /\ value' = [value EXCEPT ![nodes[i]] = NoPtr]
  /\ result' = Answer(call, NoPtr, val, destroyed)
  /\ UNCHANGED <<open, owns>>

\* The node at an end leaves, if there is one.
Pop(call, i) == \/ nodes = <<>> /\ Refuse(call)
                \/ nodes # <<>> /\ Take(call, i, value[nodes[i]], <<>>)

NotNoPtr(v) == v # NoPtr

Owned(s) == IF owns THEN SelectSeq(s, NotNoPtr) ELSE <<>>

Clear(call) == /\ open
               /\ nodes' = <<>>
               /\ value' = [n \in ListNodes |-> NoPtr]
               /\ result' = Answer(call, NoPtr, NoPtr, Owned([i \in DOMAIN nodes |-> value[nodes[i]]]))

Next == \/ Create
        \/ \E v \in ListValues : \/ Insert(Call("append", NoPtr, v), Len(nodes))
                                 \/ Insert(Call("prepend", NoPtr, v), 0)
        \/ \E i \in DOMAIN nodes, v \in ListValues :
             \/ Insert(Call("insert_after", nodes[i], v), i)
             \/ Insert(Call("insert_before", nodes[i], v), i - 1)
        \/ \E i \in DOMAIN nodes :
             Take(Call("remove_node", nodes[i], NoPtr), i, NoPtr, Owned(<<value[nodes[i]]>>))
        \/ Pop(Bare("pop_front"), 1)
        \/ Pop(Bare("pop_back"), Len(nodes))
        \/ Clear(Bare("clear")) /\ UNCHANGED <<open, owns>>
        \/ Clear(Bare("destroy")) /\ open' = FALSE /\ owns' = FALSE
        \/ ~open /\ \E name \in {"clear", "destroy"} : Refuse(Bare(name))

Spec == Init /\ [][Next]_vars
=============================================================================
