----------------------------- MODULE LinkedList -----------------------------
(***************************************************************************)
(* The doubly linked list of common/list.c: nodes with two links each, the *)
(* two ends and a count.  Callers hold on to node pointers and pass back   *)
(* only nodes that are still in the list.                                  *)
(***************************************************************************)
EXTENDS Naturals, Sequences, FiniteSets

CONSTANTS ListNodes, ListValues, NoPtr

ASSUME ListAssumption == NoPtr \notin ListNodes /\ NoPtr \in ListValues

VARIABLES listOpen, listDestroy,     \* the caller holds a list; it has a destructor
          listHead, listTail, listSize,
          prev, next, nodeValue,     \* the fields of every node, NULL in free ones
          listResult                 \* the last call and what it returned

listVars == <<listOpen, listDestroy, listHead, listTail, listSize, prev, next, nodeValue, listResult>>

\* A call, with the node and the value it was given; what it returned and destroyed.
Call(name, at, v) == [name |-> name, at |-> at, val |-> v]

Bare(name) == Call(name, NoPtr, NoPtr)

Answer(call, node, val, destroyed) ==
  [call |-> call, node |-> node, val |-> val, destroyed |-> destroyed]

Nothing(call) == Answer(call, NoPtr, NoPtr, <<>>)

Blank == [n \in ListNodes |-> NoPtr]

ListInit == /\ listOpen = FALSE /\ listDestroy = FALSE
            /\ listHead = NoPtr /\ listTail = NoPtr /\ listSize = 0
            /\ prev = Blank /\ next = Blank /\ nodeValue = Blank
            /\ listResult = Nothing(Bare("none"))

\* The nodes met on a walk of the list's length from one end along a link.
Step(link, n) == IF n = NoPtr THEN NoPtr ELSE link[n]

WalkFrom(end, link) == LET at[i \in 1 .. listSize] == IF i = 1 THEN end ELSE Step(link, at[i - 1])
                       IN  [i \in 1 .. listSize |-> at[i]]

Forward == WalkFrom(listHead, next)

Backward == WalkFrom(listTail, prev)

InList == {Forward[i] : i \in 1 .. listSize}

\* A link of a node, when there is one.
Set(f, n, v) == [m \in ListNodes |-> IF m = n THEN v ELSE f[m]]

Refused(call) ==
  /\ listResult' = Nothing(call)
  /\ UNCHANGED <<listOpen, listDestroy, listHead, listTail, listSize, prev, next, nodeValue>>

ListCreate == \/ ~listOpen /\ Refused(Bare("create"))
              \/ /\ ~listOpen /\ listOpen' = TRUE
                 /\ listDestroy' \in BOOLEAN
                 /\ listResult' = Nothing(Bare("create"))
                 /\ UNCHANGED <<listHead, listTail, listSize, prev, next, nodeValue>>

\* create_new_node; every caller counts the node and returns it.
NewNode(n, call) == /\ n \in ListNodes \ InList
                    /\ nodeValue' = [nodeValue EXCEPT ![n] = call.val]
                    /\ listSize' = listSize + 1
                    /\ listResult' = Answer(call, n, NoPtr, <<>>)
                    /\ UNCHANGED <<listOpen, listDestroy>>

AppendNode(n) == \/ /\ listTail = NoPtr
                    /\ listHead' = n /\ listTail' = n
                    /\ prev' = Set(prev, n, NoPtr) /\ next' = Set(next, n, NoPtr)
                 \/ /\ listTail # NoPtr
                    /\ next' = Set(Set(next, n, NoPtr), listTail, n)
                    /\ prev' = Set(prev, n, listTail)
                    /\ listTail' = n /\ listHead' = listHead

PrependNode(n) == \/ /\ listHead = NoPtr
                     /\ listHead' = n /\ listTail' = n
                     /\ prev' = Set(prev, n, NoPtr) /\ next' = Set(next, n, NoPtr)
                  \/ /\ listHead # NoPtr
                     /\ prev' = Set(Set(prev, n, NoPtr), listHead, n)
                     /\ next' = Set(next, n, listHead)
                     /\ listHead' = n /\ listTail' = listTail

\* A caller without a list, without a node, or out of memory gets NULL.
ListAppend(v) ==
  LET call == Call("append", NoPtr, v)
  IN  \/ Refused(call)
      \/ listOpen /\ \E n \in ListNodes : NewNode(n, call) /\ AppendNode(n)

ListPrepend(v) ==
  LET call == Call("prepend", NoPtr, v)
  IN  \/ Refused(call)
      \/ listOpen /\ \E n \in ListNodes : NewNode(n, call) /\ PrependNode(n)

\* Faulty variant of LinkAfter: the back link of the following node is forgotten.
LinkAfterOneWay(p, n) == /\ next' = Set(Set(next, n, next[p]), p, n)
                         /\ prev' = Set(prev, n, p)

LinkAfter(p, n) == /\ next' = Set(Set(next, n, next[p]), p, n)
                   /\ prev' = Set(Set(prev, n, p), next[p], n)

ListInsertAfter(p, v) ==
  LET call == Call("insert_after", p, v)
  IN  \/ Refused(call)
      \/ /\ listOpen
         /\ \E n \in ListNodes :
              /\ NewNode(n, call)
              /\ \/ p = listTail /\ AppendNode(n)
                 \/ p # listTail /\ LinkAfter(p, n) /\ UNCHANGED <<listHead, listTail>>

ListInsertBefore(s, v) ==
  LET call == Call("insert_before", s, v)
  IN  \/ Refused(call)
      \/ /\ listOpen
         /\ \E n \in ListNodes :
              /\ NewNode(n, call)
              /\ \/ s = listHead /\ PrependNode(n)
                 \/ /\ s # listHead
                    /\ prev' = Set(Set(prev, n, prev[s]), s, n)
                    /\ next' = Set(Set(next, n, s), prev[s], n)
                    /\ UNCHANGED <<listHead, listTail>>

NotNoPtr(v) == v # NoPtr

Owned(s) == IF listDestroy THEN SelectSeq(s, NotNoPtr) ELSE <<>>

\* A node leaves: its neighbours and the ends skip it, its memory is freed.
FreeNode(n, p, x) == /\ prev' = Set(p, n, NoPtr) /\ next' = Set(x, n, NoPtr)
                     /\ nodeValue' = [nodeValue EXCEPT ![n] = NoPtr]
                     /\ listSize' = listSize - 1
                     /\ UNCHANGED <<listOpen, listDestroy>>

ListRemoveNode(n) ==
  /\ listOpen
  /\ FreeNode(n, Set(prev, next[n], prev[n]), Set(next, prev[n], next[n]))
  /\ listHead' = IF listSize = 1 THEN NoPtr ELSE IF n = listHead THEN next[n] ELSE listHead
  /\ listTail' = IF listSize = 1 THEN NoPtr ELSE IF n = listTail THEN prev[n] ELSE listTail
  /\ listResult' = Answer(Call("remove_node", n, NoPtr), NoPtr, NoPtr, Owned(<<nodeValue[n]>>))

\* Faulty variant of ListPopFront: the value handed out is destroyed as well.
ListPopFrontDestroying ==
  \/ (~listOpen \/ listHead = NoPtr) /\ Refused(Bare("pop_front"))
  \/ /\ listOpen /\ listHead # NoPtr
     /\ listHead' = next[listHead]
     /\ listTail' = IF next[listHead] = NoPtr THEN NoPtr ELSE listTail
     /\ FreeNode(listHead, Set(prev, next[listHead], NoPtr), next)
     /\ listResult' = Answer(Bare("pop_front"), NoPtr, nodeValue[listHead],
                             Owned(<<nodeValue[listHead]>>))

ListPopFront ==
  \/ (~listOpen \/ listHead = NoPtr) /\ Refused(Bare("pop_front"))
  \/ /\ listOpen /\ listHead # NoPtr
     /\ listHead' = next[listHead]
     /\ listTail' = IF next[listHead] = NoPtr THEN NoPtr ELSE listTail
     /\ FreeNode(listHead, Set(prev, next[listHead], NoPtr), next)
     /\ listResult' = Answer(Bare("pop_front"), NoPtr, nodeValue[listHead], <<>>)

ListPopBack ==
  \/ (~listOpen \/ listTail = NoPtr) /\ Refused(Bare("pop_back"))
  \/ /\ listOpen /\ listTail # NoPtr
     /\ listTail' = prev[listTail]
     /\ listHead' = IF prev[listTail] = NoPtr THEN NoPtr ELSE listHead
     /\ FreeNode(listTail, prev, Set(next, prev[listTail], NoPtr))
     /\ listResult' = Answer(Bare("pop_back"), NoPtr, nodeValue[listTail], <<>>)

\* The walk of xsan_list_clear, from head to tail.
Cleared(call) ==
  /\ listHead' = NoPtr /\ listTail' = NoPtr /\ listSize' = 0
  /\ prev' = Blank /\ next' = Blank /\ nodeValue' = Blank
  /\ listResult' = Answer(call, NoPtr, NoPtr, Owned([i \in 1 .. listSize |-> nodeValue[Forward[i]]]))

ListClear ==
  \/ ~listOpen /\ Refused(Bare("clear"))
  \/ listOpen /\ Cleared(Bare("clear")) /\ UNCHANGED <<listOpen, listDestroy>>

ListDestroy ==
  \/ ~listOpen /\ Refused(Bare("destroy"))
  \/ listOpen /\ Cleared(Bare("destroy")) /\ listOpen' = FALSE /\ listDestroy' = FALSE

ListNext == \/ ListCreate \/ ListDestroy \/ ListClear \/ ListPopFront \/ ListPopBack
            \/ \E v \in ListValues : ListAppend(v) \/ ListPrepend(v)
            \/ \E n \in InList : \/ ListRemoveNode(n)
                                 \/ \E v \in ListValues : ListInsertAfter(n, v) \/ ListInsertBefore(n, v)

ListSpec == ListInit /\ [][ListNext]_listVars

-----------------------------------------------------------------------------
(* Properties *)

\* The two directions of the list and its count agree after every insertion and
\* removal: walking size steps from the head meets distinct nodes, walking from
\* the tail meets the same ones in reverse, and both walks end there.
LinksAgree ==
  /\ NoPtr \notin InList /\ Cardinality(InList) = listSize
  /\ Backward = [i \in 1 .. listSize |-> Forward[listSize + 1 - i]]
  /\ listSize = 0 => listHead = NoPtr /\ listTail = NoPtr
  /\ listSize > 0 => next[Forward[listSize]] = NoPtr /\ prev[Forward[1]] = NoPtr

\* The list read from its head.
AbstractSequence == INSTANCE NodeSequence WITH open <- listOpen, owns <- listDestroy,
                      nodes <- Forward, value <- nodeValue, result <- listResult

\* The list behaves like a sequence of nodes: each call to insert puts its value exactly
\* where it says, at an end or next to the node it names, each call to remove takes
\* exactly its node out, a pop returns nothing only when there is nothing, and clear
\* hands the remaining values to the destructor in order.
ImplementsSequence == AbstractSequence!Spec
=============================================================================
