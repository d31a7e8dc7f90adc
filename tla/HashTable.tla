----------------------------- MODULE HashTable ------------------------------
(***************************************************************************)
(* The hash table of common/hashtable.c: an array of chains whose length   *)
(* never changes, new entries at the head of their chain, optional         *)
(* destructors for keys and values, and an iterator that points into a     *)
(* chain.  A caller holds at most one table and one iterator.              *)
(***************************************************************************)
EXTENDS Naturals, Sequences, FiniteSets

CONSTANTS KeyPtr,        \* key objects: <<what they are compared by, which object>>
          Values,        \* value pointers
          HashOf,        \* hash_func: a number for every key
          TableCapacity  \* the capacity given to create

Keys == {k[1] : k \in KeyPtr}

\* create replaces a capacity of 0 by a default.
ASSUME TableAssumption == TableCapacity \in Nat \ {0} /\ HashOf \in [Keys -> Nat]

VARIABLES tableOpen,                 \* the caller holds a table
          keyDestroy, valueDestroy,  \* it was created with destructors
          buckets, tableSize,
          iter,                      \* xsan_hashtable_iter_t
          iterSeen, iterOwed,        \* history: keys returned, keys still to return
          tableResult                \* what the last call returned and destroyed

tableVars == <<tableOpen, keyDestroy, valueDestroy, buckets, tableSize,
               iter, iterSeen, iterOwed, tableResult>>

Bucket == 0 .. TableCapacity - 1

Entry == [key : KeyPtr, value : Values]

\* A call, by its name and the key it was given; what it returned and destroyed.
Outcome(call, err, out, keys, values) ==
  [call |-> call, err |-> err, out |-> out, keys |-> keys, values |-> values]

Plain(call, err) == Outcome(call, err, {}, {}, {})

\* current_entry of an iterator: no entry, an entry of the table named by its
\* key, or one that was freed meanwhile.
AtEntry(k) == <<"entry", k>>

NoEntry == <<"none">>

FreedEntry == <<"freed">>

IterOff == [on |-> FALSE, bucket |-> 0, entry |-> NoEntry]

TableInit == /\ tableOpen = FALSE /\ keyDestroy = FALSE /\ valueDestroy = FALSE
             /\ buckets = [b \in Bucket |-> <<>>]
             /\ tableSize = 0
             /\ iter = IterOff /\ iterSeen = {} /\ iterOwed = {}
             /\ tableResult = Plain(<<"none">>, "OK")

TableReturn(r) == /\ tableResult' = r
                  /\ UNCHANGED <<tableOpen, keyDestroy, valueDestroy, buckets, tableSize,
                                 iter, iterSeen, iterOwed>>

-----------------------------------------------------------------------------
(* Lookup: the walk along a chain that put, get and remove share. *)

Index(k) == HashOf[k[1]] % TableCapacity

Hits(k) == {i \in DOMAIN buckets[Index(k)] : buckets[Index(k)][i].key[1] = k[1]}

Found(k) == Hits(k) # {}

Place(k) == CHOOSE i \in Hits(k) : \A j \in Hits(k) : i <= j

EntryOf(k) == buckets[Index(k)][Place(k)]

\* All entries, as the pairs the destructors would see.
EntriesOf(t) == UNION {{t[b][i] : i \in DOMAIN t[b]} : b \in DOMAIN t}

Entries == EntriesOf(buckets)

Without(s, i) == SubSeq(s, 1, i - 1) \o SubSeq(s, i + 1, Len(s))

\* The destructors run on a set of entries.
Destroying(call, E) ==
  Outcome(call, "OK", {}, IF keyDestroy THEN {e.key : e \in E} ELSE {},
                          IF valueDestroy THEN {<<e.key[1], e.value>> : e \in E} ELSE {})

\* What remains of the iterator when the entries E are freed.
IterAfter(E) == IF \E e \in E : iter.entry = AtEntry(e.key[1])
                THEN [iter EXCEPT !.entry = FreedEntry] ELSE iter

-----------------------------------------------------------------------------
TableCreate == \/ ~tableOpen /\ TableReturn(Plain(<<"create">>, "NULL"))
               \/ /\ ~tableOpen /\ tableOpen' = TRUE
                  /\ keyDestroy' \in BOOLEAN /\ valueDestroy' \in BOOLEAN
                  /\ buckets' = [b \in Bucket |-> <<>>] /\ tableSize' = 0
                  /\ tableResult' = Plain(<<"create">>, "OK")
                  /\ UNCHANGED <<iter, iterSeen, iterOwed>>

\* The value of an entry whose key compares equal is replaced; its key object
\* stays.  The old value is destroyed unless it is the new one.
Replace(k, v) ==
  /\ buckets' = [buckets EXCEPT ![Index(k)][Place(k)].value = v]
  /\ tableResult' = Outcome(<<"put", k[1]>>, "OK", {}, {},
                            IF valueDestroy /\ EntryOf(k).value # v
                            THEN {<<k[1], EntryOf(k).value>>} ELSE {})
  /\ UNCHANGED <<tableOpen, keyDestroy, valueDestroy, tableSize, iter, iterSeen, iterOwed>>

Insert(k, v) ==
  /\ buckets' = [buckets EXCEPT ![Index(k)] = <<[key |-> k, value |-> v]>> \o @]
  /\ tableSize' = tableSize + 1
  /\ tableResult' = Plain(<<"put", k[1]>>, "OK")
  /\ UNCHANGED <<tableOpen, keyDestroy, valueDestroy, iter, iterSeen, iterOwed>>

\* Faulty variant of TablePut: the chain is not searched.
TablePutBlind(k, v) == \/ ~tableOpen /\ TableReturn(Plain(<<"put", k[1]>>, "INVALID_PARAM"))
                       \/ tableOpen /\ TableReturn(Plain(<<"put", k[1]>>, "NO_MEMORY"))
                       \/ tableOpen /\ Insert(k, v)

TablePut(k, v) == \/ ~tableOpen /\ TableReturn(Plain(<<"put", k[1]>>, "INVALID_PARAM"))
                  \/ tableOpen /\ Found(k) /\ Replace(k, v)
                  \/ tableOpen /\ ~Found(k) /\ TableReturn(Plain(<<"put", k[1]>>, "NO_MEMORY"))
                  \/ tableOpen /\ ~Found(k) /\ Insert(k, v)

TableGet(k) == TableReturn(IF tableOpen /\ Found(k)
                           THEN Outcome(<<"get", k[1]>>, "OK", {EntryOf(k).value}, {}, {})
                           ELSE Plain(<<"get", k[1]>>, "NULL"))

TableSizeCall == TableReturn(Outcome(<<"size">>, "OK", {tableSize}, {}, {}))

Unlink(k) == buckets' = [buckets EXCEPT ![Index(k)] = Without(@, Place(k))]

TableRemove(k) ==
  \/ ~tableOpen /\ TableReturn(Plain(<<"remove", k[1]>>, "INVALID_PARAM"))
  \/ tableOpen /\ ~Found(k) /\ TableReturn(Plain(<<"remove", k[1]>>, "NOT_FOUND"))
  \/ /\ tableOpen /\ Found(k)
     /\ Unlink(k)
     /\ tableSize' = tableSize - 1
     /\ tableResult' = Destroying(<<"remove", k[1]>>, {EntryOf(k)})
     /\ iter' = IterAfter({EntryOf(k)})
     /\ iterOwed' = iterOwed \ {k[1]}
     /\ UNCHANGED <<tableOpen, keyDestroy, valueDestroy, iterSeen>>

Emptied(call) == /\ buckets' = [b \in Bucket |-> <<>>]
                 /\ tableSize' = 0
                 /\ tableResult' = Destroying(call, Entries)
                 /\ iterOwed' = {}

TableClear == \/ ~tableOpen /\ TableReturn(Plain(<<"clear">>, "OK"))
              \/ /\ tableOpen /\ Emptied(<<"clear">>)
                 /\ iter' = IterAfter(Entries)
                 /\ UNCHANGED <<tableOpen, keyDestroy, valueDestroy, iterSeen>>

TableDestroy == \/ ~tableOpen /\ TableReturn(Plain(<<"destroy">>, "OK"))
                \/ /\ tableOpen /\ Emptied(<<"destroy">>)
                   /\ tableOpen' = FALSE /\ keyDestroy' = FALSE /\ valueDestroy' = FALSE
                   /\ iter' = IterOff /\ iterSeen' = {}

-----------------------------------------------------------------------------
(* The iterator *)

IterInit == /\ tableOpen
            /\ iter' = [on |-> TRUE, bucket |-> 0, entry |-> NoEntry]
            /\ iterSeen' = {} /\ iterOwed' = {e.key[1] : e \in Entries}
            /\ tableResult' = Plain(<<"iter_init">>, "OK")
            /\ UNCHANGED <<tableOpen, keyDestroy, valueDestroy, buckets, tableSize>>

\* current_entry->next, followed at the time of the call.
NextInChain == IF iter.entry = NoEntry THEN <<>>
               ELSE LET c == buckets[iter.bucket - 1]
                        i == CHOOSE i \in DOMAIN c : AtEntry(c[i].key[1]) = iter.entry
                    IN  SubSeq(c, i + 1, Len(c))

LaterBuckets == {b \in Bucket : b >= iter.bucket /\ buckets[b] # <<>>}

Visit(e, b) == /\ iter' = [iter EXCEPT !.entry = AtEntry(e.key[1]), !.bucket = b]
               /\ iterSeen' = iterSeen \cup {e.key[1]}
               /\ iterOwed' = iterOwed \ {e.key[1]}
               /\ tableResult' = Outcome(<<"iter_next">>, "OK", {e.value}, {}, {})

\* Faulty variant of IterNext: the rest of a chain is passed over.
IterNextHeads ==
  \/ ~iter.on /\ TableReturn(Plain(<<"iter_next">>, "END"))
  \/ /\ iter.on /\ iter.entry # FreedEntry
     /\ \/ /\ LaterBuckets # {}
           /\ LET b == CHOOSE b \in LaterBuckets : \A c \in LaterBuckets : b <= c
              IN  Visit(Head(buckets[b]), b + 1)
        \/ /\ LaterBuckets = {}
           /\ iter' = [iter EXCEPT !.entry = NoEntry, !.bucket = TableCapacity]
           /\ tableResult' = Plain(<<"iter_next">>, "END")
           /\ UNCHANGED <<iterSeen, iterOwed>>
     /\ UNCHANGED <<tableOpen, keyDestroy, valueDestroy, buckets, tableSize>>

\* A caller does not go on with an iterator whose entry was freed.
IterNext ==
  \/ ~iter.on /\ TableReturn(Plain(<<"iter_next">>, "END"))
  \/ /\ iter.on /\ iter.entry # FreedEntry
     /\ \/ NextInChain # <<>> /\ Visit(Head(NextInChain), iter.bucket)
        \/ /\ NextInChain = <<>> /\ LaterBuckets # {}
           /\ LET b == CHOOSE b \in LaterBuckets : \A c \in LaterBuckets : b <= c
              IN  Visit(Head(buckets[b]), b + 1)
        \/ /\ NextInChain = <<>> /\ LaterBuckets = {}
           /\ iter' = [iter EXCEPT !.entry = NoEntry, !.bucket = TableCapacity]
           /\ tableResult' = Plain(<<"iter_next">>, "END")
           /\ UNCHANGED <<iterSeen, iterOwed>>
     /\ UNCHANGED <<tableOpen, keyDestroy, valueDestroy, buckets, tableSize>>

TableNext == \/ TableCreate \/ TableDestroy \/ TableClear \/ TableSizeCall
             \/ IterInit \/ IterNext
             \/ \E k \in KeyPtr : TableGet(k) \/ TableRemove(k) \/ \E v \in Values : TablePut(k, v)

TableSpec == TableInit /\ [][TableNext]_tableVars

-----------------------------------------------------------------------------
(* Properties *)

\* size is the number of entries over all chains, every entry is in the chain
\* its key hashes to, and no two entries have equal keys: put, remove and clear
\* each maintain the three by hand.
ChainsExact ==
  /\ tableSize = Cardinality(Entries)
  /\ \A b \in Bucket : \A i, j \in DOMAIN buckets[b] :
       /\ Index(buckets[b][i].key) = b
       /\ buckets[b][i].key[1] = buckets[b][j].key[1] => i = j

\* The entries as a map from keys.
MapOf(E) == [k \in {e.key[1] : e \in E} |-> CHOOSE e \in E : e.key[1] = k]

AbstractMap == INSTANCE KeyedStore WITH
                 open <- tableOpen, ownsKeys <- keyDestroy, ownsValues <- valueDestroy,
                 map <- MapOf(Entries), iterating <- iter.on, owed <- iterOwed,
                 seen <- iterSeen, result <- tableResult

\* The hash table behaves like a map of pointers: lookups see the last value put,
\* a replaced or removed value meets the destructor once, the key object of the
\* first put stays, and an iteration returns no key twice and no key that
\* stayed in the table is left out, whatever is put or removed between its steps.
ImplementsMap == AbstractMap!Spec
=============================================================================
