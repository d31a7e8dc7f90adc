----------------------------- MODULE KeyedStore -----------------------------
(***************************************************************************)
(* What a table of key and value pointers promises its callers: at most    *)
(* one pair per key, the key object of the first put, the value of the     *)
(* last one, the result of every call, the pairs handed to the             *)
(* destructors, and an iteration that returns no key twice and leaves out  *)
(* no key that stayed in the table throughout.  HashTable implements it.   *)
(***************************************************************************)
EXTENDS Naturals, FiniteSets

CONSTANTS KeyPtr,  \* key objects: <<what they are compared by, which object>>
          Values   \* value pointers

VARIABLES open, ownsKeys, ownsValues,
          map,     \* the stored pairs, by key
          iterating, owed, seen,
          result

vars == <<open, ownsKeys, ownsValues, map, iterating, owed, seen, result>>

\* A call, by its name and the key it was given; what it returned and destroyed.
Outcome(call, err, out, keys, values) ==
  [call |-> call, err |-> err, out |-> out, keys |-> keys, values |-> values]

Plain(call, err) == Outcome(call, err, {}, {}, {})

Empty == [k \in {} |-> {}]

Init == /\ open = FALSE /\ ownsKeys = FALSE /\ ownsValues = FALSE
        /\ map = Empty
        /\ iterating = FALSE /\ owed = {} /\ seen = {}
        /\ result = Plain(<<"none">>, "OK")

Answer(r) == result' = r /\ UNCHANGED <<open, ownsKeys, ownsValues, map, iterating, owed, seen>>

Create == \/ ~open /\ Answer(Plain(<<"create">>, "NULL"))
          \/ /\ ~open /\ open' = TRUE
             /\ ownsKeys' \in BOOLEAN /\ ownsValues' \in BOOLEAN
             /\ result' = Plain(<<"create">>, "OK")
             /\ UNCHANGED <<map, iterating, owed, seen>>

Put(k, v) ==
  \/ ~open /\ Answer(Plain(<<"put", k[1]>>, "INVALID_PARAM"))
  \/ open /\ k[1] \notin DOMAIN map /\ Answer(Plain(<<"put", k[1]>>, "NO_MEMORY"))
  \/ /\ open /\ k[1] \notin DOMAIN map
     /\ map' = [j \in DOMAIN map \cup {k[1]} |->
                  IF j = k[1] THEN [key |-> k, value |-> v] ELSE map[j]]
     /\ result' = Plain(<<"put", k[1]>>, "OK")
     /\ UNCHANGED <<open, ownsKeys, ownsValues, iterating, owed, seen>>
  \/ /\ open /\ k[1] \in DOMAIN map
     /\ map' = [map EXCEPT ![k[1]].value = v]
     /\ result' = Outcome(<<"put", k[1]>>, "OK", {}, {}, IF ownsValues /\ map[k[1]].value # v
                                                        THEN {<<k[1], map[k[1]].value>>} ELSE {})
     /\ UNCHANGED <<open, ownsKeys, ownsValues, iterating, owed, seen>>

Get(k) == Answer(IF open /\ k[1] \in DOMAIN map
                 THEN Outcome(<<"get", k[1]>>, "OK", {map[k[1]].value}, {}, {})
                 ELSE Plain(<<"get", k[1]>>, "NULL"))

Size == Answer(Outcome(<<"size">>, "OK", {Cardinality(DOMAIN map)}, {}, {}))

\* The pairs of keys K leave; the destructors see each of them once.
Discard(call, K) ==
  /\ map' = [j \in DOMAIN map \ K |-> map[j]]
  /\ owed' = owed \ K
  /\ result' = Outcome(call, "OK", {}, IF ownsKeys THEN {map[j].key : j \in K} ELSE {},
                                       IF ownsValues THEN {<<j, map[j].value>> : j \in K} ELSE {})

Remove(k) == \/ ~open /\ Answer(Plain(<<"remove", k[1]>>, "INVALID_PARAM"))
             \/ open /\ k[1] \notin DOMAIN map /\ Answer(Plain(<<"remove", k[1]>>, "NOT_FOUND"))
             \/ /\ open /\ k[1] \in DOMAIN map
                /\ Discard(<<"remove", k[1]>>, {k[1]})
                /\ UNCHANGED <<open, ownsKeys, ownsValues, iterating, seen>>

Clear == \/ ~open /\ Answer(Plain(<<"clear">>, "OK"))
         \/ open /\ Discard(<<"clear">>, DOMAIN map) /\ UNCHANGED <<open, ownsKeys, ownsValues, iterating, seen>>

Destroy == \/ ~open /\ Answer(Plain(<<"destroy">>, "OK"))
           \/ /\ open
              /\ map' = Empty /\ open' = FALSE /\ iterating' = FALSE /\ owed' = {} /\ seen' = {}
              /\ ownsKeys' = FALSE /\ ownsValues' = FALSE
              /\ result' = Outcome(<<"destroy">>, "OK", {},
                                   IF ownsKeys THEN {map[j].key : j \in DOMAIN map} ELSE {},
                                   IF ownsValues THEN {<<j, map[j].value>> : j \in DOMAIN map} ELSE {})

IterInit == /\ open
            /\ iterating' = TRUE /\ owed' = DOMAIN map /\ seen' = {}
            /\ result' = Plain(<<"iter_init">>, "OK")
            /\ UNCHANGED <<open, ownsKeys, ownsValues, map>>

IterNext == \/ ~iterating /\ Answer(Plain(<<"iter_next">>, "END"))
            \/ iterating /\ owed = {} /\ Answer(Plain(<<"iter_next">>, "END"))
            \/ /\ iterating
               /\ \E j \in DOMAIN map \ seen :
                    /\ seen' = seen \cup {j} /\ owed' = owed \ {j}
                    /\ result' = Outcome(<<"iter_next">>, "OK", {map[j].value}, {}, {})
               /\ UNCHANGED <<open, ownsKeys, ownsValues, map, iterating>>

Next == \/ Create \/ Destroy \/ Clear \/ Size \/ IterInit \/ IterNext
        \/ \E k \in KeyPtr : Get(k) \/ Remove(k) \/ \E v \in Values : Put(k, v)

Spec == Init /\ [][Next]_vars
=============================================================================
