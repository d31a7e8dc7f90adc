------------------------------ MODULE MCSupport ------------------------------
(***************************************************************************)
(* The libraries the rest of xsan is built on, for TLC.  They share no     *)
(* state, so each behaviour exercises one of them, its part, and the       *)
(* properties of the others are checked of their initial states.           *)
(***************************************************************************)
EXTENDS RingBuffer, HashTable, LinkedList, MemoryPool, MemoryManager, ConfigStore, LogFiles, TLC

VARIABLE part

Parts == {"ring", "table", "list", "pool", "memory", "config", "log"}

MCInit == /\ part \in Parts
          /\ Init /\ TableInit /\ ListInit /\ PoolInit /\ MemoryInit /\ ConfigInit /\ LogInit

MCNext ==
  \/ /\ part = "ring" /\ Next
     /\ UNCHANGED <<part, tableVars, listVars, poolVars, memoryVars, configVars, logVars>>
  \/ /\ part = "table" /\ TableNext
     /\ UNCHANGED <<part, vars, listVars, poolVars, memoryVars, configVars, logVars>>
  \/ /\ part = "list" /\ ListNext
     /\ UNCHANGED <<part, vars, tableVars, poolVars, memoryVars, configVars, logVars>>
  \/ /\ part = "pool" /\ PoolNext
     /\ UNCHANGED <<part, vars, tableVars, listVars, memoryVars, configVars, logVars>>
  \/ /\ part = "memory" /\ MemoryNext
     /\ UNCHANGED <<part, vars, tableVars, listVars, poolVars, configVars, logVars>>
  \/ /\ part = "config" /\ ConfigNext
     /\ UNCHANGED <<part, vars, tableVars, listVars, poolVars, memoryVars, logVars>>
  \/ /\ part = "log" /\ LogNext
     /\ UNCHANGED <<part, vars, tableVars, listVars, poolVars, memoryVars, configVars>>

MCSpec == MCInit /\ [][MCNext]_<<part, vars, tableVars, listVars, poolVars, memoryVars, configVars, logVars>>

\* Two keys of one content, and a third that falls into the same bucket.
TestKeys == {<<1, 1>>, <<1, 2>>, <<2, 1>>, <<3, 1>>}

TestHash == <<2, 4, 3>>

\* Stored values, and keys of the configuration, are only ever compared.
Symmetry == Permutations(Values) \cup Permutations(ConfigKeys)
=============================================================================
