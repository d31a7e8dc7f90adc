-------------------------- MODULE MCReplicatedWrite --------------------------
(* Instances of ReplicatedWrite for TLC. *)
EXTENDS ReplicatedWrite

AllFaults == FaultKinds

\* Nothing fails: the only trouble is that a node is not connected yet.
ConnectOnly == {"disconnect"}
=============================================================================
