-------------------------------- MODULE MCNode --------------------------------
(***************************************************************************)
(* The parts of a node that work on their own state, checked in one run:   *)
(* the behaviour chosen at the start is that of one part, and the others   *)
(* stay as they are initially.                                             *)
(***************************************************************************)
EXTENDS ReplicaRead, Framing, EventLoop, BlockIO, Vhost, NodeProcess, MCExtentIO

VARIABLE part          \* the part whose steps are taken

Parts == {"read", "framing", "events", "io", "vhost", "process", "extents"}

MCInit == /\ part \in Parts
          /\ ReadInit /\ FramingInit /\ EventInit /\ IoInit /\ VhostInit /\ NodeInit
          /\ ExtentInit
          /\ part # "read" => \A i \in Peers : peerConn[i] = "idle"

MCNext ==
  /\ UNCHANGED part
  /\ \/ /\ part = "read" /\ ReadNext
        /\ UNCHANGED <<framingVars, eventVars, ioVars, vhostVars, nodeVars, extentVars>>
     \/ /\ part = "framing" /\ FramingNext
        /\ UNCHANGED <<readVars, eventVars, ioVars, vhostVars, nodeVars, extentVars>>
     \/ /\ part = "events" /\ EventNext
        /\ UNCHANGED <<readVars, framingVars, ioVars, vhostVars, nodeVars, extentVars>>
     \/ /\ part = "io" /\ IoNext
        /\ UNCHANGED <<readVars, framingVars, eventVars, vhostVars, nodeVars, extentVars>>
     \/ /\ part = "vhost" /\ VhostNext
        /\ UNCHANGED <<readVars, framingVars, eventVars, ioVars, nodeVars, extentVars>>
     \/ /\ part = "process" /\ NodeNext
        /\ UNCHANGED <<readVars, framingVars, eventVars, ioVars, vhostVars, extentVars>>
     \/ /\ part = "extents" /\ ExtentNext
        /\ UNCHANGED <<readVars, framingVars, eventVars, ioVars, vhostVars, nodeVars>>

mcVars == <<part, readVars, framingVars, eventVars, ioVars, vhostVars, nodeVars, extentVars>>

\* The fairness of every part; that of a part that does not run is void, because nothing
\* it speaks of is enabled initially.
MCSpec == MCInit /\ [][MCNext]_mcVars /\ ReadFairness /\ FramingFairness /\ NodeFairness
=============================================================================
