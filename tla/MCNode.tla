------------------------------- MODULE MCNode -------------------------------
(***************************************************************************)
(* The network layer under any sequence of calls, and the process around   *)
(* it, which makes a few of them at a few points: a behaviour exercises    *)
(* the one or the other, since their product shows nothing more.           *)
(***************************************************************************)
EXTENDS Node

CONSTANTS p1, p2
VARIABLE part

MCPeerOrder == <<p1, p2>>
MCDeltas == {-50, -80, 60}

MCInit ==
    NodeInit /\ NetworkInit /\ part \in {"network", "node"}
MCNext ==
    /\ UNCHANGED part
    /\ \/ part = "network" /\ NetworkNext /\ UNCHANGED nodeVars
       \/ part = "node" /\ NodeNext
MCSpec == MCInit /\ [][MCNext]_<<networkVars, nodeVars, part>> /\ NodeFairness
=============================================================================
