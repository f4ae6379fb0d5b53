------------------------------- MODULE MCSync -------------------------------
(***************************************************************************)
(* The shared database and the sync loops.  A sync never gets a block from *)
(* a peer, so the two do not meet and a behaviour exercises one of them.   *)
(***************************************************************************)
EXTENDS BlockStore, SyncManager

CONSTANTS v1, v2, v3
VARIABLE part

MCStakes == [v \in {v1, v2, v3} |-> IF v = v1 THEN 2 ELSE 1]
MCStatus == [v \in {v1, v2, v3} |-> IF v = v1 THEN "Active" ELSE "Jailed"]
Tx(h, i) == [id |-> <<h, i>>, wellFormed |-> TRUE]
MCBodyOf == <<<<Tx(1, 1), Tx(1, 2), Tx(1, 3)>>, <<>>, <<Tx(3, 1), Tx(3, 2)>>, <<Tx(4, 1)>>>>
MCBodiesSent ==
    [h \in 1..4 |->
        {MCBodyOf[h], <<>>, <<Tx(h, 2), Tx(h, 1)>>, <<Tx(h, 1), Tx(h, 2), Tx(h, 3), Tx(h, 3)>>,
         <<[id |-> <<h, 1>>, wellFormed |-> FALSE]>>}]
MCReputation == [p \in SyncPeers |-> IF p = v1 THEN 90 ELSE 50]
MCIsValidator == [p \in SyncPeers |-> p = v2]

MCInit == StoreInit /\ SyncInit /\ part \in {"store", "sync"}
MCNext ==
    /\ UNCHANGED part
    /\ \/ part = "store" /\ StoreNext /\ UNCHANGED syncVars
       \/ part = "sync" /\ SyncNext /\ UNCHANGED storeVars
MCSpec == MCInit /\ [][MCNext]_<<storeVars, syncVars, part>> /\ SyncFairness
=============================================================================
