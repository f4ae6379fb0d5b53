---------------------------- MODULE SyncManager ----------------------------
(***************************************************************************)
(* start_sync and fast_sync, each running on the thread that called it,    *)
(* and stop_sync from any thread.  They share the status and the stop      *)
(* flag.  request_block_from_peer sends its request, waits for the timeout *)
(* and returns null, so a batch is always empty, both loops go on until    *)
(* they see the flag, and the code that applies a batch is not reached     *)
(* from them: BlockStore has it as SyncApplyBlock.                         *)
(***************************************************************************)
EXTENDS Integers, FiniteSets, CheckpointManager

CONSTANTS Callers,          \* threads that call start_sync or fast_sync
          SyncPeers,        \* peers that may be connected
          ReputationOf, IsValidator,
          CurrentHeight,    \* of the state machine, which the sync never moves
          CheckpointHeights, MaxSyncAge,
          MaxCalls          \* bound: how often sync is started

ASSUME SyncAssumption ==
    /\ CurrentHeight \in Nat /\ MaxSyncAge \in Nat /\ MaxCalls \in Nat
    /\ ReputationOf \in [SyncPeers -> Nat] /\ IsValidator \in [SyncPeers -> BOOLEAN]

VARIABLES status,         \* progress_.status
          current_height, \* progress_.current_height
          target_height,  \* progress_.target_height
          stop_requested, \* stop_requested_
          calls,          \* bound: calls so far
          at              \* where each caller is

syncVars == <<status, current_height, target_height, stop_requested, calls, at>>

SyncInit ==
    /\ status = "NotStarted" /\ current_height = 0 /\ target_height = 0
    /\ stop_requested = FALSE /\ calls = 0
    /\ at = [c \in Callers |-> "out"]

\* get_target_height, called after current_height was assigned
TargetHeight == current_height' + 1000

\* select_peer_for_request: validators first, then the best reputation;
\* equal ones in any order.
BestOf(S) == {p \in S : \A q \in S : ReputationOf[q] <= ReputationOf[p]}
SelectPeerForRequest(peers) ==
    LET validators == {p \in peers : IsValidator[p]}
    IN  IF validators # {} THEN BestOf(validators) ELSE BestOf(peers)

\* start_sync: the guard and the status are two accesses of a plain field,
\* so that two callers may both pass the guard.
CheckNotSyncing(c) ==
    /\ at[c] = "out" /\ calls < MaxCalls
    /\ status \notin {"Syncing", "FastSyncing"}
    /\ calls' = calls + 1
    /\ at' = [at EXCEPT ![c] = "start"]
    /\ UNCHANGED <<status, current_height, target_height, stop_requested>>
StartSync(c) ==
    /\ at[c] = "start"
    /\ status' = "Syncing"
    /\ current_height' = CurrentHeight /\ target_height' = TargetHeight
    /\ stop_requested' = FALSE
    /\ at' = [at EXCEPT ![c] = "loop"]
    /\ UNCHANGED calls

\* fast_sync looks at the checkpoint's age only, not at the status.
FastSync(c, height) ==
    /\ at[c] = "out" /\ calls < MaxCalls
    /\ CheckCheckpointAge(height, CurrentHeight, MaxSyncAge)
    /\ status' = "FastSyncing"
    /\ current_height' = height /\ target_height' = TargetHeight
    /\ stop_requested' = FALSE
    /\ calls' = calls + 1
    /\ at' = [at EXCEPT ![c] = "loop"]

\* The loop: no batch when stopping or without peers, otherwise a request
\* that takes its timeout; then it sleeps a second and tries again.
TryBatch(c, peers) ==
    /\ at[c] = "loop" /\ ~stop_requested
    /\ \/ peers = {} /\ at' = [at EXCEPT ![c] = "sleep"]
       \/ \E p \in SelectPeerForRequest(peers) : at' = [at EXCEPT ![c] = "request"]
    /\ UNCHANGED <<status, current_height, target_height, stop_requested, calls>>
RequestTimesOut(c) ==
    /\ at[c] = "request"
    /\ at' = [at EXCEPT ![c] = "sleep"]
    /\ UNCHANGED <<status, current_height, target_height, stop_requested, calls>>
\* Mutant: a failed request is repeated at once.
RetryAtOnce(c) ==
    /\ at[c] = "sleep"
    /\ at' = [at EXCEPT ![c] = "request"]
    /\ UNCHANGED <<status, current_height, target_height, stop_requested, calls>>
WakeUp(c) ==
    /\ at[c] = "sleep"
    /\ at' = [at EXCEPT ![c] = "loop"]
    /\ UNCHANGED <<status, current_height, target_height, stop_requested, calls>>
SeeStop(c) ==
    /\ at[c] = "loop" /\ stop_requested
    /\ status' = "NotStarted"
    /\ at' = [at EXCEPT ![c] = "out"]
    /\ UNCHANGED <<current_height, target_height, stop_requested, calls>>

StopSync ==
    /\ stop_requested' = TRUE
    /\ UNCHANGED <<status, current_height, target_height, calls, at>>

Proceed(c) ==
    \/ StartSync(c) \/ \E peers \in SUBSET SyncPeers : TryBatch(c, peers)
    \/ RequestTimesOut(c) \/ WakeUp(c) \/ SeeStop(c)

SyncNext ==
    \/ \E c \in Callers :
          \/ CheckNotSyncing(c)
          \/ \E h \in CheckpointHeights : FastSync(c, h)
          \/ Proceed(c)
    \/ StopSync

\* A thread inside a sync keeps running: what it waits for are timeouts.
SyncFairness == \A c \in Callers : WF_syncVars(Proceed(c))

-----------------------------------------------------------------------------
(* Properties.                                                             *)

\* A stop ends every sync under way, also one that entered beside another,
\* unless a sync that starts afterwards clears the flag.
StopEndsSync ==
    stop_requested ~> (~stop_requested \/ \A c \in Callers : at[c] = "out")
=============================================================================
