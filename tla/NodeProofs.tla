----------------------------- MODULE NodeProofs -----------------------------
(***************************************************************************)
(* The network layer and the process for any number of peers, messages,    *)
(* durations and limits.  A ban outlives its record only when it is over:  *)
(* NetworkInv keeps the history of bans and the map of banned peers        *)
(* together, and the history of handled messages and the map of seen ones. *)
(* NodeInv says where the main thread may be while background threads live. *)
(* The consensus loop: LoopInv relates the two clocks a view change is     *)
(* judged by.                                                              *)
(***************************************************************************)
EXTENDS Node, ConsensusLoop, FiniteSetTheorems, TLAPS

PeerInfos == [is_validator : BOOLEAN, last_seen : Nat, reputation_score : 25..100]

\* Who is not on record as banned has no ban that is still running, and
\* whoever is connected has neither such a ban nor a reputation that earns one.
BansInv ==
    /\ clock \in Nat
    /\ lastBan \in [Peers -> Nat]
    /\ DOMAIN peers \subseteq Peers
    /\ peers \in [DOMAIN peers -> PeerInfos]
    /\ \A p \in DOMAIN peers : clock >= lastBan[p]
    /\ \A p \in Peers : IF p \in DOMAIN banned THEN banned[p] = lastBan[p] ELSE clock >= lastBan[p]

\* A message on record was last handled or sent when the record says, and one
\* that is not was never handled or longer ago than the TTL.
SeenInv ==
    /\ clock \in Nat
    /\ handled \in [Messages -> Int]
    /\ \A m \in Messages :
          IF m \in DOMAIN seen THEN seen[m] = handled[m] /\ handled[m] <= clock
          ELSE handled[m] = -1 \/ clock - handled[m] > SeenTtl

LEMMA BansInvInit == NetworkInit => BansInv
<1> SUFFICES ASSUME NetworkInit PROVE BansInv
    OBVIOUS
<1>1. DOMAIN peers = {} /\ DOMAIN banned = {}
    BY DEF NetworkInit
<1>2. peers \in [DOMAIN peers -> PeerInfos]
    BY DEF NetworkInit
<1> QED
    BY <1>1, <1>2 DEF NetworkInit, BansInv

\* ban_peer, called directly or by update_reputation.
LEMMA BanPeerBans ==
    ASSUME BansInv, NEW p \in Peers, NEW n \in Nat, BanPeer(p, n)
    PROVE  BansInv'
<1>1. /\ peers' = Without(peers, p) /\ banned' = With(banned, p, clock + n)
      /\ lastBan' = [lastBan EXCEPT ![p] = clock + n] /\ clock' = clock
    BY DEF BanPeer
<1>2. DOMAIN peers' = DOMAIN peers \ {p} /\ peers' \in [DOMAIN peers' -> PeerInfos]
    BY <1>1 DEF BansInv, Without
<1>3. lastBan' \in [Peers -> Nat] /\ \A q \in Peers \ {p} : lastBan'[q] = lastBan[q]
    BY <1>1 DEF BansInv
<1>4. \A q \in Peers : IF q \in DOMAIN banned' THEN banned'[q] = lastBan'[q] ELSE clock' >= lastBan'[q]
    BY <1>1 DEF BansInv, With
<1> QED
    BY <1>1, <1>2, <1>3, <1>4 DEF BansInv

\* Every operation of the network layer keeps the bans and the peers apart.
LEMMA BansInvNext == BansInv /\ [NetworkNext]_networkVars => BansInv'
<1> SUFFICES ASSUME BansInv, [NetworkNext]_networkVars PROVE BansInv'
    OBVIOUS
<1>0. BanDuration \in Nat /\ BanDurations \subseteq Nat /\ Deltas \subseteq Int
    BY NetworkAssumption
<1>1. CASE Tick
    BY <1>1 DEF BansInv, Tick
<1>2. ASSUME NEW listens \in BOOLEAN, Initialize(listens) PROVE BansInv'
    BY <1>2 DEF BansInv, Initialize
<1>3. CASE Shutdown
    <2>1. peers' = <<>> \/ peers' = peers
        BY <1>3 DEF Shutdown
    <2>2. DOMAIN peers' \subseteq DOMAIN peers /\ peers' \in [DOMAIN peers' -> PeerInfos]
        <3>1. CASE peers' = <<>>
            <4>1. DOMAIN peers' = {}
                BY <3>1
            <4>2. peers' \in [DOMAIN peers' -> PeerInfos]
                BY <3>1
            <4> QED
                BY <4>1, <4>2
        <3>2. CASE peers' = peers
            BY <3>2 DEF BansInv
        <3> QED
            BY <2>1, <3>1, <3>2
    <2> QED
        BY <1>3, <2>2 DEF BansInv, Shutdown
<1>4. ASSUME NEW dialled \in SUBSET Peers, ConnectToPeers(dialled) PROVE BansInv'
    <2> DEFINE new == {p \in dialled : p \notin DOMAIN peers /\ ~IsPeerBanned(p)}
    <2>1. peers' = [p \in DOMAIN peers \cup new |-> IF p \in new THEN PeerInfo(clock) ELSE peers[p]]
        BY <1>4 DEF ConnectToPeers
    <2>2. PeerInfo(clock) \in PeerInfos
        BY DEF PeerInfo, PeerInfos, BansInv
    <2>3. DOMAIN peers' = DOMAIN peers \cup new /\ peers' \in [DOMAIN peers' -> PeerInfos]
        BY <2>1, <2>2 DEF BansInv
    <2>4. \A p \in new : clock >= lastBan[p]
        BY DEF IsPeerBanned, BansInv
    <2>5. UNCHANGED <<clock, lastBan, banned>>
        BY <1>4 DEF ConnectToPeers
    <2> QED
        BY <2>3, <2>4, <2>5 DEF BansInv
<1>5. CASE MaintainConnections
    <2>1. DOMAIN peers' \subseteq DOMAIN peers /\ peers' \in [DOMAIN peers' -> PeerInfos]
        BY <1>5 DEF MaintainConnections, BansInv
    <2>2. \A p \in Peers : IF p \in DOMAIN banned' THEN banned'[p] = lastBan[p] ELSE clock >= lastBan[p]
        BY <1>5 DEF MaintainConnections, BansInv
    <2>3. UNCHANGED <<clock, lastBan>>
        BY <1>5 DEF MaintainConnections
    <2> QED
        BY <2>1, <2>2, <2>3 DEF BansInv
<1>6. ASSUME NEW p \in Peers, NEW n \in BanDurations, BanPeer(p, n) PROVE BansInv'
    BY <1>0, <1>6, BanPeerBans
<1>7. ASSUME NEW p \in DOMAIN peers, NEW d \in Deltas, UpdateReputation(p, d) PROVE BansInv'
    <2> DEFINE sum == peers[p].reputation_score + d
               new == IF sum < 0 THEN 0 ELSE IF sum > 100 THEN 100 ELSE sum
    <2>1. CASE new < 25
        BY <1>0, <1>7, <2>1, BanPeerBans DEF UpdateReputation, BansInv
    <2>2. CASE ~(new < 25)
        <3>1. peers' = [peers EXCEPT ![p].reputation_score = new] /\ UNCHANGED <<banned, clock, lastBan>>
            BY <1>7, <2>2 DEF UpdateReputation
        <3>2. new \in 25..100
            <4>1. peers[p] \in PeerInfos
                BY <1>7 DEF BansInv
            <4>2. peers[p].reputation_score \in Int
                BY <4>1 DEF PeerInfos
            <4>3. d \in Int
                BY <1>0, <1>7
            <4>4. sum \in Int
                BY <4>2, <4>3
            <4> HIDE DEF sum
            <4> QED
                BY <2>2, <4>4
        <3> HIDE DEF new
        <3>3. DOMAIN peers' = DOMAIN peers /\ peers' \in [DOMAIN peers' -> PeerInfos]
            <4> DEFINE info == [peers[p] EXCEPT !.reputation_score = new]
            <4>0. peers[p] \in PeerInfos
                BY <1>7 DEF BansInv
            <4>1. info \in PeerInfos
                BY <3>2, <4>0 DEF PeerInfos
            <4>2. peers' = [peers EXCEPT ![p] = info]
                BY <3>1
            <4> HIDE DEF info
            <4> QED
                BY <4>1, <4>2 DEF BansInv
        <3> QED
            BY <3>1, <3>3 DEF BansInv
    <2> QED
        BY <2>1, <2>2
<1>8. ASSUME NEW p \in DOMAIN peers, NEW b \in BOOLEAN, SetValidatorStatus(p, b) PROVE BansInv'
    <2>1. DOMAIN peers' = DOMAIN peers /\ peers' \in [DOMAIN peers' -> PeerInfos]
        BY <1>8 DEF SetValidatorStatus, BansInv, PeerInfos
    <2> QED
        BY <1>8, <2>1 DEF SetValidatorStatus, BansInv
<1>9. ASSUME NEW m \in Messages, Broadcast(m) PROVE BansInv'
    BY <1>9 DEF Broadcast, BansInv
<1>10. ASSUME NEW m \in Messages, NEW p \in Peers, HandleMessage(m, p) PROVE BansInv'
    <2>1. DOMAIN peers' = DOMAIN peers /\ peers' \in [DOMAIN peers' -> PeerInfos]
        BY <1>10 DEF HandleMessage, BansInv, PeerInfos
    <2> QED
        BY <1>10, <2>1 DEF HandleMessage, BansInv
<1>11. CASE UNCHANGED networkVars
    BY <1>11 DEF networkVars, BansInv
<1> QED
    BY <1>1, <1>2, <1>3, <1>4, <1>5, <1>6, <1>7, <1>8, <1>9, <1>10, <1>11 DEF NetworkNext

\* Whoever is told of a block is connected, and whoever is no validator is
\* told only when every connected validator is.
LEMMA GossipSound ==
    ASSUME BansInv, NEW S \in SelectGossipPeers(GossipFanout, TRUE)
    PROVE  /\ S \subseteq DOMAIN peers
           /\ (\E p \in S : ~peers[p].is_validator) => {p \in DOMAIN peers : peers[p].is_validator} \subseteq S
<1> DEFINE V == {p \in DOMAIN peers : peers[p].is_validator}
           D == DOMAIN peers
<1>1. IsFiniteSet(D) /\ GossipFanout \in Nat
    BY NetworkAssumption, FS_Subset DEF BansInv
<1>2. S \subseteq D
    BY DEF SelectGossipPeers
<1>3. /\ Cardinality(S) = IF Cardinality(D) < GossipFanout THEN Cardinality(D) ELSE GossipFanout
      /\ Cardinality(S \cap V) = IF Cardinality(V) < GossipFanout THEN Cardinality(V) ELSE GossipFanout
    BY DEF SelectGossipPeers
<1>4. SUFFICES ASSUME NEW p \in S, ~peers[p].is_validator PROVE V \subseteq S
    BY <1>2
<1> HIDE DEF D
<1>5. p \notin V /\ V \subseteq D
    BY <1>4 DEF D
<1> HIDE DEF V
<1>6. IsFiniteSet(S) /\ IsFiniteSet(V)
    BY <1>1, <1>2, <1>5, FS_Subset
<1>7. /\ Cardinality(D) \in Nat /\ Cardinality(S) \in Nat /\ Cardinality(V) \in Nat
      /\ Cardinality(S \cap V) \in Nat /\ Cardinality(S \cap V) <= Cardinality(S)
      /\ Cardinality(S \cap V) = Cardinality(S) => S \cap V = S
    <2>1. S \cap V \subseteq S
        OBVIOUS
    <2> QED
        BY <2>1, <1>1, <1>6, FS_Subset, FS_CardinalityType
<1>8. Cardinality(S \cap V) # Cardinality(S)
    BY <1>4, <1>5, <1>7
<1>9. Cardinality(S \cap V) = Cardinality(V)
    BY <1>1, <1>3, <1>7, <1>8
<1>10. S \cap V = V
    <2>1. S \cap V \subseteq V
        OBVIOUS
    <2> QED
        BY <2>1, <1>6, <1>9, FS_Subset
<1> QED
    BY <1>10

\* No peer is connected, or told of a block, before its ban is over, and
\* validators are told first, whatever calls the layer gets.
THEOREM BansHold == NetworkSpec => []BannedStayOut
<1>1. BansInv => BannedStayOut
    <2> SUFFICES ASSUME BansInv PROVE BannedStayOut
        OBVIOUS
    <2>1. \A p \in DOMAIN peers : clock >= lastBan[p] /\ peers[p].reputation_score >= 25
        <3> SUFFICES ASSUME NEW p \in DOMAIN peers
                     PROVE  clock >= lastBan[p] /\ peers[p].reputation_score >= 25
            OBVIOUS
        <3>1. peers[p] \in PeerInfos
            BY DEF BansInv
        <3> QED
            BY <3>1 DEF BansInv, PeerInfos
    <2>2. \A S \in SelectGossipPeers(GossipFanout, TRUE) :
             /\ S \subseteq DOMAIN peers
             /\ (\E p \in S : ~peers[p].is_validator) => {p \in DOMAIN peers : peers[p].is_validator} \subseteq S
        BY GossipSound
    <2> QED
        BY <2>1, <2>2 DEF BannedStayOut
<1> QED
    BY <1>1, BansInvInit, BansInvNext, PTL DEF NetworkSpec

-----------------------------------------------------------------------------
(* Messages.                                                               *)

LEMMA SeenInvInit == NetworkInit => SeenInv
BY DEF NetworkInit, SeenInv

\* A message that is handled or sent gets its record, and forgetting the old
\* ones takes none whose time is not over.
LEMMA MarkSeen ==
    ASSUME SeenInv, NEW m \in Messages, MarkMessageSeen(m),
           handled' = [handled EXCEPT ![m] = clock], clock' = clock
    PROVE  SeenInv'
<1>0. SeenTtl \in Nat
    BY NetworkAssumption
<1> DEFINE marked == With(seen, m, clock)
<1>1. /\ DOMAIN marked = DOMAIN seen \cup {m} /\ marked[m] = clock
      /\ \A x \in DOMAIN seen \ {m} : marked[x] = seen[x]
    BY DEF With
<1>2. seen' = [x \in {y \in DOMAIN marked : ~(clock - marked[y] > SeenTtl)} |-> marked[x]]
    BY DEF MarkMessageSeen, Unforgotten
<1> HIDE DEF marked
<1>3. handled' \in [Messages -> Int] /\ handled'[m] = clock /\ \A x \in Messages \ {m} : handled'[x] = handled[x]
    BY DEF SeenInv
<1>4. ASSUME NEW x \in Messages
      PROVE  IF x \in DOMAIN seen' THEN seen'[x] = handled'[x] /\ handled'[x] <= clock'
             ELSE handled'[x] = -1 \/ clock' - handled'[x] > SeenTtl
    <2>1. clock \in Nat /\ handled[x] \in Int
        BY DEF SeenInv
    <2>2. CASE x = m
        BY <1>0, <1>1, <1>2, <1>3, <2>1, <2>2
    <2>3. CASE x # m
        <3>1. CASE x \in DOMAIN seen
            <4>1. marked[x] = handled[x] /\ handled[x] <= clock /\ handled'[x] = handled[x]
                BY <1>1, <1>3, <2>3, <3>1 DEF SeenInv
            <4> QED
                BY <1>0, <1>1, <1>2, <2>1, <3>1, <4>1
        <3>2. CASE x \notin DOMAIN seen
            BY <1>1, <1>2, <1>3, <2>3, <3>2 DEF SeenInv
        <3> QED
            BY <3>1, <3>2
    <2> QED
        BY <2>2, <2>3
<1> QED
    BY <1>3, <1>4 DEF SeenInv

LEMMA SeenInvNext == SeenInv /\ [NetworkNext]_networkVars => SeenInv'
<1> SUFFICES ASSUME SeenInv, [NetworkNext]_networkVars PROVE SeenInv'
    OBVIOUS
<1>0. SeenTtl \in Nat
    BY NetworkAssumption
<1>1. CASE Tick
    BY <1>0, <1>1 DEF SeenInv, Tick
<1>2. CASE UNCHANGED <<seen, clock, handled>>
    BY <1>2 DEF SeenInv
<1>3. ASSUME NEW m \in Messages, Broadcast(m) PROVE SeenInv'
    BY <1>3, MarkSeen DEF Broadcast
<1>4. ASSUME NEW m \in Messages, NEW p \in Peers, HandleMessage(m, p) PROVE SeenInv'
    BY <1>4, MarkSeen DEF HandleMessage
<1> QED
    BY <1>1, <1>2, <1>3, <1>4
    DEF NetworkNext, Initialize, Shutdown, ConnectToPeers, MaintainConnections, BanPeer,
        UpdateReputation, SetValidatorStatus, networkVars

\* A message is handled again only after the TTL, whatever calls the layer gets.
THEOREM MessagesHandledOnce == NetworkSpec => HandledOnce
<1>1. SeenInv /\ [NetworkNext]_networkVars =>
          [\A m \in Messages :
              m \notin DOMAIN seen /\ m \in DOMAIN seen' =>
                  handled[m] = -1 \/ clock - handled[m] > SeenTtl]_networkVars
    BY DEF SeenInv
<1> QED
    BY <1>1, SeenInvInit, SeenInvNext, PTL DEF NetworkSpec, HandledOnce

-----------------------------------------------------------------------------
(* The process.                                                            *)

Starting == {"initialize", "components", "keys", "start"}
Stopping == {"join", "stopRpc", "stopNetwork"}
NoTask == \A t \in Tasks : task[t] = "none"

\* Where the main thread may be while the node runs, while the network is up
\* and while there are background threads.
NodeInv ==
    /\ DOMAIN task = Tasks
    /\ main \in Starting \cup Stopping \cup {"connect", "rpc", "tasks", "started", "wait", "exit"}
    /\ running => initialized /\ main \in {"wait"} \cup Stopping
    /\ main \in {"connect", "rpc", "tasks", "started"} \cup Stopping => initialized
    /\ main \in Stopping => running
    /\ main \in Starting \cup {"connect", "rpc", "tasks", "stopRpc", "stopNetwork", "exit"} => NoTask
    /\ main = "wait" /\ ~running => NoTask

LEMMA NodeInvInit == NodeInit /\ NetworkInit => NodeInv
BY DEF NodeInit, NetworkInit, NodeInv, NoTask, Starting, Stopping, Tasks

\* A step of the main thread or the signal.
LEMMA NodeInvMain == ASSUME NodeInv, MainThread \/ Signal PROVE NodeInv'
<1> USE DEF NodeInv, NoTask, Starting, Stopping
<1>1. CASE InitializeStorage
    BY <1>1 DEF InitializeStorage, networkVars
<1>2. CASE InitializeComponents
    BY <1>2 DEF InitializeComponents, networkVars
<1>3. CASE LoadValidatorKeys
    BY <1>3 DEF LoadValidatorKeys, networkVars
<1>4. CASE StartNetwork
    BY <1>4 DEF StartNetwork, Initialize
<1>5. CASE StartConnect
    BY <1>5 DEF StartConnect, ConnectToPeers
<1>6. CASE StartRpc
    BY <1>6 DEF StartRpc, networkVars
<1>7. CASE StartBackgroundTasks
    BY <1>7 DEF StartBackgroundTasks, networkVars
<1>8. CASE StartDone
    BY <1>8 DEF StartDone, networkVars
<1>9. CASE Signal
    BY <1>9 DEF Signal, networkVars
<1>10. CASE MainReturns
    BY <1>10 DEF MainReturns, networkVars
<1>11. CASE StopBackgroundTasks
    BY <1>11 DEF StopBackgroundTasks, networkVars
<1>12. CASE StopRpc
    BY <1>12 DEF StopRpc, networkVars
<1>13. CASE StopNetwork
    BY <1>13 DEF StopNetwork, Shutdown
<1> QED
    BY <1>1, <1>2, <1>3, <1>4, <1>5, <1>6, <1>7, <1>8, <1>9, <1>10, <1>11, <1>12, <1>13 DEF MainThread

\* A step of a background thread: it changes its own place, which it has only
\* if it was started, and does not take the network down.
LEMMA NodeInvTask == ASSUME NodeInv, Work \/ \E t \in Tasks : Task(t) PROVE NodeInv'
<1>1. /\ UNCHANGED <<main, running, initialized>>
      /\ DOMAIN task' = DOMAIN task
    BY DEF Work, Task, TaskTop, TaskWakes, MempoolPruningTask, ConnectionMaintenanceTask, ProposeBlock,
           BroadcastBlock, MaintainConnections, Broadcast, networkVars
<1>2. ~NoTask
    BY DEF Work, Task, TaskTop, TaskWakes, MempoolPruningTask, ConnectionMaintenanceTask, ProposeBlock,
           BroadcastBlock, NoTask, Tasks
<1> QED
    BY <1>1, <1>2 DEF NodeInv

LEMMA NodeInvNext == NodeInv /\ [NodeNext]_<<networkVars, nodeVars>> => NodeInv'
<1> SUFFICES ASSUME NodeInv, [NodeNext]_<<networkVars, nodeVars>> PROVE NodeInv'
    OBVIOUS
<1>1. CASE UNCHANGED <<networkVars, nodeVars>>
    BY <1>1 DEF networkVars, nodeVars, NodeInv, NoTask
<1> QED
    BY <1>1, NodeInvMain, NodeInvTask DEF NodeNext

\* No background thread finds the network down, whenever the signal arrives.
THEOREM TasksSafe == NodeSpec => []TasksFindNetwork
<1>1. NodeInv => TasksFindNetwork
    BY DEF NodeInv, TasksFindNetwork, NoTask, Starting, Stopping, Tasks
<1> QED
    BY <1>1, NodeInvInit, NodeInvNext, PTL DEF NodeSpec
-----------------------------------------------------------------------------
(* The consensus loop *)

\* The thread exists exactly between start and the end of stop; and the age of
\* last_block_time_ is above the time since something happened by no more than
\* the clock the loop thread used was old.
LoopInv ==
    /\ LoopTypeOK
    /\ caller = "joining" => ~running_
    /\ age <= quiet + MaxLag

LEMMA LoopInvInit == Init => LoopInv
<1> SUFFICES ASSUME Init PROVE LoopInv
    OBVIOUS
<1>1. /\ MaxAge \in 0..MaxAge /\ MaxAge <= MaxAge + MaxLag
      /\ 0 \in 0..MaxLag /\ 0 \in 0..ActiveCount /\ 0 \in 0..MaxArrivals
    BY LoopConstants DEF MaxAge
<1>2. /\ running_ \in BOOLEAN /\ consensus_thread \in ThreadStates
      /\ caller \in {"idle", "joining"} /\ handlers \in BOOLEAN
      /\ consensus_thread = "none" <=> ~running_ /\ caller = "idle"
      /\ caller = "joining" => ~running_
    BY Zenon DEF Init, ThreadStates
<1>3. /\ age \in 0..MaxAge /\ quiet \in 0..MaxAge /\ lag \in 0..MaxLag
      /\ view \in 0..ActiveCount /\ arrivals \in 0..MaxArrivals
      /\ age <= quiet + MaxLag
    BY <1>1, Zenon DEF Init
<1> QED
    BY <1>2, <1>3, Zenon DEF LoopInv, LoopTypeOK

\* Every step of the loop thread, the others and the clock.
LEMMA LoopInvNext == LoopInv /\ [Next]_loopVars => LoopInv'
<1> SUFFICES ASSUME LoopInv, [Next]_loopVars PROVE LoopInv'
    OBVIOUS
<1>0. /\ MaxLag \in Nat /\ MaxAge \in Nat /\ MaxLag <= MaxAge
      /\ ActiveCount \in Nat /\ MaxArrivals \in Nat
    BY LoopConstants DEF MaxAge
<1> HIDE DEF MaxAge
<1> USE DEF LoopInv, LoopTypeOK, ThreadStates
<1>1. CASE LoopTop \/ ReadClock \/ ProposalDue \/ ProposeNothing \/ ProposeThrows \/ Wake
    BY <1>0, <1>1 DEF LoopTop, ReadClock, ProposalDue, ProposeNothing, ProposeThrows, Wake
<1>2. CASE Propose
    BY <1>0, <1>2 DEF Propose
<1>3. CASE CheckViewTimeout
    <2>1. ActiveCount > 0 => (view + 1) % ActiveCount \in 0..ActiveCount
        BY <1>0
    <2> QED BY <1>0, <1>3, <2>1 DEF CheckViewTimeout
<1>4. CASE HandleBlock
    BY <1>0, <1>4 DEF HandleBlock
<1>5. CASE Start \/ Stop \/ StopReturns
    <2>1. UNCHANGED <<age, lag, view, arrivals, quiet>>
        BY <1>5 DEF Start, Stop, StopReturns
    <2>2. /\ running_' \in BOOLEAN /\ consensus_thread' \in ThreadStates
          /\ caller' \in {"idle", "joining"} /\ handlers' \in BOOLEAN
          /\ consensus_thread' = "none" <=> ~running_' /\ caller' = "idle"
          /\ caller' = "joining" => ~running_'
        <3>1. CASE Start
            BY <3>1 DEF Start
        <3>2. CASE Stop
            BY <3>2 DEF Stop
        <3>3. CASE StopReturns
            BY <3>3 DEF StopReturns
        <3> QED BY <1>5, <3>1, <3>2, <3>3
    <2> QED BY <2>1, <2>2
<1>6. CASE LoopTick
    BY <1>0, <1>6 DEF LoopTick, Older, Holds
<1>7. CASE UNCHANGED loopVars
    BY <1>7 DEF loopVars
<1> QED
    BY <1>1, <1>2, <1>3, <1>4, <1>5, <1>6, <1>7 DEF Next, LoopThread

\* A view ends before its timeout only when the loop thread has read the clock
\* and then finds a last_block_time_ that is later, so that their difference
\* wraps: whatever the timeouts, and however late threads use a clock.
THEOREM EarlyOnlyWhenWrapped ==
    Spec => [][view' # view => Wrapped(age, lag) \/ quiet + MaxLag > ViewTimeout]_loopVars
<1>1. LoopInv /\ [Next]_loopVars
        => [view' # view => Wrapped(age, lag) \/ quiet + MaxLag > ViewTimeout]_loopVars
    <2> SUFFICES ASSUME LoopInv, Next, view' # view, ~Wrapped(age, lag)
                 PROVE  quiet + MaxLag > ViewTimeout
        OBVIOUS
    <2>1. CheckViewTimeout
        BY DEF Next, LoopThread, LoopTop, ReadClock, ProposalDue, Propose, ProposeNothing,
               ProposeThrows, Wake, HandleBlock, Start, Stop, StopReturns, LoopTick
    <2>2. age - lag > ViewTimeout
        BY <2>1 DEF CheckViewTimeout, ElapsedMore
    <2>3. ViewTimeout \in Nat /\ MaxLag \in Nat /\ age \in Int /\ quiet \in Int /\ lag \in Nat
          /\ age <= quiet + MaxLag
        BY LoopConstants DEF LoopInv, LoopTypeOK, MaxAge
    <2> QED BY <2>2, <2>3
<1> QED
    BY LoopInvInit, LoopInvNext, <1>1, PTL DEF Spec

\* With a clock that is used as soon as it is read, no view change comes
\* before view_timeout_ms have passed since the last block or view change.
THEOREM ViewsLast ==
    ASSUME MaxLag = 0
    PROVE  Spec => ViewChangeNotEarly
<1>1. LoopInv => ~Wrapped(age, lag)
    BY LoopConstants DEF LoopInv, LoopTypeOK, Wrapped, MaxAge
<1> QED
    BY LoopInvInit, LoopInvNext, EarlyOnlyWhenWrapped, <1>1, PTL DEF Spec, ViewChangeNotEarly
=============================================================================
