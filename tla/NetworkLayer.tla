---------------------------- MODULE NetworkLayer ----------------------------
(***************************************************************************)
(* The peers of one node: who is connected, with which reputation, who is  *)
(* banned until when, and which messages were seen.  The host underneath   *)
(* dials with or without success; what it sends changes nothing here, and  *)
(* what it reads it drops, so HandleMessage stands for the delivery that   *)
(* handle_message is written for and that nothing in src/ makes.           *)
(***************************************************************************)
EXTENDS Integers, Sequences, FiniteSets

CONSTANTS PeerOrder,      \* the peers in the order of their ids
          MaxPeers, GossipFanout,
          SeenTtl,        \* SEEN_MESSAGE_TTL
          BanDuration,    \* DEFAULT_BAN_DURATION
          BanDurations,   \* durations passed to ban_peer
          Deltas,         \* changes of a reputation
          Messages,
          MaxClock        \* bound: the system clock, in seconds

Peers == {PeerOrder[i] : i \in DOMAIN PeerOrder}

ASSUME NetworkAssumption ==
    /\ IsFiniteSet(Peers)
    /\ MaxPeers \in Nat /\ GossipFanout \in Nat /\ SeenTtl \in Nat /\ BanDuration \in Nat
    /\ BanDurations \subseteq Nat /\ Deltas \subseteq Int /\ MaxClock \in Nat

VARIABLES initialized, \* initialized_
          peers,       \* peers_: PeerInfo by peer
          banned,      \* banned_peers_: the end of the ban by peer
          seen,        \* seen_messages_: the time by message
          clock,
          lastBan,     \* history: the end of every peer's last ban, or 0
          handled      \* history: when each message was last handled or sent, or -1

networkVars == <<initialized, peers, banned, seen, clock, lastBan, handled>>

Without(f, x) == [y \in DOMAIN f \ {x} |-> f[y]]
With(f, x, v) == [y \in DOMAIN f \cup {x} |-> IF y = x THEN v ELSE f[y]]

\* PeerInfo of a peer that was just dialled.
PeerInfo(now) == [is_validator |-> FALSE, last_seen |-> now, reputation_score |-> 100]

NetworkInit ==
    /\ initialized = FALSE
    /\ peers = <<>> /\ banned = <<>> /\ seen = <<>>
    /\ clock = 0
    /\ lastBan = [p \in Peers |-> 0]
    /\ handled = [m \in Messages |-> -1]

Tick ==
    /\ clock < MaxClock
    /\ clock' = clock + 1
    /\ UNCHANGED <<initialized, peers, banned, seen, lastBan, handled>>

\* initialize: fails when the host cannot listen.
Initialize(listens) ==
    /\ initialized' = (initialized \/ listens)
    /\ UNCHANGED <<peers, banned, seen, clock, lastBan, handled>>
Shutdown ==
    /\ initialized' = FALSE
    /\ peers' = IF initialized THEN <<>> ELSE peers
    /\ UNCHANGED <<banned, seen, clock, lastBan, handled>>

\* Mutant: a ban that is on record does not matter.
NeverBanned(peer) == FALSE
IsPeerBanned(peer) == peer \in DOMAIN banned /\ clock < banned[peer]

\* connect_to_peers, of which dialled is the peers the host reached: who is
\* known or banned is skipped.
ConnectToPeers(dialled) ==
    /\ initialized
    /\ LET new == {p \in dialled : p \notin DOMAIN peers /\ ~IsPeerBanned(p)}
       IN  peers' = [p \in DOMAIN peers \cup new |->
                        IF p \in new THEN PeerInfo(clock)
                        ELSE peers[p]]
    /\ UNCHANGED <<initialized, banned, seen, clock, lastBan, handled>>

\* Whom the loop that looks for a victim finds before whom: whoever is no
\* validator before validators, of the former the worse reputation, of the
\* latter the longer silence; of equals the first in the order of the ids.
Position(p) == CHOOSE i \in DOMAIN PeerOrder : PeerOrder[i] = p
GoesBefore(p, q) ==
    LET Key(x) == IF peers[x].is_validator THEN peers[x].last_seen ELSE peers[x].reputation_score
    IN  IF peers[p].is_validator # peers[q].is_validator THEN peers[q].is_validator
        ELSE Key(p) < Key(q) \/ (Key(p) = Key(q) /\ Position(p) < Position(q))
Victims(p) == {q \in DOMAIN peers : GoesBefore(q, p)}

\* maintain_connections: expired bans are forgotten and peers above the
\* maximum dropped one by one; discover_peers finds nobody.
MaintainConnections ==
    LET excess == Cardinality(DOMAIN peers) - MaxPeers
        kept   == {p \in DOMAIN peers : Cardinality(Victims(p)) >= excess}
    IN  /\ IF initialized
           THEN /\ peers' = [p \in kept |-> peers[p]]
                /\ banned' = [p \in {q \in DOMAIN banned : clock < banned[q]} |-> banned[p]]
           ELSE UNCHANGED <<peers, banned>>
        /\ UNCHANGED <<initialized, seen, clock, lastBan, handled>>

\* ban_peer
BanPeer(peer, duration) ==
    /\ peers' = Without(peers, peer)
    /\ banned' = With(banned, peer, clock + duration)
    /\ lastBan' = [lastBan EXCEPT ![peer] = clock + duration]
    /\ UNCHANGED <<initialized, seen, clock, handled>>

\* update_reputation: kept within 0..100, and below 25 the peer is banned.
UpdateReputation(peer, delta) ==
    LET sum == peers[peer].reputation_score + delta
        new == IF sum < 0 THEN 0 ELSE IF sum > 100 THEN 100 ELSE sum
    IN  /\ peer \in DOMAIN peers
        /\ IF new < 25 THEN BanPeer(peer, BanDuration)
           ELSE /\ peers' = [peers EXCEPT ![peer].reputation_score = new]
                /\ UNCHANGED <<initialized, banned, seen, clock, lastBan, handled>>

SetValidatorStatus(peer, is_validator) ==
    /\ peer \in DOMAIN peers
    /\ peers' = [peers EXCEPT ![peer].is_validator = is_validator]
    /\ UNCHANGED <<initialized, banned, seen, clock, lastBan, handled>>

\* mark_message_seen, and the messages older than the TTL forgotten.
\* Mutant: a message is forgotten when its time is up to the second.
ForgottenEarly(marked) == [m \in {x \in DOMAIN marked : clock - marked[x] < SeenTtl} |-> marked[m]]
Unforgotten(marked) == [m \in {x \in DOMAIN marked : ~(clock - marked[x] > SeenTtl)} |-> marked[m]]
MarkMessageSeen(message) == seen' = Unforgotten(With(seen, message, clock))

\* select_gossip_peers: the sets it may choose.
SelectGossipPeers(count, prioritize_validators) ==
    LET validators == {p \in DOMAIN peers : peers[p].is_validator}
        Least(n)   == IF n < count THEN n ELSE count
    IN  {S \in SUBSET DOMAIN peers :
            /\ Cardinality(S) = Least(Cardinality(DOMAIN peers))
            /\ prioritize_validators =>
                  Cardinality(S \cap validators) = Least(Cardinality(validators))}

\* broadcast
Broadcast(message) ==
    /\ initialized
    /\ MarkMessageSeen(message)
    /\ handled' = [handled EXCEPT ![message] = clock]
    /\ UNCHANGED <<initialized, peers, banned, clock, lastBan>>

\* handle_message; the handlers that Node registers only write to the log.
HandleMessage(message, sender) ==
    /\ message \notin DOMAIN seen
    /\ MarkMessageSeen(message)
    /\ peers' = IF sender \in DOMAIN peers THEN [peers EXCEPT ![sender].last_seen = clock] ELSE peers
    /\ handled' = [handled EXCEPT ![message] = clock]
    /\ UNCHANGED <<initialized, banned, clock, lastBan>>

NetworkNext ==
    \/ Tick
    \/ \E listens \in BOOLEAN : Initialize(listens)
    \/ Shutdown
    \/ \E dialled \in SUBSET Peers : ConnectToPeers(dialled)
    \/ MaintainConnections
    \/ \E p \in Peers, n \in BanDurations : BanPeer(p, n)
    \/ \E p \in DOMAIN peers, d \in Deltas : UpdateReputation(p, d)
    \/ \E p \in DOMAIN peers, b \in BOOLEAN : SetValidatorStatus(p, b)
    \/ \E m \in Messages : Broadcast(m)
    \/ \E m \in Messages, p \in Peers : HandleMessage(m, p)

NetworkSpec == NetworkInit /\ [][NetworkNext]_networkVars

-----------------------------------------------------------------------------
(* Properties.                                                             *)

\* However bans expire, are cleaned up, replaced or earned, a banned peer is
\* neither among the peers nor told of a block, and no peer stays whose
\* reputation would ban it.  The count of validators told comes first.
BannedStayOut ==
    /\ \A p \in DOMAIN peers : clock >= lastBan[p] /\ peers[p].reputation_score >= 25
    /\ \A S \in SelectGossipPeers(GossipFanout, TRUE) :
          /\ \A p \in S : clock >= lastBan[p]
          /\ (\E p \in S : ~peers[p].is_validator) => {p \in DOMAIN peers : peers[p].is_validator} \subseteq S

\* A message is handled again only when more than the TTL has passed since
\* it was last handled or sent, however late its copies arrive and whatever
\* else was forgotten meanwhile.
HandledOnce ==
    [][\A m \in Messages :
          m \notin DOMAIN seen /\ m \in DOMAIN seen' =>
              handled[m] = -1 \/ clock - handled[m] > SeenTtl]_networkVars
=============================================================================
