--------------------------- MODULE EconomyProofs ---------------------------
(***************************************************************************)
(* Governance for any validators, stakes, periods and submissions: every   *)
(* decision is the one the votes call for, and the module implements the   *)
(* abstract life cycle of a proposal.  GovInv carries the tally: the votes *)
(* counted so far are the sum of the stakes they were cast with.           *)
(*                                                                         *)
(* The fee market and the monetary policy for any supply width, stakes and *)
(* parameters: the base fee stays responsive, and rewards are backed by    *)
(* what the epoch added to the supply.  MarketInv keeps the fee at 4 or    *)
(* more and the counters in step with the supply modulo its width.         *)
(*                                                                         *)
(* The genesis builder for any addresses, amounts and supply: what it      *)
(* allocated it can build, and what is loaded holds it.  GenesisInv adds   *)
(* that a built block's root is the one of the allocations.                *)
(***************************************************************************)
EXTENDS GovernanceModule, FeesAndSupply, GenesisBuilder, SharedProofs

For(p) == {v \in DOMAIN p.votes : p.votes[v]}

\* The tally of a proposal, and the decision if there is one.
Tallied(p, c, total) ==
    /\ p.votes_for = StakeSum(For(p), c)
    /\ p.votes_for + p.votes_against = StakeSum(DOMAIN p.votes, c)
    /\ p.status # "Active" =>
          (p.status # "Rejected" <=> /\ ~BelowQuorum(p.votes_for + p.votes_against, total)
                                     /\ Approves(p.votes_for, p.votes_for + p.votes_against))

GovTypes ==
    /\ height \in Nat
    /\ stake \in [Voters -> Nat]
    /\ proposals \in Seq(Proposal) /\ cast \in Seq([Voters -> Nat]) /\ judged \in Seq(Nat)
    /\ Len(cast) = Len(proposals) /\ Len(judged) = Len(proposals)
    /\ next_proposal_id = Len(proposals) + 1
    /\ Len(proposals) <= MaxProposals

GovInv ==
    /\ GovTypes
    /\ \A id \in 1..Len(proposals) : Tallied(proposals[id], cast[id], judged[id])

\* What a vote changes in a proposal.
LEMMA CountedFields ==
    ASSUME GovTypes, NEW p \in Proposal, NEW voter \in Voters, NEW in_favor \in BOOLEAN
    PROVE  LET q == Counted(p, voter, in_favor)
           IN  /\ q \in Proposal
               /\ q.status = p.status /\ q.parameter = p.parameter
               /\ q.voting_ends = p.voting_ends /\ q.timelock_ends = p.timelock_ends
               /\ q.votes_for = IF in_favor THEN p.votes_for + stake[voter] ELSE p.votes_for
               /\ q.votes_against = IF in_favor THEN p.votes_against ELSE p.votes_against + stake[voter]
               /\ DOMAIN q.votes = DOMAIN p.votes \cup {voter}
               /\ q.votes[voter] = in_favor
               /\ \A v \in DOMAIN p.votes \ {voter} : q.votes[v] = p.votes[v]
<1> DEFINE votes == [v \in DOMAIN p.votes \cup {voter} |-> IF v = voter THEN in_favor ELSE p.votes[v]]
           f == IF in_favor THEN p.votes_for + stake[voter] ELSE p.votes_for
           a == IF in_favor THEN p.votes_against ELSE p.votes_against + stake[voter]
           q == Counted(p, voter, in_favor)
<1>1. PICK S \in SUBSET Voters : p.votes \in [S -> BOOLEAN]
    BY DEF Proposal
<1>2. votes \in [DOMAIN p.votes \cup {voter} -> BOOLEAN] /\ DOMAIN p.votes \cup {voter} \in SUBSET Voters
    BY <1>1
<1>3. votes \in UNION {[T -> BOOLEAN] : T \in SUBSET Voters}
    BY <1>2
<1>4. stake[voter] \in Nat
    BY DEF GovTypes
<1>5. f \in Nat /\ a \in Nat
    BY <1>4 DEF Proposal
<1>6. q = [p EXCEPT !.votes = votes, !.votes_for = f, !.votes_against = a]
    BY DEF Counted
<1> HIDE DEF votes, f, a, q
<1>7. q = [parameter |-> p.parameter, value |-> p.value, voting_ends |-> p.voting_ends,
           timelock_ends |-> p.timelock_ends, status |-> p.status,
           votes_for |-> f, votes_against |-> a, votes |-> votes]
    BY <1>6 DEF Proposal
<1>8. q \in Proposal
    BY <1>3, <1>5, <1>7 DEF Proposal
<1>9. q.votes = votes /\ q.votes_for = f /\ q.votes_against = a
    BY <1>7
<1>10. /\ DOMAIN votes = DOMAIN p.votes \cup {voter} /\ votes[voter] = in_favor
       /\ \A v \in DOMAIN p.votes \ {voter} : votes[v] = p.votes[v]
    BY DEF votes
<1>11. /\ q.status = p.status /\ q.parameter = p.parameter
       /\ q.voting_ends = p.voting_ends /\ q.timelock_ends = p.timelock_ends
    BY <1>7
<1> QED
    BY <1>8, <1>9, <1>10, <1>11 DEF q, f, a

\* The stake of a validator that votes for the first time is added to a sum
\* that did not hold it.
LEMMA TallyGrows ==
    ASSUME NEW S \in SUBSET Voters, NEW c \in [Voters -> Nat], NEW v \in Voters, v \notin S,
           NEW d \in [Voters -> Nat], \A x \in Voters \ {v} : d[x] = c[x]
    PROVE  StakeSum(S \cup {v}, d) = StakeSum(S, c) + d[v] /\ StakeSum(S, d) = StakeSum(S, c)
<1>1. \A x \in S : c[x] = d[x]
    OBVIOUS
<1>2. IsFiniteSet(S) /\ IsFiniteSet(S \cup {v})
    BY GovernanceAssumption, FS_Subset, FS_AddElement
<1>3. StakeSum(S, d) = StakeSum(S, c)
    BY <1>1, StakeSumEqual
<1>4. (S \cup {v}) \ {v} = S
    OBVIOUS
<1>5. StakeSum(S \cup {v}, d) = d[v] + StakeSum(S, d)
    BY <1>1, <1>2, <1>4, StakeSumSplit
<1>6. StakeSum(S, c) \in Nat
    BY <1>2, StakeSumType
<1> QED
    BY <1>1, <1>3, <1>5, <1>6

LEMMA GovInvInit == GovernanceInit => GovInv
<1> SUFFICES ASSUME GovernanceInit PROVE GovInv
    OBVIOUS
<1>1. stake \in [Voters -> Nat]
    BY GovernanceAssumption DEF GovernanceInit
<1>2. Len(proposals) = 0 /\ Len(cast) = 0 /\ Len(judged) = 0
    BY DEF GovernanceInit
<1>3. proposals \in Seq(Proposal) /\ cast \in Seq([Voters -> Nat]) /\ judged \in Seq(Nat)
    BY DEF GovernanceInit
<1> QED
    BY <1>1, <1>2, <1>3, GovernanceAssumption DEF GovInv, GovTypes, GovernanceInit

\* submit_proposal: the entry that is added has no votes yet.
LEMMA GovInvSubmit ==
    ASSUME GovInv, NEW x \in Submissions, SubmitProposal(x.parameter, x.value, x.backers)
    PROVE  GovInv'
<1> DEFINE new == [parameter |-> x.parameter, value |-> x.value,
                   voting_ends |-> height + VotingPeriodDays * BlocksPerDay, timelock_ends |-> 0,
                   status |-> "Active", votes_for |-> 0, votes_against |-> 0,
                   votes |-> [v \in {} |-> TRUE]]
           zero == [v \in Voters |-> 0]
<1>1. new \in Proposal
    <2>1. new.votes \in [{} -> BOOLEAN] /\ {} \in SUBSET Voters
        OBVIOUS
    <2>2. new.votes \in UNION {[S -> BOOLEAN] : S \in SUBSET Voters}
        BY <2>1
    <2>3. height + VotingPeriodDays * BlocksPerDay \in Nat
        BY GovernanceAssumption DEF GovInv, GovTypes
    <2> QED
        BY <2>2, <2>3, SubmissionsAssumption DEF Proposal, Statuses
<1>2. zero \in [Voters -> Nat]
    OBVIOUS
<1>3. Tallied(new, zero, 0)
    <2>1. For(new) = {} /\ DOMAIN new.votes = {}
        BY DEF For
    <2>2. StakeSum({}, zero) = 0
        <3>1. StakeUnits({}, zero) = {}
            BY DEF StakeUnits
        <3> QED
            BY <3>1, FS_EmptySet DEF StakeSum
    <2>3. new.votes_for = 0 /\ new.votes_against = 0 /\ new.status = "Active"
        OBVIOUS
    <2> HIDE DEF new, zero
    <2> QED
        BY <2>1, <2>2, <2>3 DEF Tallied
<1> HIDE DEF new, zero
<1>4. /\ proposals' = Append(proposals, new) /\ cast' = Append(cast, zero) /\ judged' = Append(judged, 0)
      /\ next_proposal_id' = next_proposal_id + 1 /\ next_proposal_id <= MaxProposals
      /\ UNCHANGED <<height, stake>>
    BY DEF SubmitProposal, new, zero
<1>5. GovTypes'
    BY <1>1, <1>2, <1>4, GovernanceAssumption DEF GovInv, GovTypes
<1>6. ASSUME NEW id \in 1..Len(proposals') PROVE Tallied(proposals'[id], cast'[id], judged'[id])
    <2>1. CASE id \in 1..Len(proposals)
        <3>1. proposals'[id] = proposals[id] /\ cast'[id] = cast[id] /\ judged'[id] = judged[id]
            BY <1>1, <1>2, <1>4, <2>1 DEF GovInv, GovTypes
        <3> QED
            BY <2>1, <3>1 DEF GovInv
    <2>2. CASE id = Len(proposals) + 1
        <3>1. proposals'[id] = new /\ cast'[id] = zero /\ judged'[id] = 0
            BY <1>1, <1>2, <1>4, <2>2 DEF GovInv, GovTypes
        <3> QED
            BY <1>3, <3>1
    <2> QED
        BY <1>1, <1>4, <2>1, <2>2 DEF GovInv, GovTypes
<1> QED
    BY <1>5, <1>6 DEF GovInv

\* What vote, finalize_voting and execute_proposal have in common: one
\* proposal changes, and with it one entry of the history.
LEMMA GovInvChange ==
    ASSUME GovInv, NEW id \in 1..Len(proposals), NEW q \in Proposal, NEW c \in [Voters -> Nat], NEW t \in Nat,
           Tallied(q, c, t),
           proposals' = [proposals EXCEPT ![id] = q],
           cast' = [cast EXCEPT ![id] = c], judged' = [judged EXCEPT ![id] = t],
           UNCHANGED <<height, stake, next_proposal_id>>
    PROVE  GovInv'
<1>1. GovTypes'
    BY DEF GovInv, GovTypes
<1>2. /\ Len(proposals') = Len(proposals)
      /\ proposals'[id] = q /\ cast'[id] = c /\ judged'[id] = t
      /\ \A i \in 1..Len(proposals) : i # id => /\ proposals'[i] = proposals[i]
                                               /\ cast'[i] = cast[i] /\ judged'[i] = judged[i]
    BY DEF GovInv, GovTypes
<1>3. ASSUME NEW i \in 1..Len(proposals') PROVE Tallied(proposals'[i], cast'[i], judged'[i])
    <2>1. CASE i = id
        BY <1>2, <2>1
    <2>2. CASE i # id
        BY <1>2, <2>2 DEF GovInv
    <2> QED
        BY <2>1, <2>2
<1> QED
    BY <1>1, <1>3 DEF GovInv

\* vote: the tally grows by the voter's stake, which the history keeps.
LEMMA GovInvVote ==
    ASSUME GovInv, NEW id \in 1..Len(proposals), NEW voter \in Voters, NEW in_favor \in BOOLEAN,
           Vote(id, voter, in_favor)
    PROVE  GovInv'
<1> DEFINE p == proposals[id]
           q == Counted(p, voter, in_favor)
           c == [cast[id] EXCEPT ![voter] = stake[voter]]
<1>1. p \in Proposal /\ cast[id] \in [Voters -> Nat] /\ stake[voter] \in Nat /\ judged[id] \in Nat
    BY DEF GovInv, GovTypes
<1>2. p.status = "Active" /\ voter \notin DOMAIN p.votes
    BY DEF Vote
<1>3. /\ proposals' = [proposals EXCEPT ![id] = q]
      /\ cast' = [cast EXCEPT ![id] = c] /\ judged' = [judged EXCEPT ![id] = judged[id]]
      /\ UNCHANGED <<height, stake, next_proposal_id>>
    <2>1. judged' = [judged EXCEPT ![id] = judged[id]]
        BY DEF Vote, GovInv, GovTypes
    <2> QED
        BY <2>1 DEF Vote
<1>4. /\ q \in Proposal /\ q.status = p.status
      /\ q.votes_for = IF in_favor THEN p.votes_for + stake[voter] ELSE p.votes_for
      /\ q.votes_against = IF in_favor THEN p.votes_against ELSE p.votes_against + stake[voter]
      /\ DOMAIN q.votes = DOMAIN p.votes \cup {voter}
      /\ q.votes[voter] = in_favor
      /\ \A v \in DOMAIN p.votes \ {voter} : q.votes[v] = p.votes[v]
    BY <1>1, CountedFields DEF GovInv
<1>5. c \in [Voters -> Nat]
    BY <1>1
<1>6. Tallied(p, cast[id], judged[id])
    BY DEF GovInv
<1>7. DOMAIN p.votes \in SUBSET Voters /\ p.votes_for \in Nat /\ p.votes_against \in Nat
    BY <1>1 DEF Proposal
<1> HIDE DEF p, q
<1>8. For(q) = IF in_favor THEN For(p) \cup {voter} ELSE For(p)
    BY <1>2, <1>4 DEF For
<1>9. For(p) \in SUBSET Voters /\ voter \notin For(p)
    BY <1>2, <1>7 DEF For
<1>10. /\ StakeSum(DOMAIN p.votes \cup {voter}, c) = StakeSum(DOMAIN p.votes, cast[id]) + stake[voter]
       /\ StakeSum(For(p) \cup {voter}, c) = StakeSum(For(p), cast[id]) + stake[voter]
       /\ StakeSum(For(p), c) = StakeSum(For(p), cast[id])
    <2>1. \A S \in SUBSET Voters : voter \notin S =>
             /\ StakeSum(S \cup {voter}, c) = StakeSum(S, cast[id]) + stake[voter]
             /\ StakeSum(S, c) = StakeSum(S, cast[id])
        <3>1. c \in [Voters -> Nat] /\ c[voter] = stake[voter] /\ \A x \in Voters \ {voter} : c[x] = cast[id][x]
            BY <1>1
        <3>2. cast[id] \in [Voters -> Nat]
            BY <1>1
        <3> HIDE DEF c
        <3> SUFFICES ASSUME NEW S \in SUBSET Voters, voter \notin S
                     PROVE  /\ StakeSum(S \cup {voter}, c) = StakeSum(S, cast[id]) + stake[voter]
                            /\ StakeSum(S, c) = StakeSum(S, cast[id])
            OBVIOUS
        <3>3. StakeSum(S \cup {voter}, c) = StakeSum(S, cast[id]) + c[voter] /\ StakeSum(S, c) = StakeSum(S, cast[id])
            BY <3>1, <3>2, TallyGrows
        <3> QED
            BY <3>1, <3>3
    <2> HIDE DEF c
    <2>2. StakeSum(DOMAIN p.votes \cup {voter}, c) = StakeSum(DOMAIN p.votes, cast[id]) + stake[voter]
        BY <1>2, <1>7, <2>1, Zenon
    <2>3. /\ StakeSum(For(p) \cup {voter}, c) = StakeSum(For(p), cast[id]) + stake[voter]
          /\ StakeSum(For(p), c) = StakeSum(For(p), cast[id])
        BY <1>9, <2>1, Zenon
    <2> QED
        BY <2>2, <2>3
<1> HIDE DEF c
<1>11. Tallied(q, c, judged[id])
    <2>1. q.votes_for = StakeSum(For(q), c)
        BY <1>4, <1>6, <1>8, <1>10 DEF Tallied
    <2>2. q.votes_for + q.votes_against = (p.votes_for + p.votes_against) + stake[voter]
        BY <1>1, <1>4, <1>7
    <2>3. q.votes_for + q.votes_against = StakeSum(DOMAIN q.votes, c)
        BY <1>4, <1>6, <1>10, <2>2 DEF Tallied
    <2> QED
        BY <1>2, <1>4, <2>1, <2>3 DEF Tallied
<1> QED
    BY <1>1, <1>3, <1>4, <1>5, <1>11, GovInvChange

LEMMA TimelockType ==
    ASSUME NEW type
    PROVE  CalculateTimelock(type) \in Nat /\ CalculateTimelock(type) >= PerformanceDays * BlocksPerDay
<1>1. \A d \in Nat : d >= PerformanceDays => BlocksPerDay * d >= PerformanceDays * BlocksPerDay /\ BlocksPerDay * d \in Nat
    BY GovernanceAssumption
<1> QED
    BY <1>1, GovernanceAssumption DEF CalculateTimelock

\* What a decision or an execution leaves alone in a proposal.
Decided(p, s, n) == [p EXCEPT !.status = s, !.timelock_ends = n]

LEMMA DecidedFields ==
    ASSUME NEW p \in Proposal, NEW s \in Statuses, NEW n \in Nat
    PROVE  /\ Decided(p, s, n) \in Proposal
           /\ Decided(p, s, n).status = s /\ Decided(p, s, n).timelock_ends = n
           /\ Decided(p, s, n).parameter = p.parameter /\ Decided(p, s, n).voting_ends = p.voting_ends
           /\ Decided(p, s, n).votes = p.votes
           /\ Decided(p, s, n).votes_for = p.votes_for /\ Decided(p, s, n).votes_against = p.votes_against
<1> DEFINE q == Decided(p, s, n)
<1>0. q = [p EXCEPT !.status = s, !.timelock_ends = n]
    BY DEF Decided
<1> HIDE DEF q
<1>1. q = [parameter |-> p.parameter, value |-> p.value, voting_ends |-> p.voting_ends,
           timelock_ends |-> n, status |-> s,
           votes_for |-> p.votes_for, votes_against |-> p.votes_against, votes |-> p.votes]
    BY <1>0 DEF Proposal
<1>2. q \in Proposal
    BY <1>1 DEF Proposal
<1>3. /\ q.status = s /\ q.timelock_ends = n /\ q.parameter = p.parameter /\ q.voting_ends = p.voting_ends
      /\ q.votes = p.votes /\ q.votes_for = p.votes_for /\ q.votes_against = p.votes_against
    BY <1>1
<1> QED
    BY <1>2, <1>3 DEF q

LEMMA TotalType == ASSUME GovTypes PROVE TotalStake \in Nat
<1>1. \A v \in Voters : stake[v] \in Nat
    BY DEF GovTypes
<1> QED
    BY <1>1, GovernanceAssumption, StakeSumType DEF TotalStake

\* What finalize_voting writes.
LEMMA FinalizeFields ==
    ASSUME GovInv, NEW id \in 1..Len(proposals), FinalizeVoting(id)
    PROVE  \E q \in Proposal :
              /\ proposals' = [proposals EXCEPT ![id] = q]
              /\ q.votes = proposals[id].votes
              /\ q.votes_for = proposals[id].votes_for /\ q.votes_against = proposals[id].votes_against
              /\ q.parameter = proposals[id].parameter /\ q.voting_ends = proposals[id].voting_ends
              /\ LET votes == q.votes_for + q.votes_against
                 IN  IF ~BelowQuorum(votes, TotalStake) /\ Approves(q.votes_for, votes)
                     THEN q.status = "Approved" /\ q.timelock_ends = height + CalculateTimelock(q.parameter)
                     ELSE q.status = "Rejected"
<1> DEFINE p == proposals[id]
           votes == p.votes_for + p.votes_against
           yes == ~BelowQuorum(votes, TotalStake) /\ Approves(p.votes_for, votes)
           n == height + CalculateTimelock(p.parameter)
<1>1. p \in Proposal /\ height \in Nat
    BY DEF GovInv, GovTypes
<1>2. n \in Nat /\ p.timelock_ends \in Nat
    BY <1>1, TimelockType DEF Proposal
<1>3. CASE yes
    <2> DEFINE d == Decided(p, "Approved", n)
    <2>1. proposals' = [proposals EXCEPT ![id] = d]
        BY <1>3 DEF FinalizeVoting, Decided
    <2>2. "Approved" \in Statuses /\ p \in Proposal /\ n \in Nat
        BY <1>1, <1>2 DEF Statuses
    <2> HIDE DEF p, n, yes
    <2>3. /\ d \in Proposal /\ d.status = "Approved" /\ d.timelock_ends = n
          /\ d.parameter = p.parameter /\ d.voting_ends = p.voting_ends
          /\ d.votes = p.votes /\ d.votes_for = p.votes_for /\ d.votes_against = p.votes_against
        BY <2>2, DecidedFields, Zenon
    <2> HIDE DEF d
    <2> QED
        BY <1>3, <2>1, <2>3 DEF p, n, yes
<1>4. CASE ~yes
    <2> DEFINE d == Decided(p, "Rejected", p.timelock_ends)
    <2>1. proposals' = [proposals EXCEPT ![id] = [p EXCEPT !.status = "Rejected"]]
        BY <1>4 DEF FinalizeVoting
    <2>2. [p EXCEPT !.status = "Rejected"] = d
        BY <1>1 DEF Proposal, Decided
    <2>3. "Rejected" \in Statuses /\ p \in Proposal /\ p.timelock_ends \in Nat
        BY <1>1, <1>2 DEF Statuses
    <2> HIDE DEF p, n, yes
    <2>4. /\ d \in Proposal /\ d.status = "Rejected"
          /\ d.parameter = p.parameter /\ d.voting_ends = p.voting_ends
          /\ d.votes = p.votes /\ d.votes_for = p.votes_for /\ d.votes_against = p.votes_against
        BY <2>3, DecidedFields, Zenon
    <2> HIDE DEF d
    <2> QED
        BY <1>4, <2>1, <2>2, <2>4 DEF p, yes
<1> QED
    BY <1>3, <1>4

\* finalize_voting decides by the tally.
LEMMA GovInvFinalize ==
    ASSUME GovInv, NEW id \in 1..Len(proposals), FinalizeVoting(id)
    PROVE  GovInv'
<1> DEFINE p == proposals[id]
<1>1. cast[id] \in [Voters -> Nat] /\ TotalStake \in Nat
    BY TotalType DEF GovInv, GovTypes
<1>2. /\ cast' = [cast EXCEPT ![id] = cast[id]] /\ judged' = [judged EXCEPT ![id] = TotalStake]
      /\ UNCHANGED <<height, stake, next_proposal_id>>
    BY DEF FinalizeVoting, GovInv, GovTypes
<1>3. Tallied(p, cast[id], judged[id])
    BY DEF GovInv
<1>4. PICK q \in Proposal :
          /\ proposals' = [proposals EXCEPT ![id] = q]
          /\ q.votes = p.votes /\ q.votes_for = p.votes_for /\ q.votes_against = p.votes_against
          /\ LET votes == q.votes_for + q.votes_against
             IN  IF ~BelowQuorum(votes, TotalStake) /\ Approves(q.votes_for, votes)
                 THEN q.status = "Approved" ELSE q.status = "Rejected"
    BY FinalizeFields
<1> HIDE DEF p
<1>5. For(q) = For(p)
    BY <1>4 DEF For
<1>6. Tallied(q, cast[id], TotalStake)
    BY <1>3, <1>4, <1>5 DEF Tallied
<1> QED
    BY <1>1, <1>2, <1>4, <1>6, GovInvChange

\* execute_proposal changes the status of a proposal that was approved.
LEMMA GovInvExecute ==
    ASSUME GovInv, NEW id \in 1..Len(proposals), ExecuteProposal(id)
    PROVE  GovInv'
<1> DEFINE p == proposals[id]
           q == Decided(p, "Executed", p.timelock_ends)
<1>1. p \in Proposal /\ cast[id] \in [Voters -> Nat] /\ judged[id] \in Nat
    BY DEF GovInv, GovTypes
<1>2. p.timelock_ends \in Nat
    BY <1>1 DEF Proposal
<1>3. /\ q \in Proposal /\ q.status = "Executed"
      /\ q.votes = p.votes /\ q.votes_for = p.votes_for /\ q.votes_against = p.votes_against
    <2>1. "Executed" \in Statuses
        BY DEF Statuses
    <2> HIDE DEF p
    <2> QED
        BY <1>1, <1>2, <2>1, DecidedFields, Zenon
<1>4. /\ proposals' = [proposals EXCEPT ![id] = q]
      /\ cast' = [cast EXCEPT ![id] = cast[id]] /\ judged' = [judged EXCEPT ![id] = judged[id]]
      /\ UNCHANGED <<height, stake, next_proposal_id>>
    <2>1. proposals' = [proposals EXCEPT ![id] = [p EXCEPT !.status = "Executed"]]
        BY DEF ExecuteProposal
    <2>2. [p EXCEPT !.status = "Executed"] = q
        BY <1>1 DEF Proposal, Decided
    <2>3. cast' = [cast EXCEPT ![id] = cast[id]] /\ judged' = [judged EXCEPT ![id] = judged[id]]
        BY DEF ExecuteProposal, GovInv, GovTypes
    <2> HIDE DEF q
    <2>4. UNCHANGED <<height, stake, next_proposal_id>>
        BY DEF ExecuteProposal
    <2> QED
        BY <2>1, <2>2, <2>3, <2>4
<1>5. Tallied(p, cast[id], judged[id]) /\ p.status = "Approved"
    BY DEF GovInv, ExecuteProposal
<1> HIDE DEF p, q
<1>6. For(q) = For(p)
    BY <1>3 DEF For
<1>7. Tallied(q, cast[id], judged[id])
    BY <1>3, <1>5, <1>6 DEF Tallied
<1> QED
    BY <1>1, <1>3, <1>4, <1>7, GovInvChange

LEMMA GovInvNext == GovInv /\ [GovernanceNext]_govVars => GovInv'
<1> SUFFICES ASSUME GovInv, [GovernanceNext]_govVars PROVE GovInv'
    OBVIOUS
<1>0. DOMAIN proposals = 1..Len(proposals)
    BY DEF GovInv, GovTypes
<1>1. CASE GrowChain
    BY <1>1 DEF GrowChain, GovInv, GovTypes, Tallied
<1>2. ASSUME NEW v \in Voters, NEW s \in StakeValues, ChangeStake(v, s) PROVE GovInv'
    <2>1. s \in Nat
        BY GovernanceAssumption
    <2> QED
        BY <1>2, <2>1 DEF ChangeStake, GovInv, GovTypes
<1>3. CASE UNCHANGED govVars
    BY <1>3 DEF govVars, GovInv, GovTypes
<1> QED
    BY <1>0, <1>1, <1>2, <1>3, GovInvSubmit, GovInvVote, GovInvFinalize, GovInvExecute DEF GovernanceNext

\* Every decision is the one the votes call for.
THEOREM VotesDecide == GovernanceSpec => []DecisionsFollowVotes
<1>1. GovInv => DecisionsFollowVotes
    <2> SUFFICES ASSUME GovInv, NEW id \in DOMAIN proposals
                 PROVE  LET p   == proposals[id]
                            for == StakeSum({v \in DOMAIN p.votes : p.votes[v]}, cast[id])
                            all == StakeSum(DOMAIN p.votes, cast[id])
                        IN  p.status # "Active" =>
                                (p.status # "Rejected" <=> ~BelowQuorum(all, judged[id]) /\ Approves(for, all))
        BY DEF DecisionsFollowVotes
    <2>1. Tallied(proposals[id], cast[id], judged[id])
        BY DEF GovInv, GovTypes
    <2> QED
        BY <2>1 DEF Tallied, For
<1> QED
    BY <1>1, GovInvInit, GovInvNext, PTL DEF GovernanceSpec

-----------------------------------------------------------------------------
(* The refinement.                                                         *)

\* A proposal as the abstract specification sees it.
Named(p) ==
    CASE p.status = "Active"   -> "active"
      [] p.status = "Approved" -> "approved"
      [] p.status = "Rejected" -> "rejected"
      [] p.status = "Executed" -> "executed"
Since(p) ==
    IF p.status \in {"Active", "Rejected"} THEN p.voting_ends - VotingPeriodDays * BlocksPerDay
    ELSE p.timelock_ends - CalculateTimelock(p.parameter)
Phases == [id \in 1..MaxProposals |-> PhaseOf(id)]
Sinces == [id \in 1..MaxProposals |-> SinceOf(id)]

LEMMA ViewOf ==
    ASSUME GovTypes, NEW i \in 1..MaxProposals
    PROVE  /\ Phases[i] = (IF i \in 1..Len(proposals) THEN Named(proposals[i]) ELSE "none")
           /\ Sinces[i] = (IF i \in 1..Len(proposals) THEN Since(proposals[i]) ELSE 0)
<1>1. DOMAIN proposals = 1..Len(proposals)
    BY DEF GovTypes
<1>2. Phases[i] = PhaseOf(i) /\ Sinces[i] = SinceOf(i)
    BY DEF Phases, Sinces
<1> QED
    BY <1>1, <1>2 DEF PhaseOf, SinceOf, Named, Since

\* A change of one proposal is seen at that proposal only.
LEMMA ViewChange ==
    ASSUME GovTypes, GovTypes', NEW id \in 1..Len(proposals), NEW q \in Proposal,
           proposals' = [proposals EXCEPT ![id] = q]
    PROVE  /\ Phases' = [Phases EXCEPT ![id] = Named(q)]
           /\ Sinces' = [Sinces EXCEPT ![id] = Since(q)]
<1>1. id \in 1..MaxProposals /\ \A i \in 1..Len(proposals) : i \in 1..MaxProposals
    BY GovernanceAssumption DEF GovTypes
<1>2. /\ Len(proposals') = Len(proposals) /\ proposals'[id] = q
      /\ \A i \in 1..Len(proposals) : i # id => proposals'[i] = proposals[i]
    BY DEF GovTypes
<1>3. ASSUME NEW i \in 1..MaxProposals
      PROVE  /\ Phases'[i] = (IF i = id THEN Named(q) ELSE Phases[i])
             /\ Sinces'[i] = (IF i = id THEN Since(q) ELSE Sinces[i])
    <2>1. /\ Phases[i] = (IF i \in 1..Len(proposals) THEN Named(proposals[i]) ELSE "none")
          /\ Sinces[i] = (IF i \in 1..Len(proposals) THEN Since(proposals[i]) ELSE 0)
        BY ViewOf
    <2>2. /\ Phases'[i] = (IF i \in 1..Len(proposals') THEN Named(proposals'[i]) ELSE "none")
          /\ Sinces'[i] = (IF i \in 1..Len(proposals') THEN Since(proposals'[i]) ELSE 0)
        <3>1. DOMAIN proposals' = 1..Len(proposals')
            BY DEF GovTypes
        <3>2. Phases'[i] = PhaseOf(i)' /\ Sinces'[i] = SinceOf(i)'
            BY DEF Phases, Sinces
        <3> QED
            BY <3>1, <3>2 DEF PhaseOf, SinceOf, Named, Since
    <2> QED
        BY <1>1, <1>2, <2>1, <2>2
<1>4. DOMAIN Phases = 1..MaxProposals /\ DOMAIN Phases' = 1..MaxProposals
    BY DEF Phases
<1>5. Phases' = [i \in 1..MaxProposals |-> Phases'[i]] /\ Phases = [i \in 1..MaxProposals |-> Phases[i]]
    BY DEF Phases
<1>6. Sinces' = [i \in 1..MaxProposals |-> Sinces'[i]] /\ Sinces = [i \in 1..MaxProposals |-> Sinces[i]]
    BY DEF Sinces
<1> QED
    BY <1>1, <1>3, <1>5, <1>6

LEMMA RefinementInit == GovernanceInit => Lifecycle!LifecycleInit
<1> SUFFICES ASSUME GovernanceInit PROVE Lifecycle!LifecycleInit
    OBVIOUS
<1>1. DOMAIN proposals = {}
    BY DEF GovernanceInit
<1> QED
    BY <1>1 DEF GovernanceInit, Lifecycle!LifecycleInit, PhaseOf, SinceOf

\* The steps of the abstract specification under the mapping.
LEMMA AbstractEnter ==
    ASSUME NEW i, NEW s, NEW n,
           Phases' = [Phases EXCEPT ![i] = s], Sinces' = [Sinces EXCEPT ![i] = n], height' = height
    PROVE  Lifecycle!Enter(i, s, n)
BY DEF Lifecycle!Enter, Phases, Sinces

\* Every decision or execution maps to one step of the life cycle, and a vote
\* to none.
LEMMA RefinementVote ==
    ASSUME GovInv, GovInv', NEW id \in 1..Len(proposals), NEW voter \in Voters, NEW in_favor \in BOOLEAN,
           Vote(id, voter, in_favor)
    PROVE  UNCHANGED Lifecycle!lifecycleVars
<1> DEFINE p == proposals[id]
           q == Counted(p, voter, in_favor)
<1>1. p \in Proposal
    BY DEF GovInv, GovTypes
<1>2. proposals' = [proposals EXCEPT ![id] = q] /\ height' = height
    BY DEF Vote
<1>3. /\ q \in Proposal /\ q.status = p.status /\ q.parameter = p.parameter
      /\ q.voting_ends = p.voting_ends /\ q.timelock_ends = p.timelock_ends
    BY <1>1, CountedFields DEF GovInv
<1> HIDE DEF q
<1>4. Named(q) = Named(p) /\ Since(q) = Since(p)
    BY <1>3 DEF Named, Since
<1>5. Phases' = [Phases EXCEPT ![id] = Named(q)] /\ Sinces' = [Sinces EXCEPT ![id] = Since(q)]
    BY <1>2, <1>3, ViewChange DEF GovInv
<1>6. id \in 1..MaxProposals
    BY GovernanceAssumption DEF GovInv, GovTypes
<1>7. Phases[id] = Named(p) /\ Sinces[id] = Since(p)
    BY <1>6, ViewOf DEF GovInv
<1>8. Phases' = Phases /\ Sinces' = Sinces
    BY <1>4, <1>5, <1>7 DEF Phases, Sinces
<1> QED
    BY <1>2, <1>8 DEF Lifecycle!lifecycleVars, Phases, Sinces

LEMMA RefinementFinalize ==
    ASSUME GovInv, GovInv', NEW id \in 1..Len(proposals), FinalizeVoting(id)
    PROVE  id \in 1..MaxProposals /\ Lifecycle!Decide(id)
<1> DEFINE p == proposals[id]
<1>0. id \in 1..MaxProposals
    BY GovernanceAssumption DEF GovInv, GovTypes
<1>1. p \in Proposal /\ p.status = "Active" /\ height >= p.voting_ends /\ height' = height /\ height \in Nat
    BY DEF FinalizeVoting, GovInv, GovTypes
<1>2. PICK q \in Proposal :
          /\ proposals' = [proposals EXCEPT ![id] = q]
          /\ q.parameter = p.parameter /\ q.voting_ends = p.voting_ends
          /\ \/ q.status = "Approved" /\ q.timelock_ends = height + CalculateTimelock(q.parameter)
             \/ q.status = "Rejected"
    BY FinalizeFields
<1>3. Phases[id] = Named(p) /\ Sinces[id] = Since(p)
    BY <1>0, ViewOf DEF GovInv
<1>4. Phases' = [Phases EXCEPT ![id] = Named(q)] /\ Sinces' = [Sinces EXCEPT ![id] = Since(q)]
    BY <1>2, ViewChange DEF GovInv
<1> HIDE DEF p
<1>5. Named(p) = "active" /\ Since(p) = p.voting_ends - VotingPeriodDays * BlocksPerDay
    BY <1>1 DEF Named, Since
<1>6. height >= Sinces[id] + VotingPeriodDays * BlocksPerDay
    <2> DEFINE period == VotingPeriodDays * BlocksPerDay
    <2>1. p.voting_ends \in Nat /\ period \in Nat
        <3>1. p.voting_ends \in Nat
            BY <1>1 DEF Proposal
        <3>2. period \in Nat
            BY GovernanceAssumption
        <3> QED BY <3>1, <3>2
    <2>2. Sinces[id] = p.voting_ends - period
        BY <1>3, <1>5
    <2> HIDE DEF period
    <2>3. height >= Sinces[id] + period
        BY <1>1, <2>1, <2>2
    <2> QED
        BY <2>3 DEF period
<1>7. Lifecycle!Enter(id, "approved", height) \/ Lifecycle!Enter(id, "rejected", Sinces[id])
    <2>1. CASE q.status = "Approved" /\ q.timelock_ends = height + CalculateTimelock(q.parameter)
        <3>1. Named(q) = "approved"
            BY <2>1 DEF Named
        <3>2. CalculateTimelock(q.parameter) \in Nat
            BY TimelockType
        <3>3. Since(q) = height
            BY <1>1, <2>1, <3>2 DEF Since
        <3> QED
            BY <1>1, <1>4, <3>1, <3>3, AbstractEnter
    <2>2. CASE q.status = "Rejected"
        <3>1. Named(q) = "rejected" /\ Since(q) = Since(p)
            BY <1>2, <1>5, <2>2 DEF Named, Since
        <3> QED
            BY <1>1, <1>3, <1>4, <3>1, AbstractEnter
    <2> QED
        BY <1>2, <2>1, <2>2
<1>8. Phases[id] = "active"
    BY <1>3, <1>5
<1> QED
    BY <1>0, <1>6, <1>7, <1>8 DEF Lifecycle!Decide, Phases, Sinces

LEMMA RefinementExecute ==
    ASSUME GovInv, GovInv', NEW id \in 1..Len(proposals), ExecuteProposal(id)
    PROVE  id \in 1..MaxProposals /\ Lifecycle!Execute(id)
<1> DEFINE p == proposals[id]
           q == Decided(p, "Executed", p.timelock_ends)
<1>0. id \in 1..MaxProposals
    BY GovernanceAssumption DEF GovInv, GovTypes
<1>1. p \in Proposal /\ p.status = "Approved" /\ height >= p.timelock_ends /\ height' = height /\ height \in Nat
    BY DEF ExecuteProposal, GovInv, GovTypes
<1>2. proposals' = [proposals EXCEPT ![id] = [p EXCEPT !.status = "Executed"]]
    BY DEF ExecuteProposal
<1>3. [p EXCEPT !.status = "Executed"] = q
    BY <1>1 DEF Proposal, Decided
<1>4. "Executed" \in Statuses /\ p \in Proposal /\ p.timelock_ends \in Nat
    BY <1>1 DEF Statuses, Proposal
<1>5. /\ q \in Proposal /\ q.status = "Executed" /\ q.parameter = p.parameter
      /\ q.timelock_ends = p.timelock_ends
    <2> HIDE DEF p
    <2> QED
        BY <1>4, DecidedFields, Zenon
<1>6. Phases[id] = Named(p) /\ Sinces[id] = Since(p)
    BY <1>0, ViewOf DEF GovInv
<1> HIDE DEF q
<1>7. Phases' = [Phases EXCEPT ![id] = Named(q)] /\ Sinces' = [Sinces EXCEPT ![id] = Since(q)]
    BY <1>2, <1>3, <1>5, ViewChange DEF GovInv
<1> HIDE DEF p
<1>8. /\ Named(p) = "approved" /\ Named(q) = "executed"
      /\ Since(p) = p.timelock_ends - CalculateTimelock(p.parameter) /\ Since(q) = Since(p)
    BY <1>1, <1>5 DEF Named, Since
<1>9. height >= Sinces[id] + PerformanceDays * BlocksPerDay
    <2>1. /\ CalculateTimelock(p.parameter) \in Nat /\ PerformanceDays * BlocksPerDay \in Nat
          /\ CalculateTimelock(p.parameter) >= PerformanceDays * BlocksPerDay
        BY TimelockType, GovernanceAssumption
    <2> QED
        BY <1>1, <1>4, <1>6, <1>8, <2>1
<1>10. Lifecycle!Enter(id, "executed", Sinces[id])
    BY <1>1, <1>6, <1>7, <1>8, AbstractEnter
<1>11. Phases[id] = "approved"
    BY <1>6, <1>8
<1> QED
    BY <1>0, <1>9, <1>10, <1>11 DEF Lifecycle!Execute, Phases, Sinces

LEMMA RefinementSubmit ==
    ASSUME GovInv, GovInv', NEW x \in Submissions, SubmitProposal(x.parameter, x.value, x.backers)
    PROVE  next_proposal_id \in 1..MaxProposals /\ Lifecycle!Propose(next_proposal_id)
<1> DEFINE id == next_proposal_id
           period == VotingPeriodDays * BlocksPerDay
           new == [parameter |-> x.parameter, value |-> x.value,
                   voting_ends |-> height + period, timelock_ends |-> 0,
                   status |-> "Active", votes_for |-> 0, votes_against |-> 0,
                   votes |-> [v \in {} |-> TRUE]]
<1>1. proposals' = Append(proposals, new) /\ id <= MaxProposals /\ height' = height
    BY DEF SubmitProposal
<1>2. Named(new) = "active" /\ Since(new) = height
    <2>1. new.status = "Active" /\ new.voting_ends = height + period
        OBVIOUS
    <2>2. height \in Nat /\ period \in Nat
        BY GovernanceAssumption DEF GovInv, GovTypes
    <2> HIDE DEF new
    <2>3. Named(new) = "active" /\ Since(new) = new.voting_ends - period
        BY <2>1 DEF Named, Since
    <2> HIDE DEF period
    <2> QED
        BY <2>1, <2>2, <2>3
<1> HIDE DEF new, period
<1>3. /\ id = Len(proposals) + 1 /\ id \in 1..MaxProposals /\ Len(proposals') = id
      /\ proposals'[id] = new /\ \A i \in 1..Len(proposals) : proposals'[i] = proposals[i]
    BY <1>1, GovernanceAssumption DEF GovInv, GovTypes
<1>4. Phases[id] = "none"
    BY <1>3, ViewOf DEF GovInv, GovTypes
<1>5. ASSUME NEW i \in 1..MaxProposals
      PROVE  /\ Phases'[i] = (IF i = id THEN "active" ELSE Phases[i])
             /\ Sinces'[i] = (IF i = id THEN height ELSE Sinces[i])
    <2>1. /\ Phases[i] = (IF i \in 1..Len(proposals) THEN Named(proposals[i]) ELSE "none")
          /\ Sinces[i] = (IF i \in 1..Len(proposals) THEN Since(proposals[i]) ELSE 0)
        BY ViewOf DEF GovInv
    <2>2. /\ Phases'[i] = (IF i \in 1..Len(proposals') THEN Named(proposals'[i]) ELSE "none")
          /\ Sinces'[i] = (IF i \in 1..Len(proposals') THEN Since(proposals'[i]) ELSE 0)
        <3>1. DOMAIN proposals' = 1..Len(proposals')
            BY DEF GovInv, GovTypes
        <3>2. Phases'[i] = PhaseOf(i)' /\ Sinces'[i] = SinceOf(i)'
            BY DEF Phases, Sinces
        <3> QED
            BY <3>1, <3>2 DEF PhaseOf, SinceOf, Named, Since
    <2>3. Len(proposals) \in Nat
        BY DEF GovInv, GovTypes
    <2>4. CASE i = id
        BY <1>2, <1>3, <2>2, <2>4
    <2>5. CASE i # id
        <3>1. i \in 1..Len(proposals) <=> i \in 1..Len(proposals')
            BY <1>3, <2>3, <2>5
        <3> QED
            BY <1>3, <2>1, <2>2, <2>5, <3>1
    <2> QED
        BY <2>4, <2>5
<1>6. Phases' = [i \in 1..MaxProposals |-> Phases'[i]] /\ Phases = [i \in 1..MaxProposals |-> Phases[i]]
    BY DEF Phases
<1>7. Sinces' = [i \in 1..MaxProposals |-> Sinces'[i]] /\ Sinces = [i \in 1..MaxProposals |-> Sinces[i]]
    BY DEF Sinces
<1>8. Phases' = [Phases EXCEPT ![id] = "active"] /\ Sinces' = [Sinces EXCEPT ![id] = height]
    BY <1>3, <1>5, <1>6, <1>7
<1>9. Lifecycle!Enter(id, "active", height)
    BY <1>1, <1>8, AbstractEnter
<1> QED
    BY <1>3, <1>4, <1>9 DEF Lifecycle!Propose, Phases, Sinces

LEMMA RefinementNext ==
    GovInv /\ GovInv' /\ [GovernanceNext]_govVars => [Lifecycle!LifecycleNext]_(Lifecycle!lifecycleVars)
<1> SUFFICES ASSUME GovInv, GovInv', [GovernanceNext]_govVars
             PROVE  [Lifecycle!LifecycleNext]_(Lifecycle!lifecycleVars)
    OBVIOUS
<1>0. DOMAIN proposals = 1..Len(proposals)
    BY DEF GovInv, GovTypes
<1>1. CASE GrowChain
    <2>1. Lifecycle!Grow
        BY <1>1 DEF GrowChain, Lifecycle!Grow, PhaseOf, SinceOf
    <2> QED
        BY <2>1 DEF Lifecycle!LifecycleNext
<1>2. CASE UNCHANGED <<proposals, height>>
    BY <1>2 DEF Lifecycle!lifecycleVars, PhaseOf, SinceOf
<1>3. ASSUME NEW x \in Submissions, SubmitProposal(x.parameter, x.value, x.backers)
      PROVE  Lifecycle!LifecycleNext
    BY <1>3, RefinementSubmit DEF Lifecycle!LifecycleNext
<1>4. ASSUME NEW id \in 1..Len(proposals), FinalizeVoting(id) \/ ExecuteProposal(id)
      PROVE  Lifecycle!LifecycleNext
    BY <1>4, RefinementFinalize, RefinementExecute DEF Lifecycle!LifecycleNext
<1>5. ASSUME NEW v \in Voters, NEW s \in StakeValues, ChangeStake(v, s)
      PROVE  UNCHANGED <<proposals, height>>
    BY <1>5 DEF ChangeStake
<1>6. CASE UNCHANGED govVars
    BY <1>2, <1>6 DEF govVars
<1> QED
    BY <1>0, <1>1, <1>2, <1>3, <1>4, <1>5, <1>6, RefinementVote DEF GovernanceNext

\* The module implements the abstract life cycle: no voting period and no
\* timelock is cut short, and nothing is decided or executed twice.
THEOREM GovernanceRefines == GovernanceSpec => ImplementsLifecycle
BY GovInvInit, GovInvNext, RefinementInit, RefinementNext, PTL
   DEF GovernanceSpec, ImplementsLifecycle, Lifecycle!LifecycleSpec

-----------------------------------------------------------------------------
(* The fee market and the supply *)

\* Integer division and remainder, from the quotient and the remainder.
LEMMA DivisionFacts ==
    ASSUME NEW n \in Int, NEW d \in Nat \ {0}
    PROVE  /\ n \div d \in Int /\ n % d \in 0..(d - 1)
           /\ n = d * (n \div d) + (n % d)
OBVIOUS

LEMMA Divided ==
    ASSUME NEW n \in Int, NEW d \in Nat \ {0}
    PROVE  \E a \in Int : \E r \in 0..(d - 1) : n % d = r /\ n = d * a + r
<1>1. /\ n \div d \in Int /\ n % d \in 0..(d - 1)
      /\ n = d * (n \div d) + (n % d)
  BY DivisionFacts
<1> WITNESS n \div d \in Int
<1> WITNESS n % d \in 0..(d - 1)
<1> QED
  BY <1>1

LEMMA Uniqueness ==
    ASSUME NEW d \in Nat \ {0}, NEW q \in Int, NEW r \in 0..(d - 1),
           NEW p \in Int, NEW s \in 0..(d - 1), d * q + r = d * p + s
    PROVE  r = s
<1>1. ASSUME NEW x \in Int, NEW y \in Int, NEW a \in 0..(d - 1), NEW b \in 0..(d - 1),
             d * x + a = d * y + b
      PROVE  ~(x < y)
  <2>1. SUFFICES ASSUME x + 1 <= y PROVE FALSE
    OBVIOUS
  <2>2. d * (x + 1) <= d * y
    BY <2>1
  <2>3. d * (x + 1) = d * x + d
    OBVIOUS
  <2>4. d * x \in Int /\ d * y \in Int
    OBVIOUS
  <2> QED BY <1>1, <2>2, <2>3, <2>4
<1>2. q = p
  BY <1>1
<1>3. d * q \in Int
  OBVIOUS
<1> QED
  BY <1>2, <1>3

LEMMA RemainderIs ==
    ASSUME NEW d \in Nat \ {0}, NEW q \in Int, NEW r \in 0..(d - 1), NEW n \in Int,
           n = d * q + r
    PROVE  n % d = r
<1>1. /\ n \div d \in Int /\ n % d \in 0..(d - 1)
      /\ n = d * (n \div d) + (n % d)
  BY DivisionFacts
<1>2. PICK p \in Int, s \in 0..(d - 1) : p = n \div d /\ s = n % d
  BY <1>1
<1>3. d * q + r = d * p + s
  BY <1>1, <1>2
<1> QED
  BY <1>2, <1>3, Uniqueness

\* Rounding: the result is within half a unit.
LEMMA RoundBounds ==
    ASSUME NEW n \in Nat, NEW d \in Nat \ {0}
    PROVE  LET x == Round(n, d)
           IN  /\ x \in Nat
               /\ (2 * d) * x <= 2 * n + d
               /\ 2 * n < (2 * d) * x + d
<1> DEFINE m == 2 * n + d
           e == 2 * d
           x == m \div e
<1>1. m \in Nat /\ e \in Nat \ {0}
  OBVIOUS
<1>2. Round(n, d) = x
  BY DEF Round
<1>3. /\ x \in Int /\ m % e \in 0..(e - 1) /\ m = e * x + (m % e)
  <2> HIDE DEF m, e
  <2> QED BY <1>1, DivisionFacts
<1>4. PICK r \in 0..(e - 1) : m = e * x + r
  BY <1>3
<1> HIDE DEF x
<1>5. x \in Nat
  <2>1. SUFFICES ASSUME x <= -1 PROVE FALSE
    BY <1>3
  <2>2. e * x <= -e
    <3> HIDE DEF e
    <3> QED BY <1>1, <1>3, <2>1
  <2> QED BY <1>1, <1>3, <1>4, <2>2
<1>6. e * x \in Nat
  <2> HIDE DEF e
  <2> QED BY <1>1, <1>5
<1>7. PICK y \in Nat : y = e * x
  BY <1>6
<1>8. y <= 2 * n + d /\ 2 * n < y + d
  BY <1>4, <1>7
<1> QED
  BY <1>2, <1>5, <1>7, <1>8

\* The base fee never falls below 4: an eighth less, rounded, is 4 again.  And
\* from 4 on, an eighth more is at least one more.
LEMMA NextFee ==
    ASSUME base_fee \in Nat, base_fee >= 4, target_gas \in Nat, target_gas # 0,
           NEW gas \in Nat
    PROVE  /\ CalculateNextBaseFee(gas) \in Nat /\ CalculateNextBaseFee(gas) >= 4
           /\ gas = 2 * target_gas => CalculateNextBaseFee(gas) > base_fee
           /\ gas = target_gas => CalculateNextBaseFee(gas) = base_fee
           /\ gas = 0 => CalculateNextBaseFee(gas) <= base_fee
<1>1. PICK b \in Nat, t \in Nat \ {0} : b = base_fee /\ t = target_gas /\ b >= 4
  OBVIOUS
<1>2. PICK delta \in Int : /\ delta = Maximum(-t, Minimum(t, gas - t))
                           /\ -t <= delta /\ delta <= t
                           /\ gas = 2 * t => delta = t
                           /\ gas = t => delta = 0
                           /\ gas = 0 => delta = -t
  BY DEF Maximum, Minimum
<1>3. PICK n \in Nat : n = b * (8 * t + delta)
  <2>1. 8 * t + delta \in Nat
    BY <1>2
  <2> QED BY <2>1
<1>4. PICK u \in Nat : u = b * t /\ u >= 4 * t /\ u > 0
  <2>1. b * t \in Nat /\ b * t >= 4 * t /\ b * t > 0
    BY <1>1
  <2> QED BY <2>1
<1>5. /\ n >= 7 * u
      /\ delta = t => n = 9 * u
      /\ delta = 0 => n = 8 * u
      /\ delta = -t => n = 7 * u
  <2>1. ASSUME NEW c \in Int, c >= -t
        PROVE  b * (8 * t + c) >= 7 * (b * t)
    <3>1. 8 * t + c >= 7 * t
      BY <2>1
    <3>2. b * (8 * t + c) >= b * (7 * t)
      BY <3>1
    <3> QED BY <3>2
  <2>2. n >= 7 * u
    BY <1>2, <1>3, <1>4, <2>1
  <2>3. delta = t => n = 9 * u
    BY <1>3, <1>4
  <2>4. delta = 0 => n = 8 * u
    BY <1>3, <1>4
  <2>5. delta = -t => n = 7 * u
    BY <1>3, <1>4
  <2> QED BY <2>2, <2>3, <2>4, <2>5
<1>6. PICK d \in Nat \ {0} : d = 8 * t
  OBVIOUS
<1>7. PICK x \in Nat : /\ x = Round(n, d)
                       /\ (2 * d) * x <= 2 * n + d /\ 2 * n < (2 * d) * x + d
  BY RoundBounds
<1>8. PICK y \in Nat : y = t * x
  OBVIOUS
<1>9. 16 * y <= 2 * n + 8 * t /\ 2 * n < 16 * y + 8 * t
  BY <1>6, <1>7, <1>8
<1>10. ASSUME NEW c \in Nat, x < c
       PROVE  y + t <= t * c
  <2>1. x + 1 <= c
    BY <1>10
  <2>2. t * (x + 1) <= t * c
    BY <2>1
  <2> QED BY <1>8, <2>2
<1>11. ASSUME NEW c \in Nat, c <= x
       PROVE  t * c <= y
  BY <1>8, <1>11
<1>12. x >= 4
  <2>1. SUFFICES ASSUME x < 4 PROVE FALSE
    OBVIOUS
  <2>2. y + t <= t * 4
    BY <1>10, <2>1
  <2> QED BY <1>4, <1>5, <1>9, <2>2
<1>13. t * b = u /\ t * (b + 1) = u + t
  BY <1>4
<1>14. delta = t => x > b
  <2>1. SUFFICES ASSUME delta = t, x < b + 1 PROVE FALSE
    OBVIOUS
  <2>2. y + t <= t * (b + 1)
    BY <1>10, <2>1
  <2> QED BY <1>4, <1>5, <1>9, <1>13, <2>1, <2>2
<1>15. delta = 0 => x = b
  <2>1. SUFFICES ASSUME delta = 0 PROVE ~(x < b) /\ ~(b + 1 <= x)
    OBVIOUS
  <2>2. ~(x < b)
    <3>1. SUFFICES ASSUME x < b PROVE FALSE
      OBVIOUS
    <3>2. y + t <= t * b
      BY <1>10, <3>1
    <3> QED BY <1>5, <1>9, <1>13, <2>1, <3>2
  <2>3. ~(b + 1 <= x)
    <3>1. SUFFICES ASSUME b + 1 <= x PROVE FALSE
      OBVIOUS
    <3>2. t * (b + 1) <= y
      BY <1>11, <3>1
    <3> QED BY <1>5, <1>9, <1>13, <2>1, <3>2
  <2> QED BY <2>2, <2>3
<1>16. delta = -t => x <= b
  <2>1. SUFFICES ASSUME delta = -t, b + 1 <= x PROVE FALSE
    OBVIOUS
  <2>2. t * (b + 1) <= y
    BY <1>11, <2>1
  <2> QED BY <1>4, <1>5, <1>9, <1>13, <2>1, <2>2
<1>17. CalculateNextBaseFee(gas) = x
  <2>1. CalculateNextBaseFee(gas) = Maximum(1, Round(n, d))
    BY <1>1, <1>2, <1>3, <1>6 DEF CalculateNextBaseFee
  <2> QED BY <1>7, <1>12, <2>1 DEF Maximum
<1> QED
  BY <1>1, <1>2, <1>12, <1>14, <1>15, <1>16, <1>17

\* The inductive invariant: the fee keeps clear of the rounding trap, and the
\* counters and the supply, all modulo SupplyWidth, account for each other.
Accounted ==
    \E q \in Int : (supply + burned) - opening = SupplyWidth * q + issued

MarketInv ==
    /\ base_fee \in Nat /\ base_fee >= 4 /\ target_gas \in Nat
    /\ bonded \in Nat /\ k \in Nat
    /\ supply \in 0..(SupplyWidth - 1) /\ opening \in 0..(SupplyWidth - 1)
    /\ issued \in 0..(SupplyWidth - 1) /\ burned \in 0..(SupplyWidth - 1)
    /\ Accounted

LEMMA MarketConstants ==
    /\ SupplyWidth \in Nat \ {0} /\ 0 \in 0..(SupplyWidth - 1)
    /\ InitialSupply \in 0..(SupplyWidth - 1)
    /\ InitialBaseFee \in Nat /\ InitialBaseFee >= 4
    /\ BlocksPerYear \in Nat \ {0}
    /\ \A g \in MaxGasValues : g \div 2 \in Nat
    /\ BondedValues \subseteq Nat /\ BurnValues \subseteq Nat
BY FeesAssumption

LEMMA MarketInvInit == MarketInit => MarketInv
<1> SUFFICES ASSUME MarketInit PROVE MarketInv
  OBVIOUS
<1>1. /\ base_fee \in Nat /\ base_fee >= 4 /\ target_gas \in Nat
      /\ bonded \in Nat /\ k \in Nat
  BY MarketConstants DEF MarketInit
<1>2. /\ supply \in 0..(SupplyWidth - 1) /\ opening \in 0..(SupplyWidth - 1)
      /\ issued \in 0..(SupplyWidth - 1) /\ burned \in 0..(SupplyWidth - 1)
  BY MarketConstants DEF MarketInit
<1>3. (supply + burned) - opening = SupplyWidth * 0 + issued
  BY MarketConstants DEF MarketInit
<1>4. Accounted
  BY <1>3 DEF Accounted
<1> QED
  BY <1>1, <1>2, <1>4 DEF MarketInv

LEMMA IssuanceType ==
    ASSUME MarketInv
    PROVE  PerBlockIssuance \in Nat
<1>1. k * bonded \in Nat /\ 100 * BlocksPerYear \in Nat \ {0}
  BY MarketConstants DEF MarketInv
<1>2. Round(k * bonded, 100 * BlocksPerYear) \in Nat
  BY <1>1, RoundBounds
<1> QED
  BY <1>2 DEF PerBlockIssuance

LEMMA MarketInvNext == MarketInv /\ [MarketNext]_marketVars => MarketInv'
<1> SUFFICES ASSUME MarketInv, [MarketNext]_marketVars PROVE MarketInv'
  OBVIOUS
<1>1. ASSUME NEW gas \in Nat, UpdateBaseFee(gas)
      PROVE  MarketInv'
  <2>1. base_fee' \in Nat /\ base_fee' >= 4
    <3>1. CASE target_gas = 0
      BY <1>1, <3>1 DEF UpdateBaseFee, CalculateNextBaseFee, MarketInv
    <3>2. CASE target_gas # 0
      BY <1>1, <3>2, NextFee DEF UpdateBaseFee, MarketInv
    <3> QED BY <3>1, <3>2
  <2> QED BY <1>1, <2>1 DEF UpdateBaseFee, MarketInv, Accounted
<1>2. ASSUME NEW g \in MaxGasValues, SetMaxGasPerBlock(g)
      PROVE  MarketInv'
  BY <1>2, MarketConstants DEF SetMaxGasPerBlock, MarketInv, Accounted
<1>3. ASSUME NEW f \in BurnValues, UpdateSupply(f)
      PROVE  MarketInv'
  <2>1. PICK new \in Nat : new = PerBlockIssuance
    BY IssuanceType
  <2>2. PICK q \in Int : (supply + burned) - opening = SupplyWidth * q + issued
    BY DEF MarketInv, Accounted
  <2>3. PICK w \in Nat \ {0} : w = SupplyWidth
    BY MarketConstants
  <2>4. /\ supply \in Int /\ burned \in Int /\ opening \in Int /\ issued \in Int
        /\ f \in Nat
    BY MarketConstants DEF MarketInv
  <2>5. PICK x \in Int, y \in Int, z \in Int :
          x = supply + (new - f) /\ y = burned + f /\ z = issued + new
    BY <2>4
  <2>6. /\ supply' = x % w /\ burned' = y % w /\ issued' = z % w
        /\ UNCHANGED <<base_fee, target_gas, bonded, k, opening>>
    BY <1>3, <2>1, <2>3, <2>5 DEF UpdateSupply
  <2>7. PICK xa \in Int : \E r \in 0..(w - 1) : x % w = r /\ x = w * xa + r
    BY Divided
  <2>8. PICK ya \in Int : \E r \in 0..(w - 1) : y % w = r /\ y = w * ya + r
    BY Divided
  <2>9. PICK za \in Int : \E r \in 0..(w - 1) : z % w = r /\ z = w * za + r
    BY Divided
  <2> DEFINE p == ((q + za) - xa) - ya
  <2>10. w * p = ((w * q + w * za) - w * xa) - w * ya /\ p \in Int
    OBVIOUS
  <2> HIDE DEF p
  <2>11. PICK wp \in Int, wq \in Int, wx \in Int, wy \in Int, wz \in Int :
           /\ wp = w * p /\ wq = w * q /\ wx = w * xa /\ wy = w * ya /\ wz = w * za
    BY <2>10
  <2>12. /\ supply' \in 0..(w - 1) /\ issued' \in 0..(w - 1) /\ burned' \in 0..(w - 1)
         /\ x = wx + supply' /\ y = wy + burned' /\ z = wz + issued'
    BY <2>6, <2>7, <2>8, <2>9, <2>11
  <2>13. wp = ((wq + wz) - wx) - wy /\ (supply + burned) - opening = wq + issued
    BY <2>2, <2>3, <2>10, <2>11
  <2>14. (supply' + burned') - opening' = wp + issued'
    <3>1. supply' \in Int /\ burned' \in Int /\ issued' \in Int
      BY <2>12
    <3>2. /\ supply + (new - f) = wx + supply' /\ burned + f = wy + burned'
          /\ issued + new = wz + issued'
      BY <2>5, <2>12
    <3> QED BY <2>4, <2>6, <2>13, <3>1, <3>2
  <2>15. Accounted'
    BY <2>3, <2>10, <2>11, <2>14 DEF Accounted
  <2> QED BY <2>3, <2>6, <2>12, <2>15 DEF MarketInv
<1>4. ASSUME NEW c \in Coefficients, SetIssuanceCoefficient(c)
      PROVE  MarketInv'
  BY <1>4 DEF SetIssuanceCoefficient, MarketInv, Accounted
<1>5. ASSUME NEW b \in BondedValues, UpdateBondedStake(b)
      PROVE  MarketInv'
  BY <1>5, MarketConstants DEF UpdateBondedStake, MarketInv, Accounted
<1>6. CASE ResetEpochCounters
  <2>1. /\ issued' = 0 /\ burned' = 0 /\ opening' = supply /\ supply' = supply
        /\ UNCHANGED <<base_fee, target_gas, bonded, k>>
    BY <1>6 DEF ResetEpochCounters
  <2>2. (supply' + burned') - opening' = SupplyWidth * 0 + issued'
    BY <2>1, MarketConstants DEF MarketInv
  <2>3. Accounted'
    BY <2>2 DEF Accounted
  <2> QED BY <2>1, <2>3, MarketConstants DEF MarketInv
<1>7. CASE UNCHANGED marketVars
  BY <1>7 DEF marketVars, MarketInv, Accounted
<1>8. {0, target_gas, target_gas + 1, 2 * target_gas, 3 * target_gas} \subseteq Nat
  BY DEF MarketInv
<1> QED
  BY <1>1, <1>2, <1>3, <1>4, <1>5, <1>6, <1>7, <1>8 DEF MarketNext

\* For every configuration whose initial base fee is at least 4, as the code's
\* default is: the fee never gets stuck, however many empty blocks precede.
THEOREM FeeResponds == MarketSpec => []FeeStaysResponsive
<1>1. MarketInv => FeeStaysResponsive
  <2> SUFFICES ASSUME MarketInv, target_gas # 0
               PROVE  /\ CalculateNextBaseFee(2 * target_gas) > base_fee
                      /\ CalculateNextBaseFee(target_gas) = base_fee
                      /\ CalculateNextBaseFee(0) <= base_fee
    BY DEF FeeStaysResponsive
  <2>1. base_fee \in Nat /\ base_fee >= 4 /\ target_gas \in Nat /\ 2 * target_gas \in Nat
    BY DEF MarketInv
  <2> QED BY <2>1, NextFee
<1> QED
  BY <1>1, MarketInvInit, MarketInvNext, PTL DEF MarketSpec

\* Rounded shares of an amount add up to it, but for half a token each.
LEMMA SharesAddUp ==
    ASSUME NEW S, IsFiniteSet(S), NEW f, \A v \in S : f[v] \in Nat,
           NEW t \in Nat \ {0}, t = StakeSum(S, f), NEW i \in Nat,
           NEW g, \A v \in S : g[v] = Round(f[v] * i, t)
    PROVE  /\ 2 * (StakeSum(S, g) - i) <= Cardinality(S)
           /\ 2 * (i - StakeSum(S, g)) <= Cardinality(S)
<1>1. ASSUME NEW v \in S
      PROVE  /\ g[v] \in Nat
             /\ (2 * t) * g[v] <= (2 * i) * f[v] + t
             /\ (2 * i) * f[v] <= (2 * t) * g[v] + t
  <2>1. PICK n \in Nat, h \in Nat : n = f[v] * i /\ h = f[v]
    OBVIOUS
  <2>2. PICK x \in Nat : /\ x = g[v]
                         /\ (2 * t) * x <= 2 * n + t /\ 2 * n < (2 * t) * x + t
    BY <2>1, RoundBounds
  <2>3. 2 * n = (2 * i) * h
    BY <2>1
  <2>4. PICK y \in Nat : y = (2 * t) * x
    OBVIOUS
  <2>5. PICK m \in Nat : m = (2 * i) * h
    OBVIOUS
  <2>6. y <= m + t /\ m <= y + t
    BY <2>2, <2>3, <2>4, <2>5
  <2> QED BY <2>1, <2>2, <2>4, <2>5, <2>6
<1>2. PICK c \in Nat : c = Cardinality(S)
  BY FS_CardinalityType
<1>3. \A v \in S : f[v] \in Nat /\ g[v] \in Nat
  BY <1>1
<1>4. PICK s \in Nat : s = StakeSum(S, g)
  BY <1>3, StakeSumType
<1>5. (2 * t) * s <= (2 * i) * t + t * c
  <2>1. \A v \in S : (2 * t) * g[v] <= (2 * i) * f[v] + t
    BY <1>1
  <2>2. 2 * t \in Nat /\ 2 * i \in Nat
    OBVIOUS
  <2>3. (2 * t) * StakeSum(S, g) <= (2 * i) * StakeSum(S, f) + t * Cardinality(S)
    BY <1>3, <2>1, <2>2, StakeSumBound
  <2> QED BY <1>2, <1>4, <2>3
<1>6. (2 * i) * t <= (2 * t) * s + t * c
  <2>1. \A v \in S : (2 * i) * f[v] <= (2 * t) * g[v] + t
    BY <1>1
  <2>2. 2 * t \in Nat /\ 2 * i \in Nat
    OBVIOUS
  <2>3. (2 * i) * StakeSum(S, f) <= (2 * t) * StakeSum(S, g) + t * Cardinality(S)
    BY <1>3, <2>1, <2>2, StakeSumBound
  <2> QED BY <1>2, <1>4, <2>3
<1>7. ASSUME NEW x \in Nat, NEW y \in Nat, (2 * t) * x <= (2 * y) * t + t * c
      PROVE  2 * x <= 2 * y + c
  <2>1. SUFFICES ASSUME 2 * y + c + 1 <= 2 * x PROVE FALSE
    OBVIOUS
  <2>2. t * (2 * y + c + 1) <= t * (2 * x)
    BY <2>1
  <2>3. t * (2 * y + c + 1) = (2 * y) * t + t * c + t /\ t * (2 * x) = (2 * t) * x
    OBVIOUS
  <2>4. (2 * y) * t \in Nat /\ t * c \in Nat /\ (2 * t) * x \in Nat
    OBVIOUS
  <2> QED BY <1>7, <2>2, <2>3, <2>4
<1>8. 2 * s <= 2 * i + c
  BY <1>5, <1>7
<1>9. 2 * i <= 2 * s + c
  <2>1. (2 * t) * i <= (2 * s) * t + t * c
    BY <1>6
  <2> QED BY <1>7, <2>1
<1> QED
  BY <1>2, <1>4, <1>8, <1>9

\* For every width, stake and configuration: the issuance of an epoch is what
\* the supply gained, the wrap-around of every counter included, and the
\* rewards add up to it but for the rounding.
THEOREM RewardsAreBacked == MarketSpec => []RewardsBacked
<1>1. MarketInv => RewardsBacked
  <2> SUFFICES ASSUME MarketInv, NEW jailed \in SUBSET DOMAIN ValidatorStakes
               PROVE  LET minted  == (supply + burned - opening) % SupplyWidth
                          rewards == DistributeRewards(jailed, DOMAIN ValidatorStakes)
                          total   == StakeSum(DOMAIN rewards, rewards)
                      IN  DOMAIN rewards # {} =>
                              /\ 2 * (total - minted) <= Cardinality(DOMAIN rewards)
                              /\ 2 * (minted - total) <= Cardinality(DOMAIN rewards)
    BY DEF RewardsBacked
  <2> DEFINE E == DOMAIN ValidatorStakes \ jailed
             t == StakeSum(E, ValidatorStakes)
             g == DistributeRewards(jailed, DOMAIN ValidatorStakes)
  <2>1. (supply + burned - opening) % SupplyWidth = issued
    <3>1. PICK q \in Int : (supply + burned) - opening = SupplyWidth * q + issued
      BY DEF MarketInv, Accounted
    <3>2. PICK n \in Int : /\ n = supply + burned - opening
                           /\ n = (supply + burned) - opening
      BY DEF MarketInv
    <3>3. n % SupplyWidth = issued
      BY <3>1, <3>2, RemainderIs, MarketConstants DEF MarketInv
    <3> QED BY <3>2, <3>3
  <2>2. IsFiniteSet(E) /\ \A v \in E : ValidatorStakes[v] \in Nat
    BY FeesAssumption, FS_Difference
  <2>3. t \in Nat
    BY <2>2, StakeSumType
  <2>4. g = [v \in {w \in E : t # 0} |-> Round(ValidatorStakes[v] * issued, t)]
    BY DEF DistributeRewards
  <2>5. issued \in Nat
    BY MarketConstants DEF MarketInv
  <2> HIDE DEF E, t, g
  <2>6. ASSUME DOMAIN g # {}
        PROVE  /\ 2 * (StakeSum(DOMAIN g, g) - issued) <= Cardinality(DOMAIN g)
               /\ 2 * (issued - StakeSum(DOMAIN g, g)) <= Cardinality(DOMAIN g)
    <3>1. t \in Nat \ {0} /\ DOMAIN g = E
      BY <2>3, <2>4, <2>6
    <3>2. \A v \in E : g[v] = Round(ValidatorStakes[v] * issued, t)
      BY <2>4, <3>1
    <3>3. t = StakeSum(E, ValidatorStakes)
      BY DEF t
    <3> QED BY <2>2, <2>5, <3>1, <3>2, <3>3, SharesAddUp
  <2> QED BY <2>1, <2>6 DEF g
<1> QED
  BY <1>1, MarketInvInit, MarketInvNext, PTL DEF MarketSpec

-----------------------------------------------------------------------------
(* Genesis for any addresses, amounts, supply and candidates: whatever was  *)
(* allocated can be built, and what is loaded holds it.  First, sorting: a  *)
(* sorted list takes every place, repeats nothing the list did not repeat,  *)
(* and depends on the elements alone if none is repeated.                   *)

Elements(s) == {s[i] : i \in DOMAIN s}
Before(s, R, e) == {i \in DOMAIN s : <<s[i], e>> \in R}
NotAfter(s, R, e) == {i \in DOMAIN s : <<e, s[i]>> \notin R}

StrictOrder(R, A) ==
    /\ \A x \in A : <<x, x>> \notin R
    /\ \A x, y, z \in A : <<x, y>> \in R /\ <<y, z>> \in R => <<x, z>> \in R
    /\ \A x, y \in A : x # y => <<x, y>> \in R \/ <<y, x>> \in R

\* A list has finitely many places and elements.
LEMMA ListFinite ==
    ASSUME NEW s, Listed(s)
    PROVE  /\ DOMAIN s = 1..Len(s) /\ IsFiniteSet(DOMAIN s) /\ Cardinality(DOMAIN s) = Len(s)
           /\ IsFiniteSet(Elements(s))
<1>1. PICK n \in Nat : n = Len(s) /\ DOMAIN s = 1..n
    BY DEF Listed
<1>2. IsFiniteSet(1..n) /\ Cardinality(1..n) = n
    <2>1. 1 \in Int /\ n \in Int
        OBVIOUS
    <2>2. IsFiniteSet(1..n) /\ Cardinality(1..n) = IF 1 > n THEN 0 ELSE n - 1 + 1
        BY <2>1, FS_Interval
    <2>3. (IF 1 > n THEN 0 ELSE n - 1 + 1) = n
        OBVIOUS
    <2> QED BY <2>2, <2>3
<1>3. s \in Surjection(DOMAIN s, Elements(s))
    <2>1. s \in [DOMAIN s -> Elements(s)]
        BY DEF Listed, Elements
    <2> QED BY <2>1 DEF Surjection, Elements
<1> QED
    BY <1>1, <1>2, <1>3, FS_Surjection

\* In a sorted list every place is taken: of the elements with that many or more not
\* after them, the first has fewer before it.
LEMMA PlaceTaken ==
    ASSUME NEW s, Listed(s), NEW R, StrictOrder(R, Elements(s)), NEW nth \in 1..Len(s)
    PROVE  AtPlace(s, R, nth) # {}
<1> DEFINE D == DOMAIN s
           E == Elements(s)
<1>1. IsFiniteSet(D) /\ IsFiniteSet(E) /\ Cardinality(D) = Len(s) /\ D = 1..Len(s) /\ Len(s) \in Nat
    BY ListFinite DEF Listed
<1>2. PICK u, b : /\ u = [e \in E |-> Cardinality(NotAfter(s, R, e))]
                  /\ b = [e \in E |-> Cardinality(Before(s, R, e))]
    OBVIOUS
<1>3. ASSUME NEW e \in E
      PROVE  /\ IsFiniteSet(NotAfter(s, R, e)) /\ IsFiniteSet(Before(s, R, e))
             /\ u[e] = Cardinality(NotAfter(s, R, e)) /\ b[e] = Cardinality(Before(s, R, e))
             /\ u[e] \in Nat /\ b[e] \in Nat /\ b[e] < u[e]
    <2>1. NotAfter(s, R, e) \in SUBSET D /\ Before(s, R, e) \in SUBSET NotAfter(s, R, e)
        <3>1. ASSUME NEW i \in D, <<s[i], e>> \in R, <<e, s[i]>> \in R PROVE FALSE
            <4>1. s[i] \in E
                BY DEF Elements
            <4> QED BY <3>1, <4>1 DEF StrictOrder
        <3> QED BY <3>1 DEF NotAfter, Before
    <2>2. IsFiniteSet(NotAfter(s, R, e)) /\ IsFiniteSet(Before(s, R, e))
        BY <1>1, <2>1, FS_Subset
    <2>3. PICK i \in D : s[i] = e
        BY DEF Elements
    <2>4. i \in NotAfter(s, R, e) /\ i \notin Before(s, R, e)
        BY <2>3 DEF NotAfter, Before, StrictOrder
    <2>5. /\ Cardinality(Before(s, R, e)) <= Cardinality(NotAfter(s, R, e))
          /\ Cardinality(NotAfter(s, R, e)) # Cardinality(Before(s, R, e))
        BY <2>1, <2>2, <2>4, FS_Subset
    <2>6. Cardinality(Before(s, R, e)) \in Nat /\ Cardinality(NotAfter(s, R, e)) \in Nat
        BY <2>2, FS_CardinalityType
    <2> HIDE DEF E
    <2>7. u[e] = Cardinality(NotAfter(s, R, e)) /\ b[e] = Cardinality(Before(s, R, e))
        BY <1>2
    <2> QED BY <2>2, <2>5, <2>6, <2>7
<1>4. ASSUME NEW e \in E, NEW f \in E, <<e, f>> \in R PROVE u[e] <= b[f]
    <2>1. NotAfter(s, R, e) \in SUBSET Before(s, R, f)
        <3>1. ASSUME NEW i \in D, <<e, s[i]>> \notin R PROVE <<s[i], f>> \in R
            <4>1. s[i] \in E
                BY DEF Elements
            <4> QED BY <1>4, <3>1, <4>1 DEF StrictOrder
        <3> QED BY <3>1 DEF NotAfter, Before
    <2> QED BY <1>3, <2>1, FS_Subset
<1>5. ASSUME NEW P \in SUBSET E, P # {}
      PROVE  \E x \in P : \A y \in P : <<x, y>> \notin R
    <2>1. IsFiniteSet(P) /\ \A y \in P : u[y] \in Nat
        BY <1>1, <1>3, FS_Subset
    <2>2. PICK x \in P : \A y \in P : u[y] <= u[x]
        BY <1>5, <2>1, HighestExists
    <2>3. ASSUME NEW y \in P, <<x, y>> \in R PROVE FALSE
        <3>1. u[x] <= b[y] /\ b[y] < u[y] /\ u[y] <= u[x]
            BY <1>3, <1>4, <2>2, <2>3
        <3>2. u[x] \in Nat /\ b[y] \in Nat /\ u[y] \in Nat
            BY <1>3
        <3> QED BY <3>1, <3>2
    <2> QED BY <2>3
<1>6. PICK top \in E : u[top] >= nth
    <2>1. E # {}
        BY <1>1 DEF Elements
    <2>2. PICK x \in E : \A y \in E : <<x, y>> \notin R
        <3>1. E \in SUBSET E
            OBVIOUS
        <3> HIDE DEF E
        <3> QED BY <1>5, <2>1, <3>1
    <2>3. NotAfter(s, R, x) = D
        BY <2>2 DEF NotAfter, Elements
    <2>4. u[x] = Len(s)
        BY <1>1, <1>3, <2>3
    <2> QED BY <1>1, <2>4
<1> DEFINE S == {u[e] : e \in {f \in E : u[f] >= nth}}
<1>7. S \in SUBSET Nat /\ S # {}
    BY <1>3, <1>6
<1>8. PICK m \in S : \A x \in S : m <= x
    <2> HIDE DEF S
    <2> QED BY <1>7, LeastExists
<1>9. PICK e \in E : u[e] = m /\ u[e] >= nth
    BY <1>8
<1>10. b[e] < nth
    <2>1. SUFFICES ASSUME b[e] >= nth PROVE FALSE
        BY <1>1, <1>3
    <2> DEFINE P == {f \in E : <<f, e>> \in R}
    <2>2. P # {}
        <3>1. Before(s, R, e) # {}
            BY <1>1, <1>3, <2>1, FS_EmptySet
        <3> QED BY <3>1 DEF Before, Elements
    <2>3. PICK f \in P : \A y \in P : <<f, y>> \notin R
        <3> HIDE DEF E
        <3> QED BY <1>5, <2>2
    <2>4. Before(s, R, e) \in SUBSET NotAfter(s, R, f)
        BY <2>3 DEF Before, NotAfter, Elements
    <2>5. b[e] <= u[f]
        BY <1>3, <2>4, FS_Subset
    <2>6. u[f] <= b[e]
        BY <1>4
    <2>7. b[e] \in Nat /\ u[f] \in Nat /\ u[e] \in Nat /\ b[e] < u[e]
        BY <1>3
    <2>8. u[f] >= nth
        BY <1>1, <2>1, <2>5, <2>7
    <2>9. m <= u[f]
        BY <1>8, <2>8
    <2> QED BY <1>9, <2>6, <2>7, <2>9
<1>11. e \in AtPlace(s, R, nth)
    <2>1. Cardinality({i \in DOMAIN s : <<s[i], e>> \in R}) < nth
        BY <1>3, <1>10 DEF Before
    <2>2. Cardinality({i \in DOMAIN s : <<e, s[i]>> \notin R}) >= nth
        BY <1>3, <1>9 DEF NotAfter
    <2> QED BY <2>1, <2>2 DEF AtPlace, Elements
<1> QED
    BY <1>11

\* Sorting makes no repetitions.
LEMMA SortedRepeats ==
    ASSUME NEW s, Listed(s), NEW R, StrictOrder(R, Elements(s)), Repeats(Sorted(s, R))
    PROVE  Repeats(s)
<1> DEFINE D == DOMAIN s
<1>1. IsFiniteSet(D) /\ D = 1..Len(s) /\ Len(s) \in Nat
    BY ListFinite DEF Listed
<1>2. PICK r : r = Sorted(s, R)
    OBVIOUS
<1>3. PICK n \in Nat : n = Len(s) /\ D = 1..n
    BY <1>1
<1>4. r = [i \in 1..n |-> CHOOSE e \in AtPlace(s, R, i) : TRUE]
    BY <1>2, <1>3 DEF Sorted
<1>5. Len(r) = n /\ \A i \in 1..n : r[i] \in AtPlace(s, R, i)
    <2>1. \A i \in 1..n : AtPlace(s, R, i) # {}
        BY <1>3, PlaceTaken
    <2> QED BY <1>4, <2>1
<1>6. PICK nth \in 1..n, l \in 1..n : nth < l /\ r[nth] = r[l]
    <2>1. PICK i \in 1..n, j \in 1..n : i # j /\ r[i] = r[j]
        BY <1>2, <1>5 DEF Repeats
    <2>2. i < j \/ j < i
        BY <2>1
    <2> QED BY <2>1, <2>2
<1>7. PICK e : e = r[nth]
    OBVIOUS
<1>8. PICK p, q : p = Cardinality(Before(s, R, e)) /\ q = Cardinality(NotAfter(s, R, e))
    OBVIOUS
<1>9. e \in Elements(s) /\ p < nth /\ q >= l
    BY <1>5, <1>6, <1>7, <1>8 DEF AtPlace, Elements, Before, NotAfter
<1>10. PICK x \in D : s[x] = e
    BY <1>9 DEF Elements
<1>11. SUFFICES ASSUME ~Repeats(s) PROVE FALSE
    OBVIOUS
<1>12. NotAfter(s, R, e) \in SUBSET (Before(s, R, e) \cup {x})
    <2>1. SUFFICES ASSUME NEW i \in D, <<e, s[i]>> \notin R, i # x
                   PROVE  <<s[i], e>> \in R
        BY DEF NotAfter, Before
    <2>2. s[i] # e
        BY <1>1, <1>10, <1>11, <2>1 DEF Repeats
    <2>3. s[i] \in Elements(s)
        BY DEF Elements
    <2> QED BY <1>9, <2>1, <2>2, <2>3 DEF StrictOrder
<1>13. IsFiniteSet(Before(s, R, e))
    <2>1. Before(s, R, e) \in SUBSET D
        BY DEF Before
    <2> QED BY <1>1, <2>1, FS_Subset
<1>14. /\ p \in Nat /\ IsFiniteSet(Before(s, R, e) \cup {x})
       /\ Cardinality(Before(s, R, e) \cup {x}) \in Nat
       /\ Cardinality(Before(s, R, e) \cup {x}) <= p + 1
    <2>1. PICK B : B = Before(s, R, e)
        OBVIOUS
    <2>2. IsFiniteSet(B) /\ p = Cardinality(B)
        BY <1>8, <1>13, <2>1
    <2>3. p \in Nat
        BY <2>2, FS_CardinalityType
    <2>4. /\ IsFiniteSet(B \cup {x})
          /\ Cardinality(B \cup {x}) = IF x \in B THEN Cardinality(B) ELSE Cardinality(B) + 1
        BY <2>2, FS_AddElement
    <2> QED BY <2>1, <2>2, <2>3, <2>4
<1>15. q \in Nat /\ q <= Cardinality(Before(s, R, e) \cup {x})
    BY <1>8, <1>12, <1>14, FS_Subset, FS_CardinalityType
<1> QED
    BY <1>6, <1>9, <1>14, <1>15

\* Without repetitions there are as many places as elements.
LEMMA CountOnce ==
    ASSUME NEW s, Listed(s), ~Repeats(s), NEW Q
    PROVE  Cardinality({i \in DOMAIN s : s[i] \in Q}) = Cardinality(Elements(s) \cap Q)
<1> DEFINE I == {i \in DOMAIN s : s[i] \in Q}
           T == Elements(s) \cap Q
           g == [i \in I |-> s[i]]
<1>1. DOMAIN s = 1..Len(s) /\ IsFiniteSet(DOMAIN s)
    BY ListFinite
<1>2. IsFiniteSet(I)
    BY <1>1, FS_Subset
<1>3. g \in Bijection(I, T)
    <2>1. g \in [I -> T]
        BY DEF Elements
    <2>2. \A i, j \in I : g[i] = g[j] => i = j
        BY <1>1 DEF Repeats
    <2>3. \A x \in T : \E i \in I : g[i] = x
        BY DEF Elements
    <2> HIDE DEF g, I, T
    <2> QED BY <2>1, <2>2, <2>3 DEF Bijection, Injection, Surjection, IsInjective
<1>4. ExistsBijection(I, T)
    BY <1>3 DEF ExistsBijection
<1> HIDE DEF I, T
<1> QED
    BY <1>2, <1>4, FS_Bijection DEF I, T

\* Two lists of the same elements, without repetitions, are one list once sorted.
LEMMA SortedSame ==
    ASSUME NEW s, NEW t, Listed(s), Listed(t), ~Repeats(s), ~Repeats(t),
           Elements(s) = Elements(t), NEW R
    PROVE  Sorted(s, R) = Sorted(t, R)
<1>1. \A Q : Cardinality({i \in DOMAIN s : s[i] \in Q}) = Cardinality({i \in DOMAIN t : t[i] \in Q})
    <2> SUFFICES ASSUME NEW Q
                 PROVE  Cardinality({i \in DOMAIN s : s[i] \in Q}) = Cardinality({i \in DOMAIN t : t[i] \in Q})
        OBVIOUS
    <2>1. Cardinality({i \in DOMAIN s : s[i] \in Q}) = Cardinality(Elements(s) \cap Q)
        BY CountOnce
    <2>2. Cardinality({i \in DOMAIN t : t[i] \in Q}) = Cardinality(Elements(t) \cap Q)
        BY CountOnce
    <2> QED BY <2>1, <2>2
<1>2. DOMAIN s = DOMAIN t
    <2>1. {i \in DOMAIN s : s[i] \in Elements(s)} = DOMAIN s
        BY DEF Elements
    <2>2. {i \in DOMAIN t : t[i] \in Elements(s)} = DOMAIN t
        BY DEF Elements
    <2>3. Cardinality(DOMAIN s) = Cardinality(DOMAIN t)
        BY <1>1, <2>1, <2>2
    <2> QED BY <2>3, ListFinite
<1>3. ASSUME NEW nth PROVE AtPlace(s, R, nth) = AtPlace(t, R, nth)
    <2>1. ASSUME NEW e
          PROVE  /\ Cardinality({i \in DOMAIN s : <<s[i], e>> \in R})
                      = Cardinality({i \in DOMAIN t : <<t[i], e>> \in R})
                 /\ Cardinality({i \in DOMAIN s : <<e, s[i]>> \notin R})
                      = Cardinality({i \in DOMAIN t : <<e, t[i]>> \notin R})
        <3> DEFINE P == {x \in Elements(s) : <<x, e>> \in R}
                   Q == {x \in Elements(s) : <<e, x>> \notin R}
        <3>1. /\ {i \in DOMAIN s : <<s[i], e>> \in R} = {i \in DOMAIN s : s[i] \in P}
              /\ {i \in DOMAIN t : <<t[i], e>> \in R} = {i \in DOMAIN t : t[i] \in P}
            BY DEF Elements
        <3>2. /\ {i \in DOMAIN s : <<e, s[i]>> \notin R} = {i \in DOMAIN s : s[i] \in Q}
              /\ {i \in DOMAIN t : <<e, t[i]>> \notin R} = {i \in DOMAIN t : t[i] \in Q}
            BY DEF Elements
        <3> HIDE DEF P, Q
        <3> QED BY <1>1, <3>1, <3>2
    <2> QED BY <2>1 DEF AtPlace, Elements
<1> QED
    BY <1>2, <1>3 DEF Sorted

-----------------------------------------------------------------------------
(* Sums and shares of what is allocated.                                   *)


\* A number below the width is stored as it is.
LEMMA NoWrap ==
    ASSUME NEW x \in Nat, NEW w \in Nat, x < w
    PROVE  x % w = x
<1>1. w \in Nat \ {0}
    OBVIOUS
<1>2. PICK q \in Int, r \in 0..(w - 1) : x % w = r /\ x = w * q + r
    <2>1. x \div w \in Int /\ x % w \in 0..(w - 1) /\ x = w * (x \div w) + (x % w)
        BY <1>1, DivisionFacts
    <2> QED BY <2>1
<1>3. ~(q >= 1)
    <2>1. q >= 1 => w * q >= w
        OBVIOUS
    <2> QED BY <1>2, <2>1
<1>4. ~(q <= -1)
    <2>1. q <= -1 => w * q <= -w
        OBVIOUS
    <2> QED BY <1>2, <2>1
<1>5. q = 0
    BY <1>3, <1>4
<1> QED
    BY <1>2, <1>5

\* Division by one number keeps the order.
LEMMA DivisionKeepsOrder ==
    ASSUME NEW x \in Nat, NEW y \in Nat, x <= y, NEW d \in Nat \ {0}
    PROVE  x \div d <= y \div d
<1>1. PICK a \in Int, r \in 0..(d - 1) : x \div d = a /\ x = d * a + r
    BY DivisionFacts
<1>2. PICK b \in Int, q \in 0..(d - 1) : y \div d = b /\ y = d * b + q
    BY DivisionFacts
<1>3. ~(a >= b + 1)
    <2>1. a >= b + 1 => d * a >= d * b + d
        <3>1. a >= b + 1 => d * a >= d * (b + 1)
            OBVIOUS
        <3>2. d * (b + 1) = d * b + d
            OBVIOUS
        <3> QED BY <3>1, <3>2
    <2> QED BY <1>1, <1>2, <2>1
<1> QED
    BY <1>1, <1>2, <1>3

\* Nothing vests later than it should have, and at the end all has.
LEMMA VestsGradually ==
    ASSUME NEW a \in Nat, NEW d \in Nat, NEW now \in 0..d, NEW s, s = VestingSchedule(a, d)
    PROVE  /\ CalculateVestedAmount(s, now) <= CalculateVestedAmount(s, now + 1)
           /\ IsFullyVested(s, now) => CalculateVestedAmount(s, now) = s.total_amount
<1>1. s.total_amount = a /\ s.duration_seconds = d
    BY DEF VestingSchedule
<1>2. ASSUME NEW n \in Nat
      PROVE  CalculateVestedAmount(s, n) = IF n >= d THEN a ELSE (a * n) \div d
    BY <1>1 DEF CalculateVestedAmount
<1>3. CASE now >= d
    BY <1>1, <1>2, <1>3 DEF IsFullyVested
<1>4. CASE now < d
    <2>1. d \in Nat \ {0}
        BY <1>4
    <2>2. /\ a * now \in Nat /\ a * (now + 1) \in Nat /\ a * d \in Nat
          /\ a * now <= a * (now + 1) /\ a * now <= a * d
        BY <1>4
    <2>3. (a * now) \div d <= (a * (now + 1)) \div d
        BY <2>1, <2>2, DivisionKeepsOrder
    <2>4. (a * now) \div d <= a
        <3>1. (a * now) \div d <= (a * d) \div d
            BY <2>1, <2>2, DivisionKeepsOrder
        <3>2. (a * d) \div d = a
            BY <2>1
        <3> QED BY <3>1, <3>2
    <2> QED BY <1>1, <1>2, <1>4, <2>3, <2>4 DEF IsFullyVested
<1> QED
    BY <1>3, <1>4

\* A sum does not depend on what its terms are called.
Renames(g, S, f, h) ==
    /\ \A x \in S : f[x] \in Nat /\ h[g[x]] = f[x]
    /\ \A x, y \in S : g[x] = g[y] => x = y

LEMMA StakeSumRenamed ==
    ASSUME NEW S, IsFiniteSet(S), NEW f, NEW g, NEW h, Renames(g, S, f, h)
    PROVE  StakeSum({g[x] : x \in S}, h) = StakeSum(S, f)
<1> DEFINE G == {T \in SUBSET S : StakeSum({g[x] : x \in T}, h) = StakeSum(T, f)}
<1>1. {} \in G
    <2>1. {g[x] : x \in {}} = {}
        OBVIOUS
    <2> QED BY <2>1, StakeSumEmpty
<1>2. ASSUME NEW T \in SUBSET S, T \in G, NEW x \in S \ T
      PROVE  T \cup {x} \in G
    <2>1. PICK I : I = {g[y] : y \in T}
        OBVIOUS
    <2>2. {g[y] : y \in T \cup {x}} = I \cup {g[x]}
        BY <2>1
    <2>3. g[x] \notin I
        BY <2>1 DEF Renames
    <2>4. IsFiniteSet(T)
        BY FS_Subset
    <2>5. IsFiniteSet(I)
        <3> DEFINE m == [y \in T |-> g[y]]
        <3>1. m \in Surjection(T, I)
            BY <2>1 DEF Surjection
        <3> QED BY <2>4, <3>1, FS_Surjection
    <2>6. \A y \in I \cup {g[x]} : h[y] \in Nat
        BY <2>1 DEF Renames
    <2>7. StakeSum(I \cup {g[x]}, h) = StakeSum(I, h) + h[g[x]]
        <3>1. PICK z : z = g[x]
            OBVIOUS
        <3>2. /\ IsFiniteSet(I) /\ z \notin I
              /\ \A id \in I \cup {z} : h[id] \in Nat
            BY <2>5, <2>3, <2>6, <3>1
        <3>3. StakeSum(I \cup {z}, h) = StakeSum(I, h) + h[z]
            BY <3>2, StakeSumGrow
        <3> QED BY <3>1, <3>3
    <2>8. StakeSum(T \cup {x}, f) = StakeSum(T, f) + f[x]
        <3>1. /\ IsFiniteSet(T) /\ x \notin T
              /\ \A id \in T \cup {x} : f[id] \in Nat
            BY <2>4 DEF Renames
        <3> QED BY <3>1, StakeSumGrow
    <2>9. h[g[x]] = f[x]
        BY DEF Renames
    <2> QED BY <1>2, <2>1, <2>2, <2>7, <2>8, <2>9
<1>3. S \in G
    <2> HIDE DEF G
    <2> QED BY <1>1, <1>2, FiniteSetInduction
<1> QED
    BY <1>3

-----------------------------------------------------------------------------
(* What was allocated, and what is loaded.                                  *)

Schedules == {<<>>} \cup {<<VestingSchedule(n, VestingDuration)>> : n \in Amounts}
Allocation == [address : Addresses, amount : Amounts, vesting : Schedules]
AmountsOf(s) == [i \in DOMAIN s |-> s[i].amount]

\* A schedule is always over the whole amount and the default duration.
GenesisTypes ==
    /\ allocations \in Seq(Allocation)
    /\ total_allocated \in Nat
    /\ \A i \in DOMAIN allocations :
          allocations[i].vesting # <<>> =>
              allocations[i].vesting = <<VestingSchedule(allocations[i].amount, VestingDuration)>>

Distinct == \A i, j \in DOMAIN allocations : allocations[i].address = allocations[j].address => i = j
AlikeAllocations ==
    \E i, j \in DOMAIN allocations :
        /\ i # j /\ allocations[i].address = allocations[j].address
        /\ allocations[i].amount = allocations[j].amount

\* The invariant: the books balance, and the block has their root.
GenesisInv ==
    /\ GenesisTypes
    /\ Validate
    /\ total_allocated = StakeSum(DOMAIN allocations, AmountsOf(allocations))
    /\ block # <<>> => block.state_root = ComputeStateRoot
    /\ loaded # "no" => block # <<>>
    /\ loaded = "refused" => ~Distinct
    /\ loaded = "yes" => \/ StakeSum(DOMAIN accounts, accounts) = total_allocated
                         \/ AlikeAllocations

\* An amount is a natural number below the width.
LEMMA AmountsAreNumbers == Amounts \subseteq Nat
BY GenesisAssumption

\* One more allocation adds its amount.
LEMMA AmountAdded ==
    ASSUME NEW s \in Seq(Allocation), NEW x \in Allocation
    PROVE  LET t == Append(s, x)
           IN  StakeSum(DOMAIN t, AmountsOf(t)) = StakeSum(DOMAIN s, AmountsOf(s)) + x.amount
<1> DEFINE t == Append(s, x)
<1>1. PICK n \in Nat : n = Len(s) /\ DOMAIN s = 1..n
    OBVIOUS
<1>2. PICK m \in Nat : m = n + 1
    OBVIOUS
<1>3. /\ DOMAIN t = 1..m /\ 1..m = (1..n) \cup {m} /\ m \notin 1..n
      /\ t[m] = x /\ \A i \in 1..n : t[i] = s[i]
    BY <1>1, <1>2
<1>4. PICK f, g : f = AmountsOf(s) /\ g = AmountsOf(t)
    OBVIOUS
<1>5. /\ \A i \in 1..n : g[i] = f[i] /\ f[i] \in Nat
      /\ g[m] = x.amount /\ g[m] \in Nat
    <2>1. \A i \in 1..n : s[i].amount \in Nat
        <3>1. \A i \in 1..n : s[i] \in Allocation
            BY <1>1
        <3> QED BY <3>1, AmountsAreNumbers DEF Allocation
    <2>2. x.amount \in Nat
        BY AmountsAreNumbers DEF Allocation
    <2> HIDE DEF t
    <2> QED BY <1>1, <1>3, <1>4, <2>1, <2>2 DEF AmountsOf
<1>6. IsFiniteSet(1..n)
    BY FS_Interval
<1>7. PICK D : D = 1..n
    OBVIOUS
<1>8. StakeSum((1..n) \cup {m}, g) = StakeSum(1..n, g) + g[m]
    <2>1. /\ IsFiniteSet(D) /\ m \notin D
          /\ \A id \in D \cup {m} : g[id] \in Nat
        BY <1>3, <1>5, <1>6, <1>7
    <2>2. StakeSum(D \cup {m}, g) = StakeSum(D, g) + g[m]
        BY <2>1, StakeSumGrow
    <2> QED BY <1>7, <2>2
<1>9. StakeSum(1..n, g) = StakeSum(1..n, f)
    BY <1>5, StakeSumEqual
<1> HIDE DEF t
<1> QED
    BY <1>1, <1>3, <1>4, <1>5, <1>8, <1>9 DEF t

\* What Allocate adds keeps the books.
LEMMA AllocateSafe ==
    ASSUME GenesisInv, block = <<>>, NEW address \in Addresses, NEW amount \in Amounts,
           NEW vesting \in {<<>>, <<VestingSchedule(amount, VestingDuration)>>},
           amount > VestingThreshold => vesting # <<>>,
           Allocate(address, amount, vesting)
    PROVE  GenesisInv'
<1> DEFINE x == [address |-> address, amount |-> amount, vesting |-> vesting]
<1>1. x \in Allocation /\ x.amount = amount /\ x.vesting = vesting
    <2>1. vesting \in Schedules
        BY DEF Schedules
    <2> QED BY <2>1 DEF Allocation
<1>2. /\ allocations' = Append(allocations, x) /\ UNCHANGED <<block, loaded, accounts>>
      /\ total_allocated' = (total_allocated + amount) % Width
    BY DEF Allocate
<1> HIDE DEF x
<1>3. allocations \in Seq(Allocation) /\ total_allocated \in Nat /\ total_allocated <= TotalSupply
    BY DEF GenesisInv, GenesisTypes, Validate
<1>4. PICK n \in Nat : n = Len(allocations) /\ DOMAIN allocations = 1..n
    BY <1>3
<1>5. /\ allocations' \in Seq(Allocation) /\ DOMAIN allocations' = 1..(n + 1)
      /\ \A i \in 1..n : allocations'[i] = allocations[i]
      /\ allocations'[n + 1] = x
    BY <1>1, <1>2, <1>3, <1>4
<1>6. amount \in Nat /\ amount <= AllocationCap /\ (total_allocated + amount) % Width <= TotalSupply
    BY AmountsAreNumbers DEF Allocate, Fits
<1>7. total_allocated' = total_allocated + amount
    <2>1. PICK c \in Nat : c = AllocationCap /\ 100 * c <= TotalSupply * 5
        BY GenesisAssumption DEF AllocationCap
    <2>2. total_allocated + amount \in Nat /\ total_allocated + amount < Width /\ Width \in Nat
        BY <1>3, <1>6, <2>1, GenesisAssumption
    <2> QED BY <1>2, <2>2, NoWrap
<1>8. total_allocated' \in Nat /\ total_allocated' <= TotalSupply
    BY <1>2, <1>3, <1>6, <1>7
<1>9. GenesisTypes'
    <2>1. ASSUME NEW i \in 1..(n + 1), allocations'[i].vesting # <<>>
          PROVE  allocations'[i].vesting
                   = <<VestingSchedule(allocations'[i].amount, VestingDuration)>>
        <3>1. CASE i = n + 1
            BY <1>1, <1>5, <2>1, <3>1
        <3>2. CASE i # n + 1
            <4>1. i \in 1..n
                BY <3>2
            <4> QED BY <1>4, <1>5, <2>1, <4>1 DEF GenesisInv, GenesisTypes
        <3> QED BY <3>1, <3>2
    <2> QED BY <1>5, <1>8, <2>1 DEF GenesisTypes
<1>10. Validate'
    <2>1. ASSUME NEW i \in 1..(n + 1)
          PROVE  /\ allocations'[i].amount <= AllocationCap
                 /\ allocations'[i].amount > VestingThreshold => allocations'[i].vesting # <<>>
        <3>1. CASE i = n + 1
            BY <1>1, <1>5, <1>6, <3>1
        <3>2. CASE i # n + 1
            <4>1. i \in 1..n
                BY <3>2
            <4> QED BY <1>4, <1>5, <4>1 DEF GenesisInv, Validate
        <3> QED BY <3>1, <3>2
    <2> QED BY <1>5, <1>8, <2>1 DEF Validate, AllocationCap, VestingThreshold
<1>11. total_allocated' = StakeSum(DOMAIN allocations', AmountsOf(allocations'))
    BY <1>1, <1>2, <1>3, <1>7, AmountAdded DEF GenesisInv
<1>12. block' = <<>> /\ loaded' = "no"
    BY <1>2 DEF GenesisInv
<1> QED
    BY <1>9, <1>10, <1>11, <1>12 DEF GenesisInv

\* The order of the hashes is a strict total order of the accounts.
LEMMA AccountsOrdered ==
    ASSUME NEW A \in SUBSET Accounts
    PROVE  StrictOrder(HashOrder, A)
<1>1. ASSUME NEW a \in Addresses
      PROVE  Position(a) \in Nat /\ Position(a) \in DOMAIN AddressOrder /\ AddressOrder[Position(a)] = a
    <2>1. \E i \in DOMAIN AddressOrder : AddressOrder[i] = a
        BY DEF Addresses
    <2> QED BY <2>1, GenesisAssumption DEF Position
<1>2. ASSUME NEW x \in A
      PROVE  /\ x \in Accounts /\ x[1] \in Addresses /\ x[2] \in Nat /\ x = <<x[1], x[2]>>
             /\ Position(x[1]) \in Nat
    <2>1. x \in Accounts /\ x[1] \in Addresses /\ x[2] \in Amounts /\ x = <<x[1], x[2]>>
        BY DEF Accounts
    <2> QED BY <1>1, <2>1, AmountsAreNumbers
<1>3. ASSUME NEW x \in A, NEW y \in A
      PROVE  <<x, y>> \in HashOrder <=> HashedBefore(x, y)
    BY <1>2 DEF HashOrder
<1>4. \A x \in A : ~HashedBefore(x, x)
    BY <1>2 DEF HashedBefore
<1>5. ASSUME NEW x \in A, NEW y \in A, NEW z \in A, HashedBefore(x, y), HashedBefore(y, z)
      PROVE  HashedBefore(x, z)
    BY <1>2, <1>5 DEF HashedBefore
<1>6. ASSUME NEW x \in A, NEW y \in A, x # y
      PROVE  HashedBefore(x, y) \/ HashedBefore(y, x)
    <2>1. CASE x[1] = y[1]
        <3>1. x[2] # y[2]
            BY <1>2, <1>6, <2>1
        <3> QED BY <1>2, <2>1, <3>1 DEF HashedBefore
    <2>2. CASE x[1] # y[1]
        <3>1. Position(x[1]) # Position(y[1])
            BY <1>1, <1>2, <2>2
        <3> QED BY <1>2, <3>1 DEF HashedBefore
    <2> QED BY <2>1, <2>2
<1> QED
    BY <1>3, <1>4, <1>5, <1>6 DEF StrictOrder

\* A sorted list is a list as long as it was.
LEMMA SortedListed ==
    ASSUME NEW s, Listed(s), NEW R
    PROVE  Listed(Sorted(s, R)) /\ Len(Sorted(s, R)) = Len(s)
<1>1. PICK n \in Nat : n = Len(s) /\ DOMAIN s = 1..n
    BY DEF Listed
<1>2. PICK r : r = Sorted(s, R)
    OBVIOUS
<1>3. r = [nth \in 1..n |-> CHOOSE e \in AtPlace(s, R, nth) : TRUE]
    BY <1>1, <1>2 DEF Sorted
<1>4. Len(r) = n /\ r = [nth \in 1..n |-> r[nth]]
    BY <1>3
<1> QED
    BY <1>1, <1>2, <1>4 DEF Listed

\* The allocations and the accounts, as the lists whose roots are compared.
Allotted == [i \in DOMAIN allocations |-> <<allocations[i].address, allocations[i].amount>>]
Held(accs) == [i \in DOMAIN Holders(accs) |-> <<Holders(accs)[i], accs[Holders(accs)[i]]>>]

\* The allocations are a list of accounts.
LEMMA AllottedListed ==
    ASSUME GenesisTypes
    PROVE  /\ Listed(Allotted) /\ Len(Allotted) = Len(allocations)
           /\ DOMAIN allocations = 1..Len(allocations) /\ Len(allocations) \in Nat
           /\ IsFiniteSet(DOMAIN allocations) /\ Cardinality(DOMAIN allocations) = Len(allocations)
           /\ \A i \in DOMAIN allocations :
                 /\ allocations[i].address \in Addresses /\ allocations[i].amount \in Amounts
                 /\ Allotted[i] = <<allocations[i].address, allocations[i].amount>>
           /\ Elements(Allotted) \in SUBSET Accounts
<1>1. PICK n \in Nat : n = Len(allocations) /\ DOMAIN allocations = 1..n
    BY DEF GenesisTypes
<1>2. PICK l : l = Allotted
    OBVIOUS
<1>3. l = [i \in 1..n |-> <<allocations[i].address, allocations[i].amount>>]
    BY <1>1, <1>2 DEF Allotted
<1>4. Len(l) = n /\ l = [i \in 1..n |-> l[i]]
    BY <1>3
<1>5. \A i \in 1..n : allocations[i].address \in Addresses /\ allocations[i].amount \in Amounts
    <2>1. \A i \in 1..n : allocations[i] \in Allocation
        BY <1>1 DEF GenesisTypes
    <2> QED BY <2>1 DEF Allocation
<1>6. Elements(l) \in SUBSET Accounts
    BY <1>3, <1>5 DEF Elements, Accounts
<1>7. Listed(l)
    BY <1>4 DEF Listed
<1>8. IsFiniteSet(DOMAIN l) /\ Cardinality(DOMAIN l) = Len(l)
    BY <1>7, ListFinite
<1>9. DOMAIN l = 1..n
    BY <1>3
<1> QED
    BY <1>1, <1>2, <1>3, <1>4, <1>5, <1>6, <1>7, <1>8, <1>9

\* An account holds what an allocation to its address gave.
LEMMA CreatedFrom ==
    ASSUME GenesisTypes
    PROVE  /\ DOMAIN Created = {allocations[i].address : i \in DOMAIN allocations}
           /\ \A a \in DOMAIN Created : \E i \in DOMAIN allocations :
                 allocations[i].address = a /\ allocations[i].amount = Created[a]
<1>1. DOMAIN Created = {allocations[i].address : i \in DOMAIN allocations}
    BY DEF Created
<1>2. ASSUME NEW a \in {allocations[i].address : i \in DOMAIN allocations}
      PROVE  \E i \in DOMAIN allocations :
                 allocations[i].address = a /\ allocations[i].amount = Created[a]
    <2> DEFINE Last(i) == /\ allocations[i].address = a
                          /\ \A j \in DOMAIN allocations : allocations[j].address = a => j <= i
               P == {i \in DOMAIN allocations : allocations[i].address = a}
               id == [i \in P |-> i]
    <2>1. IsFiniteSet(P) /\ P # {} /\ \A i \in P : id[i] \in Nat
        <3>1. P \in SUBSET DOMAIN allocations
            OBVIOUS
        <3>2. IsFiniteSet(P) /\ \A i \in P : i \in Nat
            BY <3>1, AllottedListed, FS_Subset
        <3> QED BY <3>2
    <2>2. PICK x \in P : \A o \in P : id[o] <= id[x]
        <3> HIDE DEF P, id
        <3> QED BY <2>1, HighestExists
    <2>3. Last(x)
        BY <2>2
    <2>4. Created[a] = allocations[CHOOSE i \in DOMAIN allocations : Last(i)].amount
        BY DEF Created
    <2>5. PICK last : last = CHOOSE i \in DOMAIN allocations : Last(i)
        OBVIOUS
    <2>6. last \in DOMAIN allocations /\ Last(last)
        <3>1. \E i \in DOMAIN allocations : Last(i)
            BY <2>2, <2>3
        <3> HIDE DEF Last
        <3> QED BY <2>5, <3>1
    <2> QED BY <2>4, <2>5, <2>6
<1> QED
    BY <1>1, <1>2

\* Every account is listed once.
LEMMA HeldListed ==
    ASSUME NEW accs, IsFiniteSet(DOMAIN accs)
    PROVE  /\ Listed(Held(accs)) /\ Len(Held(accs)) = Cardinality(DOMAIN accs)
           /\ ~Repeats(Held(accs))
           /\ Elements(Held(accs)) = {<<a, accs[a]>> : a \in DOMAIN accs}
<1>1. PICK D, c : D = DOMAIN accs /\ c = Cardinality(D)
    OBVIOUS
<1>2. IsFiniteSet(D) /\ c \in Nat /\ ExistsBijection(1..c, D)
    BY <1>1, FS_CardinalityType
<1>3. IsFiniteSet(1..c) /\ Cardinality(1..c) = c
    <2>1. 1 \in Int /\ c \in Int
        BY <1>2
    <2>2. IsFiniteSet(1..c) /\ Cardinality(1..c) = IF 1 > c THEN 0 ELSE c - 1 + 1
        BY <2>1, FS_Interval
    <2>3. (IF 1 > c THEN 0 ELSE c - 1 + 1) = c
        BY <1>2
    <2> QED BY <2>2, <2>3
<1>4. PICK h : h = Holders(accs)
    OBVIOUS
<1>5. h \in [1..c -> D] /\ \A a \in D : \E i \in DOMAIN h : h[i] = a
    <2>1. \E s \in [1..c -> D] : \A a \in D : \E i \in DOMAIN s : s[i] = a
        <3>1. PICK s : s \in Bijection(1..c, D)
            BY <1>2 DEF ExistsBijection
        <3>2. s \in [1..c -> D] /\ \A a \in D : \E i \in 1..c : s[i] = a
            BY <3>1 DEF Bijection, Surjection
        <3> QED BY <3>2
    <2> QED BY <1>1, <1>4, <2>1 DEF Holders
<1>6. h \in Surjection(1..c, D)
    BY <1>5 DEF Surjection
<1>7. h \in Injection(1..c, D)
    BY <1>1, <1>3, <1>6, FS_Surjection
<1>8. \A i, j \in 1..c : h[i] = h[j] => i = j
    BY <1>7 DEF Injection, IsInjective
<1>9. PICK l : l = Held(accs)
    OBVIOUS
<1>10. l = [i \in 1..c |-> <<h[i], accs[h[i]]>>]
    BY <1>4, <1>5, <1>9 DEF Held
<1>11. Len(l) = c /\ l = [i \in 1..c |-> l[i]] /\ DOMAIN l = 1..c
    BY <1>2, <1>10
<1>12. ~Repeats(l)
    BY <1>8, <1>10, <1>11 DEF Repeats
<1>13. Elements(l) = {<<a, accs[a]>> : a \in D}
    BY <1>5, <1>10, <1>11 DEF Elements
<1>14. Listed(l)
    BY <1>2, <1>11 DEF Listed
<1> QED
    BY <1>1, <1>9, <1>11, <1>12, <1>13, <1>14

\* What loading a built block does.
LEMMA LoadingSound ==
    ASSUME GenesisTypes, block.state_root = ComputeStateRoot,
           total_allocated = StakeSum(DOMAIN allocations, AmountsOf(allocations))
    PROVE  /\ Distinct => RootMatches(Created)
           /\ RootMatches(Created) => \/ StakeSum(DOMAIN Created, Created) = total_allocated
                                      \/ AlikeAllocations
<1>1. PICK D, accs, one, other :
          D = DOMAIN allocations /\ accs = Created /\ one = Allotted /\ other = Held(accs)
    OBVIOUS
<1>2. PICK addr, amt : /\ addr = [i \in D |-> allocations[i].address]
                       /\ amt = [i \in D |-> allocations[i].amount]
    OBVIOUS
<1>3. /\ Listed(one) /\ Len(one) = Len(allocations)
      /\ D = 1..Len(allocations) /\ Len(allocations) \in Nat
      /\ IsFiniteSet(D) /\ Cardinality(D) = Len(allocations)
      /\ \A i \in D : /\ addr[i] \in Addresses /\ amt[i] \in Amounts
                      /\ one[i] = <<addr[i], amt[i]>>
      /\ Elements(one) \in SUBSET Accounts
    <2>1. \A i \in D : addr[i] = allocations[i].address /\ amt[i] = allocations[i].amount
        BY <1>2
    <2> QED BY <1>1, <2>1, AllottedListed
<1>4. /\ DOMAIN accs = {addr[i] : i \in D}
      /\ \A a \in DOMAIN accs : \E i \in D : addr[i] = a /\ amt[i] = accs[a]
    BY <1>1, <1>2, CreatedFrom
<1>5. addr \in Surjection(D, DOMAIN accs)
    BY <1>2, <1>4 DEF Surjection
<1>6. IsFiniteSet(DOMAIN accs)
    BY <1>3, <1>5, FS_Surjection
<1>7. /\ Listed(other) /\ Len(other) = Cardinality(DOMAIN accs) /\ ~Repeats(other)
      /\ Elements(other) = {<<a, accs[a]>> : a \in DOMAIN accs}
    BY <1>1, <1>6, HeldListed
<1>8. RootMatches(accs) <=> RootOfList(Sorted(other, HashOrder)) = RootOfList(Sorted(one, HashOrder))
    BY <1>1 DEF RootMatches, RootOf, ComputeStateRoot, Held, Allotted
<1>9. Distinct <=> \A i, j \in D : addr[i] = addr[j] => i = j
    BY <1>1, <1>2 DEF Distinct
<1>10. ASSUME \A i, j \in D : addr[i] = addr[j] => i = j
       PROVE  \A i \in D : accs[addr[i]] = amt[i]
    BY <1>4, <1>10
<1>11. ASSUME Distinct PROVE RootMatches(accs)
    <2>1. \A i, j \in D : addr[i] = addr[j] => i = j
        BY <1>9, <1>11
    <2>2. ~Repeats(one)
        BY <1>3, <2>1 DEF Repeats
    <2>3. DOMAIN one = D
        BY <1>3 DEF Listed
    <2>4. Elements(one) = Elements(other)
        <3>1. \A i \in D : one[i] = <<addr[i], accs[addr[i]]>>
            BY <1>3, <1>10, <2>1
        <3>2. Elements(one) = {<<addr[i], accs[addr[i]]>> : i \in D}
            BY <2>3, <3>1 DEF Elements
        <3>3. {<<addr[i], accs[addr[i]]>> : i \in D} = {<<a, accs[a]>> : a \in DOMAIN accs}
            BY <1>4
        <3> QED BY <1>7, <3>2, <3>3
    <2>5. Sorted(one, HashOrder) = Sorted(other, HashOrder)
        BY <1>3, <1>7, <2>2, <2>4, SortedSame
    <2> QED BY <1>8, <2>5
<1>12. ASSUME RootMatches(accs)
       PROVE  StakeSum(DOMAIN accs, accs) = total_allocated \/ AlikeAllocations
    <2>1. PICK s, t : s = Sorted(other, HashOrder) /\ t = Sorted(one, HashOrder)
        OBVIOUS
    <2>2. Listed(s) /\ Len(s) = Len(other) /\ Listed(t) /\ Len(t) = Len(one)
        BY <1>3, <1>7, <2>1, SortedListed
    <2>3. AlikeUpTo(s, t)
        BY <1>8, <1>12, <2>1, <2>2, RootBinds
    <2>4. CASE s = t
        <3>1. Cardinality(DOMAIN accs) = Cardinality(D)
            BY <1>3, <1>7, <2>2, <2>4
        <3>2. addr \in Injection(D, DOMAIN accs)
            BY <1>3, <1>5, <3>1, FS_Surjection
        <3>3. \A i, j \in D : addr[i] = addr[j] => i = j
            BY <3>2 DEF Injection, IsInjective
        <3>4. Renames(addr, D, amt, accs)
            BY <1>3, <1>10, <3>3, AmountsAreNumbers DEF Renames
        <3>5. StakeSum({addr[i] : i \in D}, accs) = StakeSum(D, amt)
            BY <1>3, <3>4, StakeSumRenamed
        <3>6. amt = AmountsOf(allocations)
            BY <1>1, <1>2 DEF AmountsOf
        <3> QED BY <1>1, <1>4, <3>5, <3>6
    <2>5. CASE Repeats(s)
        <3>1. Elements(other) \in SUBSET Accounts
            BY <1>3, <1>4, <1>7 DEF Accounts
        <3>2. Repeats(other)
            BY <1>7, <2>1, <2>5, <3>1, AccountsOrdered, SortedRepeats
        <3> QED BY <1>7, <3>2
    <2>6. CASE Repeats(t)
        <3>1. Repeats(one)
            BY <1>3, <2>1, <2>6, AccountsOrdered, SortedRepeats
        <3>2. PICK i, j \in D : i # j /\ one[i] = one[j]
            BY <1>3, <3>1 DEF Repeats
        <3>3. addr[i] = addr[j] /\ amt[i] = amt[j]
            BY <1>3, <3>2
        <3> QED BY <1>1, <1>2, <3>2, <3>3 DEF AlikeAllocations
    <2> QED BY <2>3, <2>4, <2>5, <2>6 DEF AlikeUpTo
<1> QED
    BY <1>1, <1>11, <1>12

\* The invariant contains the property; schedules vest gradually anyway.
LEMMA GenesisInvImplies == GenesisInv => GenesisSound
<1> SUFFICES ASSUME GenesisInv PROVE GenesisSound
    OBVIOUS
<1>1. ASSUME NEW i \in DOMAIN allocations, allocations[i].vesting # <<>>,
             NEW s, s = allocations[i].vesting[1]
      PROVE  /\ s.total_amount = allocations[i].amount
             /\ \A now \in 0..VestingDuration :
                   /\ CalculateVestedAmount(s, now) <= CalculateVestedAmount(s, now + 1)
                   /\ IsFullyVested(s, now) => CalculateVestedAmount(s, now) = s.total_amount
    <2>1. PICK a \in Nat : a = allocations[i].amount
        BY AllottedListed, AmountsAreNumbers DEF GenesisInv
    <2>2. s = VestingSchedule(a, VestingDuration)
        BY <1>1, <2>1 DEF GenesisInv, GenesisTypes
    <2>3. VestingDuration \in Nat
        BY GenesisAssumption
    <2>4. s.total_amount = a
        BY <2>2 DEF VestingSchedule
    <2> QED BY <2>1, <2>2, <2>3, <2>4, VestsGradually
<1>2. GenesisBuildable
    BY <1>1 DEF GenesisBuildable, GenesisInv, AmountsOf
<1>3. ~Distinct => \E i, j \in DOMAIN allocations : i # j /\ allocations[i].address = allocations[j].address
    BY DEF Distinct
<1> QED
    BY <1>2, <1>3 DEF GenesisInv, GenesisSound, AlikeAllocations

\* Nothing is allocated at first.
LEMMA GenesisStarts == GenesisInit => GenesisInv
<1> SUFFICES ASSUME GenesisInit PROVE GenesisInv
    OBVIOUS
<1>1. allocations = <<>> /\ DOMAIN allocations = {} /\ total_allocated = 0
    BY DEF GenesisInit
<1>2. GenesisTypes
    BY <1>1 DEF GenesisTypes
<1>3. Validate
    BY <1>1, GenesisAssumption DEF Validate
<1>4. StakeSum(DOMAIN allocations, AmountsOf(allocations)) = 0
    BY <1>1, StakeSumEmpty
<1> QED
    BY <1>1, <1>2, <1>3, <1>4 DEF GenesisInit, GenesisInv

\* No step breaks the invariant.
LEMMA GenesisStep == GenesisInv /\ [GenesisNext]_genesisVars => GenesisInv'
<1> SUFFICES ASSUME GenesisInv, [GenesisNext]_genesisVars PROVE GenesisInv'
    OBVIOUS
<1>1. ASSUME UNCHANGED <<allocations, total_allocated, block, accounts, loaded>>
      PROVE  GenesisInv'
    BY <1>1 DEF GenesisInv, GenesisTypes, Validate, ComputeStateRoot, RootOf,
                Distinct, AlikeAllocations, AllocationCap, VestingThreshold
<1>2. ASSUME block = <<>>, NEW a \in Addresses, NEW n \in Amounts, AddAllocation(a, n)
      PROVE  GenesisInv'
    <2>1. CASE n > VestingThreshold
        <3>1. <<VestingSchedule(n, VestingDuration)>> # <<>>
            OBVIOUS
        <3> QED BY <1>2, <2>1, <3>1, AllocateSafe DEF AddAllocation, AddVestingAllocation
    <2>2. CASE ~(n > VestingThreshold)
        BY <1>2, <2>2, AllocateSafe DEF AddAllocation
    <2> QED BY <2>1, <2>2
<1>3. ASSUME block = <<>>, NEW a \in Addresses, NEW n \in Amounts, AddVestingAllocation(a, n)
      PROVE  GenesisInv'
    <2>1. <<VestingSchedule(n, VestingDuration)>> # <<>>
        OBVIOUS
    <2> QED BY <1>3, <2>1, AllocateSafe DEF AddVestingAllocation
<1>4. ASSUME NEW stakes, CreateGenesisValidatorSet(stakes)
      PROVE  GenesisInv'
    <2>1. UNCHANGED <<allocations, total_allocated, block, accounts, loaded>>
        BY <1>4 DEF CreateGenesisValidatorSet
    <2> QED BY <1>1, <2>1
<1>5. CASE Build
    <2>1. /\ block'.state_root = ComputeStateRoot /\ block = <<>>
          /\ UNCHANGED <<allocations, total_allocated, accounts, loaded>>
        BY <1>5 DEF Build
    <2>2. loaded = "no"
        BY <2>1 DEF GenesisInv
    <2>3. ComputeStateRoot' = ComputeStateRoot
        BY <2>1 DEF ComputeStateRoot, RootOf
    <2> QED BY <2>1, <2>2, <2>3 DEF GenesisInv, GenesisTypes, Validate, AllocationCap, VestingThreshold
<1>6. CASE InitializeFromGenesis
    <2>1. /\ block # <<>> /\ UNCHANGED <<allocations, total_allocated, block>>
          /\ IF RootMatches(Created) THEN accounts' = Created /\ loaded' = "yes"
             ELSE loaded' = "refused"
        BY <1>6 DEF InitializeFromGenesis
    <2>2. /\ Distinct => RootMatches(Created)
          /\ RootMatches(Created) => \/ StakeSum(DOMAIN Created, Created) = total_allocated
                                     \/ AlikeAllocations
        BY <2>1, LoadingSound DEF GenesisInv
    <2>3. Distinct' = Distinct /\ AlikeAllocations' = AlikeAllocations /\ ComputeStateRoot' = ComputeStateRoot
        BY <2>1 DEF Distinct, AlikeAllocations, ComputeStateRoot, RootOf
    <2>4. GenesisTypes' /\ Validate'
        BY <2>1 DEF GenesisInv, GenesisTypes, Validate, AllocationCap, VestingThreshold
    <2>5. /\ loaded' = "refused" => ~Distinct'
          /\ loaded' = "yes" => \/ StakeSum(DOMAIN accounts', accounts') = total_allocated'
                                \/ AlikeAllocations'
        BY <2>1, <2>2, <2>3
    <2> QED BY <2>1, <2>3, <2>4, <2>5 DEF GenesisInv
<1>7. CASE UNCHANGED genesisVars
    BY <1>1, <1>7 DEF genesisVars
<1> QED
    BY <1>2, <1>3, <1>4, <1>5, <1>6, <1>7 DEF GenesisNext

\* However allocations are added (add_allocation, add_vesting_allocation), the
\* builder can build from them, they stay within the supply, and whatever vests
\* does so gradually and in full; initialize_from_genesis refuses no block whose
\* addresses differ, and the accounts it creates hold every allocated token,
\* unless one allocation was made twice.
THEOREM GenesisIsSound == GenesisSpec => []GenesisSound
<1>1. GenesisInit => GenesisInv
    BY GenesisStarts
<1>2. GenesisInv /\ [GenesisNext]_genesisVars => GenesisInv'
    BY GenesisStep
<1>3. GenesisInv => GenesisSound
    BY GenesisInvImplies
<1> QED
    BY <1>1, <1>2, <1>3, PTL DEF GenesisSpec
=============================================================================
