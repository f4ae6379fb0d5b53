-------------------------- MODULE GovernanceModule --------------------------
(***************************************************************************)
(* Parameter proposals: submitted with backing, voted on by stake, decided *)
(* after the voting period and executed after a timelock.  The caller of   *)
(* every operation passes the height of the chain and the stakes of the    *)
(* moment, and stakes change while a vote is open.  Executing a proposal   *)
(* marks it; nothing in the repository applies its value.                  *)
(***************************************************************************)
EXTENDS StakeSums, Sequences

CONSTANTS Voters,           \* validators
          StakeValues,      \* bonded stakes that occur
          BlocksPerDay,     \* blocks_per_day_
          VotingPeriodDays, \* VOTING_PERIOD_DAYS
          SafetyDays,       \* TIMELOCK_SAFETY_DAYS
          AdminDays,        \* TIMELOCK_ADMIN_DAYS
          PerformanceDays,  \* TIMELOCK_PERFORMANCE_DAYS
          Submissions,      \* what is proposed: a parameter, a value, backers
          MaxHeight,        \* bound: the height of the chain
          MaxProposals,     \* bound: how many proposals are accepted
          MaxChanges        \* bound: how often a stake changes

ASSUME GovernanceAssumption ==
    /\ IsFiniteSet(Voters) /\ StakeValues \subseteq Nat /\ 0 \in StakeValues
    /\ BlocksPerDay \in Nat /\ VotingPeriodDays \in Nat
    /\ SafetyDays \in Nat /\ AdminDays \in Nat /\ PerformanceDays \in Nat
    /\ PerformanceDays <= AdminDays /\ PerformanceDays <= SafetyDays
    /\ MaxHeight \in Nat /\ MaxProposals \in Nat /\ MaxChanges \in Nat

VARIABLES height,    \* of the chain
          stake,     \* the validators' stakes of the moment
          changes,   \* how often a stake has changed
          next_proposal_id,
          proposals, \* proposals_, by id
          cast,      \* history: the stake every vote was cast with, by id
          judged     \* history: the total stake each proposal was decided with

govVars == <<height, stake, changes, next_proposal_id, proposals, cast, judged>>

SafetyParameters == {"IssuanceCoefficient", "SlashingAlpha", "SlashingBeta"}
AdminParameters == {"ValidatorSetSize", "MinimumSelfBond"}
PerformanceParameters == {"BlockSize", "GasLimit", "BaseFeeAdjustment"}
ParameterType == SafetyParameters \cup AdminParameters \cup PerformanceParameters

ASSUME SubmissionsAssumption ==
    \A x \in Submissions : x.parameter \in ParameterType /\ x.value \in [size : Nat, number : Nat]

\* validate_parameter_value: eight bytes, read as a double (here in
\* hundredths) or as a 64-bit integer, within the bounds of the parameter.
ValidParameterValue(type, value) ==
    /\ value.size = 8
    /\ CASE type = "IssuanceCoefficient" -> value.number \in 5..20
         [] type \in {"SlashingAlpha", "SlashingBeta", "BaseFeeAdjustment"} ->
                value.number \in 1..100
         [] type = "ValidatorSetSize" -> value.number \in 100..500
         [] OTHER -> value.number > 0

CalculateTimelock(type) ==
    BlocksPerDay * (CASE type \in SafetyParameters -> SafetyDays
                      [] type \in PerformanceParameters -> PerformanceDays
                      [] OTHER -> AdminDays)

Statuses == {"Active", "Approved", "Rejected", "Executed"}
Proposal ==
    [parameter : ParameterType, value : [size : Nat, number : Nat],
     voting_ends : Nat, timelock_ends : Nat, status : Statuses,
     votes_for : Nat, votes_against : Nat, votes : UNION {[S -> BOOLEAN] : S \in SUBSET Voters}]

TotalStake == StakeSum(Voters, stake)

GovernanceInit ==
    /\ height = 0
    /\ stake \in [Voters -> StakeValues]
    /\ changes = 0
    /\ next_proposal_id = 1
    /\ proposals = <<>>
    /\ cast = <<>>
    /\ judged = <<>>

\* The chain grows; validators bond and unbond.
GrowChain ==
    /\ height < MaxHeight
    /\ height' = height + 1
    /\ UNCHANGED <<stake, changes, next_proposal_id, proposals, cast, judged>>
ChangeStake(v, s) ==
    /\ changes < MaxChanges
    /\ changes' = changes + 1
    /\ stake' = [stake EXCEPT ![v] = s]
    /\ UNCHANGED <<height, next_proposal_id, proposals, cast, judged>>

\* The backing of a list of backers: a backer listed twice counts twice.
Backing(backers) ==
    LET sum[i \in 0..Len(backers)] ==
            IF i = 0 THEN 0
            ELSE sum[i - 1] + IF backers[i] \in Voters THEN stake[backers[i]] ELSE 0
    IN  sum[Len(backers)]

\* submit_proposal; identifiers count up from 1.
SubmitProposal(parameter, value, backers) ==
    /\ next_proposal_id <= MaxProposals
    /\ ValidParameterValue(parameter, value)
    /\ Backing(backers) * 1000 >= TotalStake
    /\ proposals' = Append(proposals,
           [parameter |-> parameter, value |-> value,
            voting_ends |-> height + VotingPeriodDays * BlocksPerDay, timelock_ends |-> 0,
            status |-> "Active", votes_for |-> 0, votes_against |-> 0,
            votes |-> [v \in {} |-> TRUE]])
    /\ next_proposal_id' = next_proposal_id + 1
    /\ cast' = Append(cast, [v \in Voters |-> 0])
    /\ judged' = Append(judged, 0)
    /\ UNCHANGED <<height, stake, changes>>

\* proposal with the vote of voter added: recorded once and counted with
\* the voter's stake of the moment.
Counted(p, voter, in_favor) ==
    [p EXCEPT !.votes = [v \in DOMAIN p.votes \cup {voter} |->
                            IF v = voter THEN in_favor ELSE p.votes[v]],
              !.votes_for = IF in_favor THEN @ + stake[voter] ELSE @,
              !.votes_against = IF in_favor THEN @ ELSE @ + stake[voter]]

\* Mutant: a validator may change its vote, and is counted again.
VoteAgain(id, voter, in_favor) ==
    /\ proposals[id].status = "Active"
    /\ height < proposals[id].voting_ends
    /\ stake[voter] # 0
    /\ proposals' = [proposals EXCEPT ![id] = Counted(@, voter, in_favor)]
    /\ cast' = [cast EXCEPT ![id][voter] = stake[voter]]
    /\ UNCHANGED <<height, stake, changes, next_proposal_id, judged>>
Vote(id, voter, in_favor) ==
    /\ proposals[id].status = "Active"
    /\ height < proposals[id].voting_ends
    /\ voter \notin DOMAIN proposals[id].votes
    /\ stake[voter] # 0
    /\ proposals' = [proposals EXCEPT ![id] = Counted(@, voter, in_favor)]
    /\ cast' = [cast EXCEPT ![id][voter] = stake[voter]]
    /\ UNCHANGED <<height, stake, changes, next_proposal_id, judged>>

\* The two doubles compared with QUORUM_THRESHOLD (0.10) and
\* APPROVAL_THRESHOLD (0.667); a division by zero is infinite or NaN, and
\* NaN compares false.
BelowQuorum(votes, total) == total # 0 /\ votes * 10 < total
Approves(for, votes) == votes # 0 /\ for * 1000 >= 667 * votes

\* finalize_voting
FinalizeVoting(id) ==
    LET p     == proposals[id]
        votes == p.votes_for + p.votes_against
        yes   == ~BelowQuorum(votes, TotalStake) /\ Approves(p.votes_for, votes)
    IN  /\ p.status = "Active"
        /\ height >= p.voting_ends
        /\ proposals' = [proposals EXCEPT ![id] =
               IF yes THEN [p EXCEPT !.status = "Approved",
                                     !.timelock_ends = height + CalculateTimelock(p.parameter)]
               ELSE [p EXCEPT !.status = "Rejected"]]
        /\ judged' = [judged EXCEPT ![id] = TotalStake]
        /\ UNCHANGED <<height, stake, changes, next_proposal_id, cast>>

\* Mutant: the timelock counts from the end of the voting period.
ExecuteFromVotingEnd(id) ==
    /\ proposals[id].status = "Approved"
    /\ height >= proposals[id].voting_ends + CalculateTimelock(proposals[id].parameter)
    /\ proposals' = [proposals EXCEPT ![id].status = "Executed"]
    /\ UNCHANGED <<height, stake, changes, next_proposal_id, cast, judged>>
ExecuteProposal(id) ==
    /\ proposals[id].status = "Approved"
    /\ height >= proposals[id].timelock_ends
    /\ ValidParameterValue(proposals[id].parameter, proposals[id].value)
    /\ proposals' = [proposals EXCEPT ![id].status = "Executed"]
    /\ UNCHANGED <<height, stake, changes, next_proposal_id, cast, judged>>

GovernanceNext ==
    \/ GrowChain
    \/ \E v \in Voters, s \in StakeValues : ChangeStake(v, s)
    \/ \E x \in Submissions : SubmitProposal(x.parameter, x.value, x.backers)
    \/ \E id \in DOMAIN proposals :
          \/ \E v \in Voters, b \in BOOLEAN : Vote(id, v, b)
          \/ FinalizeVoting(id)
          \/ ExecuteProposal(id)

GovernanceSpec == GovernanceInit /\ [][GovernanceNext]_govVars

-----------------------------------------------------------------------------
(* Properties.                                                             *)

\* Every decision is the one the votes call for: each validator counts once
\* with the stake it had when it voted, whatever happened to stakes and
\* votes between then and the decision.
DecisionsFollowVotes ==
    \A id \in DOMAIN proposals :
        LET p   == proposals[id]
            for == StakeSum({v \in DOMAIN p.votes : p.votes[v]}, cast[id])
            all == StakeSum(DOMAIN p.votes, cast[id])
        IN  p.status # "Active" =>
                (p.status # "Rejected" <=> ~BelowQuorum(all, judged[id]) /\ Approves(for, all))

\* A proposal as the abstract specification sees it: its phase, and the
\* height of its submission or approval, worked out from the heights stored.
PhaseOf(id) ==
    IF id \notin DOMAIN proposals THEN "none"
    ELSE CASE proposals[id].status = "Active"   -> "active"
           [] proposals[id].status = "Approved" -> "approved"
           [] proposals[id].status = "Rejected" -> "rejected"
           [] proposals[id].status = "Executed" -> "executed"
SinceOf(id) ==
    IF id \notin DOMAIN proposals THEN 0
    ELSE IF proposals[id].status \in {"Active", "Rejected"}
    THEN proposals[id].voting_ends - VotingPeriodDays * BlocksPerDay
    ELSE proposals[id].timelock_ends - CalculateTimelock(proposals[id].parameter)

Lifecycle == INSTANCE ProposalLifecycle WITH
    Ids <- 1..MaxProposals,
    VotingPeriod <- VotingPeriodDays * BlocksPerDay,
    MinTimelock <- PerformanceDays * BlocksPerDay,
    phase <- [id \in 1..MaxProposals |-> PhaseOf(id)],
    since <- [id \in 1..MaxProposals |-> SinceOf(id)]

\* Late finalizations, late executions and proposals side by side never
\* shorten a voting period or a timelock, decide a proposal twice or revive
\* it: the module implements the abstract life cycle.
ImplementsLifecycle == Lifecycle!LifecycleSpec
=============================================================================
