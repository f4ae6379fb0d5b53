------------------------- MODULE ProposalLifecycle -------------------------
(***************************************************************************)
(* What governance promises about time, whoever votes for what: a proposal *)
(* is decided once, not before its voting period is over, and takes effect *)
(* once, not before the shortest timelock has passed since the decision.   *)
(***************************************************************************)
EXTENDS Integers

CONSTANTS Ids, VotingPeriod, MinTimelock

VARIABLES height,  \* of the chain
          phase,   \* of every proposal
          since    \* the height at which it was proposed or, later, approved

lifecycleVars == <<height, phase, since>>

LifecycleInit ==
    /\ height = 0
    /\ phase = [i \in Ids |-> "none"]
    /\ since = [i \in Ids |-> 0]

Enter(i, p, s) ==
    /\ phase' = [phase EXCEPT ![i] = p]
    /\ since' = [since EXCEPT ![i] = s]
    /\ UNCHANGED height

Grow == height' = height + 1 /\ UNCHANGED <<phase, since>>
Propose(i) == phase[i] = "none" /\ Enter(i, "active", height)
Decide(i) ==
    /\ phase[i] = "active" /\ height >= since[i] + VotingPeriod
    /\ \/ Enter(i, "approved", height)
       \/ Enter(i, "rejected", since[i])
Execute(i) ==
    /\ phase[i] = "approved" /\ height >= since[i] + MinTimelock
    /\ Enter(i, "executed", since[i])

LifecycleNext == Grow \/ \E i \in Ids : Propose(i) \/ Decide(i) \/ Execute(i)
LifecycleSpec == LifecycleInit /\ [][LifecycleNext]_lifecycleVars
=============================================================================
