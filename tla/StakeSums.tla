----------------------------- MODULE StakeSums -----------------------------
(***************************************************************************)
(* Sums of stake over a set of validators: the loops of the registry, the  *)
(* vote aggregator and the slashing detector that add up bonded_stake.     *)
(* A sum is the number of units behind it, so that facts about sums follow *)
(* from facts about finite sets.                                           *)
(***************************************************************************)
EXTENDS Integers, FiniteSets

\* The units of stake behind the validators S: one pair per unit.
StakeUnits(S, stake) == UNION {{id} \X (1..stake[id]) : id \in S}

\* The sum of stake[id] over S.
StakeSum(S, stake) == Cardinality(StakeUnits(S, stake))

\* The code's ceiling of two thirds: (total_stake * 2 + 2) / 3.
RequiredStake(total) == (total * 2 + 2) \div 3
=============================================================================
