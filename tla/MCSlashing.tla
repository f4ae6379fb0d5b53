------------------------------ MODULE MCSlashing ------------------------------
(* Constants of the runs of SlashingDetector. *)
EXTENDS SlashingDetector

MCInitialStake == [id \in ValidatorIDs |-> 10 * id]
MCInitialKey == [id \in ValidatorIDs |-> CHOOSE k \in ConsensusKeys : TRUE]
=============================================================================
