------------------------ MODULE MCValidatorRegistry ------------------------
(* The runs of ValidatorRegistry. *)
EXTENDS ValidatorRegistry, TLC

\* Consensus keys are only copied and compared.
KeySymmetry == Permutations(ConsensusKeys)
=============================================================================
