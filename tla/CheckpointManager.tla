-------------------------- MODULE CheckpointManager --------------------------
(***************************************************************************)
(* Weak subjectivity checkpoints: a block's roots, signed by validators    *)
(* with two thirds of the stake.  A signature is the pair of its signer    *)
(* and what it signs, and an aggregate the set of its signatures.          *)
(***************************************************************************)
EXTENDS StakeSums, Sequences

\* should_produce_checkpoint
ShouldProduceCheckpoint(height, interval) == height > 0 /\ height % interval = 0

\* produce_checkpoint: the fields that hash() covers.
ProduceCheckpoint(block) ==
    [block_height |-> block.header.height, block_hash |-> block.header,
     state_root |-> block.header.state_root, timestamp |-> block.header.timestamp]

\* sign_checkpoint
SignCheckpoint(checkpoint, validator) == <<validator, checkpoint>>

Sum(signers, set) == StakeSum(signers \cap DOMAIN set, set)
SetStake(set) == StakeSum(DOMAIN set, set)

\* aggregate_signatures: signatures are a map by validator, and those of
\* strangers are skipped.  set maps the members to their stakes.
Aggregable(signers, set) == Sum(signers, set) >= RequiredStake(SetStake(set))
AggregateSignatures(checkpoint, signers, set) ==
    [checkpoint |-> checkpoint, signers |-> signers \cap DOMAIN set,
     aggregated_signature |-> {SignCheckpoint(checkpoint, v) : v \in signers \cap DOMAIN set},
     total_stake_signed |-> Sum(signers, set)]

\* Mutant: the stake stated is not compared with the stake required.
VerifyAnyStake(signed, set) ==
    /\ signed.signers \subseteq DOMAIN set
    /\ Sum(signed.signers, set) = signed.total_stake_signed
    /\ signed.aggregated_signature = {SignCheckpoint(signed.checkpoint, v) : v \in signed.signers}
\* verify_checkpoint
VerifyCheckpoint(signed, set) ==
    /\ signed.total_stake_signed >= RequiredStake(SetStake(set))
    /\ signed.signers \subseteq DOMAIN set
    /\ Sum(signed.signers, set) = signed.total_stake_signed
    /\ signed.aggregated_signature = {SignCheckpoint(signed.checkpoint, v) : v \in signed.signers}

\* Mutant: any age will do.
CheckNotFuture(height, current, max_age) == current >= height
\* check_checkpoint_age
CheckCheckpointAge(height, current, max_age) == current >= height /\ current - height < max_age

\* verify_chain_includes_checkpoint
VerifyChainIncludesCheckpoint(checkpoint, block) ==
    /\ block.header.height = checkpoint.block_height
    /\ block.header = checkpoint.block_hash
    /\ block.header.state_root = checkpoint.state_root
\* reject_chain_without_checkpoint, which returns the opposite
RejectChainWithoutCheckpoint(checkpoint, block) == ~VerifyChainIncludesCheckpoint(checkpoint, block)
=============================================================================
