---------------------------- MODULE WireFormats ----------------------------
(***************************************************************************)
(* What every serialize method writes and every deserialize method reads,  *)
(* item by item, in the order of the code.  The two tables of a type are   *)
(* translated separately: that they agree is a property (Wire), not an     *)
(* assumption.  Hashes, addresses, keys and signatures are opaque numbers  *)
(* in as many bytes as the code gives them.                                *)
(***************************************************************************)
EXTENDS Codec

\* A signer or a sibling hash: one element of 32 bytes.
Element32 == Layout(32, <<Raw("id", 32)>>)

-----------------------------------------------------------------------------
\* Ledger data (src/state)
SigningFields == <<Raw("from", 32), Raw("to", 32), LE("amount", 8), LE("nonce", 8),
                   LE("fee", 8), LE("gas_limit", 8), LE("chain_id", 4)>>
SerializeTransaction == Layout(0, SigningFields \o <<Raw("signature", 64)>>)
DeserializeTransaction ==
    Exact(Layout(164, <<Raw("from", 32), Raw("to", 32), LE("amount", 8), LE("nonce", 8),
                        LE("fee", 8), LE("gas_limit", 8), LE("chain_id", 4),
                        Raw("signature", 64)>>))
SerializeReceipt ==
    Layout(0, <<Raw("tx_hash", 32), LE("block_height", 8), LE("success", 1),
                LE("gas_used", 8), TextLE("error_message", 4)>>)
DeserializeReceipt ==
    Exact(Layout(53, <<Raw("tx_hash", 32), LE("block_height", 8), LE("success", 1),
                       LE("gas_used", 8), TextLE("error_message", 4)>>))
SerializeAccount ==
    Layout(0, <<Raw("address", 32), LE("balance", 8), LE("nonce", 8), Raw("code_hash", 32)>>)
DeserializeAccount ==
    Exact(Layout(80, <<Raw("address", 32), LE("balance", 8), LE("nonce", 8),
                       Raw("code_hash", 32)>>))

-----------------------------------------------------------------------------
\* Blocks and certificates (src/consensus/block.cpp)
SerializeQC ==
    Layout(0, <<LE("block_height", 8), Raw("block_hash", 32), LE("view_number", 8),
                Raw("aggregated_signature", 96), ListLE("signers", 8, Element32),
                LE("total_stake_signed", 8)>>)
DeserializeQC ==
    Layout(160, <<LE("block_height", 8), Raw("block_hash", 32), LE("view_number", 8),
                  Raw("aggregated_signature", 96), ListLE("signers", 8, Element32),
                  LE("total_stake_signed", 8)>>)
SerializeHeader ==
    Layout(0, <<LE("height", 8), LE("timestamp", 8), Raw("previous_hash", 32),
                Raw("state_root", 32), Raw("transactions_root", 32),
                Raw("validator_set_root", 32), Raw("proposer", 32), LE("epoch", 8)>>)
DeserializeHeader ==
    Layout(184, <<LE("height", 8), LE("timestamp", 8), Raw("previous_hash", 32),
                  Raw("state_root", 32), Raw("transactions_root", 32),
                  Raw("validator_set_root", 32), Raw("proposer", 32), LE("epoch", 8)>>)
\* The header comes first, in a fixed 184 bytes, and its fields are the block's.
SerializeBlock ==
    Layout(0, SerializeHeader.items
                \o <<ListLE("transactions", 8, Prefixed(8, SerializeTransaction)),
                     Rest("justify", SerializeQC)>>)
DeserializeBlock ==
    Layout(192, DeserializeHeader.items
                  \o <<ListLE("transactions", 8, Prefixed(8, DeserializeTransaction)),
                       Rest("justify", DeserializeQC)>>)

-----------------------------------------------------------------------------
\* Validators (src/consensus/validator.cpp)
SerializeValidator ==
    Layout(0, <<Raw("id", 32), Raw("consensus_key", 48), Raw("withdrawal_key", 32),
                LE("bonded_stake", 8), Enum("status", 3), LE("jailed_until_epoch", 8),
                LE("consecutive_downtime_epochs", 8),
                LE("blocks_signed_this_epoch", 8), LE("blocks_missed_this_epoch", 8)>>)
DeserializeValidator ==
    Layout(153, <<Raw("id", 32), Raw("consensus_key", 48), Raw("withdrawal_key", 32),
                  LE("bonded_stake", 8), Enum("status", 3), LE("jailed_until_epoch", 8),
                  LE("consecutive_downtime_epochs", 8),
                  LE("blocks_signed_this_epoch", 8), LE("blocks_missed_this_epoch", 8)>>)
SerializeValidatorSet ==
    Layout(0, <<LE("epoch", 8), LE("total_stake", 8), Raw("merkle_root", 32),
                ListLE("validators", 4, SerializeValidator)>>)
\* Mutant: the validators of a set are read without a test for the end.
DeserializeSetUntested ==
    Untested(Layout(52, <<LE("epoch", 8), LE("total_stake", 8), Raw("merkle_root", 32),
                          ListLE("validators", 4, DeserializeValidator)>>))
DeserializeValidatorSet ==
    Layout(52, <<LE("epoch", 8), LE("total_stake", 8), Raw("merkle_root", 32),
                 ListLE("validators", 4, DeserializeValidator)>>)

-----------------------------------------------------------------------------
\* Network messages (src/network): integers are big-endian here.  The vote's
\* signature is written, and skipped by the reader, which leaves the default.
SerializeVote ==
    Layout(0, <<BE("block_height", 8), Raw("block_hash", 32), BE("view_number", 8),
                Raw("validator_id", 32), Raw("signature", 96)>>)
DeserializeVote ==
    Layout(176, <<BE("block_height", 8), Raw("block_hash", 32), BE("view_number", 8),
                  Raw("validator_id", 32), Unread("signature", 96)>>)
SerializeBlockRequest ==
    Layout(0, <<LE("type", 1), BE("height", 8), Raw("hash", 32), Raw("requester_id", 32)>>)
DeserializeBlockRequest ==
    Layout(73, <<LE("type", 1), BE("height", 8), Raw("hash", 32), Raw("requester_id", 32)>>)
SerializeBlockResponse ==
    Layout(0, <<LE("found", 1), TextBE("error", 4), RestIf("block", "found", SerializeBlock)>>)
DeserializeBlockResponse ==
    Layout(5, <<LE("found", 1), TextBE("error", 4), RestIf("block", "found", DeserializeBlock)>>)
SerializeValidatorInfo ==
    Layout(0, <<Raw("validator_id", 32), Raw("consensus_key", 48), BE("bonded_stake", 8),
                LE("is_active", 1)>>)
\* Mutant: the stake is read in the byte order of the consensus structures.
DeserializeInfoLittle ==
    Layout(89, <<Raw("validator_id", 32), Raw("consensus_key", 48), LE("bonded_stake", 8),
                 LE("is_active", 1)>>)
DeserializeValidatorInfo ==
    Layout(89, <<Raw("validator_id", 32), Raw("consensus_key", 48), BE("bonded_stake", 8),
                 LE("is_active", 1)>>)
SerializeValidatorSetUpdate ==
    Layout(0, <<BE("epoch", 8), ListBE("validators", 4, SerializeValidatorInfo),
                BE("total_stake", 8), Raw("validator_set_root", 32),
                Rest("transition_qc", SerializeQC)>>)
DeserializeValidatorSetUpdate ==
    Layout(12, <<BE("epoch", 8), ListBE("validators", 4, DeserializeValidatorInfo),
                 BE("total_stake", 8), Raw("validator_set_root", 32),
                 Rest("transition_qc", DeserializeQC)>>)
\* The frame around every message; data after the hash is ignored.
SerializeFrame == Layout(0, <<LE("type", 1), TextBE("payload", 4), Raw("hash", 32)>>)
DeserializeFrame == Layout(37, <<LE("type", 1), TextBE("payload", 4), Raw("hash", 32)>>)

-----------------------------------------------------------------------------
\* Light client and checkpoints (src/consensus)
SerializeLightClientState ==
    Layout(0, <<LE("current_epoch", 8), Raw("validator_set_root", 32),
                LE("finalized_height", 8), Raw("finalized_block_hash", 32)>>)
DeserializeLightClientState ==
    Layout(80, <<LE("current_epoch", 8), Raw("validator_set_root", 32),
                 LE("finalized_height", 8), Raw("finalized_block_hash", 32)>>)
SerializeHeaderProof ==
    Layout(0, <<Sized("header", 4, SerializeHeader), Sized("qc", 4, SerializeQC),
                ListLE("validator_set_merkle_proof", 4, Element32),
                ListLE("signing_validators", 4, SerializeValidator),
                LE("total_validator_set_stake", 8)>>)
DeserializeHeaderProof ==
    Untested(Layout(16, <<Sized("header", 4, DeserializeHeader), Sized("qc", 4, DeserializeQC),
                          ListLE("validator_set_merkle_proof", 4, Element32),
                          ListLE("signing_validators", 4, DeserializeValidator),
                          LE("total_validator_set_stake", 8)>>))
SerializeCheckpoint ==
    Layout(0, <<LE("block_height", 8), Raw("block_hash", 32), LE("epoch", 8),
                LE("timestamp", 8), Raw("state_root", 32), Raw("validator_set_root", 32),
                Raw("aggregated_signature", 96), ListLE("signers", 8, Element32),
                LE("total_stake_signed", 8)>>)
DeserializeCheckpoint ==
    Layout(232, <<LE("block_height", 8), Raw("block_hash", 32), LE("epoch", 8),
                  LE("timestamp", 8), Raw("state_root", 32), Raw("validator_set_root", 32),
                  Raw("aggregated_signature", 96), ListLE("signers", 8, Element32),
                  LE("total_stake_signed", 8)>>)
SerializeMerkleProof ==
    Layout(0, <<LE("leaf_index", 8), Raw("leaf_hash", 32), ListLE("sibling_hashes", 8, Element32)>>)
DeserializeMerkleProof ==
    Exact(Layout(48, <<LE("leaf_index", 8), Raw("leaf_hash", 32),
                       ListLE("sibling_hashes", 8, Element32)>>))

-----------------------------------------------------------------------------
\* Genesis (src/consensus/genesis_builder.cpp)
SerializeVesting ==
    Layout(0, <<LE("total_amount", 8), LE("vested_amount", 8), LE("start_timestamp", 8),
                LE("duration_seconds", 8)>>)
DeserializeVesting ==
    Layout(32, <<LE("total_amount", 8), LE("vested_amount", 8), LE("start_timestamp", 8),
                 LE("duration_seconds", 8)>>)
SerializeAllocation ==
    Layout(0, <<Raw("address", 32), LE("amount", 8), TextLE("category", 4),
                LE("has_vesting", 1), RestIf("vesting_schedule", "has_vesting", SerializeVesting)>>)
DeserializeAllocation ==
    Untested(Layout(45, <<Raw("address", 32), LE("amount", 8), TextLE("category", 4),
                          IfThere("has_vesting"),
                          RestIf("vesting_schedule", "has_vesting", DeserializeVesting)>>))
SerializeGenesisConfig ==
    Layout(0, <<LE("total_supply", 8), LE("genesis_timestamp", 8), LE("initial_epoch", 8),
                LE("validator_set_size", 8), LE("minimum_self_bond", 8), LE("chain_id", 4)>>)
DeserializeGenesisConfig ==
    Layout(44, <<LE("total_supply", 8), LE("genesis_timestamp", 8), LE("initial_epoch", 8),
                 LE("validator_set_size", 8), LE("minimum_self_bond", 8), LE("chain_id", 4)>>)
=============================================================================
