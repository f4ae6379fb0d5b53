-------------------------- MODULE ConsensusEngine --------------------------
(***************************************************************************)
(* consensus::ConsensusEngine of one node, with the VoteAggregator it owns *)
(* and the QCVerifier it calls (src/consensus/consensus_engine.cpp,        *)
(* vote_aggregator.cpp, qc_verifier.cpp).                                  *)
(*                                                                         *)
(* The rest of the network is the environment: peers make blocks, blocks   *)
(* and votes arrive in any order, any number of times or never.  An honest *)
(* validator votes for the blocks his engine accepts, as the contract of   *)
(* on_receive_block says; a faulty one votes for anything, under any       *)
(* signature and height; any other validator has crashed.                  *)
(* Block hashes cover the header and nothing else, so a hash IS a header;  *)
(* roots and transactions of a header are abstracted into its timestamp.   *)
(* A signature is the key that made it.                                    *)
(***************************************************************************)
EXTENDS StakeSums, Sequences

CONSTANTS
  ValidatorIDs,
  OwnKeys,        \* the consensus keys of each validator, over time
  Honest,         \* validators that follow the protocol
  Faulty,         \* validators that vote at will
  self,           \* the validator this node proposes as
  InitialSet,     \* the registry's set when the engine is constructed
  ValidatorSets,  \* sets the registry may have later
  GenesisCertified, \* do peers hold a certificate for the genesis block?
  Proposers,      \* proposers peers name in their blocks
  forged,         \* a signature no validator's key makes
  zero,           \* Blake3Hash::zero()
  Timestamps,     \* header timestamps
  MaxBlocks,      \* bound on the blocks in the network
  MaxHeight,      \* bound on the heights peers propose at
  MaxView         \* bound on view changes

Keys == UNION {OwnKeys[id] : id \in ValidatorIDs}

Member == [consensus_key : Keys, bonded_stake : Nat,
           status : {"Active", "Standby", "Jailed", "Tombstoned"}]

\* ValidatorSet::get_active_validators, as a set and in the set's order.
Active(set) == {id \in DOMAIN set.members : set.members[id].status = "Active"}
ActiveOrder(set) == SelectSeq(set.order, LAMBDA id : id \in Active(set))

StakeOf(set) == [id \in DOMAIN set.members |-> set.members[id].bonded_stake]

\* What the registry guarantees of its set: one entry per validator, and a
\* total that is the stake of the active ones (SetTotalStake).
IsValidatorSet(set) ==
  /\ DOMAIN set.members \subseteq ValidatorIDs
  /\ set.members \in [DOMAIN set.members -> Member]
  /\ \A id \in DOMAIN set.members : set.members[id].consensus_key \in OwnKeys[id]
  /\ set.total_stake = StakeSum(Active(set), StakeOf(set))

ASSUME EngineConstants ==
  /\ IsFiniteSet(ValidatorIDs)
  /\ self \in ValidatorIDs /\ GenesisCertified \in BOOLEAN
  /\ Honest \subseteq ValidatorIDs /\ Faulty \subseteq ValidatorIDs \ Honest
  /\ IsValidatorSet(InitialSet)
  /\ \A set \in ValidatorSets : IsValidatorSet(set)
  /\ Proposers \subseteq ValidatorIDs /\ forged \notin Keys
  /\ Timestamps \subseteq Nat \ {0}
  /\ MaxBlocks \in Nat /\ MaxHeight \in Nat /\ MaxView \in Nat

VARIABLES
  current_set,       \* validator_registry_->current_set()
  current_view,      \* current_view_
  highest_qc,        \* highest_qc_
  finalized_height,  \* finalized_height_
  current_height,    \* current_height_
  block_store,       \* block_store_: hash -> block
  height_index,      \* height_index_: height -> hash
  finalized_blocks,  \* finalized_blocks_: the hashes mapped to true
  votes_by_block,    \* votes_by_block_ of the aggregator
  executed,          \* blocks run on the state machine, in order
  accepted,          \* hashes on_receive_block returned true for
  network            \* blocks made so far, by peers and by this node

chainVars == <<current_height, block_store, height_index>>
finalityVars == <<highest_qc, finalized_height, finalized_blocks>>
engineVars == <<current_set, current_view, chainVars, finalityVars,
                votes_by_block, executed, accepted, network>>

-----------------------------------------------------------------------------
(* Blocks and certificates *)

GenesisHash ==
  [height |-> 0, timestamp |-> 0, previous_hash |-> zero, proposer |-> zero]

\* The certificate set_genesis_block makes: no signers, no stake.
GenesisQC ==
  [block_height |-> 0, block_hash |-> GenesisHash,
   signatures |-> << >>, total_stake_signed |-> 0]

\* A certificate for the genesis block signed by all active validators.  No
\* code makes one: the validators have to, for a block on it to be accepted.
SignedGenesisQC ==
  [block_height |-> 0, block_hash |-> GenesisHash,
   signatures |-> [id \in Active(InitialSet) |->
                     InitialSet.members[id].consensus_key],
   total_stake_signed |-> InitialSet.total_stake]

-----------------------------------------------------------------------------
(* VoteAggregator.  The engine makes it with the registry's set and never  *)
(* calls update_validator_set: its validator_set_ stays InitialSet.        *)

NoVotes == [signatures |-> << >>, total_stake |-> 0]

\* BlockKey: the height a vote states and the hash it is for.
VotesFor(votes, key) == IF key \in DOMAIN votes THEN votes[key] ELSE NoVotes

\* Mutant: a validator may vote twice for one block.
AddableTwice(vote, votes) == vote.validator_id \in Active(InitialSet)

\* add_vote's checks: the signature is not among them.
Addable(vote, votes) ==
  /\ vote.validator_id \in Active(InitialSet)
  /\ vote.validator_id \notin DOMAIN VotesFor(votes, vote.key).signatures

Extended(vote, entry) ==
  [signatures |->
     [id \in DOMAIN entry.signatures \cup {vote.validator_id} |->
        IF id = vote.validator_id THEN vote.signature ELSE entry.signatures[id]],
   total_stake |-> entry.total_stake + StakeOf(InitialSet)[vote.validator_id]]

WithVote(vote, votes) ==
  [key \in DOMAIN votes \cup {vote.key} |->
     IF key = vote.key THEN Extended(vote, VotesFor(votes, key)) ELSE votes[key]]

\* Mutant: strictly more than the required stake.
HasSupermajorityStrict(votes, key) ==
  VotesFor(votes, key).total_stake > RequiredStake(InitialSet.total_stake)

HasSupermajority(votes, key) ==
  VotesFor(votes, key).total_stake >= RequiredStake(InitialSet.total_stake)

AggregateVotes(votes, key) ==
  [block_height |-> key.height, block_hash |-> key.hash,
   signatures |-> VotesFor(votes, key).signatures,
   total_stake_signed |-> VotesFor(votes, key).total_stake]

-----------------------------------------------------------------------------
(* QCVerifier *)

CheckSupermajority(qc, set) ==
  qc.total_stake_signed >= RequiredStake(set.total_stake)

VerifySignersInSet(qc, set) == DOMAIN qc.signatures \subseteq DOMAIN set.members

\* Mutant: any aggregate passes.
AnyAggregatedSignature(qc, set) == TRUE

\* An aggregate verifies when every signature in it was made with the key the
\* set has for its signer; BLS12_381::verify_aggregated throws on no signer.
VerifyAggregatedSignature(qc, set) ==
  /\ DOMAIN qc.signatures # {}
  /\ \A id \in DOMAIN qc.signatures :
       qc.signatures[id] = set.members[id].consensus_key

VerifyQC(qc, set) ==
  /\ CheckSupermajority(qc, set)
  /\ VerifySignersInSet(qc, set)
  /\ VerifyAggregatedSignature(qc, set)

-----------------------------------------------------------------------------
(* Helpers of the engine *)

\* select_leader
IsLeader(id, view) ==
  LET order == ActiveOrder(current_set)
  IN  Len(order) > 0 /\ order[(view % Len(order)) + 1] = id

\* extends_highest_qc compares heights only.
ExtendsHighestQC(block) ==
  \/ block.header.height = 0
  \/ /\ ~(block.justify.block_height = 0 /\ highest_qc.block_height > 0)
     /\ block.justify.block_height >= highest_qc.block_height
     /\ block.header.height > block.justify.block_height

VerifyBlock(block) ==
  /\ ExtendsHighestQC(block)
  /\ IsLeader(block.header.proposer, current_view)
  /\ block.header.height > 0 =>
       /\ block.header.previous_hash \in DOMAIN block_store
       /\ block.header.height = block.header.previous_hash.height + 1
       /\ block.header.timestamp > block.header.previous_hash.timestamp
  /\ block.header.proposer \in Active(current_set)
  /\ block.header.height > 0 => VerifyQC(block.justify, current_set)

StoreBlock(block) ==
  /\ block_store' = [h \in DOMAIN block_store \cup {block.header} |->
                       IF h = block.header THEN block ELSE block_store[h]]
  /\ height_index' = [n \in DOMAIN height_index \cup {block.header.height} |->
                        IF n = block.header.height THEN block.header
                        ELSE height_index[n]]

\* Mutant: a late certificate for a lower block replaces a higher one.
MarkFinalizedAlways(hash, qc) ==
  IF VerifyQC(qc, current_set)
  THEN /\ highest_qc' = qc /\ finalized_height' = qc.block_height
       /\ finalized_blocks' = finalized_blocks \cup {hash}
  ELSE UNCHANGED finalityVars

MarkFinalized(hash, qc) ==
  IF VerifyQC(qc, current_set)
  THEN /\ IF qc.block_height > highest_qc.block_height
          THEN highest_qc' = qc /\ finalized_height' = qc.block_height
          ELSE UNCHANGED <<highest_qc, finalized_height>>
       /\ finalized_blocks' = finalized_blocks \cup {hash}
  ELSE UNCHANGED finalityVars

-----------------------------------------------------------------------------
(* The specification *)

\* After construction and set_genesis_block.
Init ==
  /\ current_set = InitialSet
  /\ current_view = 0
  /\ highest_qc = GenesisQC
  /\ finalized_height = 0
  /\ current_height = 0
  /\ block_store = [h \in {GenesisHash} |->
                      [header |-> GenesisHash, justify |-> GenesisQC]]
  /\ height_index = [n \in {0} |-> GenesisHash]
  /\ finalized_blocks = {GenesisHash}
  /\ votes_by_block = << >>
  /\ executed = << >>
  /\ accepted = {}
  /\ network = {}

\* propose_block stores the block and runs it, but leaves current_height_: the
\* next proposal is for the same height.  The first one has no parent block
\* to hash.
ProposeBlock(timestamp) ==
  /\ IsLeader(self, current_view)
  /\ current_height > 0 => current_height \in DOMAIN height_index
  /\ LET parent == IF current_height > 0 THEN height_index[current_height] ELSE zero
         block == [header |-> [height |-> current_height + 1,
                               timestamp |-> timestamp,
                               previous_hash |-> parent, proposer |-> self],
                   justify |-> highest_qc]
     IN  /\ Cardinality(network \cup {block}) <= MaxBlocks
         /\ Len(executed) < MaxBlocks
         /\ executed' = Append(executed, block.header)
         /\ StoreBlock(block)
         /\ network' = network \cup {block}
  /\ UNCHANGED <<current_set, current_view, current_height, finalityVars,
                 votes_by_block, accepted>>

\* A peer makes a block on a block he knows, justified by a certificate that
\* exists: one for the genesis block, this node's highest one, or one the votes
\* of this node add up to.
PeerBlock(block) ==
  /\ Cardinality(network \cup {block}) <= MaxBlocks
  /\ network' = network \cup {block}
  /\ UNCHANGED <<current_set, current_view, chainVars, finalityVars,
                 votes_by_block, executed, accepted>>

Certificates ==
  {highest_qc} \cup {qc \in {SignedGenesisQC} : GenesisCertified} \cup
  {AggregateVotes(votes_by_block, key) :
     key \in {k \in DOMAIN votes_by_block : HasSupermajority(votes_by_block, k)}}

PeerHeaders ==
  {[height |-> parent.height + 1, timestamp |-> timestamp,
    previous_hash |-> parent, proposer |-> proposer] :
     parent \in {h \in DOMAIN block_store \cup {b.header : b \in network} :
                   h.height < MaxHeight},
     timestamp \in Timestamps, proposer \in Proposers}

\* A block that fails verify_block changes nothing.
ReceiveBlock(block) ==
  /\ block \in network
  /\ VerifyBlock(block)
  /\ StoreBlock(block)
  /\ current_height' = IF block.header.height > current_height
                       THEN block.header.height ELSE current_height
  /\ accepted' = accepted \cup {block.header}
  /\ UNCHANGED <<current_set, current_view, finalityVars, votes_by_block,
                 executed, network>>

\* What verify_block asks of a block whatever the engine's view, store and
\* highest certificate: the engine of another validator may accept it.
Votable(block) ==
  /\ block.header.previous_hash # zero
  /\ block.header.timestamp > block.header.previous_hash.timestamp
  /\ block.header.height > block.justify.block_height
  /\ block.header.proposer \in Active(current_set)
  /\ VerifyQC(block.justify, current_set)

\* create_vote signs the hash of a block and states its height.
MayVote(vote) ==
  \E block \in network :
    /\ block.header = vote.key.hash
    /\ \/ /\ vote.validator_id \in Faulty
          /\ vote.signature \in OwnKeys[vote.validator_id] \cup {forged}
       \/ /\ vote.validator_id \in Honest
          /\ vote.signature \in OwnKeys[vote.validator_id]
          /\ vote.key.height = block.header.height
          /\ block.header \in accepted \/ Votable(block)

\* on_receive_vote: a vote that add_vote rejects changes nothing.
ReceiveVote(vote) ==
  /\ MayVote(vote)
  /\ Addable(vote, votes_by_block)
  /\ votes_by_block' = WithVote(vote, votes_by_block)
  /\ IF HasSupermajority(votes_by_block', vote.key)
     THEN MarkFinalized(vote.key.hash, AggregateVotes(votes_by_block', vote.key))
     ELSE UNCHANGED finalityVars
  /\ UNCHANGED <<current_set, current_view, chainVars, executed, accepted, network>>

TriggerViewChange ==
  /\ current_view < MaxView
  /\ current_view' = current_view + 1
  /\ UNCHANGED <<current_set, chainVars, finalityVars, votes_by_block,
                 executed, accepted, network>>

\* The registry elects, rotates a key or slashes: the engine is not told.
RegistryChanges(set) ==
  /\ current_set # set
  /\ current_set' = set
  /\ UNCHANGED <<current_view, chainVars, finalityVars, votes_by_block,
                 executed, accepted, network>>

\* A vote as it arrives: who, the block and the height stated, under which key.
VoteOf(id, height, hash, signature) ==
  [validator_id |-> id, key |-> [height |-> height, hash |-> hash],
   signature |-> signature]

Next ==
  \/ \E timestamp \in Timestamps : ProposeBlock(timestamp)
  \/ \E header \in PeerHeaders, qc \in Certificates :
       PeerBlock([header |-> header, justify |-> qc])
  \/ \E block \in network : ReceiveBlock(block)
  \/ \E id \in ValidatorIDs, block \in network, height \in 0..MaxHeight,
        signature \in Keys \cup {forged} :
       ReceiveVote(VoteOf(id, height, block.header, signature))
  \/ TriggerViewChange
  \/ \E set \in ValidatorSets : RegistryChanges(set)

Spec == Init /\ [][Next]_engineVars

\* A responsive network: a block that can be accepted and an honest vote for
\* an accepted block arrive in the end, and a leader proposes.
NewBlock(block) == block.header \notin accepted /\ ReceiveBlock(block)

VoteArrives(id) ==
  \E hash \in accepted, signature \in Keys :
    ReceiveVote(VoteOf(id, hash.height, hash, signature))

LeaderProposes ==
  \E header \in PeerHeaders, qc \in Certificates :
    /\ IsLeader(header.proposer, current_view)
    /\ PeerBlock([header |-> header, justify |-> qc]) /\ network' # network

FairSpec ==
  /\ Spec
  /\ WF_engineVars(\E block \in network : NewBlock(block))
  /\ WF_engineVars(LeaderProposes)
  /\ \A id \in Honest : WF_engineVars(VoteArrives(id))

-----------------------------------------------------------------------------
(* Properties *)

IsCertificate(qc) ==
  /\ qc.block_height \in Nat
  /\ DOMAIN qc.signatures \subseteq Active(InitialSet)
  /\ \A id \in DOMAIN qc.signatures : qc.signatures[id] \in Keys \cup {forged}
  /\ qc.total_stake_signed \in Nat

\* The types of the engine's state: only active members of the set the
\* aggregator was made with have votes, and no more than its stake.
EngineTypeOK ==
  /\ IsValidatorSet(current_set)
  /\ current_view \in Nat /\ current_height \in Nat /\ finalized_height \in Nat
  /\ IsCertificate(highest_qc)
  /\ \A key \in DOMAIN votes_by_block :
       /\ DOMAIN votes_by_block[key].signatures \subseteq Active(InitialSet)
       /\ \A id \in DOMAIN votes_by_block[key].signatures :
            votes_by_block[key].signatures[id] \in Keys \cup {forged}
       /\ votes_by_block[key].total_stake \in 0..InitialSet.total_stake
  /\ \A n \in DOMAIN height_index : height_index[n] \in DOMAIN block_store

\* The validators whose own signature for a block the aggregator holds.
SignersIn(votes, hash) ==
  {id \in ValidatorIDs :
     \E key \in DOMAIN votes :
       /\ key.hash = hash
       /\ id \in DOMAIN votes[key].signatures
       /\ votes[key].signatures[id] \in OwnKeys[id]}
SignersOf(hash) == SignersIn(votes_by_block, hash)

\* "For any block marked as finalized, there must exist a valid Quorum
\* Certificate with >= 2/3 stake signatures": a block mark_finalized finalized
\* is really signed by two thirds of the stake of the aggregator's set, however
\* the registry has changed meanwhile and whatever faulty validators sent.
FinalityImpliesQC ==
  \A hash \in finalized_blocks \ {GenesisHash} :
    /\ SignersOf(hash) \subseteq Active(InitialSet)
    /\ StakeSum(SignersOf(hash), StakeOf(InitialSet)) >=
         RequiredStake(InitialSet.total_stake)

\* Two blocks finalized at one height convict a third of the stake: that much
\* of it has signed both, under its own keys, even if the registry changes the
\* set between the votes.
AccountableSafety ==
  \A b, c \in finalized_blocks \ {GenesisHash} :
    b.height = c.height /\ b # c =>
      3 * StakeSum(SignersOf(b) \cap SignersOf(c), StakeOf(InitialSet))
        >= InitialSet.total_stake

\* finalized_height_ is the height of the highest certificate, and no
\* finalized block is above it: certificates completed out of order (a late
\* vote for a lower block) do not move it back.
FinalizedHeightTracksQC ==
  /\ finalized_height = highest_qc.block_height
  /\ highest_qc.block_hash \in finalized_blocks
  /\ \A hash \in finalized_blocks : hash.height <= finalized_height

\* Liveness when two thirds of the stake respond: with the honest votes
\* delivered, every accepted block is finalized in the end.
AcceptedFinalized == []<>(accepted \subseteq finalized_blocks)

\* "Two different blocks at the same height cannot both be finalized": even if
\* all validators are honest and this engine itself accepted both blocks.
NoConflictingFinalization ==
  \A b, c \in finalized_blocks \cap accepted : b.height = c.height => b = c
=============================================================================
