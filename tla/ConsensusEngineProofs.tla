----------------------- MODULE ConsensusEngineProofs -----------------------
(***************************************************************************)
(* Finality of the consensus engine for every set of validators, whatever  *)
(* faulty validators send and however the registry changes.  The argument  *)
(* follows the votes: they are only added, one per validator and block     *)
(* (VotesCounted), so a certificate that passed the aggregator and the     *)
(* verifier stands for two thirds of the stake (FinalityImpliesQC), and    *)
(* two such certificates share a third of it (QuorumsIntersect).           *)
(***************************************************************************)
EXTENDS ConsensusEngine, SharedProofs

\* The set the aggregator holds: finite, with natural stakes and their sum.
LEMMA InitialStakes ==
  /\ Active(InitialSet) \subseteq ValidatorIDs
  /\ IsFiniteSet(Active(InitialSet))
  /\ \A id \in Active(InitialSet) : StakeOf(InitialSet)[id] \in Nat
  /\ InitialSet.total_stake = StakeSum(Active(InitialSet), StakeOf(InitialSet))
  /\ InitialSet.total_stake \in Nat
<1>1. IsValidatorSet(InitialSet) /\ IsFiniteSet(ValidatorIDs)
  BY EngineConstants
<1>2. Active(InitialSet) \subseteq ValidatorIDs
  BY <1>1 DEF IsValidatorSet, Active
<1>3. IsFiniteSet(Active(InitialSet))
  BY <1>1, <1>2, FS_Subset
<1>4. \A id \in Active(InitialSet) : StakeOf(InitialSet)[id] \in Nat
  BY <1>1 DEF IsValidatorSet, Active, StakeOf, Member
<1>5. InitialSet.total_stake = StakeSum(Active(InitialSet), StakeOf(InitialSet))
  BY <1>1 DEF IsValidatorSet
<1>6. StakeSum(Active(InitialSet), StakeOf(InitialSet)) \in Nat
  BY <1>3, <1>4, StakeSumType
<1> QED
  BY <1>2, <1>3, <1>4, <1>5, <1>6

-----------------------------------------------------------------------------
(* Votes *)

\* Only active members vote, and the stake counted is theirs, once each.
Counted(entry) ==
  /\ DOMAIN entry.signatures \subseteq Active(InitialSet)
  /\ \A id \in DOMAIN entry.signatures : entry.signatures[id] \in Keys \cup {forged}
  /\ entry.total_stake = StakeSum(DOMAIN entry.signatures, StakeOf(InitialSet))

CountedVotes(votes) ==
  \A key \in DOMAIN votes : key.height \in Nat /\ Counted(votes[key])

\* The votes old are among the votes new.
Kept(old, new) ==
  \A key \in DOMAIN old :
    /\ key \in DOMAIN new
    /\ \A id \in DOMAIN old[key].signatures :
         /\ id \in DOMAIN new[key].signatures
         /\ new[key].signatures[id] = old[key].signatures[id]

\* A new vote keeps the count of its block's entry.
LEMMA EntryCounted ==
  ASSUME NEW vote, NEW old, Counted(old),
         vote.validator_id \in Active(InitialSet),
         vote.signature \in Keys \cup {forged},
         vote.validator_id \notin DOMAIN old.signatures
  PROVE  Counted(Extended(vote, old))
<1> DEFINE v == vote.validator_id
           f == StakeOf(InitialSet)
           S == DOMAIN old.signatures
           T == S \cup {v}
<1>1. /\ DOMAIN Extended(vote, old).signatures = T
      /\ \A id \in T : Extended(vote, old).signatures[id] \in Keys \cup {forged}
      /\ Extended(vote, old).total_stake = StakeSum(S, f) + f[v]
  BY DEF Extended, Counted
<1>2. T \subseteq Active(InitialSet)
  BY DEF Counted
<1>3. IsFiniteSet(T) /\ \A id \in T : f[id] \in Nat
  BY <1>2, InitialStakes, FS_Subset
<1>4. T \ {v} = S /\ v \in T
  OBVIOUS
<1>5. StakeSum(T, f) = f[v] + StakeSum(T \ {v}, f)
  <2> HIDE DEF T, f, v
  <2> QED BY <1>3, <1>4, StakeSumSplit
<1>6. StakeSum(S, f) \in Nat /\ f[v] \in Nat
  <2>1. IsFiniteSet(S) /\ \A id \in S : f[id] \in Nat
    BY <1>3, <1>4, FS_Subset
  <2> QED
    BY <1>3, <1>4, <2>1, StakeSumType
<1> HIDE DEF f, S, T, v
<1> QED
  BY <1>1, <1>2, <1>4, <1>5, <1>6 DEF Counted, f

\* No vote counts for nothing.
LEMMA NoneCounted == Counted(NoVotes)
<1>1. StakeSum({}, StakeOf(InitialSet)) = 0
  BY FS_EmptySet DEF StakeSum, StakeUnits
<1>2. DOMAIN << >> = {}
  OBVIOUS
<1> QED
  BY <1>1, <1>2 DEF Counted, NoVotes

\* add_vote keeps the votes there are and the counts right.
LEMMA AddVoteCounted ==
  ASSUME NEW vote, NEW votes, CountedVotes(votes), Addable(vote, votes),
         vote.signature \in Keys \cup {forged}, vote.key.height \in Nat
  PROVE  /\ CountedVotes(WithVote(vote, votes))
         /\ Kept(votes, WithVote(vote, votes))
         /\ vote.key \in DOMAIN WithVote(vote, votes)
<1> DEFINE old == VotesFor(votes, vote.key)
           new == WithVote(vote, votes)
<1>1. Counted(old)
  BY NoneCounted DEF VotesFor, CountedVotes
<1>2. /\ vote.validator_id \in Active(InitialSet)
      /\ vote.validator_id \notin DOMAIN old.signatures
  BY DEF Addable
<1>3. Counted(Extended(vote, old))
  BY <1>1, <1>2, EntryCounted
<1>4. new = [key \in DOMAIN votes \cup {vote.key} |->
               IF key = vote.key THEN Extended(vote, old) ELSE votes[key]]
  BY DEF WithVote
<1>5. CountedVotes(new)
  <2> HIDE DEF new, old
  <2> QED BY <1>3, <1>4 DEF CountedVotes
<1>6. Kept(votes, new)
  <2> SUFFICES ASSUME NEW key \in DOMAIN votes,
                      NEW id \in DOMAIN votes[key].signatures
               PROVE  /\ id \in DOMAIN new[key].signatures
                      /\ new[key].signatures[id] = votes[key].signatures[id]
    BY <1>4 DEF Kept
  <2>1. CASE key = vote.key
    <3>1. new[key] = Extended(vote, votes[key]) /\ old = votes[key]
      BY <1>4, <2>1 DEF VotesFor
    <3>2. id # vote.validator_id
      BY <1>2, <3>1
    <3> HIDE DEF new, old
    <3> QED BY <3>1, <3>2 DEF Extended
  <2>2. CASE key # vote.key
    BY <1>4, <2>2
  <2> QED BY <2>1, <2>2
<1> QED
  BY <1>4, <1>5, <1>6

\* The signers of a block are active and only become more.
LEMMA SignersGrow ==
  ASSUME NEW old, NEW new, CountedVotes(new), Kept(old, new), NEW hash
  PROVE  /\ SignersIn(old, hash) \subseteq SignersIn(new, hash)
         /\ SignersIn(new, hash) \subseteq Active(InitialSet)
BY DEF Kept, CountedVotes, Counted, SignersIn

-----------------------------------------------------------------------------
(* The inductive invariant *)

\* Heights are natural numbers in every block the engine or the network has.
HeightsOK ==
  /\ \A block \in network : block.header.height \in Nat
  /\ \A hash \in DOMAIN block_store : hash.height \in Nat

EngineInv ==
  /\ EngineTypeOK
  /\ HeightsOK
  /\ CountedVotes(votes_by_block)
  /\ FinalityImpliesQC

\* A certificate that passed aggregator and verifier: two thirds signed it.
LEMMA CertificateSigned ==
  ASSUME NEW votes, CountedVotes(votes), NEW key \in DOMAIN votes,
         HasSupermajority(votes, key), NEW set, IsValidatorSet(set),
         VerifyQC(AggregateVotes(votes, key), set)
  PROVE  StakeSum(SignersIn(votes, key.hash), StakeOf(InitialSet)) >=
           RequiredStake(InitialSet.total_stake)
<1> DEFINE S == DOMAIN votes[key].signatures
           f == StakeOf(InitialSet)
           P == SignersIn(votes, key.hash)
<1>1. /\ votes[key].total_stake = StakeSum(S, f)
      /\ S \subseteq Active(InitialSet)
  BY DEF CountedVotes, Counted
<1>2. StakeSum(S, f) >= RequiredStake(InitialSet.total_stake)
  BY <1>1 DEF HasSupermajority, VotesFor
<1>3. \A id \in S : votes[key].signatures[id] \in OwnKeys[id]
  <2>1. AggregateVotes(votes, key).signatures = votes[key].signatures
    BY DEF AggregateVotes, VotesFor
  <2>2. \A id \in S : /\ id \in DOMAIN set.members
                      /\ votes[key].signatures[id] = set.members[id].consensus_key
    BY <2>1 DEF VerifyQC, VerifySignersInSet, VerifyAggregatedSignature
  <2> QED
    BY <2>2 DEF IsValidatorSet
<1>4. S \subseteq P
  BY <1>1, <1>3, InitialStakes DEF SignersIn
<1>5. P \subseteq Active(InitialSet)
  BY DEF CountedVotes, Counted, SignersIn
<1>6. StakeSum(S, f) <= StakeSum(P, f)
  BY <1>4, <1>5, InitialStakes, StakeSumMonotone
<1>7. StakeSum(S, f) \in Nat /\ StakeSum(P, f) \in Nat
  <2>1. IsFiniteSet(S) /\ IsFiniteSet(P)
    BY <1>1, <1>5, InitialStakes, FS_Subset
  <2>2. \A id \in S \cup P : f[id] \in Nat
    BY <1>1, <1>5, InitialStakes
  <2> QED
    BY <2>1, <2>2, StakeSumType
<1>8. RequiredStake(InitialSet.total_stake) \in Nat
  BY InitialStakes DEF RequiredStake
<1> HIDE DEF S, f, P
<1> QED
  BY <1>2, <1>6, <1>7, <1>8 DEF f, P

\* What the signers of finalized blocks must be, for given votes.
QuorumSigned(votes, blocks) ==
  \A hash \in blocks \ {GenesisHash} :
    /\ SignersIn(votes, hash) \subseteq Active(InitialSet)
    /\ StakeSum(SignersIn(votes, hash), StakeOf(InitialSet)) >=
         RequiredStake(InitialSet.total_stake)

\* More votes leave the finalized blocks signed.
LEMMA QuorumsKept ==
  ASSUME NEW old, NEW new, CountedVotes(new), Kept(old, new),
         NEW blocks, QuorumSigned(old, blocks)
  PROVE  QuorumSigned(new, blocks)
<1> SUFFICES ASSUME NEW hash \in blocks \ {GenesisHash}
             PROVE  /\ SignersIn(new, hash) \subseteq Active(InitialSet)
                    /\ StakeSum(SignersIn(new, hash), StakeOf(InitialSet)) >=
                         RequiredStake(InitialSet.total_stake)
  BY DEF QuorumSigned
<1> DEFINE P == SignersIn(old, hash)
           Q == SignersIn(new, hash)
           f == StakeOf(InitialSet)
<1>1. P \subseteq Q /\ Q \subseteq Active(InitialSet)
  BY SignersGrow
<1>2. StakeSum(P, f) <= StakeSum(Q, f)
  BY <1>1, InitialStakes, StakeSumMonotone
<1>3. StakeSum(P, f) >= RequiredStake(InitialSet.total_stake)
  BY DEF QuorumSigned
<1>4. StakeSum(P, f) \in Nat /\ StakeSum(Q, f) \in Nat
  <2>1. IsFiniteSet(P) /\ IsFiniteSet(Q)
    BY <1>1, InitialStakes, FS_Subset
  <2>2. \A id \in P \cup Q : f[id] \in Nat
    BY <1>1, InitialStakes
  <2> QED
    BY <2>1, <2>2, StakeSumType
<1>5. RequiredStake(InitialSet.total_stake) \in Nat
  BY InitialStakes DEF RequiredStake
<1> HIDE DEF P, Q, f
<1> QED
  BY <1>1, <1>2, <1>3, <1>4, <1>5 DEF Q, f

\* Counted votes have the types EngineTypeOK asks for, and make a certificate.
LEMMA CountedTypes ==
  ASSUME NEW entry, Counted(entry)
  PROVE  entry.total_stake \in 0..InitialSet.total_stake
<1> DEFINE S == DOMAIN entry.signatures
           f == StakeOf(InitialSet)
<1>1. S \subseteq Active(InitialSet) /\ entry.total_stake = StakeSum(S, f)
  BY DEF Counted
<1>2. StakeSum(S, f) <= StakeSum(Active(InitialSet), f)
  BY <1>1, InitialStakes, StakeSumMonotone
<1>3. IsFiniteSet(S) /\ \A id \in S : f[id] \in Nat
  BY <1>1, InitialStakes, FS_Subset
<1>4. StakeSum(S, f) \in Nat
  BY <1>3, StakeSumType
<1> QED
  BY <1>1, <1>2, <1>4, InitialStakes

VotesTyped(votes) ==
  \A key \in DOMAIN votes :
    /\ DOMAIN votes[key].signatures \subseteq Active(InitialSet)
    /\ \A id \in DOMAIN votes[key].signatures :
         votes[key].signatures[id] \in Keys \cup {forged}
    /\ votes[key].total_stake \in 0..InitialSet.total_stake

\* Counted votes have the types EngineTypeOK asks for.
LEMMA CountedVotesTyped ==
  ASSUME NEW votes, CountedVotes(votes)
  PROVE  VotesTyped(votes)
BY CountedTypes DEF CountedVotes, Counted, VotesTyped

\* Storing a block keeps index and store together.
LEMMA StoreIndexed ==
  ASSUME NEW block, StoreBlock(block), block.header.height \in Nat,
         \A n \in DOMAIN height_index : height_index[n] \in DOMAIN block_store,
         \A hash \in DOMAIN block_store : hash.height \in Nat
  PROVE  /\ \A n \in DOMAIN height_index' : height_index'[n] \in DOMAIN block_store'
         /\ \A hash \in DOMAIN block_store' : hash.height \in Nat
<1>1. DOMAIN block_store' = DOMAIN block_store \cup {block.header}
  BY DEF StoreBlock
<1>2. \A n \in DOMAIN height_index' :
        \/ n \in DOMAIN height_index /\ height_index'[n] = height_index[n]
        \/ height_index'[n] = block.header
  BY DEF StoreBlock
<1> QED
  BY <1>1, <1>2

\* The engine after construction and set_genesis_block.
LEMMA EngineInit == Init => EngineInv
<1> SUFFICES ASSUME Init PROVE EngineInv
  OBVIOUS
<1>1. EngineTypeOK
  <2>1. IsValidatorSet(current_set)
    BY EngineConstants DEF Init
  <2>2. IsCertificate(highest_qc)
    <3>1. DOMAIN << >> = {}
      OBVIOUS
    <3> QED BY <3>1 DEF Init, GenesisQC, IsCertificate
  <2>3. DOMAIN votes_by_block = {}
    BY DEF Init
  <2>4. \A n \in DOMAIN height_index : height_index[n] \in DOMAIN block_store
    BY DEF Init
  <2> QED
    BY <2>1, <2>2, <2>3, <2>4 DEF Init, EngineTypeOK
<1>2. HeightsOK
  BY DEF Init, HeightsOK, GenesisHash
<1>3. CountedVotes(votes_by_block)
  BY DEF Init, CountedVotes
<1>4. FinalityImpliesQC
  BY DEF Init, FinalityImpliesQC
<1> QED
  BY <1>1, <1>2, <1>3, <1>4 DEF EngineInv

\* propose_block
LEMMA ProposeKeeps ==
  ASSUME EngineInv, NEW timestamp \in Timestamps, ProposeBlock(timestamp)
  PROVE  EngineInv'
<1> DEFINE parent == IF current_height > 0 THEN height_index[current_height] ELSE zero
           block == [header |-> [height |-> current_height + 1,
                                 timestamp |-> timestamp,
                                 previous_hash |-> parent, proposer |-> self],
                     justify |-> highest_qc]
<1>1. StoreBlock(block) /\ network' = network \cup {block}
  BY DEF ProposeBlock
<1>2. block.header.height \in Nat
  BY DEF EngineInv, EngineTypeOK
<1>3. UNCHANGED <<current_set, current_view, current_height, finalityVars,
                  votes_by_block>>
  BY DEF ProposeBlock
<1> HIDE DEF block
<1>4. /\ \A n \in DOMAIN height_index' : height_index'[n] \in DOMAIN block_store'
      /\ \A hash \in DOMAIN block_store' : hash.height \in Nat
  BY <1>1, <1>2, StoreIndexed DEF EngineInv, EngineTypeOK, HeightsOK
<1>5. EngineTypeOK'
  BY <1>3, <1>4 DEF EngineInv, EngineTypeOK, finalityVars, IsCertificate,
                    IsValidatorSet, Active, StakeOf
<1>6. HeightsOK'
  BY <1>1, <1>2, <1>4 DEF EngineInv, HeightsOK
<1>7. CountedVotes(votes_by_block)' /\ FinalityImpliesQC'
  BY <1>3 DEF EngineInv, finalityVars, FinalityImpliesQC, SignersOf
<1> QED
  BY <1>5, <1>6, <1>7 DEF EngineInv

\* A peer's block.
LEMMA PeerBlockKeeps ==
  ASSUME EngineInv, NEW header \in PeerHeaders, NEW qc,
         PeerBlock([header |-> header, justify |-> qc])
  PROVE  EngineInv'
<1>1. UNCHANGED <<current_set, current_view, chainVars, finalityVars, votes_by_block>>
  BY DEF PeerBlock
<1>2. header.height \in Nat
  BY DEF EngineInv, HeightsOK, PeerHeaders
<1>3. \A block \in network' : block.header.height \in Nat
  BY <1>2 DEF PeerBlock, EngineInv, HeightsOK
<1>4. EngineTypeOK'
  BY <1>1 DEF EngineInv, EngineTypeOK, chainVars, finalityVars
<1>5. HeightsOK'
  BY <1>1, <1>3 DEF EngineInv, HeightsOK, chainVars
<1>6. CountedVotes(votes_by_block)' /\ FinalityImpliesQC'
  BY <1>1 DEF EngineInv, finalityVars, FinalityImpliesQC, SignersOf
<1> QED
  BY <1>4, <1>5, <1>6 DEF EngineInv

\* on_receive_block
LEMMA ReceiveBlockKeeps ==
  ASSUME EngineInv, NEW block \in network, ReceiveBlock(block)
  PROVE  EngineInv'
<1>1. /\ StoreBlock(block)
      /\ block.header.height \in Nat
      /\ current_height' \in {block.header.height, current_height}
  BY DEF ReceiveBlock, EngineInv, HeightsOK
<1>2. UNCHANGED <<current_set, current_view, finalityVars, votes_by_block, network>>
  BY DEF ReceiveBlock
<1>3. /\ \A n \in DOMAIN height_index' : height_index'[n] \in DOMAIN block_store'
      /\ \A hash \in DOMAIN block_store' : hash.height \in Nat
  BY <1>1, StoreIndexed DEF EngineInv, EngineTypeOK, HeightsOK
<1>4. EngineTypeOK'
  BY <1>1, <1>2, <1>3 DEF EngineInv, EngineTypeOK, finalityVars
<1>5. HeightsOK'
  BY <1>2, <1>3 DEF EngineInv, HeightsOK
<1>6. CountedVotes(votes_by_block)' /\ FinalityImpliesQC'
  BY <1>2 DEF EngineInv, finalityVars, FinalityImpliesQC, SignersOf
<1> QED
  BY <1>4, <1>5, <1>6 DEF EngineInv

\* on_receive_vote: the one step that finalizes.
LEMMA ReceiveVoteKeeps ==
  ASSUME EngineInv, NEW id, NEW height \in 0..MaxHeight, NEW hash,
         NEW signature \in Keys \cup {forged},
         ReceiveVote(VoteOf(id, height, hash, signature))
  PROVE  EngineInv'
<1> DEFINE vote == VoteOf(id, height, hash, signature)
           new == WithVote(vote, votes_by_block)
           qc == AggregateVotes(new, vote.key)
<1>1. /\ Addable(vote, votes_by_block)
      /\ votes_by_block' = new
      /\ UNCHANGED <<current_set, current_view, chainVars, network>>
      /\ IF HasSupermajority(new, vote.key)
         THEN MarkFinalized(vote.key.hash, qc) ELSE UNCHANGED finalityVars
  BY DEF ReceiveVote
<1>2. /\ vote.key.height \in Nat
      /\ vote.signature \in Keys \cup {forged}
  BY EngineConstants DEF VoteOf
<1> HIDE DEF vote
<1>3. /\ CountedVotes(new) /\ Kept(votes_by_block, new)
      /\ vote.key \in DOMAIN new
  BY <1>1, <1>2, AddVoteCounted DEF EngineInv
<1> HIDE DEF new
<1>4. QuorumSigned(new, finalized_blocks)
  <2>1. QuorumSigned(votes_by_block, finalized_blocks)
    BY DEF EngineInv, FinalityImpliesQC, SignersOf, QuorumSigned
  <2> QED
    BY <1>3, <2>1, QuorumsKept
<1>5. /\ qc.block_height \in Nat
      /\ IsCertificate(qc)
  <2>1. VotesTyped(new)
    BY <1>3, CountedVotesTyped
  <2>2. /\ DOMAIN new[vote.key].signatures \subseteq Active(InitialSet)
        /\ \A x \in DOMAIN new[vote.key].signatures :
             new[vote.key].signatures[x] \in Keys \cup {forged}
        /\ new[vote.key].total_stake \in Nat
    BY <1>3, <2>1, InitialStakes DEF VotesTyped
  <2>3. /\ qc.block_height = vote.key.height
        /\ qc.signatures = new[vote.key].signatures
        /\ qc.total_stake_signed = new[vote.key].total_stake
    BY <1>3 DEF AggregateVotes, VotesFor
  <2> HIDE DEF qc
  <2> QED
    BY <1>2, <2>2, <2>3 DEF IsCertificate
<1>6. /\ IsCertificate(highest_qc') /\ finalized_height' \in Nat
      /\ QuorumSigned(new, finalized_blocks')
  <2>1. CASE HasSupermajority(new, vote.key) /\ VerifyQC(qc, current_set)
    <3>1. StakeSum(SignersIn(new, vote.key.hash), StakeOf(InitialSet)) >=
            RequiredStake(InitialSet.total_stake)
      BY <1>3, <2>1, CertificateSigned DEF EngineInv, EngineTypeOK
    <3>2. SignersIn(new, vote.key.hash) \subseteq Active(InitialSet)
      BY <1>3 DEF CountedVotes, Counted, SignersIn
    <3>3. /\ finalized_blocks' = finalized_blocks \cup {vote.key.hash}
          /\ \/ highest_qc' = qc /\ finalized_height' = qc.block_height
             \/ UNCHANGED <<highest_qc, finalized_height>>
      BY <1>1, <2>1 DEF MarkFinalized
    <3>4. QuorumSigned(new, finalized_blocks')
      BY <1>4, <3>1, <3>2, <3>3 DEF QuorumSigned
    <3> HIDE DEF qc
    <3> QED
      BY <1>5, <3>3, <3>4 DEF EngineInv, EngineTypeOK
  <2>2. CASE ~(HasSupermajority(new, vote.key) /\ VerifyQC(qc, current_set))
    <3>1. UNCHANGED finalityVars
      BY <1>1, <2>2 DEF MarkFinalized
    <3> QED
      BY <1>4, <3>1 DEF EngineInv, EngineTypeOK, finalityVars
  <2> QED
    BY <2>1, <2>2
<1>7. VotesTyped(votes_by_block')
  BY <1>1, <1>3, CountedVotesTyped
<1>8. EngineTypeOK'
  BY <1>1, <1>6, <1>7 DEF EngineInv, EngineTypeOK, chainVars, VotesTyped
<1>9. HeightsOK'
  BY <1>1 DEF EngineInv, HeightsOK, chainVars
<1>10. CountedVotes(votes_by_block')
  BY <1>1, <1>3
<1>11. FinalityImpliesQC'
  BY <1>1, <1>6 DEF FinalityImpliesQC, QuorumSigned, SignersOf
<1> QED
  BY <1>8, <1>9, <1>10, <1>11 DEF EngineInv

\* Steps that touch neither blocks nor votes.
LEMMA OtherStepsKeep ==
  ASSUME EngineInv,
         \/ TriggerViewChange
         \/ \E set \in ValidatorSets : RegistryChanges(set)
         \/ UNCHANGED engineVars
  PROVE  EngineInv'
<1>1. UNCHANGED <<chainVars, finalityVars, votes_by_block, network>>
  BY DEF TriggerViewChange, RegistryChanges, engineVars
<1>2. current_view' \in Nat
  BY DEF EngineInv, EngineTypeOK, TriggerViewChange, RegistryChanges, engineVars
<1>3. current_set' = current_set \/ current_set' \in ValidatorSets
  BY DEF TriggerViewChange, RegistryChanges, engineVars
<1>4. IsValidatorSet(current_set')
  BY <1>3, EngineConstants DEF EngineInv, EngineTypeOK
<1>5. EngineTypeOK'
  BY <1>1, <1>2, <1>4 DEF EngineInv, EngineTypeOK, chainVars, finalityVars
<1>6. HeightsOK' /\ CountedVotes(votes_by_block)' /\ FinalityImpliesQC'
  BY <1>1 DEF EngineInv, HeightsOK, FinalityImpliesQC, SignersOf, chainVars,
              finalityVars
<1> QED
  BY <1>5, <1>6 DEF EngineInv

\* Every step of the engine keeps the invariant.
LEMMA EngineStep == EngineInv /\ [Next]_engineVars => EngineInv'
<1> SUFFICES ASSUME EngineInv, [Next]_engineVars PROVE EngineInv'
  OBVIOUS
<1>1. CASE \E timestamp \in Timestamps : ProposeBlock(timestamp)
  BY <1>1, ProposeKeeps
<1>2. CASE \E header \in PeerHeaders, qc \in Certificates :
             PeerBlock([header |-> header, justify |-> qc])
  BY <1>2, PeerBlockKeeps
<1>3. CASE \E block \in network : ReceiveBlock(block)
  BY <1>3, ReceiveBlockKeeps
<1>4. CASE \E id \in ValidatorIDs, block \in network, height \in 0..MaxHeight,
              signature \in Keys \cup {forged} :
             ReceiveVote(VoteOf(id, height, block.header, signature))
  BY <1>4, ReceiveVoteKeeps
<1>5. CASE \/ TriggerViewChange
           \/ \E set \in ValidatorSets : RegistryChanges(set)
           \/ UNCHANGED engineVars
  BY <1>5, OtherStepsKeep
<1> QED
  BY <1>1, <1>2, <1>3, <1>4, <1>5 DEF Next

\* The engine's types, and finality backed by two thirds of the stake, in every
\* reachable state: for any validators, keys, stakes and later sets, with any
\* number of faulty validators.
THEOREM EngineFinality == Spec => [](EngineTypeOK /\ FinalityImpliesQC)
<1>1. EngineInv => EngineTypeOK /\ FinalityImpliesQC
  BY DEF EngineInv
<1> QED
  BY EngineInit, EngineStep, <1>1, PTL DEF Spec

\* Two quorums for one height convict a third of the stake.
LEMMA QuorumsConvict == FinalityImpliesQC => AccountableSafety
<1> SUFFICES ASSUME FinalityImpliesQC,
                    NEW b \in finalized_blocks \ {GenesisHash},
                    NEW c \in finalized_blocks \ {GenesisHash}
             PROVE  3 * StakeSum(SignersOf(b) \cap SignersOf(c), StakeOf(InitialSet))
                      >= InitialSet.total_stake
  BY DEF AccountableSafety
<1>1. /\ SignersOf(b) \in SUBSET Active(InitialSet)
      /\ SignersOf(c) \in SUBSET Active(InitialSet)
      /\ StakeSum(SignersOf(b), StakeOf(InitialSet)) >=
           RequiredStake(InitialSet.total_stake)
      /\ StakeSum(SignersOf(c), StakeOf(InitialSet)) >=
           RequiredStake(InitialSet.total_stake)
  BY DEF FinalityImpliesQC
<1> QED
  BY <1>1, InitialStakes, QuorumsIntersect

\* Accountable safety of finalization: whenever two different blocks are
\* finalized at one height, a third of the stake has signed both.
THEOREM EngineAccountability == Spec => []AccountableSafety
BY EngineFinality, QuorumsConvict, PTL

-----------------------------------------------------------------------------
(* The finalized height, when faulty validators are no quorum *)

\* Votes of validators that are not faulty state the height of their block.
HonestHeights(votes) ==
  \A key \in DOMAIN votes : \A id \in DOMAIN votes[key].signatures :
    id \in Faulty \/ key.height = key.hash.height

FaultyNoQuorum ==
  StakeSum(Active(InitialSet) \cap Faulty, StakeOf(InitialSet)) <
    RequiredStake(InitialSet.total_stake)

HeightInv ==
  /\ FinalizedHeightTracksQC
  /\ HonestHeights(votes_by_block)
  /\ \A hash \in finalized_blocks : hash.height \in Nat

\* A quorum has a member that is not faulty, so its certificate states the
\* height of its block.
LEMMA QuorumHeight ==
  ASSUME FaultyNoQuorum, NEW votes, CountedVotes(votes), HonestHeights(votes),
         NEW key \in DOMAIN votes, HasSupermajority(votes, key)
  PROVE  key.height = key.hash.height
<1> DEFINE S == DOMAIN votes[key].signatures
           f == StakeOf(InitialSet)
           F == Active(InitialSet) \cap Faulty
<1>1. S \subseteq Active(InitialSet) /\ votes[key].total_stake = StakeSum(S, f)
  BY DEF CountedVotes, Counted
<1>2. StakeSum(S, f) >= RequiredStake(InitialSet.total_stake)
  BY <1>1 DEF HasSupermajority, VotesFor
<1>3. ASSUME S \subseteq Faulty PROVE FALSE
  <2>1. S \subseteq F /\ F \subseteq Active(InitialSet)
    BY <1>1, <1>3
  <2>2. StakeSum(S, f) <= StakeSum(F, f)
    BY <2>1, InitialStakes, StakeSumMonotone
  <2>3. /\ IsFiniteSet(S) /\ \A id \in S : f[id] \in Nat
        /\ IsFiniteSet(F) /\ \A id \in F : f[id] \in Nat
    BY <2>1, InitialStakes, FS_Subset
  <2>4. StakeSum(S, f) \in Nat /\ StakeSum(F, f) \in Nat
    BY <2>3, StakeSumType
  <2>5. RequiredStake(InitialSet.total_stake) \in Nat
    BY InitialStakes DEF RequiredStake
  <2>6. StakeSum(F, f) < RequiredStake(InitialSet.total_stake)
    BY DEF FaultyNoQuorum
  <2> HIDE DEF S, f, F
  <2> QED
    BY <1>2, <2>2, <2>4, <2>5, <2>6
<1>4. PICK id \in S : id \notin Faulty
  BY <1>3
<1> QED
  BY <1>4 DEF HonestHeights

\* A vote that arrives keeps the heights stated right.
LEMMA VoteHeights ==
  ASSUME NEW vote, MayVote(vote), HonestHeights(votes_by_block),
         Addable(vote, votes_by_block)
  PROVE  HonestHeights(WithVote(vote, votes_by_block))
<1> DEFINE new == WithVote(vote, votes_by_block)
<1>1. vote.validator_id \in Faulty \/ vote.key.height = vote.key.hash.height
  BY DEF MayVote
<1> SUFFICES ASSUME NEW key \in DOMAIN new, NEW id \in DOMAIN new[key].signatures
             PROVE  id \in Faulty \/ key.height = key.hash.height
  BY DEF HonestHeights
<1>2. DOMAIN NoVotes.signatures = {}
  BY DEF NoVotes
<1>3. CASE key = vote.key
  <2>1. new[key] = Extended(vote, VotesFor(votes_by_block, key))
    BY <1>3 DEF WithVote
  <2>2. id = vote.validator_id \/ id \in DOMAIN VotesFor(votes_by_block, key).signatures
    BY <2>1 DEF Extended
  <2>3. CASE id \in DOMAIN VotesFor(votes_by_block, key).signatures
    BY <1>2, <2>3 DEF VotesFor, HonestHeights
  <2> QED
    BY <1>1, <1>3, <2>2, <2>3
<1>4. CASE key # vote.key
  BY <1>4 DEF WithVote, HonestHeights
<1> QED
  BY <1>3, <1>4

\* Every step keeps the finalized height with the highest certificate.
LEMMA HeightStep ==
  ASSUME FaultyNoQuorum
  PROVE  EngineInv /\ HeightInv /\ [Next]_engineVars => HeightInv'
<1> SUFFICES ASSUME EngineInv, HeightInv, [Next]_engineVars
             PROVE  HeightInv'
  OBVIOUS
<1>1. CASE UNCHANGED <<finalityVars, votes_by_block>>
  BY <1>1 DEF HeightInv, FinalizedHeightTracksQC, finalityVars
<1>2. ASSUME NEW id, NEW height \in 0..MaxHeight, NEW hash,
             NEW signature \in Keys \cup {forged},
             ReceiveVote(VoteOf(id, height, hash, signature))
      PROVE  HeightInv'
  <2> DEFINE vote == VoteOf(id, height, hash, signature)
             new == WithVote(vote, votes_by_block)
             qc == AggregateVotes(new, vote.key)
  <2>1. /\ MayVote(vote) /\ Addable(vote, votes_by_block)
        /\ votes_by_block' = new
        /\ IF HasSupermajority(new, vote.key)
           THEN MarkFinalized(vote.key.hash, qc) ELSE UNCHANGED finalityVars
    BY <1>2 DEF ReceiveVote
  <2>2. vote.key.height \in Nat /\ vote.signature \in Keys \cup {forged}
    BY EngineConstants DEF VoteOf
  <2> HIDE DEF vote
  <2>3. CountedVotes(new) /\ vote.key \in DOMAIN new
    BY <2>1, <2>2, AddVoteCounted DEF EngineInv
  <2>4. HonestHeights(new)
    BY <2>1, VoteHeights DEF HeightInv
  <2> HIDE DEF new
  <2>5. qc.block_height = vote.key.height /\ qc.block_hash = vote.key.hash
    BY DEF AggregateVotes
  <2> HIDE DEF qc
  <2>6. FinalizedHeightTracksQC' /\ \A h \in finalized_blocks' : h.height \in Nat
    <3>1. CASE UNCHANGED finalityVars
      BY <3>1 DEF HeightInv, FinalizedHeightTracksQC, finalityVars
    <3>2. CASE HasSupermajority(new, vote.key) /\ VerifyQC(qc, current_set)
      <4>1. vote.key.height = vote.key.hash.height
        BY <2>3, <2>4, <3>2, QuorumHeight
      <4>2. /\ finalized_blocks' = finalized_blocks \cup {vote.key.hash}
            /\ IF qc.block_height > highest_qc.block_height
               THEN highest_qc' = qc /\ finalized_height' = qc.block_height
               ELSE UNCHANGED <<highest_qc, finalized_height>>
        BY <2>1, <3>2 DEF MarkFinalized
      <4>3. /\ finalized_height = highest_qc.block_height
            /\ finalized_height \in Nat
            /\ highest_qc.block_hash \in finalized_blocks
            /\ \A h \in finalized_blocks : h.height <= finalized_height /\ h.height \in Nat
        BY DEF HeightInv, FinalizedHeightTracksQC, EngineInv, EngineTypeOK
      <4>4. CASE qc.block_height > highest_qc.block_height
        <5>1. \A h \in finalized_blocks' : h.height <= finalized_height'
          <6> SUFFICES ASSUME NEW h \in finalized_blocks
                       PROVE  h.height <= qc.block_height
            BY <2>2, <2>5, <4>1, <4>2, <4>4
          <6>1. h.height \in Nat
            BY DEF HeightInv
          <6> QED
            BY <2>2, <2>5, <4>3, <4>4, <6>1
        <5> QED
          BY <2>2, <2>5, <4>1, <4>2, <4>3, <4>4, <5>1 DEF FinalizedHeightTracksQC
      <4>5. CASE ~(qc.block_height > highest_qc.block_height)
        BY <2>2, <2>5, <4>1, <4>2, <4>3, <4>5 DEF FinalizedHeightTracksQC
      <4> QED
        BY <4>4, <4>5
    <3> QED
      BY <2>1, <3>1, <3>2 DEF MarkFinalized
  <2> QED
    BY <2>1, <2>4, <2>6 DEF HeightInv
<1>3. CASE \E id \in ValidatorIDs, block \in network, height \in 0..MaxHeight,
              signature \in Keys \cup {forged} :
             ReceiveVote(VoteOf(id, height, block.header, signature))
  BY <1>2, <1>3
<1>4. CASE ~ \E id \in ValidatorIDs, block \in network, height \in 0..MaxHeight,
                signature \in Keys \cup {forged} :
               ReceiveVote(VoteOf(id, height, block.header, signature))
  <2>1. UNCHANGED <<finalityVars, votes_by_block>>
    BY <1>4 DEF Next, ProposeBlock, PeerBlock, ReceiveBlock, TriggerViewChange,
                RegistryChanges, engineVars
  <2> QED
    BY <1>1, <2>1
<1> QED
  BY <1>3, <1>4

\* finalized_height_ is the height of the highest certificate and of the
\* highest finalized block, in every run in which the faulty validators have
\* less than two thirds of the stake.
THEOREM EngineHeight ==
  ASSUME FaultyNoQuorum
  PROVE  Spec => []FinalizedHeightTracksQC
<1>1. Init => HeightInv
  BY DEF Init, HeightInv, FinalizedHeightTracksQC, HonestHeights, GenesisQC,
         GenesisHash
<1>2. EngineInv /\ HeightInv /\ [Next]_engineVars => HeightInv'
  BY HeightStep
<1>3. HeightInv => FinalizedHeightTracksQC
  BY DEF HeightInv
<1> QED
  BY EngineInit, EngineStep, <1>1, <1>2, <1>3, PTL DEF Spec
=============================================================================
