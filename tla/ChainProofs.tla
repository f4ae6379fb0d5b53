---------------------------- MODULE ChainProofs ----------------------------
(***************************************************************************)
(* Proofs about the chain outside the consensus engine.                    *)
(*                                                                         *)
(* The block store: its checkpoints and its readers, for every validator   *)
(* set, period, age and interval, and however the pruner, the writers and  *)
(* the readers share the database.                                         *)
(*                                                                         *)
(* The light client: it stays on the chain, for every validator set, stake *)
(* and epoch length, as long as no epoch's faulty validators have two      *)
(* thirds of its stake.  The argument: whoever signs a block off the chain *)
(* is faulty, a set of faulty signers has no more stake than all faulty    *)
(* members of the epoch (StakeSumMonotone), and that is too little for     *)
(* verify_header (NoForkVerified).                                         *)
(*                                                                         *)
(* Both rest on what SharedProofs shows of Merkle trees of every size:     *)
(* proofs verify (ProofsVerify) and a root binds its list up to            *)
(* repetitions (RootBinds).                                                *)
(***************************************************************************)
EXTENDS BlockStore, LightClient, SharedProofs

-----------------------------------------------------------------------------
(* The block store *)

tipHeight == tip.header.height

\* A checkpoint names a block of the chain, which is there as long as it is
\* not older than the weak subjectivity period.
Held(k) ==
    /\ k.block_height \in Nat /\ k.block_height <= tipHeight
    /\ k.block_hash.height = k.block_height
    /\ k.state_root = k.block_hash.state_root
    /\ k.block_height + WeakSubjectivityPeriod >= tipHeight =>
          k.block_height \in DOMAIN blocks /\ blocks[k.block_height].header = k.block_hash

\* The newest block is there, and a block half put is the next one.
TipInv ==
    /\ tipHeight \in Nat
    /\ tipHeight \in DOMAIN blocks /\ blocks[tipHeight].header = tip.header
    /\ putting # <<>> => putting[1].header.height = tipHeight + 1

\* The pruner stays below the horizon it worked out when it started, and the
\* chain has only grown since.
PrunerInv ==
    /\ pruned_until \in Nat
    /\ pruner = [pc |-> pruner.pc, height |-> pruner.height, until |-> pruner.until, txs |-> pruner.txs]
    /\ pruner.height \in Nat /\ pruner.until \in Nat
    /\ pruner.pc # "idle" => pruner.until + WeakSubjectivityPeriod <= tipHeight
    /\ pruner.pc = "receipts" => pruner.height < pruner.until

CheckpointInv ==
    \A c \in SeqSet(checkpoint) : VerifyCheckpoint(c, SetStakes) => Held(c.checkpoint)

StoreInv == TipInv /\ PrunerInv /\ CheckpointInv

LEMMA StoreInvInit == StoreInit => StoreInv
<1> SUFFICES ASSUME StoreInit PROVE StoreInv
    OBVIOUS
<1>1. TipInv
    BY DEF StoreInit, TipInv, tipHeight, GenesisBlock
<1>2. PrunerInv
    BY BlockStoreAssumption DEF StoreInit, PrunerInv, Idle
<1>3. CheckpointInv
    BY DEF StoreInit, CheckpointInv, SeqSet
<1> QED
    BY <1>1, <1>2, <1>3 DEF StoreInv

\* Storing the next block moves the tip and disturbs nothing older.
LEMMA StoreNextBlock ==
    ASSUME StoreInv, NEW block, block.header.height = tipHeight + 1,
           blocks' = PutBlock(block), tip' = block, putting' = <<>>,
           UNCHANGED <<pruned_until, pruner, checkpoint>>
    PROVE  StoreInv'
<1>1. tipHeight' = tipHeight + 1 /\ tipHeight \in Nat
    BY DEF tipHeight, StoreInv, TipInv
<1>2. /\ DOMAIN blocks' = DOMAIN blocks \cup {tipHeight + 1}
      /\ blocks'[tipHeight + 1] = block
      /\ \A h \in DOMAIN blocks : h # tipHeight + 1 => blocks'[h] = blocks[h]
    BY DEF PutBlock
<1>3. TipInv'
    BY <1>1, <1>2 DEF TipInv, tipHeight
<1>4. PrunerInv'
    BY <1>1, BlockStoreAssumption DEF StoreInv, PrunerInv
<1>5. ASSUME NEW k, Held(k) PROVE Held(k)'
    BY <1>1, <1>2, <1>5, BlockStoreAssumption DEF Held
<1>6. CheckpointInv'
    BY <1>5 DEF StoreInv, CheckpointInv
<1> QED
    BY <1>3, <1>4, <1>6 DEF StoreInv

\* A step of the pruner that deletes at most a block below the horizon.
LEMMA PruneStep ==
    ASSUME StoreInv, PrunerInv', UNCHANGED <<tip, putting, checkpoint>>,
           NEW h \in Int, h + WeakSubjectivityPeriod < tipHeight,
           blocks' = blocks \/ blocks' = DelBlock(h)
    PROVE  StoreInv'
<1>1. tipHeight' = tipHeight /\ tipHeight \in Nat /\ WeakSubjectivityPeriod \in Nat
    BY BlockStoreAssumption DEF tipHeight, StoreInv, TipInv
<1>2. /\ \A i \in DOMAIN blocks : i # h => i \in DOMAIN blocks' /\ blocks'[i] = blocks[i]
    BY DEF DelBlock
<1>3. TipInv'
    BY <1>1, <1>2 DEF StoreInv, TipInv
<1>4. ASSUME NEW k, Held(k) PROVE Held(k)'
    BY <1>1, <1>2, <1>4 DEF Held
<1>5. CheckpointInv'
    BY <1>4 DEF StoreInv, CheckpointInv
<1> QED
    BY <1>3, <1>5 DEF StoreInv

\* A checkpoint that verifies is signed by someone who is not faulty.
LEMMA NoForgedCheckpoint ==
    ASSUME NEW k, NEW signers, signers \subseteq Faulty
    PROVE  ~VerifyCheckpoint(AggregateSignatures(k, signers, SetStakes), SetStakes)
<1> DEFINE D == DOMAIN SetStakes
           S == signers \cap D
           F == Faulty \cap D
<1>1. IsFiniteSet(D) /\ S \subseteq F /\ F \subseteq D /\ \A v \in F : SetStakes[v] \in Nat
    BY BlockStoreAssumption
<1>2. IsFiniteSet(F)
    BY <1>1, FS_Subset
<1>3. StakeSum(S, SetStakes) <= StakeSum(F, SetStakes) /\ StakeSum(S, SetStakes) \in Nat /\ StakeSum(F, SetStakes) \in Nat
    BY <1>1, <1>2, FS_Subset, StakeSumMonotone, StakeSumType
<1>4. ~(StakeSum(F, SetStakes) >= RequiredStake(SetStake(SetStakes)))
    BY FaultyStakeAssumption DEF Aggregable, Sum
<1>5. RequiredStake(SetStake(SetStakes)) \in Int
    BY <1>1, BlockStoreAssumption, StakeSumType DEF RequiredStake, SetStake
<1>6. AggregateSignatures(k, signers, SetStakes).total_stake_signed = StakeSum(S, SetStakes)
    BY DEF AggregateSignatures, Sum
<1> HIDE DEF S, F
<1>7. ~(StakeSum(S, SetStakes) >= RequiredStake(SetStake(SetStakes)))
    BY <1>3, <1>4, <1>5
<1> QED
    BY <1>6, <1>7 DEF VerifyCheckpoint

LEMMA StoreInvNext == StoreInv /\ [StoreNext]_storeVars => StoreInv'
<1> SUFFICES ASSUME StoreInv, [StoreNext]_storeVars PROVE StoreInv'
    OBVIOUS
<1>0. WeakSubjectivityPeriod \in Nat /\ tipHeight \in Nat
    BY BlockStoreAssumption DEF StoreInv, TipInv
<1>1. CASE AcceptBlock
    <2>1. PICK block : /\ block.header.height = tipHeight + 1
                       /\ StoreBlockWithReceipts(block) /\ tip' = block
        BY <1>1 DEF AcceptBlock, ValidateBlock, VerifyBlockHeight, tipHeight
    <2>2. putting' = <<>> /\ UNCHANGED <<pruned_until, pruner, checkpoint>>
        BY <1>1 DEF AcceptBlock
    <2>3. blocks' = PutBlock(block)
        BY <2>1 DEF StoreBlockWithReceipts
    <2> QED
        BY <2>1, <2>2, <2>3, StoreNextBlock
<1>2. ASSUME NEW stake, SyncApplyBlock(stake) PROVE StoreInv'
    <2>1. PICK block : /\ block.header.height = tipHeight + 1
                       /\ blocks' = PutBlock(block) /\ putting' = <<block>>
        <3> DEFINE body == BodyOf[tip.header.height + 1]
                   header == NextHeader(tip, CHOOSE v \in DOMAIN SetStakes : SetStatus[v] = "Active",
                                        tip.header.timestamp + 1, body)
                   next == [header |-> header, transactions |-> body]
        <3>1. header.height = tipHeight + 1
            BY DEF NextHeader, tipHeight
        <3>2. blocks' = PutBlock(next) /\ putting' = <<next>>
            BY <1>2 DEF SyncApplyBlock, SyncPutFirst
        <3>3. next.header = header
            OBVIOUS
        <3> HIDE DEF next, header
        <3> QED
            BY <3>1, <3>2, <3>3
    <2>2. UNCHANGED <<tip, pruned_until, pruner, checkpoint>>
        BY <1>2 DEF SyncApplyBlock
    <2>3. /\ tipHeight' = tipHeight
          /\ \A h \in DOMAIN blocks : h # tipHeight + 1 => h \in DOMAIN blocks' /\ blocks'[h] = blocks[h]
        BY <2>1, <2>2 DEF PutBlock, tipHeight
    <2>4. TipInv'
        BY <1>0, <2>1, <2>2, <2>3 DEF StoreInv, TipInv
    <2>5. PrunerInv'
        BY <2>2, <2>3 DEF StoreInv, PrunerInv
    <2>6. ASSUME NEW k, Held(k) PROVE Held(k)'
        BY <1>0, <2>3, <2>6 DEF Held
    <2> QED
        BY <2>2, <2>4, <2>5, <2>6 DEF StoreInv, CheckpointInv
<1>3. CASE SyncFinishBlock
    <2>1. /\ putting[1].header.height = tipHeight + 1
          /\ blocks' = PutBlock(putting[1]) /\ tip' = putting[1] /\ putting' = <<>>
          /\ UNCHANGED <<pruned_until, pruner, checkpoint>>
        BY <1>3 DEF SyncFinishBlock, SyncPutSecond, StoreInv, TipInv
    <2> QED
        BY <2>1, StoreNextBlock
<1>4. CASE UNCHANGED <<tip, blocks, pruned_until, putting, pruner, checkpoint>>
    BY <1>4 DEF StoreInv, TipInv, PrunerInv, CheckpointInv, Held, tipHeight
<1>5. CASE PruneStart
    <2>1. pruner' = [pc |-> "scan", height |-> pruned_until,
                     until |-> tipHeight - WeakSubjectivityPeriod, txs |-> <<>>]
        BY <1>5 DEF PruneStart, Idle, tipHeight
    <2>2. tipHeight > WeakSubjectivityPeriod /\ UNCHANGED <<tip, blocks, pruned_until, putting, checkpoint>>
        BY <1>5 DEF PruneStart, database, tipHeight
    <2>3. PrunerInv'
        BY <1>0, <2>1, <2>2 DEF StoreInv, PrunerInv, tipHeight
    <2> QED
        BY <1>0, <2>2, <2>3 DEF StoreInv, TipInv, CheckpointInv, Held, tipHeight
<1>6. CASE PruneScan
    <2>1. /\ pruner.pc = "scan" /\ pruner.height < pruner.until
          /\ UNCHANGED <<tip, blocks, pruned_until, putting, checkpoint>>
        BY <1>6 DEF PruneScan, database
    <2>2. PrunerInv'
        <3>1. CASE pruner.height \in DOMAIN blocks
            <4>1. pruner' = [pc |-> "receipts", height |-> pruner.height, until |-> pruner.until,
                             txs |-> blocks[pruner.height].transactions]
                BY <1>6, <3>1 DEF PruneScan, StoreInv, PrunerInv
            <4> QED
                BY <2>1, <4>1 DEF StoreInv, PrunerInv, tipHeight
        <3>2. CASE pruner.height \notin DOMAIN blocks
            <4>1. pruner' = [pc |-> "scan", height |-> pruner.height + 1, until |-> pruner.until,
                             txs |-> pruner.txs]
                BY <1>6, <2>1, <3>2 DEF PruneScan, StoreInv, PrunerInv
            <4> QED
                BY <2>1, <4>1 DEF StoreInv, PrunerInv, tipHeight
        <3> QED
            BY <3>1, <3>2
    <2> QED
        BY <2>1, <2>2 DEF StoreInv, TipInv, CheckpointInv, Held, tipHeight
<1>7. CASE PruneReceipt
    <2>1. /\ pruner.pc = "receipts"
          /\ pruner' = [pc |-> "receipts", height |-> pruner.height, until |-> pruner.until,
                        txs |-> Tail(pruner.txs)]
          /\ UNCHANGED <<tip, blocks, pruned_until, putting, checkpoint>>
        BY <1>7 DEF PruneReceipt, StoreInv, PrunerInv
    <2>2. PrunerInv'
        BY <2>1 DEF StoreInv, PrunerInv, tipHeight
    <2> QED
        BY <2>1, <2>2 DEF StoreInv, TipInv, CheckpointInv, Held, tipHeight
<1>8. CASE PruneDelete
    <2>1. /\ pruner.pc = "receipts" /\ blocks' = DelBlock(pruner.height)
          /\ UNCHANGED <<tip, pruned_until, putting, checkpoint>>
        BY <1>8 DEF PruneDelete
    <2>2. pruner' = [pc |-> "scan", height |-> pruner.height + 1, until |-> pruner.until,
                     txs |-> pruner.txs]
        BY <1>8 DEF PruneDelete, StoreInv, PrunerInv
    <2>3. PrunerInv'
        BY <2>1, <2>2 DEF StoreInv, PrunerInv, tipHeight
    <2>4. pruner.height \in Int /\ pruner.height + WeakSubjectivityPeriod < tipHeight
        BY <1>0, <2>1 DEF StoreInv, PrunerInv
    <2> QED
        BY <2>1, <2>3, <2>4, PruneStep
<1>9. CASE PruneEnd
    <2>1. /\ pruned_until' = pruner.until /\ pruner' = Idle
          /\ UNCHANGED <<tip, blocks, putting, checkpoint>>
        BY <1>9 DEF PruneEnd
    <2>2. PrunerInv'
        BY <2>1 DEF StoreInv, PrunerInv, Idle
    <2> QED
        BY <2>1, <2>2 DEF StoreInv, TipInv, CheckpointInv, Held, tipHeight
<1>10. CASE MakeCheckpoint
    <2>1. UNCHANGED <<tip, blocks, pruned_until, putting, pruner>>
        BY <1>10 DEF MakeCheckpoint, database
    <2>2. PICK signers \in SUBSET DOMAIN SetStakes, forged \in BOOLEAN :
              /\ forged => signers \subseteq Faulty
              /\ checkpoint' = <<AggregateSignatures(ProduceCheckpoint(IF forged THEN Forged(tip) ELSE tip),
                                                     signers, SetStakes)>>
        BY <1>10 DEF MakeCheckpoint
    <2>3. PICK k : k = ProduceCheckpoint(IF forged THEN Forged(tip) ELSE tip)
        OBVIOUS
    <2> DEFINE c == AggregateSignatures(k, signers, SetStakes)
    <2>4. \A x \in SeqSet(checkpoint)' : x = c
        BY <2>2, <2>3 DEF SeqSet
    <2>5. VerifyCheckpoint(c, SetStakes) => ~forged
        BY <2>2, NoForgedCheckpoint
    <2>6. ~forged => Held(k)
        BY <2>3 DEF ProduceCheckpoint, Held, StoreInv, TipInv, tipHeight
    <2>7. c.checkpoint = k
        BY DEF AggregateSignatures
    <2> HIDE DEF c
    <2>8. Held(k) => Held(k)'
        BY <2>1 DEF Held, tipHeight
    <2>9. CheckpointInv'
        BY <2>4, <2>5, <2>6, <2>7, <2>8 DEF CheckpointInv
    <2> QED
        BY <2>1, <2>9 DEF StoreInv, TipInv, PrunerInv, tipHeight
<1>11. CASE ReadIndex \/ ReadBlock \/ ReadReturns
    BY <1>4, <1>11 DEF ReadIndex, ReadBlock, ReadReturns, database
<1>12. CASE UNCHANGED storeVars
    BY <1>4, <1>12 DEF storeVars
<1> QED
    BY <1>1, <1>2, <1>3, <1>5, <1>6, <1>7, <1>8, <1>9, <1>10, <1>11, <1>12 DEF StoreNext

\* Whatever the pruner, the writers and the readers do, and whatever faulty
\* validators sign: a checkpoint that verify_checkpoint accepts and
\* check_checkpoint_age finds young enough names a block that the node still
\* holds, and the test of the chain against it passes.
THEOREM CheckpointsHold == StoreSpec => []CheckpointsServable
<1>1. StoreInv => CheckpointsServable
    <2> SUFFICES ASSUME StoreInv, NEW c \in SeqSet(checkpoint), VerifyCheckpoint(c, SetStakes),
                        CheckCheckpointAge(c.checkpoint.block_height, tipHeight, MaxCheckpointAge)
                 PROVE  /\ c.checkpoint.block_height \in DOMAIN blocks
                        /\ ~RejectChainWithoutCheckpoint(c.checkpoint, blocks[c.checkpoint.block_height])
        BY DEF CheckpointsServable, tipHeight
    <2>1. Held(c.checkpoint) /\ tipHeight \in Nat
        BY DEF StoreInv, CheckpointInv, TipInv
    <2>2. c.checkpoint.block_height + WeakSubjectivityPeriod >= tipHeight
        BY <2>1, BlockStoreAssumption DEF CheckCheckpointAge, Held
    <2> QED
        BY <2>1, <2>2 DEF Held, RejectChainWithoutCheckpoint, VerifyChainIncludesCheckpoint
<1> QED
    BY StoreInvInit, StoreInvNext, <1>1, PTL DEF StoreSpec

-----------------------------------------------------------------------------
(* The light client *)

\* The client's state is the one of the chain's block at the height it holds,
\* and the chain has that block.  ClientOnChain alone is not inductive: that
\* the epoch of a header is one of the chain's needs the bound on heights.
LightInv ==
    /\ head \in Heights
    /\ state \in [current_epoch : Nat, validator_set_root : {state.validator_set_root},
                  finalized_height : Heights, finalized_block_hash : {state.finalized_block_hash}]
    /\ ClientOnChain

\* Epochs are natural numbers.
LEMMA EpochType ==
    ASSUME NEW h \in Heights
    PROVE  EpochOf(h) \in Nat /\ EpochOf(h) \in Epochs /\ h \in Nat
<1>1. EpochLength \in Nat \ {0} /\ MaxChainHeight \in Nat
    BY LightClientAssumption
<1>2. h \in Nat /\ EpochOf(h) \in Nat
    BY <1>1 DEF Heights, EpochOf
<1> QED
    BY <1>2 DEF Epochs

\* verify_header accepts no block off the chain, whoever signs it.
LEMMA NoForkVerified ==
    ASSUME NEW h \in Heights, NEW branch \in Branches,
           NEW signers \in SUBSET Members(EpochOf(h)),
           HasSupermajority(signers, TotalStake(EpochOf(h))),
           VerifyAggregatedSignature(BlockAt(h, branch), signers)
    PROVE  branch = "chain"
<1> DEFINE e == EpochOf(h)
           M == Members(e)
           F == FaultySigners \cap M
<1>1. e \in Epochs
    BY EpochType
<1>2. M \subseteq Validators
    <2>1. MembersOf[e] \in Seq(Validators)
        BY <1>1, LightClientAssumption
    <2> QED
        BY <2>1 DEF Members
<1>3. IsFiniteSet(M) /\ \A v \in M : Stake[v] \in Nat
    BY <1>2, LightClientAssumption, FS_Subset
<1>4. 3 * StakeSum(F, Stake) < 2 * TotalStake(e)
    BY <1>1, FaultyAssumption
<1>5. SUFFICES ASSUME branch # "chain" PROVE FALSE
    OBVIOUS
<1>6. signers \subseteq F
    BY <1>5 DEF VerifyAggregatedSignature, Signs, BlockAt
<1>7. StakeSum(signers, Stake) <= StakeSum(F, Stake)
    BY <1>3, <1>6, StakeSumMonotone
<1>8. StakeSum(signers, Stake) \in Nat /\ StakeSum(F, Stake) \in Nat /\ TotalStake(e) \in Nat
    BY <1>3, <1>6, StakeSumType, FS_Subset DEF TotalStake
<1>9. 3 * StakeSum(signers, Stake) >= 2 * TotalStake(e)
    BY DEF HasSupermajority
<1> HIDE DEF e, F
<1> QED
    BY <1>4, <1>7, <1>8, <1>9

\* A light client is on the chain at first.
LEMMA LightInvInit == LightInit => LightInv
<1>1. 0 \in Heights
    BY LightClientAssumption DEF Heights
<1>2. EpochOf(0) = 0
    BY LightClientAssumption DEF EpochOf
<1> QED
    BY <1>1, <1>2 DEF LightInit, LightInv, ClientOnChain, LightClientState

\* Every step of the client, of its owner and of the chain keeps it there.
LEMMA LightInvNext == LightInv /\ [LightNext]_lightVars => LightInv'
<1> SUFFICES ASSUME LightInv, [LightNext]_lightVars
             PROVE  LightInv'
    OBVIOUS
<1> USE DEF LightInv, ClientOnChain
<1>0. /\ MaxChainHeight \in Nat
      /\ \A h \in 0..head : h \in Heights /\ EpochOf(h) \in Nat
    BY LightClientAssumption, EpochType DEF Heights
<1>1. CASE Extend
    BY <1>0, <1>1 DEF Extend, Heights
<1>2. ASSUME NEW h \in 0..head, Initialize(h)
      PROVE  LightInv'
    BY <1>0, <1>2 DEF Initialize, LightClientState
<1>3. CASE Restart
    <2>1. 0 \in Heights /\ EpochOf(0) = 0
        BY LightClientAssumption DEF Heights, EpochOf
    <2> QED
        BY <1>3, <2>1 DEF Restart, LightClientState
<1>4. ASSUME NEW h \in 0..head, ReceiveHeader(h)
      PROVE  LightInv'
    <2>1. PICK branch \in Branches, signers \in SUBSET Members(EpochOf(h)) :
              VerifyHeader(BlockAt(h, branch), signers)
        BY <1>4 DEF ReceiveHeader
    <2>2. HeaderVerified(BlockAt(h, branch), signers) /\ BlockAt(h, branch).height = h
        BY <2>1 DEF VerifyHeader, BlockAt
    <2>3. branch = "chain"
        BY <1>0, <2>2, NoForkVerified DEF HeaderVerified
    <2>4. EpochOf(h) = state.current_epoch
        BY <2>2 DEF HeaderVerified
    <2>5. state' = [state EXCEPT !.finalized_height = h, !.finalized_block_hash = BlockAt(h, "chain")]
          /\ UNCHANGED head
        BY <2>1, <2>2, <2>3 DEF VerifyHeader
    <2>6. /\ state'.current_epoch = EpochOf(h) /\ state'.finalized_height = h
          /\ state'.finalized_block_hash = BlockAt(h, "chain")
        BY <2>4, <2>5
    <2>7. state' \in [current_epoch : Nat, validator_set_root : {state'.validator_set_root},
                      finalized_height : Heights, finalized_block_hash : {state'.finalized_block_hash}]
        BY <1>0, <2>5
    <2>8. EpochOf(state'.finalized_height) <= state'.current_epoch
        BY <1>0, <2>6
    <2> QED
        BY <2>5, <2>6, <2>7, <2>8
<1>5. ASSUME NEW e \in 1..EpochOf(head), ReceiveEpoch(e)
      PROVE  LightInv'
    <2>1. /\ e = state.current_epoch + 1
          /\ state' = [state EXCEPT !.current_epoch = e, !.validator_set_root = SetRoot(e)]
          /\ UNCHANGED head
        BY <1>5 DEF ReceiveEpoch, UpdateEpoch
    <2>2. EpochOf(state.finalized_height) \in Nat
        BY EpochType
    <2>3. /\ state'.current_epoch = state.current_epoch + 1
          /\ state'.finalized_height = state.finalized_height
          /\ state'.finalized_block_hash = state.finalized_block_hash
        BY <2>1
    <2>4. state' \in [current_epoch : Nat, validator_set_root : {state'.validator_set_root},
                      finalized_height : Heights, finalized_block_hash : {state'.finalized_block_hash}]
        <3> DEFINE root == SetRoot(e)
        <3>1. e \in Nat
            BY <2>1
        <3>2. state' = [state EXCEPT !.current_epoch = e, !.validator_set_root = root]
            BY <2>1
        <3> HIDE DEF root
        <3>3. state'.validator_set_root = root
            BY <3>2
        <3> QED
            BY <2>3, <3>1, <3>2, <3>3
    <2>5. EpochOf(state'.finalized_height) <= state'.current_epoch
        BY <2>2, <2>3
    <2>6. state'.finalized_block_hash = BlockAt(state'.finalized_height, "chain")
        BY <2>3
    <2>7. head' \in Heights
        BY <2>1
    <2> QED
        BY <2>4, <2>5, <2>6, <2>7
<1>6. CASE UNCHANGED lightVars
    BY <1>6 DEF lightVars
<1> QED
    BY <1>1, <1>2, <1>3, <1>4, <1>5, <1>6 DEF LightNext

\* Whatever full nodes send and leave out, the block a light client holds as
\* final is the chain's, and its epoch never runs behind it.
THEOREM LightClientSafety == LightSpec => []ClientOnChain
<1>1. LightInv => ClientOnChain
    BY DEF LightInv
<1> QED
    BY LightInvInit, LightInvNext, <1>1, PTL DEF LightSpec

-----------------------------------------------------------------------------
(* The client's root *)

\* Every epoch up to the head's is the epoch of some height.
LEMMA EpochsPassed ==
    ASSUME NEW h \in Heights, NEW e \in 0..EpochOf(h)
    PROVE  e \in Epochs
<1>1. PICK k \in Nat, q \in Nat : k = EpochLength /\ k > 0 /\ q = h \div k /\ q = EpochOf(h) /\ h \in Nat
    BY EpochType, LightClientAssumption DEF EpochOf
<1>2. k * q <= h
    BY <1>1
<1>3. e \in Nat /\ e <= q
    BY <1>1
<1>4. k * e <= k * q /\ k * e \in Nat
    BY <1>1, <1>3
<1>5. (k * e) \div k = e
    BY <1>1, <1>3
<1>6. PICK g \in Nat : g = k * e
    BY <1>4
<1>7. g <= h /\ g \div k = e
    BY <1>1, <1>2, <1>4, <1>5, <1>6
<1>8. g \in Heights
    BY <1>7, LightClientAssumption DEF Heights
<1> QED
    BY <1>1, <1>7, <1>8 DEF Epochs, EpochOf

\* The root a client holds is the one of its epoch's validator set, and the
\* chain has reached that epoch.
RootInv ==
    initialized => /\ state.current_epoch \in Epochs
                   /\ state.validator_set_root = SetRoot(state.current_epoch)

\* The root changes only together with the epoch.
LEMMA RootInvNext == LightInv /\ RootInv /\ [LightNext]_lightVars => RootInv'
<1> SUFFICES ASSUME LightInv, RootInv, [LightNext]_lightVars, initialized'
             PROVE  state'.current_epoch \in Epochs
                    /\ state'.validator_set_root = SetRoot(state'.current_epoch)
    BY DEF RootInv
<1>0. head \in Heights /\ \A h \in 0..head : h \in Heights
    BY LightClientAssumption DEF LightInv, Heights
<1>1. ASSUME UNCHANGED <<state, initialized>>
      PROVE  state'.current_epoch \in Epochs
             /\ state'.validator_set_root = SetRoot(state'.current_epoch)
    BY <1>1 DEF RootInv
<1>2. ASSUME NEW h \in 0..head, Initialize(h)
      PROVE  state'.current_epoch \in Epochs
             /\ state'.validator_set_root = SetRoot(state'.current_epoch)
    <2>1. EpochOf(h) \in Epochs
        BY <1>0, EpochType
    <2> QED
        BY <1>2, <2>1 DEF Initialize, LightClientState
<1>3. CASE Restart
    BY <1>3 DEF Restart
<1>4. ASSUME NEW h \in 0..head, ReceiveHeader(h)
      PROVE  state'.current_epoch \in Epochs
             /\ state'.validator_set_root = SetRoot(state'.current_epoch)
    <2>1. PICK branch \in Branches, signers \in SUBSET Members(EpochOf(h)) :
              VerifyHeader(BlockAt(h, branch), signers)
        BY <1>4 DEF ReceiveHeader
    <2>2. /\ initialized
          /\ state' = [state EXCEPT !.finalized_height = BlockAt(h, branch).height,
                                    !.finalized_block_hash = BlockAt(h, branch)]
        BY <2>1 DEF VerifyHeader
    <2>3. /\ state'.current_epoch = state.current_epoch
          /\ state'.validator_set_root = state.validator_set_root
        BY <2>2 DEF LightInv
    <2> QED
        BY <2>2, <2>3 DEF RootInv
<1>5. ASSUME NEW e \in 1..EpochOf(head), ReceiveEpoch(e)
      PROVE  state'.current_epoch \in Epochs
             /\ state'.validator_set_root = SetRoot(state'.current_epoch)
    <2>1. state' = [state EXCEPT !.current_epoch = e, !.validator_set_root = SetRoot(e)]
        BY <1>5 DEF ReceiveEpoch, UpdateEpoch
    <2>2. PICK root : root = SetRoot(e)
        OBVIOUS
    <2>3. state'.current_epoch = e /\ state'.validator_set_root = root
        BY <2>1, <2>2 DEF LightInv
    <2>4. e \in 0..EpochOf(head)
        BY <1>0, EpochType
    <2>5. e \in Epochs
        BY <1>0, <2>4, EpochsPassed
    <2> QED
        BY <2>2, <2>3, <2>5
<1> QED
    BY <1>1, <1>2, <1>3, <1>4, <1>5 DEF LightNext, Extend, lightVars

\* Against the root a light client holds, the proof of every member of its
\* epoch's set verifies, at the member's own leaf and for nobody else, in sets
\* of every size: with an odd number of nodes on any level of the tree too.
THEOREM MembersAreProvable == LightSpec => []MembersProvable
<1>1. LightInit => RootInv
    BY DEF LightInit, RootInv
<1>2. RootInv => MembersProvable
    <2> SUFFICES ASSUME RootInv, initialized,
                        NEW i \in DOMAIN MembersOf[state.current_epoch], NEW v \in Validators
                 PROVE  LET set    == MembersOf[state.current_epoch]
                            leaves == [j \in DOMAIN set |-> <<set[j]>>]
                        IN  VerifyProof([GenerateProof(leaves, i - 1) EXCEPT !.leaf_hash = <<v>>],
                                        state.validator_set_root)
                              <=> v = set[i]
        BY DEF MembersProvable
    <2>1. PICK e \in Epochs : e = state.current_epoch /\ state.validator_set_root = SetRoot(e)
        BY DEF RootInv
    <2>2. PICK set : set = MembersOf[e] /\ set \in Seq(Validators)
        BY LightClientAssumption
    <2>3. PICK n \in Nat : DOMAIN set = 1..n /\ i \in 1..n
        BY <2>1, <2>2
    <2>4. PICK leaves : leaves = [j \in DOMAIN set |-> <<set[j]>>]
        OBVIOUS
    <2>5. Len(leaves) = n /\ n > 0 /\ leaves[i] = <<set[i]>>
        BY <2>3, <2>4
    <2>6. i - 1 \in 0..(n - 1) /\ (i - 1) + 1 = i
        BY <2>3
    <2>7. PICK index, leaf : index = i - 1 /\ leaf = <<v>>
        OBVIOUS
    <2>8. Len(leaves) \in Nat /\ Len(leaves) > 0 /\ index \in 0..(Len(leaves) - 1)
        BY <2>5, <2>6, <2>7
    <2>9. VerifyProof([GenerateProof(leaves, index) EXCEPT !.leaf_hash = leaf], GetRoot(leaves))
             <=> leaf = leaves[index + 1]
        BY <2>8, ProofsVerify
    <2>10. leaves[index + 1] = <<set[i]>>
        BY <2>5, <2>6, <2>7
    <2>11. leaf = leaves[index + 1] <=> v = set[i]
        BY <2>7, <2>10
    <2>12. GetRoot(leaves) = SetRoot(e)
        BY <2>2, <2>4 DEF SetRoot, RootOfList
    <2> QED
        BY <2>1, <2>2, <2>4, <2>7, <2>9, <2>11, <2>12
<1> QED
    BY LightInvInit, LightInvNext, RootInvNext, <1>1, <1>2, PTL DEF LightSpec

-----------------------------------------------------------------------------
(* Readers of the block store *)

Present(hash) == hash.height \in DOMAIN blocks /\ blocks[hash.height].header = hash

\* Only a block half put is above the tip.
TopInv ==
    /\ DOMAIN blocks \subseteq 0..(tipHeight + 1)
    /\ tipHeight + 1 \in DOMAIN blocks => putting # <<>>
    /\ putting # <<>> => tipHeight + 1 \in DOMAIN blocks /\ blocks[tipHeight + 1] = putting[1]

\* The index leads to blocks that are there.
IndexInv == \A hash \in hashes : Present(hash)

\* The horizon never moves back.
HorizonInv ==
    /\ pruner.pc \in {"idle", "scan", "receipts"}
    /\ pruned_until = 0 \/ pruned_until + WeakSubjectivityPeriod <= tipHeight
    /\ pruner.pc # "idle" => pruned_until <= pruner.until

ReaderInv ==
    /\ reader = [pc |-> reader.pc, hash |-> reader.hash, ok |-> reader.ok]
    /\ reader.pc \in {"idle", "block", "done"}
    /\ reader.pc = "block" => /\ reader.hash.height \in Nat
                              /\ Present(reader.hash) \/ reader.hash.height < Horizon
    /\ reader.pc = "done" => /\ reader.hash.height \in Nat
                             /\ reader.ok \/ reader.hash.height < Horizon

BodyInv ==
    \A h \in DOMAIN blocks : Listed(blocks[h].transactions) /\ (h # 0 => BodyBound(h))

\* A receipt belongs to a block still there that the pruner has not reached,
\* or to one of whose transactions it has the receipt still to delete.
Kept(t) ==
    \E h \in DOMAIN blocks :
        /\ t \in SeqSet(blocks[h].transactions)
        /\ pruner.pc = "receipts" /\ h = pruner.height => t \in SeqSet(pruner.txs)
ReceiptInv ==
    /\ \A t \in receipts : Kept(t)
    /\ pruner.pc = "receipts" => pruner.height \in DOMAIN blocks /\ Listed(pruner.txs)

ReadInv == TopInv /\ IndexInv /\ HorizonInv /\ ReaderInv /\ BodyInv /\ ReceiptInv

LEMMA ReadInvInit == StoreInit => ReadInv
<1> SUFFICES ASSUME StoreInit PROVE ReadInv
    OBVIOUS
<1>1. DOMAIN blocks = {0} /\ blocks[0] = GenesisBlock /\ tipHeight = 0 /\ hashes = {GenesisBlock.header}
      /\ GenesisBlock.header.height = 0 /\ GenesisBlock.transactions = <<>> /\ putting = <<>>
    BY DEF StoreInit, tipHeight, GenesisBlock
<1>2. TopInv
    BY <1>1 DEF TopInv
<1>3. IndexInv
    BY <1>1 DEF IndexInv, Present
<1>4. HorizonInv
    BY DEF StoreInit, HorizonInv, Idle
<1>5. ReaderInv
    BY DEF StoreInit, ReaderInv, NotReading
<1>6. BodyInv
    BY <1>1 DEF BodyInv, Listed
<1>7. ReceiptInv
    BY DEF StoreInit, ReceiptInv, Idle
<1> QED
    BY <1>2, <1>3, <1>4, <1>5, <1>6, <1>7 DEF ReadInv

\* What is there stays as it is.
Grows == \A h \in DOMAIN blocks : h \in DOMAIN blocks' /\ blocks'[h] = blocks[h]

\* Putting the next block, for the first or the second time.
LEMMA PutNextBlock ==
    ASSUME StoreInv, ReadInv, NEW b, b.header.height = tipHeight + 1,
           putting = <<>> \/ putting[1] = b, blocks' = PutBlock(b)
    PROVE  /\ Grows /\ tipHeight \in Nat
           /\ DOMAIN blocks' = DOMAIN blocks \cup {tipHeight + 1}
           /\ blocks'[tipHeight + 1] = b
<1>1. /\ DOMAIN blocks' = DOMAIN blocks \cup {tipHeight + 1}
      /\ blocks'[tipHeight + 1] = b
      /\ \A h \in DOMAIN blocks : h # tipHeight + 1 => blocks'[h] = blocks[h]
    BY DEF PutBlock
<1>2. tipHeight + 1 \in DOMAIN blocks => blocks[tipHeight + 1] = b
    BY DEF ReadInv, TopInv
<1>3. tipHeight \in Nat
    BY DEF StoreInv, TipInv
<1> QED
    BY <1>1, <1>2, <1>3 DEF Grows

\* While the store only grows, whoever reads it is not disturbed.
LEMMA GrowthKeeps ==
    ASSUME ReadInv, Grows, UNCHANGED <<pruned_until, pruner>>
    PROVE  /\ \A hash : Present(hash) => Present(hash)'
           /\ Horizon' = Horizon
           /\ \A t : Kept(t) => Kept(t)'
           /\ pruner'.pc = "receipts" => pruner'.height \in DOMAIN blocks' /\ Listed(pruner'.txs)
           /\ \A h \in DOMAIN blocks : Listed(blocks'[h].transactions) /\ (h # 0 => BodyBound(h)')
<1>1. \A hash : Present(hash) => Present(hash)'
    BY DEF Present, Grows
<1>2. Horizon' = Horizon
    BY DEF Horizon
<1>3. \A t : Kept(t) => Kept(t)'
    BY DEF Kept, Grows
<1>4. pruner'.pc = "receipts" => pruner'.height \in DOMAIN blocks' /\ Listed(pruner'.txs)
    BY DEF ReadInv, ReceiptInv, Grows
<1>5. ASSUME NEW h \in DOMAIN blocks
      PROVE  Listed(blocks'[h].transactions) /\ (h # 0 => BodyBound(h)')
    BY DEF ReadInv, BodyInv, Grows, BodyBound
<1> QED
    BY <1>1, <1>2, <1>3, <1>4, <1>5

\* A block of the chain's next height, with the transactions its header
\* stands for, is stored.
LEMMA WriterKeeps ==
    ASSUME StoreInv, ReadInv, NEW b, b.header.height = tipHeight + 1,
           putting = <<>> \/ putting[1] = b, blocks' = PutBlock(b),
           Listed(b.transactions),
           b.transactions = BodyOf[tipHeight + 1] \/ Repeats(b.transactions),
           hashes' \subseteq hashes \cup {b.header},
           receipts' \subseteq receipts \cup SeqSet(b.transactions),
           UNCHANGED <<pruned_until, pruner, reader>>, tipHeight' >= tipHeight, tipHeight' \in Nat
    PROVE  IndexInv' /\ HorizonInv' /\ ReaderInv' /\ BodyInv' /\ ReceiptInv'
<1>1. /\ Grows /\ tipHeight \in Nat
      /\ DOMAIN blocks' = DOMAIN blocks \cup {tipHeight + 1}
      /\ blocks'[tipHeight + 1] = b
    BY PutNextBlock
<1>2. PICK top : top = tipHeight + 1 /\ top \in Nat /\ top # 0
    BY <1>1
<1>3. /\ \A hash : Present(hash) => Present(hash)'
      /\ Horizon' = Horizon
      /\ \A t : Kept(t) => Kept(t)'
      /\ pruner'.pc = "receipts" => pruner'.height \in DOMAIN blocks' /\ Listed(pruner'.txs)
      /\ \A h \in DOMAIN blocks : Listed(blocks'[h].transactions) /\ (h # 0 => BodyBound(h)')
    BY <1>1, GrowthKeeps
<1>4. IndexInv'
    <2>1. Present(b.header)'
        BY <1>1 DEF Present
    <2> QED BY <1>3, <2>1 DEF ReadInv, IndexInv
<1>5. HorizonInv'
    <2>1. WeakSubjectivityPeriod \in Nat /\ pruned_until \in Nat
        BY BlockStoreAssumption DEF StoreInv, PrunerInv
    <2>2. UNCHANGED <<pruner, pruned_until>>
        OBVIOUS
    <2>3. pruned_until + WeakSubjectivityPeriod <= tipHeight
            => pruned_until + WeakSubjectivityPeriod <= tipHeight'
        BY <1>1, <2>1
    <2> QED BY <2>2, <2>3 DEF ReadInv, HorizonInv
<1>6. ReaderInv'
    BY <1>3 DEF ReadInv, ReaderInv
<1>7. BodyInv'
    <2>1. BodyBound(top)'
        <3>1. b.transactions = BodyOf[top] \/ Repeats(b.transactions)
            BY <1>2
        <3>2. DOMAIN b.transactions = 1..Len(b.transactions)
            BY DEF Listed
        <3> QED BY <1>1, <1>2, <3>1, <3>2 DEF BodyBound, Repeats
    <2>2. Listed(blocks'[top].transactions)
        BY <1>1, <1>2
    <2> QED BY <1>1, <1>2, <1>3, <2>1, <2>2 DEF BodyInv
<1>8. ReceiptInv'
    <2>1. ASSUME NEW t \in SeqSet(b.transactions) PROVE Kept(t)'
        <3>1. pruner.pc = "receipts" => pruner.height # top
            BY <1>1, <1>2, BlockStoreAssumption DEF StoreInv, PrunerInv
        <3> QED BY <1>1, <1>2, <3>1, <2>1 DEF Kept
    <2> QED BY <1>3, <2>1 DEF ReadInv, ReceiptInv
<1> QED
    BY <1>4, <1>5, <1>6, <1>7, <1>8

\* What is left of a list without its head.
LEMMA TailOf ==
    ASSUME NEW s, Listed(s), s # <<>>
    PROVE  Listed(Tail(s)) /\ \A t \in SeqSet(s) : t = Head(s) \/ t \in SeqSet(Tail(s))
<1>1. PICK n : n = Len(s) /\ n \in Nat /\ s = [i \in 1..n |-> s[i]]
    BY DEF Listed
<1>2. n > 0 /\ n - 1 \in Nat
    <2>1. n = 0 => s = <<>>
        BY <1>1
    <2> QED BY <1>1, <2>1
<1>3. Tail(s) = [i \in 1..(n - 1) |-> s[i + 1]] /\ Head(s) = s[1]
    BY <1>1, <1>2 DEF Tail, Head
<1>4. Len(Tail(s)) = n - 1
    BY <1>2, <1>3
<1>5. Listed(Tail(s))
    <2>1. Tail(s) = [i \in 1..(n - 1) |-> Tail(s)[i]]
        BY <1>3
    <2> QED BY <1>2, <1>4, <2>1 DEF Listed
<1>6. ASSUME NEW t \in SeqSet(s), t # Head(s) PROVE t \in SeqSet(Tail(s))
    <2>1. PICK i \in 1..n : t = s[i]
        BY <1>1 DEF SeqSet
    <2>2. i # 1
        BY <1>3, <1>6, <2>1
    <2>3. i - 1 \in 1..(n - 1) /\ (i - 1) + 1 = i
        BY <1>1, <2>2
    <2>4. PICK j : j = i - 1
        OBVIOUS
    <2>5. Tail(s)[j] = t /\ j \in DOMAIN Tail(s)
        BY <1>3, <2>1, <2>3, <2>4
    <2> QED BY <2>5 DEF SeqSet
<1> QED
    BY <1>5, <1>6

\* The bodies of the chain are lists, and a body whose root is a proposer's is
\* the proposer's or repeats a transaction.
LEMMA SentBodies ==
    ASSUME NEW h \in 1..MaxHeight
    PROVE  /\ Listed(BodyOf[h])
           /\ \A body \in BodiesSent[h] :
                 /\ Listed(body)
                 /\ TransactionsRoot(BodyOf[h]) = TransactionsRoot(body)
                      => body = BodyOf[h] \/ Repeats(body)
<1>1. ASSUME NEW s, s \in Seq(SeqSet(s)) PROVE Listed(s)
    <2>1. PICK S : s \in Seq(S)
        BY <1>1
    <2> QED BY <2>1 DEF Listed
<1>2. Listed(BodyOf[h]) /\ \A body \in BodiesSent[h] : Listed(body)
    BY <1>1, BodyAssumption
<1>3. ~Repeats(BodyOf[h])
    <2>1. DOMAIN BodyOf[h] = 1..Len(BodyOf[h])
        BY <1>2 DEF Listed
    <2> QED BY <2>1, BodyAssumption DEF Repeats
<1>4. ASSUME NEW body \in BodiesSent[h], TransactionsRoot(BodyOf[h]) = TransactionsRoot(body)
      PROVE  body = BodyOf[h] \/ Repeats(body)
    BY <1>2, <1>3, <1>4, RootBinds DEF AlikeUpTo, TransactionsRoot
<1> QED
    BY <1>2, <1>4

\* Every step of the writers, the pruner and the readers.
LEMMA ReadInvNext == StoreInv /\ StoreInv' /\ ReadInv /\ [StoreNext]_storeVars => ReadInv'
<1> SUFFICES ASSUME StoreInv, StoreInv', ReadInv, [StoreNext]_storeVars PROVE ReadInv'
    OBVIOUS
<1>0. /\ WeakSubjectivityPeriod \in Nat /\ MaxHeight \in Nat
      /\ tipHeight \in Nat /\ tipHeight' \in Nat
    BY BlockStoreAssumption DEF StoreInv, TipInv
<1>1. CASE AcceptBlock
    <2>1. tipHeight + 1 \in 1..MaxHeight /\ putting = <<>>
        BY <1>0, <1>1 DEF AcceptBlock, tipHeight
    <2>2. PICK proposer \in DOMAIN SetStakes,
               time \in tip.header.timestamp..(tip.header.timestamp + 1),
               body \in BodiesSent[tipHeight + 1], verify \in BOOLEAN :
              LET b == [header |-> NextHeader(tip, proposer, time, BodyOf[tipHeight + 1]),
                        transactions |-> body]
              IN  /\ ValidateBlock(b, tip, SetStatus, verify, tip.header.state_root)
                  /\ StoreBlockWithReceipts(b)
                  /\ tip' = b
        BY <1>1 DEF AcceptBlock, tipHeight
    <2>3. PICK header : header = NextHeader(tip, proposer, time, BodyOf[tipHeight + 1])
        OBVIOUS
    <2>4. PICK b : b = [header |-> header, transactions |-> body]
        OBVIOUS
    <2>5. /\ ValidateBlock(b, tip, SetStatus, verify, tip.header.state_root)
          /\ StoreBlockWithReceipts(b) /\ tip' = b
        BY <2>2, <2>3, <2>4
    <2>6. /\ header.height = tipHeight + 1
          /\ header.transactions_root = TransactionsRoot(BodyOf[tipHeight + 1])
        BY <2>3 DEF NextHeader, tipHeight
    <2>7. b.header = header /\ b.transactions = body
        BY <2>4
    <2>8. TransactionsRoot(BodyOf[tipHeight + 1]) = TransactionsRoot(body)
        BY <2>5, <2>6, <2>7 DEF ValidateBlock, VerifyTransactionsRoot
    <2>9. Listed(body) /\ (body = BodyOf[tipHeight + 1] \/ Repeats(body))
        BY <2>1, <2>8, SentBodies
    <2>10. /\ blocks' = PutBlock(b) /\ hashes' = hashes \cup {b.header}
           /\ receipts' = receipts \cup SeqSet(b.transactions)
        BY <2>5 DEF StoreBlockWithReceipts
    <2>11. tipHeight' = tipHeight + 1 /\ tipHeight' >= tipHeight
        BY <1>0, <2>5, <2>6, <2>7 DEF tipHeight
    <2>12. UNCHANGED <<pruned_until, putting, pruner, reader>>
        BY <1>1 DEF AcceptBlock
    <2>13. IndexInv' /\ HorizonInv' /\ ReaderInv' /\ BodyInv' /\ ReceiptInv'
        BY <1>0, <2>1, <2>6, <2>7, <2>9, <2>10, <2>11, <2>12, WriterKeeps
    <2>14. DOMAIN blocks' = DOMAIN blocks \cup {tipHeight + 1}
        BY <2>1, <2>6, <2>7, <2>10, PutNextBlock
    <2>15. TopInv'
        BY <1>0, <2>1, <2>11, <2>12, <2>14 DEF ReadInv, TopInv
    <2> QED
        BY <2>13, <2>15 DEF ReadInv
<1>2. ASSUME NEW stake, SyncApplyBlock(stake) PROVE ReadInv'
    <2>1. tipHeight + 1 \in 1..MaxHeight /\ putting = <<>>
        BY <1>0, <1>2 DEF SyncApplyBlock, tipHeight
    <2>2. PICK proposer, time :
              LET b == [header |-> NextHeader(tip, proposer, time, BodyOf[tipHeight + 1]),
                        transactions |-> BodyOf[tipHeight + 1]]
              IN  blocks' = PutBlock(b) /\ putting' = <<b>>
        BY <1>2 DEF SyncApplyBlock, SyncPutFirst, tipHeight
    <2>3. PICK header, body : /\ body = BodyOf[tipHeight + 1]
                              /\ header = NextHeader(tip, proposer, time, body)
        OBVIOUS
    <2>4. PICK b : b = [header |-> header, transactions |-> body]
        OBVIOUS
    <2>5. blocks' = PutBlock(b) /\ putting' = <<b>>
        BY <2>2, <2>3, <2>4
    <2>6. header.height = tipHeight + 1
        BY <2>3 DEF NextHeader, tipHeight
    <2>7. b.header = header /\ b.transactions = body /\ Listed(body)
        BY <2>1, <2>3, <2>4, SentBodies
    <2>8. UNCHANGED <<tip, hashes, receipts, pruned_until, pruner, reader>>
        BY <1>2 DEF SyncApplyBlock, SyncPutFirst
    <2>9. tipHeight' = tipHeight
        BY <2>8 DEF tipHeight
    <2>10. IndexInv' /\ HorizonInv' /\ ReaderInv' /\ BodyInv' /\ ReceiptInv'
        BY <1>0, <2>1, <2>3, <2>5, <2>6, <2>7, <2>8, <2>9, WriterKeeps
    <2>11. DOMAIN blocks' = DOMAIN blocks \cup {tipHeight + 1} /\ blocks'[tipHeight + 1] = b
        BY <2>1, <2>5, <2>6, <2>7, PutNextBlock
    <2>12. TopInv'
        BY <1>0, <2>5, <2>9, <2>11 DEF ReadInv, TopInv
    <2> QED
        BY <2>10, <2>12 DEF ReadInv
<1>3. CASE SyncFinishBlock
    <2>1. PICK b : b = putting[1]
        OBVIOUS
    <2>2. /\ putting # <<>> /\ putting' = <<>> /\ tip' = b
          /\ blocks' = PutBlock(b) /\ hashes' = hashes \cup {b.header}
          /\ UNCHANGED <<receipts, pruned_until, pruner, reader>>
        BY <1>3, <2>1 DEF SyncFinishBlock, SyncPutSecond
    <2>3. b.header.height = tipHeight + 1 /\ tipHeight' = tipHeight + 1
        BY <2>1, <2>2 DEF StoreInv, TipInv, tipHeight
    <2>4. tipHeight + 1 \in DOMAIN blocks /\ blocks[tipHeight + 1] = b
        BY <2>1, <2>2 DEF ReadInv, TopInv
    <2>5. Listed(b.transactions) /\ BodyBound(tipHeight + 1)
        BY <1>0, <2>4 DEF ReadInv, BodyInv
    <2>6. b.transactions = BodyOf[tipHeight + 1] \/ Repeats(b.transactions)
        <3>1. DOMAIN b.transactions = 1..Len(b.transactions)
            BY <2>5 DEF Listed
        <3> QED BY <2>4, <2>5, <3>1 DEF BodyBound, Repeats
    <2>7. IndexInv' /\ HorizonInv' /\ ReaderInv' /\ BodyInv' /\ ReceiptInv'
        BY <1>0, <2>1, <2>2, <2>3, <2>5, <2>6, WriterKeeps
    <2>8. DOMAIN blocks' = DOMAIN blocks \cup {tipHeight + 1}
        BY <2>1, <2>2, <2>3, PutNextBlock
    <2>9. TopInv'
        BY <1>0, <2>2, <2>3, <2>8 DEF ReadInv, TopInv
    <2> QED
        BY <2>7, <2>9 DEF ReadInv
<1>4. CASE UNCHANGED <<tip, blocks, hashes, receipts, pruned_until, putting, pruner, reader>>
    BY <1>4 DEF ReadInv, TopInv, IndexInv, HorizonInv, ReaderInv, BodyInv, ReceiptInv,
                Present, Kept, Horizon, BodyBound, tipHeight
<1>5. CASE PruneStart
    <2>1. pruner' = [pc |-> "scan", height |-> pruned_until,
                     until |-> tipHeight - WeakSubjectivityPeriod, txs |-> <<>>]
        BY <1>5 DEF PruneStart, Idle, tipHeight
    <2>2. /\ tipHeight > WeakSubjectivityPeriod /\ pruner.pc = "idle"
          /\ UNCHANGED <<tip, blocks, hashes, receipts, pruned_until, putting, reader>>
        BY <1>5 DEF PruneStart, database, tipHeight
    <2>3. pruned_until \in Nat /\ pruned_until <= tipHeight - WeakSubjectivityPeriod
        BY <1>0, <2>2 DEF ReadInv, HorizonInv, StoreInv, PrunerInv
    <2>4. HorizonInv'
        BY <1>0, <2>1, <2>2, <2>3 DEF ReadInv, HorizonInv, tipHeight
    <2>5. Horizon = pruned_until /\ Horizon' = tipHeight - WeakSubjectivityPeriod
        BY <2>1, <2>2 DEF Horizon
    <2>6. ReaderInv'
        <3>1. ASSUME NEW n \in Nat, n < Horizon PROVE n < Horizon'
            BY <1>0, <2>3, <2>5, <3>1
        <3> QED BY <2>2, <3>1 DEF ReadInv, ReaderInv, Present
    <2>7. ReceiptInv'
        BY <2>1, <2>2 DEF ReadInv, ReceiptInv, Kept
    <2> QED
        BY <2>2, <2>4, <2>6, <2>7 DEF ReadInv, TopInv, IndexInv, Present, BodyInv, BodyBound, tipHeight
<1>6. CASE PruneScan
    <2>1. /\ pruner.pc = "scan"
          /\ UNCHANGED <<tip, blocks, hashes, receipts, pruned_until, putting, reader>>
        BY <1>6 DEF PruneScan, database
    <2>2. CASE pruner.height \in DOMAIN blocks
        <3>1. pruner' = [pc |-> "receipts", height |-> pruner.height, until |-> pruner.until,
                         txs |-> blocks[pruner.height].transactions]
            BY <1>6, <2>2 DEF PruneScan, StoreInv, PrunerInv
        <3>2. HorizonInv' /\ Horizon' = Horizon
            BY <2>1, <3>1 DEF ReadInv, HorizonInv, Horizon, tipHeight
        <3>3. ReceiptInv'
            BY <2>1, <2>2, <3>1 DEF ReadInv, ReceiptInv, Kept, BodyInv
        <3>4. ReaderInv'
            BY <2>1, <3>2 DEF ReadInv, ReaderInv, Present
        <3> QED
            BY <2>1, <3>2, <3>3, <3>4 DEF ReadInv, TopInv, IndexInv, Present, BodyInv, BodyBound, tipHeight
    <2>3. CASE pruner.height \notin DOMAIN blocks
        <3>1. pruner' = [pc |-> "scan", height |-> pruner.height + 1, until |-> pruner.until,
                         txs |-> pruner.txs]
            BY <1>6, <2>1, <2>3 DEF PruneScan, StoreInv, PrunerInv
        <3>2. HorizonInv' /\ Horizon' = Horizon
            BY <2>1, <3>1 DEF ReadInv, HorizonInv, Horizon, tipHeight
        <3>3. ReceiptInv'
            BY <2>1, <3>1 DEF ReadInv, ReceiptInv, Kept
        <3>4. ReaderInv'
            BY <2>1, <3>2 DEF ReadInv, ReaderInv, Present
        <3> QED
            BY <2>1, <3>2, <3>3, <3>4 DEF ReadInv, TopInv, IndexInv, Present, BodyInv, BodyBound, tipHeight
    <2> QED BY <2>2, <2>3
<1>7. CASE PruneReceipt
    <2>1. /\ pruner.pc = "receipts" /\ pruner.txs # <<>>
          /\ receipts' = receipts \ {Head(pruner.txs)}
          /\ pruner' = [pc |-> "receipts", height |-> pruner.height, until |-> pruner.until,
                        txs |-> Tail(pruner.txs)]
          /\ UNCHANGED <<tip, blocks, hashes, pruned_until, putting, reader>>
        BY <1>7 DEF PruneReceipt, StoreInv, PrunerInv
    <2>2. HorizonInv' /\ Horizon' = Horizon
        BY <2>1 DEF ReadInv, HorizonInv, Horizon, tipHeight
    <2>3. /\ Listed(Tail(pruner.txs))
          /\ \A t \in SeqSet(pruner.txs) : t = Head(pruner.txs) \/ t \in SeqSet(Tail(pruner.txs))
        BY <2>1, TailOf DEF ReadInv, ReceiptInv
    <2>4. ReceiptInv'
        <3>1. ASSUME NEW t \in receipts, t # Head(pruner.txs) PROVE Kept(t)'
            <4>1. PICK h \in DOMAIN blocks :
                      /\ t \in SeqSet(blocks[h].transactions)
                      /\ h = pruner.height => t \in SeqSet(pruner.txs)
                BY <2>1 DEF ReadInv, ReceiptInv, Kept
            <4>2. h = pruner.height => t \in SeqSet(Tail(pruner.txs))
                BY <2>3, <3>1, <4>1
            <4> QED BY <2>1, <4>1, <4>2 DEF Kept
        <3>2. pruner.height \in DOMAIN blocks
            BY <2>1 DEF ReadInv, ReceiptInv
        <3> QED BY <2>1, <2>3, <3>1, <3>2 DEF ReceiptInv
    <2>5. ReaderInv'
        BY <2>1, <2>2 DEF ReadInv, ReaderInv, Present
    <2> QED
        BY <2>1, <2>2, <2>4, <2>5 DEF ReadInv, TopInv, IndexInv, Present, BodyInv, BodyBound, tipHeight
<1>8. CASE PruneDelete
    <2>1. PICK p : p = pruner.height
        OBVIOUS
    <2>2. /\ pruner.pc = "receipts" /\ pruner.txs = <<>> /\ blocks' = DelBlock(p)
          /\ hashes' = hashes \ {blocks[p].header}
          /\ UNCHANGED <<tip, receipts, pruned_until, putting, reader>>
        BY <1>8, <2>1 DEF PruneDelete
    <2>3. pruner' = [pc |-> "scan", height |-> p + 1, until |-> pruner.until, txs |-> pruner.txs]
        BY <1>8, <2>1 DEF PruneDelete, StoreInv, PrunerInv
    <2>4. HorizonInv' /\ Horizon' = Horizon /\ Horizon = pruner.until
        BY <2>2, <2>3 DEF ReadInv, HorizonInv, Horizon, tipHeight
    <2>5. p \in Nat /\ p < Horizon /\ p < tipHeight /\ Horizon \in Nat
        BY <1>0, <2>1, <2>2, <2>4 DEF StoreInv, PrunerInv
    <2>6. /\ DOMAIN blocks' = DOMAIN blocks \ {p}
          /\ \A h \in DOMAIN blocks \ {p} : blocks'[h] = blocks[h]
        BY <2>2 DEF DelBlock
    <2>7. TopInv'
        <3>1. tipHeight' = tipHeight /\ tipHeight + 1 # p
            BY <1>0, <2>2, <2>5 DEF tipHeight
        <3> QED BY <2>2, <2>6, <3>1 DEF ReadInv, TopInv
    <2>8. ASSUME NEW hash, Present(hash), hash # blocks[p].header PROVE Present(hash)'
        BY <2>6, <2>8 DEF Present
    <2>9. IndexInv'
        BY <2>2, <2>8 DEF ReadInv, IndexInv
    <2>10. ReaderInv'
        <3>1. Present(reader.hash) => Present(reader.hash)' \/ reader.hash.height < Horizon'
            BY <2>2, <2>4, <2>5, <2>6 DEF Present
        <3> QED BY <2>2, <2>4, <3>1 DEF ReadInv, ReaderInv
    <2>11. BodyInv'
        BY <2>6 DEF ReadInv, BodyInv, BodyBound
    <2>12. ReceiptInv'
        <3>1. SeqSet(pruner.txs) = {}
            BY <2>2 DEF SeqSet
        <3>2. ASSUME NEW t \in receipts PROVE Kept(t)'
            <4>1. PICK h \in DOMAIN blocks : t \in SeqSet(blocks[h].transactions) /\ h # p
                BY <2>1, <2>2, <3>1 DEF ReadInv, ReceiptInv, Kept
            <4> QED BY <2>3, <2>6, <4>1 DEF Kept
        <3> QED BY <2>2, <2>3, <3>2 DEF ReceiptInv
    <2> QED
        BY <2>4, <2>7, <2>9, <2>10, <2>11, <2>12 DEF ReadInv
<1>9. CASE PruneEnd
    <2>1. /\ pruner.pc = "scan" /\ pruned_until' = pruner.until /\ pruner' = Idle
          /\ UNCHANGED <<tip, blocks, hashes, receipts, putting, reader>>
        BY <1>9 DEF PruneEnd
    <2>2. pruner'.pc = "idle"
        BY <2>1 DEF Idle
    <2>3. HorizonInv' /\ Horizon' = Horizon
        BY <2>1, <2>2 DEF ReadInv, HorizonInv, Horizon, StoreInv, PrunerInv, tipHeight
    <2>4. ReaderInv'
        BY <2>1, <2>3 DEF ReadInv, ReaderInv, Present
    <2>5. ReceiptInv'
        BY <2>1, <2>2 DEF ReadInv, ReceiptInv, Kept
    <2> QED
        BY <2>1, <2>3, <2>4, <2>5 DEF ReadInv, TopInv, IndexInv, Present, BodyInv, BodyBound, tipHeight
<1>10. CASE ReadIndex
    <2>1. PICK hash \in hashes : reader' = [pc |-> "block", hash |-> hash, ok |-> FALSE]
        BY <1>10 DEF ReadIndex
    <2>2. UNCHANGED <<tip, blocks, hashes, receipts, pruned_until, putting, pruner>>
        BY <1>10 DEF ReadIndex, database
    <2>3. Present(hash) /\ hash.height \in Nat
        BY <1>0 DEF ReadInv, IndexInv, TopInv, Present
    <2>4. ReaderInv'
        BY <2>1, <2>2, <2>3 DEF ReaderInv, Present
    <2> QED
        BY <2>2, <2>4 DEF ReadInv, TopInv, IndexInv, HorizonInv, BodyInv, ReceiptInv,
                          Present, Kept, BodyBound, tipHeight
<1>11. CASE ReadBlock
    <2>1. /\ reader.pc = "block"
          /\ reader' = [pc |-> "done", hash |-> reader.hash, ok |-> Present(reader.hash)]
        BY <1>11 DEF ReadBlock, Present, ReadInv, ReaderInv
    <2>2. UNCHANGED <<tip, blocks, hashes, receipts, pruned_until, putting, pruner>>
        BY <1>11 DEF ReadBlock, database
    <2>3. /\ reader'.pc = "done" /\ reader'.hash = reader.hash
          /\ reader'.ok <=> Present(reader.hash)
        BY <2>1
    <2>4. Horizon' = Horizon
        BY <2>2 DEF Horizon
    <2>5. ReaderInv'
        BY <2>1, <2>3, <2>4 DEF ReadInv, ReaderInv
    <2> QED
        BY <2>2, <2>5 DEF ReadInv, TopInv, IndexInv, HorizonInv, BodyInv, ReceiptInv,
                          Present, Kept, BodyBound, tipHeight
<1>12. CASE ReadReturns
    <2>1. reader' = NotReading
        BY <1>12 DEF ReadReturns
    <2>2. UNCHANGED <<tip, blocks, hashes, receipts, pruned_until, putting, pruner>>
        BY <1>12 DEF ReadReturns, database
    <2>3. ReaderInv'
        BY <2>1 DEF ReaderInv, NotReading
    <2> QED
        BY <2>2, <2>3 DEF ReadInv, TopInv, IndexInv, HorizonInv, BodyInv, ReceiptInv,
                          Present, Kept, BodyBound, tipHeight
<1>13. CASE MakeCheckpoint
    BY <1>4, <1>13 DEF MakeCheckpoint, database
<1>14. CASE UNCHANGED storeVars
    BY <1>4, <1>14 DEF storeVars
<1> QED
    BY <1>1, <1>2, <1>3, <1>5, <1>6, <1>7, <1>8, <1>9, <1>10, <1>11, <1>12, <1>13, <1>14
    DEF StoreNext

\* Whoever reads, writes and prunes the database at the same time: a block that
\* the index names is found unless the pruner may have passed it, the
\* transactions of a stored block are the ones its proposer put in or repeat
\* one, and there is no receipt without its block.
THEOREM StoreReadsAreSound == StoreSpec => []StoreReadsSound
<1>1. StoreInv /\ ReadInv => StoreReadsSound
    <2> SUFFICES ASSUME StoreInv, ReadInv PROVE StoreReadsSound
        OBVIOUS
    <2>1. reader.pc = "done" => reader.ok \/ reader.hash.height < Horizon
        BY DEF ReadInv, ReaderInv
    <2>2. \A h \in DOMAIN blocks \ {0} : BodyBound(h)
        BY DEF ReadInv, BodyInv
    <2>3. \A t \in receipts : \E h \in DOMAIN blocks : t \in SeqSet(blocks[h].transactions)
        BY DEF ReadInv, ReceiptInv, Kept
    <2> QED
        BY <2>1, <2>2, <2>3 DEF StoreReadsSound
<1> QED
    BY StoreInvInit, StoreInvNext, ReadInvInit, ReadInvNext, <1>1, PTL DEF StoreSpec
=============================================================================
