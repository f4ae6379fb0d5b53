----------------------------- MODULE BlockStore -----------------------------
(***************************************************************************)
(* The database of a node and the threads that share it: the one that      *)
(* validates new blocks and stores them with their receipts or, when the   *)
(* node syncs, without them; the one that prunes what is older than the    *)
(* weak subjectivity period; and readers that look blocks up by hash.      *)
(* Every operation of the database holds its mutex, so one access is one   *)
(* step, and a batch is one access; whatever takes several accesses takes  *)
(* several steps.  The database lives in memory, so a restart begins with  *)
(* an empty one.                                                           *)
(*                                                                         *)
(* Checkpoints are made from the chain's blocks; faulty validators sign    *)
(* others too.                                                             *)
(***************************************************************************)
EXTENDS BlockValidator, CheckpointManager

CONSTANTS SetStakes,            \* the validator set: the stake by member
          SetStatus,            \* and the status by member
          Faulty,               \* validators that sign what is not on the chain
          BodyOf,               \* the transactions a proposer puts in a block, by height
          BodiesSent,           \* the transactions a block may arrive with, by height
          WeakSubjectivityPeriod,
          MaxCheckpointAge, CheckpointInterval,
          MaxHeight             \* bound: the height of the chain

ASSUME BlockStoreAssumption ==
    /\ WeakSubjectivityPeriod \in Nat /\ MaxCheckpointAge \in Nat
    /\ MaxCheckpointAge <= WeakSubjectivityPeriod  \* both are 1000000
    /\ CheckpointInterval \in Nat \ {0} /\ MaxHeight \in Nat
    /\ IsFiniteSet(DOMAIN SetStakes) /\ SetStakes \in [DOMAIN SetStakes -> Nat]
    /\ DOMAIN SetStatus = DOMAIN SetStakes /\ Faulty \subseteq DOMAIN SetStakes

SeqSet(s) == {s[i] : i \in DOMAIN s}

\* Bodies are lists, and a proposer puts no transaction in twice.
ASSUME BodyAssumption ==
    \A h \in 1..MaxHeight :
        /\ \A body \in BodiesSent[h] \cup {BodyOf[h]} : body \in Seq(SeqSet(body))
        /\ \A i, j \in DOMAIN BodyOf[h] : i # j => BodyOf[h][i] # BodyOf[h][j]

\* Faulty validators cannot make a checkpoint by themselves.
ASSUME FaultyStakeAssumption == ~Aggregable(Faulty, SetStakes)

VARIABLES tip,          \* the newest block the node holds
          blocks,       \* column Blocks: by height
          hashes,       \* column BlockHashes: the headers indexed
          receipts,     \* column Transactions
          pruned_until, \* Metadata: PRUNED_UNTIL_HEIGHT_KEY
          putting,      \* the block SyncManager::store_block has put half of, if any
          pruner,       \* the local variables of prune_old_state
          reader,       \* and of get_block_by_hash
          checkpoint    \* a signed checkpoint that is about, if any

storeVars == <<tip, blocks, hashes, receipts, pruned_until, putting,
               pruner, reader, checkpoint>>
database == <<blocks, hashes, receipts, pruned_until>>

Idle == [pc |-> "idle", height |-> 0, until |-> 0, txs |-> <<>>]
NotReading == [pc |-> "idle", hash |-> <<>>, ok |-> FALSE]

\* Column Blocks with the block put at its height, or without a height.
PutBlock(block) == [h \in DOMAIN blocks \cup {block.header.height} |->
                       IF h = block.header.height THEN block ELSE blocks[h]]
DelBlock(height) == [h \in DOMAIN blocks \ {height} |-> blocks[h]]

GenesisBlock == [header |-> [height |-> 0, previous_hash |-> <<>>, timestamp |-> 0,
                             proposer |-> <<>>, transactions_root |-> <<>>, state_root |-> 0],
                 transactions |-> <<>>]

StoreInit ==
    /\ tip = GenesisBlock
    /\ blocks = [h \in {0} |-> GenesisBlock] /\ hashes = {GenesisBlock.header}
    /\ receipts = {} /\ pruned_until = 0
    /\ putting = <<>> /\ pruner = Idle /\ reader = NotReading
    /\ checkpoint = <<>>

\* The header a proposer gives the block on parent with transactions body.
\* A block with transactions changes the state.
NextHeader(parent, proposer, time, body) ==
    [height |-> parent.header.height + 1, previous_hash |-> parent.header,
     timestamp |-> time, proposer |-> proposer, transactions_root |-> TransactionsRoot(body),
     state_root |-> parent.header.state_root + (IF body = <<>> THEN 0 ELSE 1)]

\* store_block_with_receipts: one batch.
StoreBlockWithReceipts(block) ==
    /\ blocks' = PutBlock(block)
    /\ hashes' = hashes \cup {block.header}
    /\ receipts' = receipts \cup SeqSet(block.transactions)

\* A block arrives that some member proposed at some time, with transactions
\* that need not be the proposer's, and passes validation.
AcceptBlock ==
    /\ putting = <<>> /\ tip.header.height < MaxHeight
    /\ \E proposer \in DOMAIN SetStakes, time \in tip.header.timestamp..(tip.header.timestamp + 1),
          body \in BodiesSent[tip.header.height + 1], verify \in BOOLEAN :
          LET block == [header |-> NextHeader(tip, proposer, time, BodyOf[tip.header.height + 1]),
                        transactions |-> body]
          IN  /\ ValidateBlock(block, tip, SetStatus, verify, tip.header.state_root)
              /\ StoreBlockWithReceipts(block)
              /\ tip' = block
    /\ UNCHANGED <<pruned_until, putting, pruner, reader, checkpoint>>

\* Mutant: the hash is put before the block.
SyncPutHashFirst(block) == hashes' = hashes \cup {block.header} /\ UNCHANGED blocks
SyncPutFirst(block) == blocks' = PutBlock(block) /\ UNCHANGED hashes
SyncPutSecond(block) == blocks' = PutBlock(block) /\ hashes' = hashes \cup {block.header}

\* verify_and_apply_block with the chain's next block: of its certificate
\* only the stated stake is looked at, the block is not validated or
\* executed, and store_block puts it in two accesses.
VerifyQuorumCertificate(total_stake_signed) == total_stake_signed > 0
SyncApplyBlock(total_stake_signed) ==
    /\ putting = <<>> /\ tip.header.height < MaxHeight
    /\ VerifyQuorumCertificate(total_stake_signed)
    /\ LET body  == BodyOf[tip.header.height + 1]
           block == [header |-> NextHeader(tip, CHOOSE v \in DOMAIN SetStakes : SetStatus[v] = "Active",
                                           tip.header.timestamp + 1, body),
                     transactions |-> body]
       IN  SyncPutFirst(block) /\ putting' = <<block>>
    /\ UNCHANGED <<tip, receipts, pruned_until, pruner, reader, checkpoint>>
SyncFinishBlock ==
    /\ putting # <<>>
    /\ SyncPutSecond(putting[1])
    /\ tip' = putting[1] /\ putting' = <<>>
    /\ UNCHANGED <<receipts, pruned_until, pruner, reader, checkpoint>>

\* prune_old_state with the height of the tip.
PruneStart ==
    /\ pruner.pc = "idle"
    /\ tip.header.height > WeakSubjectivityPeriod
    /\ pruner' = [Idle EXCEPT !.pc = "scan", !.height = pruned_until,
                              !.until = tip.header.height - WeakSubjectivityPeriod]
    /\ UNCHANGED <<tip, database, putting, reader, checkpoint>>
\* The loop looks at a height: a block that is not there is skipped.
PruneScan ==
    /\ pruner.pc = "scan" /\ pruner.height < pruner.until
    /\ pruner' = IF pruner.height \in DOMAIN blocks
                 THEN [pruner EXCEPT !.pc = "receipts", !.txs = blocks[pruner.height].transactions]
                 ELSE [pruner EXCEPT !.height = @ + 1]
    /\ UNCHANGED <<tip, database, putting, reader, checkpoint>>
PruneReceipt ==
    /\ pruner.pc = "receipts" /\ pruner.txs # <<>>
    /\ receipts' = receipts \ {Head(pruner.txs)}
    /\ pruner' = [pruner EXCEPT !.txs = Tail(@)]
    /\ UNCHANGED <<tip, blocks, hashes, pruned_until, putting, reader, checkpoint>>
\* delete_block: reads the block for its hash and deletes both in a batch.
PruneDelete ==
    /\ pruner.pc = "receipts" /\ pruner.txs = <<>>
    /\ hashes' = hashes \ {blocks[pruner.height].header}
    /\ blocks' = DelBlock(pruner.height)
    /\ pruner' = [pruner EXCEPT !.pc = "scan", !.height = @ + 1]
    /\ UNCHANGED <<tip, receipts, pruned_until, putting, reader, checkpoint>>
PruneEnd ==
    /\ pruner.pc = "scan" /\ pruner.height >= pruner.until
    /\ pruned_until' = pruner.until
    /\ pruner' = Idle
    /\ UNCHANGED <<tip, blocks, hashes, receipts, putting, reader, checkpoint>>

\* get_block_by_hash: get_block_height, then get_block_by_height.
ReadIndex ==
    /\ reader.pc = "idle"
    /\ \E hash \in hashes : reader' = [pc |-> "block", hash |-> hash, ok |-> FALSE]
    /\ UNCHANGED <<tip, database, putting, pruner, checkpoint>>
ReadBlock ==
    /\ reader.pc = "block"
    /\ reader' = [reader EXCEPT !.pc = "done",
                     !.ok = /\ reader.hash.height \in DOMAIN blocks
                            /\ blocks[reader.hash.height].header = reader.hash]
    /\ UNCHANGED <<tip, database, putting, pruner, checkpoint>>
ReadReturns ==
    /\ reader.pc = "done"
    /\ reader' = NotReading
    /\ UNCHANGED <<tip, database, putting, pruner, checkpoint>>

\* Validators sign the checkpoint of the tip, faulty ones also that of a
\* block nobody holds; whoever has enough signatures aggregates them.
Forged(block) == [block EXCEPT !.header.state_root = @ + 1]
MakeCheckpoint ==
    /\ ShouldProduceCheckpoint(tip.header.height, CheckpointInterval)
    /\ \E signers \in SUBSET DOMAIN SetStakes, forged \in BOOLEAN :
          /\ forged => signers \subseteq Faulty
          /\ LET c == ProduceCheckpoint(IF forged THEN Forged(tip) ELSE tip)
             IN  /\ forged \/ Aggregable(signers, SetStakes)
                 /\ checkpoint' = <<AggregateSignatures(c, signers, SetStakes)>>
    /\ UNCHANGED <<tip, database, putting, pruner, reader>>

StoreNext ==
    \/ AcceptBlock
    \/ \E stake \in {0, SetStake(SetStakes)} : SyncApplyBlock(stake)
    \/ SyncFinishBlock
    \/ PruneStart \/ PruneScan \/ PruneReceipt \/ PruneDelete \/ PruneEnd
    \/ ReadIndex \/ ReadBlock \/ ReadReturns
    \/ MakeCheckpoint

StoreSpec == StoreInit /\ [][StoreNext]_storeVars

-----------------------------------------------------------------------------
(* Properties.                                                             *)

\* Heights below this one are pruned or about to be.
Horizon == IF pruner.pc = "idle" THEN pruned_until ELSE pruner.until

\* The transactions of a stored block are those its proposer put in, or one
\* of them is repeated: the Merkle root binds lists without repetitions.
BodyBound(h) ==
    LET body == blocks[h].transactions
    IN  body = BodyOf[h] \/ \E i, j \in DOMAIN body : i # j /\ body[i] = body[j]

\* Whoever shares the database with the pruner and the writers: an indexed
\* block is found unless it has passed the horizon, with the transactions
\* its header stands for, and a receipt belongs to a block still there.
StoreReadsSound ==
    /\ reader.pc = "done" => reader.ok \/ reader.hash.height < Horizon
    /\ \A h \in DOMAIN blocks \ {0} : BodyBound(h)
    /\ \A t \in receipts : \E h \in DOMAIN blocks : t \in SeqSet(blocks[h].transactions)

\* A checkpoint that verifies and is young enough to sync from is one of the
\* chain: the node still holds its block, and the block is the one it names.
CheckpointsServable ==
    \A c \in SeqSet(checkpoint) :
        /\ VerifyCheckpoint(c, SetStakes)
        /\ CheckCheckpointAge(c.checkpoint.block_height, tip.header.height, MaxCheckpointAge)
        => /\ c.checkpoint.block_height \in DOMAIN blocks
           /\ ~RejectChainWithoutCheckpoint(c.checkpoint, blocks[c.checkpoint.block_height])

=============================================================================
