--------------------------- MODULE BlockValidator ---------------------------
(***************************************************************************)
(* The checks of BlockValidator::validate_block on a block and its parent, *)
(* in their order.  A block is a header and its transactions; its hash is  *)
(* its header, so a header says nothing about the transactions beyond      *)
(* their Merkle root.                                                      *)
(***************************************************************************)
EXTENDS MerkleTree

VerifyBlockHeight(block, parent) == block.header.height = parent.header.height + 1
VerifyBlockHashChain(block, parent) == block.header.previous_hash = parent.header
VerifyTimestamp(block, parent) == block.header.timestamp > parent.header.timestamp

\* set maps the members of the current set to their status.
VerifyProposer(block, set) ==
    /\ block.header.proposer \in DOMAIN set
    /\ set[block.header.proposer] = "Active"

\* The root over the transactions' hashes; without transactions it is zero.
TransactionsRoot(txs) == RootOfList(txs)

\* Mutant: the root is compared for an empty block only.
RootOfEmptyBlocks(block) ==
    block.transactions # <<>> \/ block.header.transactions_root = <<>>
\* verify_transactions_root
VerifyTransactionsRoot(block) ==
    block.header.transactions_root = TransactionsRoot(block.transactions)

\* verify_transactions: no zero address and the chain's own id; signatures,
\* nonces and balances are left to the execution.
VerifyTransactions(block) ==
    \A i \in DOMAIN block.transactions : block.transactions[i].wellFormed

\* verify_state_root: compared with the state as it is, before the block.
VerifyStateRoot(block, root) == block.header.state_root = root

ValidateBlock(block, parent, set, verify_state_root, root) ==
    /\ VerifyBlockHeight(block, parent)
    /\ VerifyBlockHashChain(block, parent)
    /\ VerifyTimestamp(block, parent)
    /\ VerifyProposer(block, set)
    /\ VerifyTransactionsRoot(block)
    /\ VerifyTransactions(block)
    /\ verify_state_root => VerifyStateRoot(block, root)
=============================================================================
