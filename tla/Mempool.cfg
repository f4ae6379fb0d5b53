SPECIFICATION MempoolSpec
CONSTANTS
  a = a
  b = b
  c = c
  Addresses = {a, b, c}
  zero_address = zero_address
  chain_id = 1
  Width = 16
  Transactions <- MCTransactions
  Allocation <- MCAllocation
  BaseFees = {1}
  Proposers = {a, c}
  BlockHeights = {1}
  max_transactions_per_account = 2
  max_nonce_gap = 1
  max_age_seconds = 1
  max_block_gas = 3
  max_transactions_per_block = 2
INVARIANTS SupplyBacked NoncesSpentOnce IndexesAgree SelectionFollowsNonces BestProposedFirst
PROPERTIES SupplyConserved EveryTransactionLeaves
CHECK_DEADLOCK FALSE
