------------------------------ MODULE Mempool ------------------------------
(***************************************************************************)
(* state::Mempool (src/state/mempool.cpp) over the account manager of the  *)
(* state machine, as Node wires them, and the selection of transactions in *)
(* ConsensusEngine::propose_block.                                         *)
(*                                                                         *)
(* The code keeps the time of receipt; the model keeps the age, up to the  *)
(* first value above max_age_seconds.  The queue's next_expected_nonce is  *)
(* written and never read.                                                 *)
(***************************************************************************)
EXTENDS StateMachine, Filters, SequencesExt

CONSTANTS
  max_transactions_per_account,
  max_nonce_gap,
  max_age_seconds,
  max_block_gas,
  max_transactions_per_block

ASSUME MempoolConstants ==
  /\ max_transactions_per_account \in Nat \ {0}
  /\ max_nonce_gap \in Nat /\ max_age_seconds \in Nat
  /\ max_block_gas \in Uint /\ max_transactions_per_block \in Nat

\* No sum of gas leaves the width: nothing in the code ensures it.
GasFits == \A tx \in Transactions : max_block_gas + tx.gas_limit < Width

VARIABLES
  transactions,    \* transactions_: hash -> the transaction and its age
  account_queues,  \* account_queues_: sender -> its transactions
  fee_index        \* fee_index_: hashes, lowest fee first

mempoolVars == <<transactions, account_queues, fee_index>>
allVars == <<transactions, account_queues, fee_index, accounts, receipts,
             current_height, state_snapshots, total_burned,
             total_priority_fees, executed>>

MempoolInit ==
  Init /\ transactions = << >> /\ account_queues = << >> /\ fee_index = << >>

-----------------------------------------------------------------------------
(* add_transaction *)

Queue(a) == IF a \in DOMAIN account_queues THEN account_queues[a] ELSE << >>

\* What the account manager and the queue say of a new transaction.
Acceptable(tx) ==
  LET current_nonce == GetAccount(accounts, tx.from).nonce
  IN  /\ HasSufficientBalance(tx)
      /\ tx.nonce >= current_nonce /\ tx.nonce <= current_nonce + max_nonce_gap
      /\ Len(Queue(tx.from)) < max_transactions_per_account

\* insert_in_nonce_order: before the first transaction with no lower nonce.
InsertInNonceOrder(queue, tx) ==
  LET after == {i \in DOMAIN queue : queue[i].nonce >= tx.nonce}
  IN  InsertAt(queue, Min(after \cup {Len(queue) + 1}), tx)

\* A multimap inserts behind the entries with an equal key.
InsertByFee(index, hash) ==
  LET after == {i \in DOMAIN index : index[i].fee > hash.fee}
  IN  InsertAt(index, Min(after \cup {Len(index) + 1}), hash)

Inserted(tx) ==
  LET hash == TxHash(tx)
  IN  /\ transactions' = [h \in DOMAIN transactions \cup {hash} |->
                            IF h = hash THEN [tx |-> tx, age |-> 0]
                                        ELSE transactions[h]]
      /\ account_queues' =
           [a \in DOMAIN account_queues \cup {tx.from} |->
              IF a = tx.from THEN InsertInNonceOrder(Queue(a), tx)
                             ELSE account_queues[a]]
      /\ fee_index' = InsertByFee(fee_index, hash)

\* Mutant: a transaction that is already held becomes young again.
AddRefreshes(tx) ==
  /\ UNCHANGED ledgerVars
  /\ IF TxHash(tx) \in DOMAIN transactions
     THEN /\ transactions' = [transactions EXCEPT ![TxHash(tx)].age = 0]
          /\ UNCHANGED <<account_queues, fee_index>>
     ELSE Acceptable(tx) /\ Inserted(tx)

\* add_transaction; a rejected transaction changes nothing.  The signature is
\* not looked at.
AddTransaction(tx) ==
  /\ TxHash(tx) \notin DOMAIN transactions
  /\ Acceptable(tx)
  /\ Inserted(tx)
  /\ UNCHANGED ledgerVars

-----------------------------------------------------------------------------
(* remove_transactions, prune_old_transactions, clear *)

\* Mutant: the fee index is left alone.
RemovedFromMaps(hashes) ==
  LET Left(q) == KeepOnly(q, {tx \in Range(q) : TxHash(tx) \notin hashes})
  IN  /\ transactions' = [h \in DOMAIN transactions \ hashes |-> transactions[h]]
      /\ account_queues' =
           [a \in {b \in DOMAIN account_queues : Left(account_queues[b]) # << >>}
              |-> Left(account_queues[a])]
      /\ UNCHANGED fee_index

Removed(hashes) ==
  LET Left(q) == KeepOnly(q, {tx \in Range(q) : TxHash(tx) \notin hashes})
  IN  /\ transactions' = [h \in DOMAIN transactions \ hashes |-> transactions[h]]
      /\ account_queues' =
           [a \in {b \in DOMAIN account_queues : Left(account_queues[b]) # << >>}
              |-> Left(account_queues[a])]
      /\ fee_index' = KeepOnly(fee_index, Range(fee_index) \ hashes)

Expired == {h \in DOMAIN transactions : transactions[h].age > max_age_seconds}

RemoveTransactions(hashes) ==
  Removed(hashes \cap DOMAIN transactions) /\ UNCHANGED ledgerVars

PruneOldTransactions ==
  Expired # {} /\ Removed(Expired) /\ UNCHANGED ledgerVars

Clear ==
  /\ transactions' = << >> /\ account_queues' = << >> /\ fee_index' = << >>
  /\ UNCHANGED ledgerVars

\* A second passes.
Tick ==
  /\ \E h \in DOMAIN transactions : transactions[h].age <= max_age_seconds
  /\ transactions' = [h \in DOMAIN transactions |->
                        [transactions[h] EXCEPT
                           !.age = IF @ <= max_age_seconds THEN @ + 1 ELSE @]]
  /\ UNCHANGED <<account_queues, fee_index>> /\ UNCHANGED ledgerVars

-----------------------------------------------------------------------------
(* get_transactions_for_block and propose_block *)

\* Mutant: the nonce is not compared.
IncludableAnyNonce(tx, s, max_gas, min_base_fee) ==
  /\ tx.fee >= min_base_fee
  /\ (s.gas_used + tx.gas_limit) % Width <= max_gas

\* s is what the loop has selected, used up and expects so far.
Includable(tx, s, max_gas, min_base_fee) ==
  /\ tx.fee >= min_base_fee
  /\ (s.gas_used + tx.gas_limit) % Width <= max_gas
  /\ tx.from \in DOMAIN s.next_nonce => tx.nonce = s.next_nonce[tx.from]

SelectionStart ==
  [ txs |-> << >>, gas_used |-> 0,
    next_nonce |-> [a \in DOMAIN account_queues |-> GetAccount(accounts, a).nonce] ]

Include(s, tx) ==
  [ txs |-> Append(s.txs, tx), gas_used |-> (s.gas_used + tx.gas_limit) % Width,
    next_nonce |-> [a \in DOMAIN s.next_nonce |->
                      s.next_nonce[a] + IF a = tx.from THEN 1 ELSE 0] ]

\* One round of the loop, for the entry of the fee index that is looked at.
Consider(hash, s, max_gas, min_base_fee) ==
  IF /\ hash \in DOMAIN transactions
     /\ Includable(transactions[hash].tx, s, max_gas, min_base_fee)
  THEN Include(s, transactions[hash].tx) ELSE s

\* Mutant: the lowest fee comes first.
SelectLowestFirst(max_gas, min_base_fee) ==
  LET selected[n \in 0..Len(fee_index)] ==
        IF n = 0 THEN SelectionStart
        ELSE Consider(fee_index[n], selected[n - 1], max_gas, min_base_fee)
  IN  selected[Len(fee_index)].txs

\* get_transactions_for_block: from the highest fee down, what fits and follows.
GetTransactionsForBlock(max_gas, min_base_fee) ==
  LET L == Len(fee_index)
      selected[n \in 0..L] ==
        IF n = 0 THEN SelectionStart
        ELSE Consider(fee_index[L + 1 - n], selected[n - 1], max_gas, min_base_fee)
  IN  selected[L].txs

Proposed(base_fee) ==
  LET txs == GetTransactionsForBlock(max_block_gas, base_fee)
  IN  SubSeq(txs, 1, Min({Len(txs), max_transactions_per_block}))

\* The transactions stay in the mempool: nothing removes what was proposed.
ProposeBlock(height, base_fee) ==
  ExecuteBlock(height, Range(Proposed(base_fee))) /\ UNCHANGED mempoolVars

-----------------------------------------------------------------------------
(* The specification *)

Execute(tx) ==
  \E base_fee \in BaseFees, proposer \in Proposers :
    ExecuteTransaction(tx, base_fee, proposer) /\ UNCHANGED mempoolVars

MempoolNext ==
  \/ \E tx \in Transactions : AddTransaction(tx) \/ Execute(tx)
  \/ \E hash \in DOMAIN transactions : RemoveTransactions({hash})
  \/ PruneOldTransactions
  \/ Clear
  \/ Tick
  \/ \E height \in BlockHeights, base_fee \in BaseFees : ProposeBlock(height, base_fee)
  \/ Resets /\ UNCHANGED mempoolVars

\* Time passes, and the node's pruning task runs every minute.
MempoolFairness == WF_allVars(Tick) /\ WF_allVars(PruneOldTransactions)

MempoolSpec == MempoolInit /\ [][MempoolNext]_allVars /\ MempoolFairness

-----------------------------------------------------------------------------
(* Properties *)

\* The lookup table, the queues and the fee index of the mempool hold the same
\* transactions after every insertion and removal, each once; queues are never
\* empty, never above their limit and in nonce order, the index is in fee order.
IndexesAgree ==
  /\ Range(fee_index) = DOMAIN transactions /\ IsInjective(fee_index)
  /\ UNION {Range(account_queues[a]) : a \in DOMAIN account_queues}
       = {transactions[h].tx : h \in DOMAIN transactions}
  /\ \A i, j \in DOMAIN fee_index : i < j => fee_index[i].fee <= fee_index[j].fee
  /\ \A a \in DOMAIN account_queues :
       LET q == account_queues[a]
       IN  /\ Len(q) \in 1..max_transactions_per_account
           /\ IsInjective(q) /\ \A i \in DOMAIN q : q[i].from = a
           /\ \A i, j \in DOMAIN q : i < j => q[i].nonce <= q[j].nonce

\* What get_transactions_for_block returns can be executed in its order as far
\* as nonces go: each sender's nonces run on from its account's, without gap
\* or repetition, whatever became stale since the transactions were added; and
\* the block's gas is not exceeded.
SelectionFollowsNonces ==
  \A base_fee \in BaseFees :
    LET txs == Proposed(base_fee)
    IN  /\ \A i \in DOMAIN txs :
             txs[i].nonce = GetAccount(accounts, txs[i].from).nonce
               + Cardinality({j \in 1..(i - 1) : txs[j].from = txs[i].from})
        /\ StakeSum(DOMAIN txs, [i \in DOMAIN txs |-> txs[i].gas_limit])
             <= max_block_gas

\* Stale, expensive or early transactions never hide a good one: if any held
\* transaction is next for its sender, pays the base fee and fits into a block,
\* the first one proposed is such a transaction with the highest fee.
BestProposedFirst ==
  \A base_fee \in BaseFees :
    LET good == {tx \in {transactions[h].tx : h \in DOMAIN transactions} :
                   /\ tx.nonce = GetAccount(accounts, tx.from).nonce
                   /\ tx.fee >= base_fee /\ tx.gas_limit <= max_block_gas}
        txs  == GetTransactionsForBlock(max_block_gas, base_fee)
    IN  good # {} => /\ txs # << >> /\ Head(txs) \in good
                     /\ \A tx \in good : tx.fee <= Head(txs).fee

\* Every transaction leaves the mempool, if only by age, even if it is sent
\* again and again: one whose nonce is used up does not fill its sender's queue
\* for good.
EveryTransactionLeaves ==
  \A hash \in {TxHash(tx) : tx \in Transactions} :
    hash \in DOMAIN transactions ~> hash \notin DOMAIN transactions
=============================================================================
