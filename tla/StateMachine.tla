---------------------------- MODULE StateMachine ----------------------------
(***************************************************************************)
(* state::StateMachine with the AccountManager, TransactionValidator and   *)
(* TransactionExecutor it owns (src/state/state_machine.cpp,               *)
(* account_manager.cpp, transaction_validator.cpp,                         *)
(* transaction_executor.cpp).                                              *)
(*                                                                         *)
(* Amounts are uint64_t: sums and products are taken modulo Width.  A      *)
(* transaction's hash covers every field but the signature.  A signature   *)
(* is the key that made it, and a key is named by its owner's address.     *)
(* The values of state snapshots are never read: the heights they were     *)
(* taken at are kept.                                                      *)
(***************************************************************************)
EXTENDS StakeSums

CONSTANTS
  Addresses,     \* account addresses
  zero_address,
  chain_id,      \* chain_id_
  Width,         \* 2^64 in the code
  Transactions,  \* the transactions there are
  Allocation,    \* the genesis allocation, address -> amount
  BaseFees,      \* base fees callers pass
  Proposers,     \* proposer addresses callers pass
  BlockHeights   \* heights of executed blocks

Uint == 0..(Width - 1)

Transaction ==
  [ from : Addresses \cup {zero_address}, to : Addresses \cup {zero_address},
    amount : Uint, nonce : Nat, fee : Uint, gas_limit : Uint, chain_id : Nat,
    signature : Addresses ]

GenesisSupply == StakeSum(DOMAIN Allocation, Allocation)

ASSUME LedgerConstants ==
  /\ IsFiniteSet(Addresses) /\ zero_address \notin Addresses
  /\ Width \in Nat \ {0} /\ chain_id \in Nat
  /\ Transactions \subseteq Transaction
  /\ DOMAIN Allocation \subseteq Addresses
  /\ Allocation \in [DOMAIN Allocation -> Uint]
  /\ BaseFees \subseteq Uint /\ Proposers \subseteq Addresses
  /\ BlockHeights \subseteq Nat

\* No sum of the ledger leaves the width: nothing in the code ensures it.
AmountsFit ==
  /\ GenesisSupply < Width
  /\ \A tx \in Transactions : tx.amount + tx.fee < Width

VARIABLES
  accounts,             \* accounts_ of the account manager
  receipts,             \* receipts_: transaction hash -> receipt
  current_height,       \* current_height_
  state_snapshots,      \* the heights in state_snapshots_
  total_burned,         \* total_burned_ of the executor
  total_priority_fees,  \* total_priority_fees_ of the executor
  executed              \* (sender, nonce) of transactions executed on accounts

ledgerVars == <<accounts, receipts, current_height, state_snapshots,
                total_burned, total_priority_fees, executed>>

-----------------------------------------------------------------------------
(* AccountManager *)

Account == [balance : Uint, nonce : Nat]

GetAccount(accs, a) ==
  IF a \in DOMAIN accs THEN accs[a] ELSE [balance |-> 0, nonce |-> 0]

UpdateAccount(accs, a, account) ==
  [x \in DOMAIN accs \cup {a} |-> IF x = a THEN account ELSE accs[x]]

DeductBalance(accs, a, amount) ==
  UpdateAccount(accs, a,
    [GetAccount(accs, a) EXCEPT !.balance = (@ - amount) % Width])

AddBalance(accs, a, amount) ==
  UpdateAccount(accs, a,
    [GetAccount(accs, a) EXCEPT !.balance = (@ + amount) % Width])

IncrementNonce(accs, a) ==
  UpdateAccount(accs, a, [GetAccount(accs, a) EXCEPT !.nonce = @ + 1])

-----------------------------------------------------------------------------
(* TransactionValidator *)

TxHash(tx) ==
  [from |-> tx.from, to |-> tx.to, amount |-> tx.amount, nonce |-> tx.nonce,
   fee |-> tx.fee, gas_limit |-> tx.gas_limit, chain_id |-> tx.chain_id]

\* amount + fee as uint64_t
Required(tx) == (tx.amount + tx.fee) % Width

HasSufficientBalance(tx) == GetAccount(accounts, tx.from).balance >= Required(tx)

\* Mutant: later nonces are accepted too.
HasLaterNonce(tx) == tx.nonce >= GetAccount(accounts, tx.from).nonce

HasValidNonce(tx) == tx.nonce = GetAccount(accounts, tx.from).nonce

ValidateTransaction(tx, public_key) ==
  /\ tx.from # zero_address /\ tx.to # zero_address
  /\ tx.chain_id = chain_id
  /\ tx.signature = public_key
  /\ HasValidNonce(tx)
  /\ HasSufficientBalance(tx)

-----------------------------------------------------------------------------
(* TransactionExecutor *)

BaseFeeAmount(tx, base_fee) ==
  LET base_fee_total == (base_fee * tx.gas_limit) % Width
  IN  IF tx.fee < base_fee_total THEN tx.fee ELSE base_fee_total

\* Mutant: the proposer gets the whole fee.
PriorityWholeFee(tx, base_fee) == tx.fee

PriorityFeeAmount(tx, base_fee) == tx.fee - BaseFeeAmount(tx, base_fee)

\* Mutant: sender and recipient are read before either is written.
AppliedToCopies(accs, tx, base_fee, proposer) ==
  LET recipient == GetAccount(accs, tx.to)
      paid == UpdateAccount(
                IncrementNonce(DeductBalance(accs, tx.from, Required(tx)), tx.from),
                tx.to,
                [recipient EXCEPT !.balance = (@ + tx.amount) % Width])
  IN  AddBalance(paid, proposer, PriorityFeeAmount(tx, base_fee))

\* Deduct, count the nonce, pay the recipient, pay the proposer: every step
\* reads what the one before has written, whoever the parties are.
Applied(accs, tx, base_fee, proposer) ==
  LET deducted == DeductBalance(accs, tx.from, Required(tx))
      counted  == IncrementNonce(deducted, tx.from)
      paid     == AddBalance(counted, tx.to, tx.amount)
      priority == PriorityFeeAmount(tx, base_fee)
  IN  IF priority > 0 THEN AddBalance(paid, proposer, priority) ELSE paid

-----------------------------------------------------------------------------
(* The specification *)

Init ==
  /\ accounts = << >>
  /\ receipts = << >>
  /\ current_height = 0
  /\ state_snapshots = {}
  /\ total_burned = 0 /\ total_priority_fees = 0
  /\ executed = {}

\* initialize_from_genesis clears everything; a state root that does not match
\* the block's leaves the ledger cleared.
InitializeFromGenesis(root_matches) ==
  /\ accounts' = IF root_matches
                 THEN [a \in DOMAIN Allocation |->
                         [balance |-> Allocation[a], nonce |-> 0]]
                 ELSE << >>
  /\ receipts' = << >>
  /\ current_height' = 0
  /\ state_snapshots' = IF root_matches THEN {0} ELSE {}
  /\ total_burned' = 0 /\ total_priority_fees' = 0
  /\ executed' = {}

\* execute_transaction with the sender's key, which callers pass: the code ties
\* no key to an address.  The executor's check of the balance repeats the
\* validator's.  A transaction that fails changes nothing.
ExecuteTransaction(tx, base_fee, proposer) ==
  /\ ValidateTransaction(tx, tx.from)
  /\ accounts' = Applied(accounts, tx, base_fee, proposer)
  /\ total_burned' = (total_burned + BaseFeeAmount(tx, base_fee)) % Width
  /\ total_priority_fees' =
       (total_priority_fees + PriorityFeeAmount(tx, base_fee)) % Width
  /\ executed' = executed \cup {<<tx.from, tx.nonce>>}
  /\ UNCHANGED <<receipts, current_height, state_snapshots>>

\* execute_block validates every transaction with a default-constructed public
\* key, under which no signature verifies: it leaves a failure receipt for each
\* and changes no account.
ExecuteBlock(height, txs) ==
  /\ state_snapshots' = state_snapshots \cup {current_height}
  /\ LET hashes == {TxHash(tx) : tx \in txs}
     IN  receipts' = [h \in DOMAIN receipts \cup hashes |->
                        IF h \in hashes
                        THEN [block_height |-> height, success |-> FALSE]
                        ELSE receipts[h]]
  /\ current_height' = height
  /\ UNCHANGED <<accounts, total_burned, total_priority_fees, executed>>

\* revert_to_height clears the accounts instead of restoring them; the
\* executor's counters stay.
RevertToHeight(height) ==
  /\ height \in state_snapshots
  /\ accounts' = << >>
  /\ receipts' = [h \in {x \in DOMAIN receipts : receipts[x].block_height <= height}
                    |-> receipts[h]]
  /\ current_height' = height
  /\ state_snapshots' = {n \in state_snapshots : n <= height}
  /\ executed' = {}
  /\ UNCHANGED <<total_burned, total_priority_fees>>

\* Steps that replace the accounts instead of changing them.
Resets ==
  \/ \E b \in BOOLEAN : InitializeFromGenesis(b)
  \/ \E height \in state_snapshots : RevertToHeight(height)

Next ==
  \/ Resets
  \/ \E tx \in Transactions, base_fee \in BaseFees, proposer \in Proposers :
       ExecuteTransaction(tx, base_fee, proposer)
  \/ \E height \in BlockHeights, txs \in SUBSET Transactions :
       ExecuteBlock(height, txs)

Spec == Init /\ [][Next]_ledgerVars

-----------------------------------------------------------------------------
(* Properties *)

Balances(accs) == [a \in DOMAIN accs |-> accs[a].balance]

TokenSum(accs) == StakeSum(DOMAIN accs, Balances(accs))

Receipt == [block_height : Nat, success : BOOLEAN]

\* Types: balances and counters stay within the width, and the zero address
\* never gets an account.
LedgerTypeOK ==
  /\ DOMAIN accounts \subseteq Addresses
  /\ accounts \in [DOMAIN accounts -> Account]
  /\ receipts \in [DOMAIN receipts -> Receipt]
  /\ current_height \in Nat /\ state_snapshots \subseteq Nat
  /\ total_burned \in Uint /\ total_priority_fees \in Uint

\* Balance conservation: executing a transaction moves tokens between
\* accounts and burns the base fee, whether sender, recipient and proposer are
\* different, the same or new; no step but a reset makes or loses a token.
SupplyConserved ==
  [][\/ Resets
     \/ TokenSum(accounts') + total_burned' = TokenSum(accounts) + total_burned]_ledgerVars

\* There are never more tokens, held or burned, than the genesis allocated.
SupplyBacked == TokenSum(accounts) + total_burned <= GenesisSupply

\* No replay and no gap: the nonces executed for an account are exactly those
\* below its nonce.
NoncesSpentOnce ==
  executed = UNION {{a} \X (0..(accounts[a].nonce - 1)) : a \in DOMAIN accounts}
=============================================================================
