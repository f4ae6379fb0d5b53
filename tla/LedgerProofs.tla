---------------------------- MODULE LedgerProofs ----------------------------
(* Types, conservation and nonces of the ledger, for any transactions, and *)
(* the indexes and the selection of the mempool above it.                  *)
EXTENDS Mempool, SharedProofs

\* What the map of accounts is at all times.
AccountMap(accs) == DOMAIN accs \subseteq Addresses /\ accs \in [DOMAIN accs -> Account]

LEMMA GetAccountType ==
  ASSUME NEW accs, AccountMap(accs), NEW a
  PROVE  GetAccount(accs, a) \in Account
<1>1. 0 \in Uint
  BY LedgerConstants DEF Uint
<1> QED
  BY <1>1 DEF GetAccount, AccountMap, Account

\* Writing one account changes the sum of balances by what it changes there.
LEMMA UpdateAccountSum ==
  ASSUME NEW accs, AccountMap(accs), NEW a \in Addresses, NEW account \in Account
  PROVE  LET new == UpdateAccount(accs, a, account)
         IN  /\ AccountMap(new) /\ DOMAIN new = DOMAIN accs \cup {a}
             /\ TokenSum(accs) \in Nat
             /\ GetAccount(accs, a).balance <= TokenSum(accs)
             /\ TokenSum(new) =
                  (TokenSum(accs) - GetAccount(accs, a).balance) + account.balance
<1> DEFINE new == UpdateAccount(accs, a, account)
           f == Balances(accs)
           g == Balances(new)
           D == DOMAIN accs
<1>1. AccountMap(new) /\ DOMAIN new = D \cup {a} /\ new[a] = account
      /\ \A x \in D \ {a} : new[x] = accs[x]
  BY DEF AccountMap, UpdateAccount
<1>2. /\ IsFiniteSet(D) /\ IsFiniteSet(D \cup {a})
      /\ IsFiniteSet((D \cup {a}) \ {a})
  BY LedgerConstants, <1>1, FS_Subset DEF AccountMap
<1>3. \A x \in Account : x.balance \in Nat
  BY LedgerConstants DEF Account, Uint
<1>4. \A x \in D : f[x] = accs[x].balance /\ f[x] \in Nat
  BY <1>3 DEF Balances, AccountMap
<1>5. \A x \in D \cup {a} : g[x] = new[x].balance /\ g[x] \in Nat
  BY <1>1, <1>3 DEF Balances, AccountMap
<1>6. g[a] = account.balance
  BY <1>1, <1>5
<1>7. \A x \in D \ {a} : f[x] = g[x]
  BY <1>1, <1>4, <1>5
<1>8. TokenSum(accs) = StakeSum(D, f) /\ TokenSum(new) = StakeSum(D \cup {a}, g)
  BY <1>1 DEF TokenSum
<1>9. StakeSum(D, f) \in Nat
  BY <1>2, <1>4, StakeSumType
<1>10. CASE a \in D
  <2>1. D \cup {a} = D
    BY <1>10
  <2>2. /\ StakeSum(D, g) = (StakeSum(D, f) - f[a]) + g[a]
        /\ f[a] <= StakeSum(D, f)
    BY <1>2, <1>4, <1>5, <1>7, <1>10, StakeSumChange
  <2>3. GetAccount(accs, a).balance = f[a]
    BY <1>4, <1>10 DEF GetAccount
  <2> QED
    BY <2>1, <2>2, <2>3, <1>1, <1>6, <1>8, <1>9
<1>11. CASE a \notin D
  <2>1. (D \cup {a}) \ {a} = D
    BY <1>11
  <2>2. StakeSum(D \cup {a}, g) = g[a] + StakeSum((D \cup {a}) \ {a}, g)
    BY <1>2, <1>5, StakeSumSplit
  <2>3. StakeSum(D, g) = StakeSum(D, f)
    BY <1>7, <1>11, StakeSumEqual
  <2>4. GetAccount(accs, a).balance = 0
    BY <1>11 DEF GetAccount
  <2>5. g[a] \in Nat
    BY <1>5
  <2> QED
    BY <2>1, <2>2, <2>3, <2>4, <2>5, <1>1, <1>6, <1>8, <1>9
<1> QED
  BY <1>10, <1>11

LEMMA DeductBalanceSum ==
  ASSUME NEW accs, AccountMap(accs), NEW a \in Addresses, NEW n \in Nat,
         n <= GetAccount(accs, a).balance
  PROVE  /\ AccountMap(DeductBalance(accs, a, n))
         /\ TokenSum(accs) \in Nat /\ n <= TokenSum(accs)
         /\ TokenSum(DeductBalance(accs, a, n)) = TokenSum(accs) - n
<1> DEFINE old == GetAccount(accs, a)
           new == [old EXCEPT !.balance = (@ - n) % Width]
<1>1. old \in Account
  BY GetAccountType
<1>2. old.balance \in Nat /\ old.balance < Width /\ Width \in Nat \ {0}
  BY <1>1, LedgerConstants DEF Account, Uint
<1>3. (old.balance - n) % Width = old.balance - n
  BY <1>2
<1>4. new \in Account /\ new.balance = old.balance - n
  BY <1>1, <1>2, <1>3 DEF Account, Uint
<1> HIDE DEF old, new
<1>5. DeductBalance(accs, a, n) = UpdateAccount(accs, a, new)
  BY DEF DeductBalance, old, new
<1>6. /\ AccountMap(UpdateAccount(accs, a, new)) /\ TokenSum(accs) \in Nat
      /\ old.balance <= TokenSum(accs)
      /\ TokenSum(UpdateAccount(accs, a, new)) = (TokenSum(accs) - old.balance) + new.balance
  BY <1>4, UpdateAccountSum DEF old
<1> QED
  BY <1>2, <1>4, <1>5, <1>6 DEF old

LEMMA AddBalanceSum ==
  ASSUME NEW accs, AccountMap(accs), NEW a \in Addresses, NEW n \in Nat,
         TokenSum(accs) + n < Width
  PROVE  /\ AccountMap(AddBalance(accs, a, n))
         /\ TokenSum(accs) \in Nat
         /\ TokenSum(AddBalance(accs, a, n)) = TokenSum(accs) + n
<1> DEFINE old == GetAccount(accs, a)
           new == [old EXCEPT !.balance = (@ + n) % Width]
<1>1. old \in Account
  BY GetAccountType
<1>2. old.balance \in Nat /\ Width \in Nat \ {0}
  BY <1>1, LedgerConstants DEF Account, Uint
<1>3. old.balance <= TokenSum(accs) /\ TokenSum(accs) \in Nat
  BY <1>1, UpdateAccountSum
<1>4. (old.balance + n) % Width = old.balance + n
  BY <1>2, <1>3
<1>5. new \in Account /\ new.balance = old.balance + n
  BY <1>1, <1>2, <1>3, <1>4 DEF Account, Uint
<1> HIDE DEF old, new
<1>6. AddBalance(accs, a, n) = UpdateAccount(accs, a, new)
  BY DEF AddBalance, old, new
<1>7. /\ AccountMap(UpdateAccount(accs, a, new)) /\ TokenSum(accs) \in Nat
      /\ old.balance <= TokenSum(accs)
      /\ TokenSum(UpdateAccount(accs, a, new)) = (TokenSum(accs) - old.balance) + new.balance
  BY <1>5, UpdateAccountSum DEF old
<1> QED
  BY <1>2, <1>3, <1>5, <1>6, <1>7

LEMMA IncrementNonceSum ==
  ASSUME NEW accs, AccountMap(accs), NEW a \in Addresses
  PROVE  /\ AccountMap(IncrementNonce(accs, a))
         /\ TokenSum(IncrementNonce(accs, a)) = TokenSum(accs)
<1> DEFINE old == GetAccount(accs, a)
           new == [old EXCEPT !.nonce = @ + 1]
<1>1. old \in Account
  BY GetAccountType
<1>2. new \in Account /\ new.balance = old.balance /\ old.balance \in Nat
  BY <1>1, LedgerConstants DEF Account, Uint
<1> HIDE DEF old, new
<1>3. IncrementNonce(accs, a) = UpdateAccount(accs, a, new)
  BY DEF IncrementNonce, old, new
<1>4. /\ AccountMap(UpdateAccount(accs, a, new)) /\ TokenSum(accs) \in Nat
      /\ old.balance <= TokenSum(accs)
      /\ TokenSum(UpdateAccount(accs, a, new)) = (TokenSum(accs) - old.balance) + new.balance
  BY <1>2, UpdateAccountSum DEF old
<1> QED
  BY <1>2, <1>3, <1>4

LEMMA FeesType ==
  ASSUME NEW tx \in Transaction, NEW base_fee \in Uint
  PROVE  /\ BaseFeeAmount(tx, base_fee) \in Nat /\ BaseFeeAmount(tx, base_fee) <= tx.fee
         /\ BaseFeeAmount(tx, base_fee) \in Uint /\ tx.fee \in Uint
         /\ PriorityFeeAmount(tx, base_fee) \in Nat /\ PriorityFeeAmount(tx, base_fee) \in Uint
         /\ BaseFeeAmount(tx, base_fee) + PriorityFeeAmount(tx, base_fee) = tx.fee
<1> DEFINE total == (base_fee * tx.gas_limit) % Width
<1>1. tx.fee \in Uint /\ tx.gas_limit \in Uint /\ Width \in Nat \ {0}
  BY LedgerConstants DEF Transaction
<1>2. base_fee * tx.gas_limit \in Nat
  BY <1>1 DEF Uint
<1>3. total \in Uint
  BY <1>1, <1>2 DEF Uint
<1>4. BaseFeeAmount(tx, base_fee) = IF tx.fee < total THEN tx.fee ELSE total
  BY DEF BaseFeeAmount
<1> HIDE DEF total
<1> QED
  BY <1>1, <1>3, <1>4 DEF PriorityFeeAmount, Uint

\* A transaction moves what it says and takes the base fee off the sum.
LEMMA AppliedSum ==
  ASSUME NEW accs, AccountMap(accs), TokenSum(accs) < Width,
         NEW tx \in Transaction, tx.from \in Addresses, tx.to \in Addresses,
         NEW base_fee \in Uint, NEW proposer \in Addresses,
         tx.amount + tx.fee < Width,
         Required(tx) <= GetAccount(accs, tx.from).balance
  PROVE  /\ AccountMap(Applied(accs, tx, base_fee, proposer))
         /\ TokenSum(Applied(accs, tx, base_fee, proposer))
              = TokenSum(accs) - BaseFeeAmount(tx, base_fee)
         /\ BaseFeeAmount(tx, base_fee) <= TokenSum(accs)
<1> DEFINE deducted == DeductBalance(accs, tx.from, Required(tx))
           counted  == IncrementNonce(deducted, tx.from)
           paid     == AddBalance(counted, tx.to, tx.amount)
           priority == PriorityFeeAmount(tx, base_fee)
<1>0. Applied(accs, tx, base_fee, proposer) =
        IF priority > 0 THEN AddBalance(paid, proposer, priority) ELSE paid
  BY DEF Applied
<1>1. /\ tx.amount \in Nat /\ tx.fee \in Nat /\ Width \in Nat
      /\ Required(tx) = tx.amount + tx.fee
  BY LedgerConstants DEF Transaction, Uint, Required
<1>2. /\ AccountMap(deducted) /\ TokenSum(accs) \in Nat
      /\ Required(tx) <= TokenSum(accs)
      /\ TokenSum(deducted) = TokenSum(accs) - Required(tx)
  BY <1>1, DeductBalanceSum
<1>3. AccountMap(counted) /\ TokenSum(counted) = TokenSum(deducted)
  BY <1>2, IncrementNonceSum
<1> HIDE DEF deducted, counted
<1>4. /\ AccountMap(paid)
      /\ TokenSum(paid) = TokenSum(counted) + tx.amount
  <2>1. TokenSum(counted) + tx.amount < Width
    BY <1>1, <1>2, <1>3
  <2> QED
    BY <1>1, <1>3, <2>1, AddBalanceSum
<1> HIDE DEF paid
<1>5. /\ priority \in Nat /\ BaseFeeAmount(tx, base_fee) \in Nat
      /\ BaseFeeAmount(tx, base_fee) + priority = tx.fee
  BY FeesType
<1> HIDE DEF priority
<1>6. TokenSum(paid) = TokenSum(accs) - tx.fee
  BY <1>1, <1>2, <1>3, <1>4
<1>7. CASE priority > 0
  <2>1. TokenSum(paid) + priority < Width
    BY <1>1, <1>2, <1>5, <1>6
  <2>2. /\ AccountMap(AddBalance(paid, proposer, priority))
        /\ TokenSum(AddBalance(paid, proposer, priority)) = TokenSum(paid) + priority
    BY <1>4, <1>5, <2>1, AddBalanceSum
  <2> QED
    BY <1>0, <1>1, <1>2, <1>5, <1>6, <1>7, <2>2
<1>8. CASE ~(priority > 0)
  BY <1>0, <1>1, <1>2, <1>4, <1>5, <1>6, <1>8
<1> QED
  BY <1>7, <1>8

-----------------------------------------------------------------------------
(* Types and nonces, with or without overflow *)

\* Writing one account leaves the others as they are.
LEMMA UpdateAccountRead ==
  ASSUME NEW accs, AccountMap(accs), NEW a \in Addresses, NEW account \in Account
  PROVE  LET new == UpdateAccount(accs, a, account)
         IN  /\ AccountMap(new)
             /\ \A x : GetAccount(new, x) =
                         IF x = a THEN account ELSE GetAccount(accs, x)
BY DEF AccountMap, UpdateAccount, GetAccount

\* The nonces of new are those of accs, one more for a sender if there is one.
SameNonces(new, accs) ==
  \A x : GetAccount(new, x).nonce = GetAccount(accs, x).nonce

OneNonceMore(new, accs, sender) ==
  \A x : GetAccount(new, x).nonce =
           GetAccount(accs, x).nonce + IF x = sender THEN 1 ELSE 0

\* The three ways the code writes an account keep the types; only
\* increment_nonce changes a nonce.
LEMMA WritesKeep ==
  ASSUME NEW accs, AccountMap(accs), NEW a \in Addresses, NEW n \in Nat
  PROVE  /\ AccountMap(DeductBalance(accs, a, n)) /\ AccountMap(AddBalance(accs, a, n))
         /\ AccountMap(IncrementNonce(accs, a))
         /\ SameNonces(DeductBalance(accs, a, n), accs)
         /\ SameNonces(AddBalance(accs, a, n), accs)
         /\ OneNonceMore(IncrementNonce(accs, a), accs, a)
<1> DEFINE old == GetAccount(accs, a)
           less == [old EXCEPT !.balance = (@ - n) % Width]
           more == [old EXCEPT !.balance = (@ + n) % Width]
           next == [old EXCEPT !.nonce = @ + 1]
<1>1. old \in Account
  BY GetAccountType
<1>2. Width \in Nat \ {0} /\ old.balance \in Nat
  BY <1>1, LedgerConstants DEF Account, Uint
<1>3. (old.balance - n) % Width \in Uint /\ (old.balance + n) % Width \in Uint
  BY <1>2 DEF Uint
<1>4. less \in Account /\ less.nonce = old.nonce
  BY <1>1, <1>3 DEF Account
<1>5. more \in Account /\ more.nonce = old.nonce
  BY <1>1, <1>3 DEF Account
<1>6. next \in Account /\ next.nonce = old.nonce + 1
  BY <1>1 DEF Account
<1>7. \A x : GetAccount(accs, x).nonce \in Nat
  BY GetAccountType DEF Account
<1> HIDE DEF less, more, next
<1>8. /\ DeductBalance(accs, a, n) = UpdateAccount(accs, a, less)
      /\ AddBalance(accs, a, n) = UpdateAccount(accs, a, more)
      /\ IncrementNonce(accs, a) = UpdateAccount(accs, a, next)
  BY DEF DeductBalance, AddBalance, IncrementNonce, less, more, next
<1>9. /\ AccountMap(UpdateAccount(accs, a, less))
      /\ \A x : GetAccount(UpdateAccount(accs, a, less), x) =
                  IF x = a THEN less ELSE GetAccount(accs, x)
  BY <1>4, UpdateAccountRead
<1>10. /\ AccountMap(UpdateAccount(accs, a, more))
       /\ \A x : GetAccount(UpdateAccount(accs, a, more), x) =
                   IF x = a THEN more ELSE GetAccount(accs, x)
  BY <1>5, UpdateAccountRead
<1>11. /\ AccountMap(UpdateAccount(accs, a, next))
       /\ \A x : GetAccount(UpdateAccount(accs, a, next), x) =
                   IF x = a THEN next ELSE GetAccount(accs, x)
  BY <1>6, UpdateAccountRead
<1> QED
  BY <1>4, <1>5, <1>6, <1>7, <1>8, <1>9, <1>10, <1>11 DEF SameNonces, OneNonceMore

LEMMA AppliedKeeps ==
  ASSUME NEW accs, AccountMap(accs),
         NEW tx \in Transaction, tx.from \in Addresses, tx.to \in Addresses,
         NEW base_fee \in Uint, NEW proposer \in Addresses
  PROVE  LET new == Applied(accs, tx, base_fee, proposer)
         IN  AccountMap(new) /\ OneNonceMore(new, accs, tx.from)
<1> DEFINE deducted == DeductBalance(accs, tx.from, Required(tx))
           counted  == IncrementNonce(deducted, tx.from)
           paid     == AddBalance(counted, tx.to, tx.amount)
           priority == PriorityFeeAmount(tx, base_fee)
           rewarded == AddBalance(paid, proposer, priority)
<1>0. Applied(accs, tx, base_fee, proposer) = IF priority > 0 THEN rewarded ELSE paid
  BY DEF Applied
<1>1. Required(tx) \in Nat /\ tx.amount \in Nat /\ priority \in Nat
  BY LedgerConstants, FeesType DEF Transaction, Uint, Required
<1>2. AccountMap(deducted) /\ SameNonces(deducted, accs)
  BY <1>1, WritesKeep
<1> HIDE DEF deducted
<1>3. AccountMap(counted) /\ OneNonceMore(counted, deducted, tx.from)
  BY <1>2, WritesKeep
<1> HIDE DEF counted
<1>4. AccountMap(paid) /\ SameNonces(paid, counted)
  BY <1>1, <1>3, WritesKeep
<1> HIDE DEF paid, priority
<1>5. AccountMap(rewarded) /\ SameNonces(rewarded, paid)
  BY <1>1, <1>4, WritesKeep
<1> QED
  BY <1>0, <1>2, <1>3, <1>4, <1>5 DEF SameNonces, OneNonceMore

LEMMA ExecuteTransactionTypes ==
  ASSUME LedgerTypeOK,
         NEW tx \in Transactions, NEW base_fee \in BaseFees, NEW proposer \in Proposers,
         ExecuteTransaction(tx, base_fee, proposer)
  PROVE  /\ tx \in Transaction /\ tx.from \in Addresses /\ tx.to \in Addresses
         /\ base_fee \in Uint /\ proposer \in Addresses /\ tx.nonce \in Nat
         /\ AccountMap(accounts) /\ LedgerTypeOK'
<1>1. /\ tx \in Transaction /\ base_fee \in Uint /\ proposer \in Addresses
      /\ Width \in Nat \ {0}
  BY LedgerConstants
<1>2. tx.from \in Addresses /\ tx.to \in Addresses /\ tx.nonce \in Nat
  BY <1>1 DEF ExecuteTransaction, ValidateTransaction, Transaction
<1>3. AccountMap(accounts)
  BY DEF LedgerTypeOK, AccountMap
<1>4. AccountMap(accounts')
  BY <1>1, <1>2, <1>3, AppliedKeeps DEF ExecuteTransaction
<1>5. /\ BaseFeeAmount(tx, base_fee) \in Nat /\ PriorityFeeAmount(tx, base_fee) \in Nat
      /\ total_burned \in Nat /\ total_priority_fees \in Nat
  BY <1>1, FeesType DEF LedgerTypeOK, Uint
<1>6. total_burned' \in Uint /\ total_priority_fees' \in Uint
  BY <1>1, <1>5 DEF ExecuteTransaction, Uint
<1>7. UNCHANGED <<receipts, current_height, state_snapshots>>
  BY DEF ExecuteTransaction
<1>8. LedgerTypeOK'
  BY <1>4, <1>6, <1>7 DEF LedgerTypeOK, AccountMap
<1> QED
  BY <1>1, <1>2, <1>3, <1>8

LEMMA InitTypes ==
  ASSUME Init PROVE LedgerTypeOK
<1>1. 0 \in Uint
  BY LedgerConstants DEF Uint
<1> QED
  BY <1>1 DEF Init, LedgerTypeOK

LEMMA NextTypes ==
  ASSUME LedgerTypeOK, [Next]_ledgerVars PROVE LedgerTypeOK'
<1>1. ASSUME NEW b \in BOOLEAN, InitializeFromGenesis(b) PROVE LedgerTypeOK'
  <2>1. 0 \in Uint /\ DOMAIN Allocation \subseteq Addresses
        /\ \A x \in DOMAIN Allocation : Allocation[x] \in Uint
    BY LedgerConstants DEF Uint
  <2>2. AccountMap(accounts')
    BY <1>1, <2>1 DEF InitializeFromGenesis, AccountMap, Account
  <2> QED
    BY <1>1, <2>1, <2>2 DEF InitializeFromGenesis, AccountMap, LedgerTypeOK
<1>2. ASSUME NEW h \in state_snapshots, RevertToHeight(h) PROVE LedgerTypeOK'
  BY <1>2 DEF RevertToHeight, LedgerTypeOK
<1>3. ASSUME NEW tx \in Transactions, NEW base_fee \in BaseFees,
             NEW proposer \in Proposers, ExecuteTransaction(tx, base_fee, proposer)
      PROVE  LedgerTypeOK'
  BY <1>3, ExecuteTransactionTypes
<1>4. ASSUME NEW h \in BlockHeights, NEW txs \in SUBSET Transactions, ExecuteBlock(h, txs)
      PROVE  LedgerTypeOK'
  <2>1. h \in Nat
    BY LedgerConstants
  <2> QED
    BY <1>4, <2>1 DEF ExecuteBlock, LedgerTypeOK, Receipt
<1>5. CASE UNCHANGED ledgerVars
  BY <1>5 DEF ledgerVars, LedgerTypeOK
<1> QED
  BY <1>1, <1>2, <1>3, <1>4, <1>5 DEF Next, Resets

\* Every balance and counter of the state machine stays a uint64_t and no
\* operation makes an account for the zero address, whatever wraps.
THEOREM LedgerTypes == Spec => []LedgerTypeOK
<1>1. Init => LedgerTypeOK
  BY InitTypes
<1>2. LedgerTypeOK /\ [Next]_ledgerVars => LedgerTypeOK'
  BY NextTypes
<1> QED
  BY <1>1, <1>2, PTL DEF Spec

-----------------------------------------------------------------------------
(* Conservation, when no sum leaves the width *)

LEMMA NoTokens == TokenSum(<< >>) = 0
<1>1. StakeUnits({}, Balances(<< >>)) = {}
  BY DEF StakeUnits
<1>2. DOMAIN << >> = {}
  OBVIOUS
<1> QED
  BY <1>1, <1>2, FS_EmptySet DEF TokenSum, StakeSum

LEMMA TokenSumType ==
  ASSUME NEW accs, AccountMap(accs)
  PROVE  TokenSum(accs) \in Nat
<1>1. IsFiniteSet(DOMAIN accs)
  BY LedgerConstants, FS_Subset DEF AccountMap
<1>2. \A a \in DOMAIN accs : Balances(accs)[a] \in Nat
  BY LedgerConstants DEF AccountMap, Account, Uint, Balances
<1> QED
  BY <1>1, <1>2, StakeSumType DEF TokenSum

\* A transaction takes from the accounts exactly what it adds to the counter of
\* burned tokens.
LEMMA ExecuteTransactionConserves ==
  ASSUME AmountsFit, LedgerTypeOK, SupplyBacked,
         NEW tx \in Transactions, NEW base_fee \in BaseFees, NEW proposer \in Proposers,
         ExecuteTransaction(tx, base_fee, proposer)
  PROVE  TokenSum(accounts') + total_burned' = TokenSum(accounts) + total_burned
<1> DEFINE burned == BaseFeeAmount(tx, base_fee)
<1>1. /\ tx \in Transaction /\ tx.from \in Addresses /\ tx.to \in Addresses
      /\ base_fee \in Uint /\ proposer \in Addresses /\ AccountMap(accounts)
  BY ExecuteTransactionTypes
<1>2. /\ TokenSum(accounts) \in Nat /\ total_burned \in Nat /\ Width \in Nat
      /\ burned \in Nat
  BY <1>1, TokenSumType, FeesType, LedgerConstants DEF LedgerTypeOK, Uint
<1>3. GenesisSupply \in Nat
  <2>1. IsFiniteSet(DOMAIN Allocation) /\ \A a \in DOMAIN Allocation : Allocation[a] \in Nat
    BY LedgerConstants, FS_Subset DEF Uint
  <2> QED
    BY <2>1, StakeSumType DEF GenesisSupply
<1>4. TokenSum(accounts) + total_burned < Width
  BY <1>2, <1>3 DEF AmountsFit, SupplyBacked
<1>5. tx.amount + tx.fee < Width
  BY DEF AmountsFit
<1>6. Required(tx) <= GetAccount(accounts, tx.from).balance
  <2>1. GetAccount(accounts, tx.from).balance >= Required(tx)
    BY DEF ExecuteTransaction, ValidateTransaction, HasSufficientBalance
  <2>2. GetAccount(accounts, tx.from).balance \in Nat /\ Required(tx) \in Nat
    BY <1>1, GetAccountType, LedgerConstants DEF Account, Uint, Required, Transaction
  <2> QED
    BY <2>1, <2>2
<1>7. TokenSum(accounts) < Width
  BY <1>2, <1>4
<1>8. /\ TokenSum(accounts') = TokenSum(accounts) - burned
      /\ burned <= TokenSum(accounts)
  BY <1>1, <1>5, <1>6, <1>7, AppliedSum DEF ExecuteTransaction
<1>9. total_burned' = (total_burned + burned) % Width
  BY DEF ExecuteTransaction
<1> HIDE DEF burned
<1>10. total_burned' = total_burned + burned
  BY <1>2, <1>4, <1>8, <1>9
<1> QED
  BY <1>2, <1>8, <1>10

LEMMA InitBacked ==
  ASSUME Init PROVE SupplyBacked
<1>1. IsFiniteSet(DOMAIN Allocation) /\ \A a \in DOMAIN Allocation : Allocation[a] \in Nat
  BY LedgerConstants, FS_Subset DEF Uint
<1>2. GenesisSupply \in Nat
  BY <1>1, StakeSumType DEF GenesisSupply
<1> QED
  BY <1>2, NoTokens DEF Init, SupplyBacked

LEMMA NextBacked ==
  ASSUME AmountsFit, LedgerTypeOK, SupplyBacked, [Next]_ledgerVars
  PROVE  /\ SupplyBacked'
         /\ \/ Resets
            \/ TokenSum(accounts') + total_burned' = TokenSum(accounts) + total_burned
<1>0. IsFiniteSet(DOMAIN Allocation) /\ \A a \in DOMAIN Allocation : Allocation[a] \in Nat
  BY LedgerConstants, FS_Subset DEF Uint
<1>1. GenesisSupply \in Nat
  BY <1>0, StakeSumType DEF GenesisSupply
<1>2. ASSUME NEW b \in BOOLEAN, InitializeFromGenesis(b) PROVE SupplyBacked'
  <2>1. CASE b
    <3>1. DOMAIN accounts' = DOMAIN Allocation
      BY <1>2, <2>1 DEF InitializeFromGenesis
    <3>2. \A a \in DOMAIN Allocation : Balances(accounts')[a] = Allocation[a]
      BY <1>2, <2>1 DEF InitializeFromGenesis, Balances
    <3>3. TokenSum(accounts') = GenesisSupply
      BY <3>1, <3>2, StakeSumEqual DEF TokenSum, GenesisSupply
    <3> QED
      BY <1>1, <1>2, <3>3 DEF InitializeFromGenesis, SupplyBacked
  <2>2. CASE ~b
    BY <1>1, <1>2, <2>2, NoTokens DEF InitializeFromGenesis, SupplyBacked
  <2> QED
    BY <2>1, <2>2
<1>3. ASSUME NEW h \in state_snapshots, RevertToHeight(h) PROVE SupplyBacked'
  <2>1. AccountMap(accounts) /\ total_burned \in Nat
    BY LedgerConstants DEF LedgerTypeOK, AccountMap, Uint
  <2>2. TokenSum(accounts) \in Nat
    BY <2>1, TokenSumType
  <2>3. accounts' = << >> /\ total_burned' = total_burned
    BY <1>3 DEF RevertToHeight
  <2> QED
    BY <1>1, <2>1, <2>2, <2>3, NoTokens DEF SupplyBacked
<1>4. ASSUME NEW tx \in Transactions, NEW base_fee \in BaseFees,
             NEW proposer \in Proposers, ExecuteTransaction(tx, base_fee, proposer)
      PROVE  TokenSum(accounts') + total_burned' = TokenSum(accounts) + total_burned
  BY <1>4, ExecuteTransactionConserves
<1>5. ASSUME NEW h \in BlockHeights, NEW txs \in SUBSET Transactions, ExecuteBlock(h, txs)
      PROVE  TokenSum(accounts') + total_burned' = TokenSum(accounts) + total_burned
  BY <1>5 DEF ExecuteBlock
<1>6. CASE UNCHANGED ledgerVars
  BY <1>6 DEF ledgerVars, SupplyBacked
<1>7. ASSUME TokenSum(accounts') + total_burned' = TokenSum(accounts) + total_burned
      PROVE  SupplyBacked'
  BY <1>7 DEF SupplyBacked
<1>8. CASE Resets
  BY <1>2, <1>3, <1>8 DEF Resets
<1>9. CASE Next /\ ~Resets
  BY <1>4, <1>5, <1>7, <1>9 DEF Next
<1>10. CASE UNCHANGED ledgerVars
  BY <1>6, <1>10 DEF ledgerVars
<1> QED
  BY <1>8, <1>9, <1>10

\* If no sum leaves the width, there are never more tokens, held or burned,
\* than the genesis block allocated, and executing transactions neither makes
\* nor loses one: whoever pays, is paid and proposes.
THEOREM LedgerConservation ==
  ASSUME AmountsFit
  PROVE  Spec => []SupplyBacked /\ SupplyConserved
<1>1. Init => LedgerTypeOK /\ SupplyBacked
  BY InitTypes, InitBacked
<1>2. LedgerTypeOK /\ SupplyBacked /\ [Next]_ledgerVars
        => /\ (LedgerTypeOK /\ SupplyBacked)'
           /\ [\/ Resets
               \/ TokenSum(accounts') + total_burned'
                    = TokenSum(accounts) + total_burned]_ledgerVars
  BY AmountsFit, NextTypes, NextBacked
<1> QED
  BY <1>1, <1>2, PTL DEF Spec, SupplyConserved

\* Unless the accounts are reset, no step of the state machine makes or loses a
\* token: what transfers, fees and burning take from one they give to another.
THEOREM SupplyKept ==
  ASSUME AmountsFit
  PROVE  Spec => SupplyConserved
BY LedgerConservation, PTL

-----------------------------------------------------------------------------
(* Nonces *)

\* NoncesSpentOnce, one nonce at a time.
SpentBelow(done, accs) ==
  /\ done \subseteq Addresses \X Nat
  /\ \A a \in Addresses, n \in Nat :
       <<a, n>> \in done <=> n < GetAccount(accs, a).nonce

LEMMA SpentBelowMeans ==
  ASSUME NEW accs, AccountMap(accs), NEW done
  PROVE  SpentBelow(done, accs) <=>
           done = UNION {{a} \X (0..(accs[a].nonce - 1)) : a \in DOMAIN accs}
<1> DEFINE U == UNION {{a} \X (0..(accs[a].nonce - 1)) : a \in DOMAIN accs}
<1>1. \A a \in DOMAIN accs : /\ a \in Addresses /\ accs[a].nonce \in Nat
                             /\ GetAccount(accs, a) = accs[a]
  BY DEF AccountMap, Account, GetAccount
<1>2. \A a : a \notin DOMAIN accs => GetAccount(accs, a).nonce = 0
  BY DEF GetAccount
<1>3. U \subseteq Addresses \X Nat
  BY <1>1
<1>4. ASSUME NEW a \in Addresses, NEW n \in Nat
      PROVE  <<a, n>> \in U <=> n < GetAccount(accs, a).nonce
  <2>1. <<a, n>> \in U <=> a \in DOMAIN accs /\ n \in 0..(accs[a].nonce - 1)
    OBVIOUS
  <2>2. CASE a \in DOMAIN accs
    <3>1. n \in 0..(accs[a].nonce - 1) <=> n < accs[a].nonce
      BY <1>1, <2>2
    <3> QED
      BY <1>1, <2>1, <2>2, <3>1
  <2>3. CASE a \notin DOMAIN accs
    BY <1>2, <2>1, <2>3
  <2> QED
    BY <2>2, <2>3
<1>5. SpentBelow(U, accs)
  BY <1>3, <1>4 DEF SpentBelow
<1>6. ASSUME SpentBelow(done, accs) PROVE done = U
  <2>1. \A p \in Addresses \X Nat : p \in done <=> p \in U
    BY <1>4, <1>6 DEF SpentBelow
  <2> QED
    BY <1>3, <1>6, <2>1 DEF SpentBelow
<1> QED
  BY <1>5, <1>6

LEMMA NothingSpent == SpentBelow({}, << >>)
BY DEF SpentBelow, GetAccount

LEMMA NextNonces ==
  ASSUME LedgerTypeOK, SpentBelow(executed, accounts), [Next]_ledgerVars
  PROVE  SpentBelow(executed', accounts')
<1>1. ASSUME NEW b \in BOOLEAN, InitializeFromGenesis(b)
      PROVE  SpentBelow(executed', accounts')
  <2>1. executed' = {}
    BY <1>1 DEF InitializeFromGenesis
  <2>2. \A a : GetAccount(accounts', a).nonce = 0
    BY <1>1 DEF InitializeFromGenesis, GetAccount
  <2> QED
    BY <2>1, <2>2 DEF SpentBelow
<1>2. ASSUME NEW h \in state_snapshots, RevertToHeight(h)
      PROVE  SpentBelow(executed', accounts')
  BY <1>2, NothingSpent DEF RevertToHeight
<1>3. ASSUME NEW tx \in Transactions, NEW base_fee \in BaseFees,
             NEW proposer \in Proposers, ExecuteTransaction(tx, base_fee, proposer)
      PROVE  SpentBelow(executed', accounts')
  <2>1. /\ tx \in Transaction /\ tx.from \in Addresses /\ tx.to \in Addresses
        /\ base_fee \in Uint /\ proposer \in Addresses /\ tx.nonce \in Nat
        /\ AccountMap(accounts)
    BY <1>3, ExecuteTransactionTypes
  <2>2. OneNonceMore(accounts', accounts, tx.from)
    BY <1>3, <2>1, AppliedKeeps DEF ExecuteTransaction
  <2>3. tx.nonce = GetAccount(accounts, tx.from).nonce
    BY <1>3 DEF ExecuteTransaction, ValidateTransaction, HasValidNonce
  <2>4. executed' = executed \cup {<<tx.from, tx.nonce>>}
    BY <1>3 DEF ExecuteTransaction
  <2>5. \A a : GetAccount(accounts, a).nonce \in Nat
    BY <2>1, GetAccountType DEF Account
  <2>6. ASSUME NEW a \in Addresses, NEW n \in Nat
        PROVE  <<a, n>> \in executed' <=> n < GetAccount(accounts', a).nonce
    <3>1. <<a, n>> \in executed <=> n < GetAccount(accounts, a).nonce
      BY DEF SpentBelow
    <3>2. CASE a = tx.from
      <4>1. GetAccount(accounts', a).nonce = tx.nonce + 1
        BY <2>2, <2>3, <3>2 DEF OneNonceMore
      <4>2. <<a, n>> \in executed' <=> n < tx.nonce \/ n = tx.nonce
        BY <2>3, <2>4, <3>1, <3>2
      <4> QED
        BY <2>1, <4>1, <4>2
    <3>3. CASE a # tx.from
      <4>1. GetAccount(accounts', a).nonce = GetAccount(accounts, a).nonce
        BY <2>2, <2>5, <3>3 DEF OneNonceMore
      <4> QED
        BY <2>4, <3>1, <3>3, <4>1
    <3> QED
      BY <3>2, <3>3
  <2>7. executed' \subseteq Addresses \X Nat
    BY <2>1, <2>4 DEF SpentBelow
  <2> QED
    BY <2>6, <2>7 DEF SpentBelow
<1>4. ASSUME NEW h \in BlockHeights, NEW txs \in SUBSET Transactions, ExecuteBlock(h, txs)
      PROVE  SpentBelow(executed', accounts')
  BY <1>4 DEF ExecuteBlock
<1>5. CASE UNCHANGED ledgerVars
  BY <1>5 DEF ledgerVars
<1> QED
  BY <1>1, <1>2, <1>3, <1>4, <1>5 DEF Next, Resets

\* The state machine executes each nonce of an account once and in order: no
\* transaction is replayed and none is skipped, whatever the amounts.
THEOREM LedgerNonces == Spec => []NoncesSpentOnce
<1>1. Init => LedgerTypeOK /\ SpentBelow(executed, accounts)
  BY InitTypes, NothingSpent DEF Init
<1>2. LedgerTypeOK /\ SpentBelow(executed, accounts) /\ [Next]_ledgerVars
        => LedgerTypeOK' /\ SpentBelow(executed, accounts)'
  BY NextTypes, NextNonces
<1>3. LedgerTypeOK /\ SpentBelow(executed, accounts) => NoncesSpentOnce
  BY SpentBelowMeans DEF LedgerTypeOK, AccountMap, NoncesSpentOnce
<1> QED
  BY <1>1, <1>2, <1>3, PTL DEF Spec
-----------------------------------------------------------------------------
(* The mempool's indexes *)

\* Where InsertInNonceOrder and InsertByFee insert.
LEMMA InsertPosition ==
  ASSUME NEW n \in Nat, NEW S \in SUBSET (1..n)
  PROVE  LET p == Min(S \cup {n + 1})
         IN  /\ p \in 1..(n + 1) /\ (p = n + 1 \/ p \in S)
             /\ \A i \in 1..n : i < p => i \notin S
<1> DEFINE T == S \cup {n + 1}
<1>1. T \subseteq Nat /\ T # {} /\ T \subseteq 1..(n + 1)
  OBVIOUS
<1>2. \E x \in T : \A y \in T : x <= y
  BY <1>1, LeastExists
<1>3. Min(T) \in T /\ \A y \in T : Min(T) <= y
  <2> HIDE DEF T
  <2> QED BY <1>2 DEF Min
<1>4. ASSUME NEW i \in 1..n, i < Min(T) PROVE i \notin S
  <2>1. i \in S => i \in T
    OBVIOUS
  <2>2. Min(T) \in Nat
    BY <1>1, <1>3
  <2> HIDE DEF T
  <2> QED BY <1>3, <1>4, <2>1, <2>2
<1> QED
  BY <1>1, <1>3, <1>4

LEMMA Joined ==
  ASSUME NEW D, NEW u \in Seq(D), NEW v \in Seq(D)
  PROVE  /\ u \o v \in Seq(D) /\ Len(u \o v) = Len(u) + Len(v)
         /\ \A k \in 1..Len(u) : (u \o v)[k] = u[k]
         /\ \A k \in 1..Len(v) : (u \o v)[Len(u) + k] = v[k]
OBVIOUS

\* Inserting an element between those below and those above it keeps the order.
LEMMA InsertAscending ==
  ASSUME NEW D, NEW s \in Seq(D), NEW e \in D, NEW p \in 1..(Len(s) + 1),
         NEW R, Ascending(s, R),
         \A i \in 1..Len(s) : i < p => <<s[i], e>> \in R,
         \A i \in 1..Len(s) : i >= p => <<e, s[i]>> \in R
  PROVE  LET t == InsertAt(s, p, e)
         IN  /\ t \in Seq(D) /\ Len(t) = Len(s) + 1 /\ Ascending(t, R)
             /\ \A k \in 1..Len(t) : t[k] = e \/ \E i \in 1..Len(s) : t[k] = s[i]
             /\ \E k \in 1..Len(t) : t[k] = e
             /\ \A i \in 1..Len(s) : \E k \in 1..Len(t) : t[k] = s[i]
<1> DEFINE t == InsertAt(s, p, e)
           L == Len(s)
<1>1. L \in Nat /\ p - 1 \in 0..L /\ p \in 1..(L + 1)
  OBVIOUS
<1>2. /\ t \in Seq(D) /\ Len(t) = L + 1
      /\ \A k \in 1..(L + 1) : t[k] = IF k < p THEN s[k]
                                      ELSE IF k = p THEN e ELSE s[k - 1]
  <2> DEFINE u == SubSeq(s, 1, p - 1)
             v == SubSeq(s, p, L)
  <2>1. /\ u \in Seq(D) /\ Len(u) = p - 1
        /\ \A k \in 1..(p - 1) : u[k] = s[k]
    BY <1>1
  <2>2. /\ v \in Seq(D) /\ Len(v) = (L + 1) - p
        /\ \A k \in 1..((L + 1) - p) : v[k] = s[k + (p - 1)]
    BY <1>1
  <2>3. t = (u \o <<e>>) \o v
    BY DEF InsertAt
  <2> HIDE DEF u, v, t, L
  <2> DEFINE w == u \o <<e>>
  <2>4. /\ w \in Seq(D) /\ Len(w) = p /\ t = w \o v
        /\ \A k \in 1..(p - 1) : w[k] = s[k]
        /\ w[p] = e
    BY <1>1, <2>1, <2>3
  <2> HIDE DEF w
  <2>5. /\ t \in Seq(D) /\ Len(t) = L + 1
        /\ \A k \in 1..p : t[k] = w[k]
        /\ \A k \in (p + 1)..(L + 1) : t[k] = v[k - p]
    <3>1. /\ t \in Seq(D) /\ Len(t) = Len(w) + Len(v)
          /\ \A k \in 1..Len(w) : t[k] = w[k]
          /\ \A k \in 1..Len(v) : t[Len(w) + k] = v[k]
      <4>1. w \in Seq(D) /\ v \in Seq(D)
        BY <2>2, <2>4
      <4>2. /\ w \o v \in Seq(D) /\ Len(w \o v) = Len(w) + Len(v)
            /\ \A k \in 1..Len(w) : (w \o v)[k] = w[k]
            /\ \A k \in 1..Len(v) : (w \o v)[Len(w) + k] = v[k]
        BY <4>1, Joined
      <4> QED BY <2>4, <4>2, Zenon
    <3>2. Len(w) = p /\ Len(v) = (L + 1) - p /\ p \in Int /\ L \in Int
      BY <1>1, <2>2, <2>4
    <3>3. ASSUME NEW k \in (p + 1)..(L + 1) PROVE t[k] = v[k - p]
      <4>1. k - p \in 1..Len(v) /\ Len(w) + (k - p) = k
        BY <3>2
      <4> QED BY <3>1, <4>1
    <3>4. Len(t) = L + 1
      BY <3>1, <3>2
    <3> QED BY <3>1, <3>2, <3>3, <3>4
  <2>6. ASSUME NEW k \in 1..(L + 1)
        PROVE  t[k] = IF k < p THEN s[k] ELSE IF k = p THEN e ELSE s[k - 1]
    <3>1. CASE k < p
      <4>1. k \in 1..p /\ k \in 1..(p - 1)
        BY <1>1, <3>1
      <4> QED BY <2>4, <2>5, <3>1, <4>1
    <3>2. CASE k = p
      <4>1. p \in 1..p /\ ~(k < p)
        BY <1>1, <3>2
      <4> QED BY <2>4, <2>5, <3>2, <4>1
    <3>3. CASE k > p
      <4>1. k - p \in 1..((L + 1) - p) /\ k \in (p + 1)..(L + 1)
            /\ (k - p) + (p - 1) = k - 1
        BY <1>1, <3>3
      <4> QED BY <2>2, <2>5, <3>3, <4>1
    <3> QED BY <1>1, <3>1, <3>2, <3>3
  <2> QED BY <2>5, <2>6
<1> HIDE DEF t
<1>3. ASSUME NEW j \in 1..(L + 1), NEW k \in 1..(L + 1), j < k
      PROVE  <<t[j], t[k]>> \in R
  <2>0. \A x, y \in 1..L : x < y => <<s[x], s[y]>> \in R
    BY DEF Ascending
  <2>1. CASE k < p
    <3>1. t[j] = s[j] /\ t[k] = s[k] /\ j \in 1..L /\ k \in 1..L
      BY <1>2, <1>3, <2>1
    <3> QED BY <1>3, <2>0, <3>1
  <2>2. CASE k = p
    <3>1. t[j] = s[j] /\ t[k] = e /\ j \in 1..L /\ j < p
      BY <1>2, <1>3, <2>2
    <3> QED BY <3>1
  <2>3. CASE k > p /\ j < p
    <3>1. /\ t[j] = s[j] /\ t[k] = s[k - 1] /\ j \in 1..L /\ k - 1 \in 1..L
          /\ j < k - 1
      BY <1>2, <1>3, <2>3
    <3> QED BY <2>0, <3>1
  <2>4. CASE k > p /\ j = p
    <3>1. t[j] = e /\ t[k] = s[k - 1] /\ k - 1 \in 1..L /\ k - 1 >= p
      BY <1>2, <1>3, <2>4
    <3> QED BY <3>1
  <2>5. CASE k > p /\ j > p
    <3>1. /\ t[j] = s[j - 1] /\ t[k] = s[k - 1] /\ j - 1 \in 1..L /\ k - 1 \in 1..L
          /\ j - 1 < k - 1
      BY <1>2, <1>3, <2>5
    <3> QED BY <2>0, <3>1
  <2> QED BY <2>1, <2>2, <2>3, <2>4, <2>5
<1>4. ASSUME NEW k \in 1..(L + 1)
      PROVE  t[k] = e \/ \E i \in 1..L : t[k] = s[i]
  <2>1. CASE k < p
    BY <1>2, <2>1
  <2>2. CASE k = p
    BY <1>2, <2>2
  <2>3. CASE k > p
    <3>1. k - 1 \in 1..L /\ t[k] = s[k - 1]
      BY <1>2, <2>3
    <3> QED BY <3>1
  <2> QED BY <2>1, <2>2, <2>3
<1>5. p \in 1..(L + 1) /\ t[p] = e
  BY <1>2
<1>6. ASSUME NEW i \in 1..L
      PROVE  \E k \in 1..(L + 1) : t[k] = s[i]
  <2>1. CASE i < p
    <3>1. i \in 1..(L + 1) /\ t[i] = s[i]
      BY <1>2, <2>1
    <3> QED BY <3>1
  <2>2. CASE i >= p
    <3>1. i + 1 \in 1..(L + 1) /\ ~(i + 1 < p) /\ i + 1 # p /\ (i + 1) - 1 = i
      BY <1>1, <2>2
    <3>2. t[i + 1] = s[i]
      BY <1>2, <3>1
    <3> QED BY <3>1, <3>2
  <2> QED BY <2>1, <2>2
<1> QED
  BY <1>2, <1>3, <1>4, <1>5, <1>6 DEF Ascending, t

\* The parts of the mempool's invariant.  What the lookup table holds:
Table(ts) ==
  /\ ts \in [DOMAIN ts -> [tx : Transactions, age : Nat]]
  /\ \A h \in DOMAIN ts : TxHash(ts[h].tx) = h

\* The orders of the fee index and of a queue; neither has an element twice.
FeeOrder ==
  LET Hashes == {TxHash(tx) : tx \in Transactions}
  IN  {gh \in Hashes \X Hashes : gh[1] # gh[2] /\ gh[1].fee <= gh[2].fee}

NonceOrder ==
  {xy \in Transactions \X Transactions :
     TxHash(xy[1]) # TxHash(xy[2]) /\ xy[1].nonce <= xy[2].nonce}

IndexOf(ts, index) ==
  /\ index \in Seq(DOMAIN ts) /\ Ascending(index, FeeOrder)
  /\ \A h \in DOMAIN ts : \E i \in 1..Len(index) : index[i] = h

QueueOf(ts, a, q) ==
  /\ q \in Seq(Transactions) /\ Ascending(q, NonceOrder)
  /\ \A i \in 1..Len(q) : /\ q[i].from = a
                          /\ TxHash(q[i]) \in DOMAIN ts /\ ts[TxHash(q[i])].tx = q[i]

QueuesOf(ts, queues) ==
  /\ \A a \in DOMAIN queues :
       /\ QueueOf(ts, a, queues[a])
       /\ Len(queues[a]) \in 1..max_transactions_per_account
  /\ \A h \in DOMAIN ts :
       LET tx == ts[h].tx
       IN  /\ tx.from \in DOMAIN queues
           /\ \E i \in 1..Len(queues[tx.from]) : queues[tx.from][i] = tx

\* The mempool's inductive invariant: IndexesAgree compares hashes with
\* transactions, and two transactions can have one hash.
PoolInv ==
  /\ Table(transactions) /\ IndexOf(transactions, fee_index)
  /\ QueuesOf(transactions, account_queues)

LEMMA TransactionFields ==
  ASSUME NEW tx \in Transactions
  PROVE  /\ TxHash(tx).fee = tx.fee /\ tx.fee \in Nat /\ tx.nonce \in Nat
         /\ tx.gas_limit \in Uint /\ tx.gas_limit \in Nat
  BY LedgerConstants DEF TxHash, Transaction, Uint

LEMMA InsertByFeeIndexes ==
  ASSUME NEW ts, Table(ts), NEW index, IndexOf(ts, index),
         NEW tx \in Transactions, TxHash(tx) \notin DOMAIN ts,
         NEW us, DOMAIN us = DOMAIN ts \cup {TxHash(tx)}
  PROVE  IndexOf(us, InsertByFee(index, TxHash(tx)))
<1> DEFINE hash == TxHash(tx)
           H == DOMAIN us
           L == Len(index)
           S == {i \in DOMAIN index : index[i].fee > hash.fee}
           p == Min(S \cup {L + 1})
           t == InsertAt(index, p, hash)
<1>1. /\ index \in Seq(H) /\ index \in Seq(DOMAIN ts) /\ hash \in H /\ L \in Nat
      /\ DOMAIN index = 1..L
  BY DEF IndexOf
<1>2. \A h \in H : h \in {TxHash(x) : x \in Transactions} /\ h.fee \in Nat
  BY TransactionFields DEF Table
<1>3. \A i \in 1..L : index[i] \in DOMAIN ts /\ index[i] \in H /\ index[i] # hash
  BY <1>1
<1>4. S \in SUBSET (1..L)
  BY <1>1
<1> HIDE DEF S
<1>5. /\ p \in 1..(L + 1) /\ (p = L + 1 \/ p \in S)
      /\ \A i \in 1..L : i < p => i \notin S
  BY <1>1, <1>4, InsertPosition
<1> HIDE DEF p, hash, H, L
<1>6. ASSUME NEW i \in 1..L, i < p PROVE <<index[i], hash>> \in FeeOrder
  <2>1. ~(index[i].fee > hash.fee)
    BY <1>1, <1>5, <1>6 DEF S
  <2>2. index[i].fee \in Nat /\ hash.fee \in Nat
    BY <1>1, <1>2, <1>3
  <2> QED BY <1>1, <1>2, <1>3, <2>1, <2>2 DEF FeeOrder
<1>7. ASSUME NEW i \in 1..L, i >= p PROVE <<hash, index[i]>> \in FeeOrder
  <2>1. p \in S /\ p \in 1..L
    BY <1>1, <1>4, <1>5, <1>7
  <2>2. index[p].fee > hash.fee
    BY <2>1 DEF S
  <2>3. index[p].fee \in Nat /\ index[i].fee \in Nat /\ hash.fee \in Nat
    BY <1>1, <1>2, <1>3, <2>1
  <2>4. CASE i = p
    BY <1>1, <1>2, <1>3, <2>2, <2>3, <2>4 DEF FeeOrder
  <2>5. CASE p < i
    <3>1. <<index[p], index[i]>> \in FeeOrder
      BY <2>1, <2>5 DEF IndexOf, Ascending, L
    <3>2. index[p].fee <= index[i].fee
      BY <3>1 DEF FeeOrder
    <3> QED BY <1>1, <1>2, <1>3, <2>2, <2>3, <3>2 DEF FeeOrder
  <2> QED BY <1>1, <1>5, <1>7, <2>1, <2>4, <2>5
<1>8. Ascending(index, FeeOrder)
  BY DEF IndexOf
<1>9. /\ t \in Seq(H) /\ Ascending(t, FeeOrder)
      /\ \E k \in 1..Len(t) : t[k] = hash
      /\ \A i \in 1..L : \E k \in 1..Len(t) : t[k] = index[i]
  BY <1>1, <1>5, <1>6, <1>7, <1>8, InsertAscending DEF L
<1>10. InsertByFee(index, hash) = t
  BY DEF InsertByFee, S, p, L
<1> HIDE DEF t
<1>11. ASSUME NEW h \in H PROVE \E k \in 1..Len(t) : t[k] = h
  <2>1. CASE h = hash
    BY <1>9, <2>1
  <2>2. CASE h \in DOMAIN ts
    <3>1. PICK i \in 1..L : index[i] = h
      BY <2>2 DEF IndexOf, L
    <3> QED BY <1>9, <3>1
  <2> QED BY <2>1, <2>2 DEF H, hash
<1> QED
  BY <1>9, <1>10, <1>11 DEF IndexOf, H, hash

LEMMA InsertInNonceOrderQueues ==
  ASSUME NEW ts, Table(ts), NEW a, NEW q, QueueOf(ts, a, q),
         NEW tx \in Transactions, tx.from = a, TxHash(tx) \notin DOMAIN ts,
         NEW us, DOMAIN us = DOMAIN ts \cup {TxHash(tx)},
         us[TxHash(tx)].tx = tx, \A h \in DOMAIN ts : us[h] = ts[h]
  PROVE  LET t == InsertInNonceOrder(q, tx)
         IN  /\ QueueOf(us, a, t) /\ Len(t) = Len(q) + 1
             /\ \E k \in 1..Len(t) : t[k] = tx
             /\ \A i \in 1..Len(q) : \E k \in 1..Len(t) : t[k] = q[i]
<1> DEFINE L == Len(q)
           S == {i \in DOMAIN q : q[i].nonce >= tx.nonce}
           p == Min(S \cup {L + 1})
           t == InsertAt(q, p, tx)
<1>1. q \in Seq(Transactions) /\ L \in Nat /\ DOMAIN q = 1..L
  BY DEF QueueOf
<1>2. \A x \in Transactions : x.nonce \in Nat
  BY TransactionFields
<1>3. \A i \in 1..L : /\ q[i] \in Transactions /\ TxHash(q[i]) # TxHash(tx)
                      /\ q[i].nonce \in Nat
  BY <1>1, <1>2 DEF QueueOf
<1>4. S \in SUBSET (1..L)
  BY <1>1
<1> HIDE DEF S
<1>5. /\ p \in 1..(L + 1) /\ (p = L + 1 \/ p \in S)
      /\ \A i \in 1..L : i < p => i \notin S
  BY <1>1, <1>4, InsertPosition
<1> HIDE DEF p, L
<1>6. ASSUME NEW i \in 1..L, i < p PROVE <<q[i], tx>> \in NonceOrder
  <2>1. ~(q[i].nonce >= tx.nonce)
    BY <1>1, <1>5, <1>6 DEF S
  <2> QED BY <1>2, <1>3, <2>1 DEF NonceOrder
<1>7. ASSUME NEW i \in 1..L, i >= p PROVE <<tx, q[i]>> \in NonceOrder
  <2>1. p \in S /\ p \in 1..L
    BY <1>1, <1>4, <1>5, <1>7
  <2>2. q[p].nonce >= tx.nonce
    BY <2>1 DEF S
  <2>3. q[p].nonce \in Nat /\ q[i].nonce \in Nat /\ tx.nonce \in Nat
    BY <1>2, <1>3, <2>1
  <2>4. CASE i = p
    BY <1>2, <1>3, <2>2, <2>3, <2>4 DEF NonceOrder
  <2>5. CASE p < i
    <3>1. <<q[p], q[i]>> \in NonceOrder
      BY <2>1, <2>5 DEF QueueOf, Ascending, L
    <3>2. q[p].nonce <= q[i].nonce
      BY <3>1 DEF NonceOrder
    <3> QED BY <1>2, <1>3, <2>2, <2>3, <3>2 DEF NonceOrder
  <2> QED BY <1>1, <1>5, <1>7, <2>1, <2>4, <2>5
<1>8. Ascending(q, NonceOrder)
  BY DEF QueueOf
<1>9. /\ t \in Seq(Transactions) /\ Ascending(t, NonceOrder) /\ Len(t) = L + 1
      /\ \A k \in 1..Len(t) : t[k] = tx \/ \E i \in 1..L : t[k] = q[i]
      /\ \E k \in 1..Len(t) : t[k] = tx
      /\ \A i \in 1..L : \E k \in 1..Len(t) : t[k] = q[i]
  BY <1>1, <1>5, <1>6, <1>7, <1>8, InsertAscending DEF L
<1>10. InsertInNonceOrder(q, tx) = t
  BY DEF InsertInNonceOrder, S, p, L
<1> HIDE DEF t
<1>11. ASSUME NEW k \in 1..Len(t)
       PROVE  /\ t[k].from = a /\ TxHash(t[k]) \in DOMAIN us
              /\ us[TxHash(t[k])].tx = t[k]
  <2>1. CASE t[k] = tx
    BY <2>1
  <2>2. CASE \E i \in 1..L : t[k] = q[i]
    <3>1. PICK i \in 1..L : t[k] = q[i]
      BY <2>2
    <3>2. q[i].from = a /\ TxHash(q[i]) \in DOMAIN ts /\ ts[TxHash(q[i])].tx = q[i]
      BY DEF QueueOf, L
    <3> QED BY <3>1, <3>2
  <2> QED BY <1>9, <2>1, <2>2
<1> QED
  BY <1>9, <1>10, <1>11 DEF QueueOf, L

LEMMA AddKeepsPool ==
  ASSUME PoolInv, NEW tx \in Transactions, AddTransaction(tx)
  PROVE  PoolInv'
<1>1. PICK ts, qs : ts = transactions /\ qs = account_queues
  OBVIOUS
<1>2. PICK us, rs : us = transactions' /\ rs = account_queues'
  OBVIOUS
<1> DEFINE hash == TxHash(tx)
           from == tx.from
           old == IF from \in DOMAIN qs THEN qs[from] ELSE << >>
           new == InsertInNonceOrder(old, tx)
<1>3. Table(ts) /\ IndexOf(ts, fee_index) /\ QueuesOf(ts, qs)
  BY <1>1 DEF PoolInv
<1>4. /\ hash \notin DOMAIN ts /\ Len(old) < max_transactions_per_account
      /\ us = [h \in DOMAIN ts \cup {hash} |->
                 IF h = hash THEN [tx |-> tx, age |-> 0] ELSE ts[h]]
      /\ rs = [b \in DOMAIN qs \cup {from} |-> IF b = from THEN new ELSE qs[b]]
      /\ fee_index' = InsertByFee(fee_index, hash)
  <2>1. Queue(from) = old
    BY <1>1 DEF Queue
  <2>2. /\ hash \notin DOMAIN transactions
        /\ Len(Queue(from)) < max_transactions_per_account /\ Inserted(tx)
    BY DEF AddTransaction, Acceptable
  <2>3. rs = [b \in DOMAIN qs \cup {from} |->
                IF b = from THEN InsertInNonceOrder(Queue(b), tx) ELSE qs[b]]
    BY <1>1, <1>2, <2>2 DEF Inserted
  <2> HIDE DEF old
  <2> QED BY <1>1, <1>2, <2>1, <2>2, <2>3 DEF Inserted
<1> HIDE DEF old
<1>5. /\ DOMAIN us = DOMAIN ts \cup {hash} /\ us[hash] = [tx |-> tx, age |-> 0]
      /\ \A h \in DOMAIN ts : us[h] = ts[h]
  BY <1>4
<1>6. /\ DOMAIN rs = DOMAIN qs \cup {from} /\ rs[from] = new
      /\ \A b \in DOMAIN qs : b # from => rs[b] = qs[b]
  <2> HIDE DEF new
  <2> QED BY <1>4
<1>7. Table(us)
  <2>1. \A h \in DOMAIN us :
          us[h] \in [tx : Transactions, age : Nat] /\ TxHash(us[h].tx) = h
    <3>1. us[hash].tx = tx /\ us[hash] \in [tx : Transactions, age : Nat]
      BY <1>5
    <3>2. \A h \in DOMAIN ts :
            us[h] \in [tx : Transactions, age : Nat] /\ TxHash(us[h].tx) = h
      BY <1>3, <1>5 DEF Table
    <3> QED BY <1>5, <3>1, <3>2
  <2>2. us = [h \in DOMAIN us |-> us[h]]
    BY <1>4
  <2> QED BY <2>1, <2>2 DEF Table
<1>8. IndexOf(us, fee_index')
  BY <1>3, <1>4, <1>5, InsertByFeeIndexes
<1>9. /\ QueueOf(ts, from, old) /\ Len(old) \in Nat
  <2>1. CASE from \in DOMAIN qs
    BY <1>3, <2>1 DEF QueuesOf, QueueOf, old
  <2>2. CASE from \notin DOMAIN qs
    BY <2>2 DEF QueueOf, old, Ascending
  <2> QED BY <2>1, <2>2
<1>10. us[hash].tx = tx
  BY <1>5
<1>11. /\ QueueOf(us, from, new) /\ Len(new) = Len(old) + 1
       /\ \E k \in 1..Len(new) : new[k] = tx
       /\ \A i \in 1..Len(old) : \E k \in 1..Len(new) : new[k] = old[i]
  <2>1. /\ Table(ts) /\ QueueOf(ts, tx.from, old) /\ TxHash(tx) \notin DOMAIN ts
        /\ DOMAIN us = DOMAIN ts \cup {TxHash(tx)}
    BY <1>3, <1>4, <1>5, <1>9
  <2>2. us[TxHash(tx)].tx = tx /\ \A h \in DOMAIN ts : us[h] = ts[h]
    BY <1>5, <1>10
  <2> QED BY <2>1, <2>2, InsertInNonceOrderQueues
<1> HIDE DEF new, hash, from
<1>12. ASSUME NEW b \in DOMAIN rs
       PROVE  /\ QueueOf(us, b, rs[b])
              /\ Len(rs[b]) \in 1..max_transactions_per_account
  <2>1. CASE b = from
    <3>1. Len(old) + 1 \in 1..max_transactions_per_account
      BY <1>4, <1>9, MempoolConstants
    <3> QED BY <1>6, <1>11, <2>1, <3>1
  <2>2. CASE b # from
    <3>1. /\ b \in DOMAIN qs /\ rs[b] = qs[b] /\ QueueOf(ts, b, qs[b])
          /\ Len(qs[b]) \in 1..max_transactions_per_account
      BY <1>3, <1>6, <2>2 DEF QueuesOf
    <3>2. QueueOf(us, b, qs[b])
      BY <1>5, <3>1 DEF QueueOf
    <3> QED BY <3>1, <3>2
  <2> QED BY <2>1, <2>2
<1>13. ASSUME NEW h \in DOMAIN us
       PROVE  /\ us[h].tx.from \in DOMAIN rs
              /\ \E i \in 1..Len(rs[us[h].tx.from]) : rs[us[h].tx.from][i] = us[h].tx
  <2>1. CASE h = hash
    <3>1. us[h].tx = tx /\ tx.from = from
      BY <1>10, <2>1 DEF from
    <3> QED BY <1>6, <1>11, <3>1
  <2>2. CASE h \in DOMAIN ts
    <3>1. PICK x : x = ts[h].tx /\ us[h].tx = x
      BY <1>5, <2>2
    <3>2. /\ x.from \in DOMAIN qs
          /\ \E i \in 1..Len(qs[x.from]) : qs[x.from][i] = x
      BY <1>3, <2>2, <3>1 DEF QueuesOf
    <3>3. PICK i \in 1..Len(qs[x.from]) : qs[x.from][i] = x
      BY <3>2
    <3>4. CASE x.from = from
      <4>1. old = qs[from]
        BY <3>2, <3>4 DEF old, from
      <4> QED BY <1>6, <1>11, <3>1, <3>2, <3>3, <3>4, <4>1
    <3>5. CASE x.from # from
      BY <1>6, <3>1, <3>2, <3>3, <3>5
    <3> QED BY <3>4, <3>5
  <2> QED BY <1>5, <2>1, <2>2
<1>14. QueuesOf(us, rs)
  BY <1>12, <1>13 DEF QueuesOf
<1> QED
  BY <1>2, <1>7, <1>8, <1>14 DEF PoolInv

LEMMA RemoveKeepsPool ==
  ASSUME PoolInv, NEW hashes, Removed(hashes)
  PROVE  PoolInv'
<1>1. PICK ts, qs, index : /\ ts = transactions /\ qs = account_queues
                           /\ index = fee_index
  OBVIOUS
<1>2. PICK us, rs : us = transactions' /\ rs = account_queues'
  OBVIOUS
<1> DEFINE Kept(q) == {tx \in Range(q) : TxHash(tx) \notin hashes}
           Left(q) == KeepOnly(q, Kept(q))
<1>3. Table(ts) /\ IndexOf(ts, index) /\ QueuesOf(ts, qs)
  BY <1>1 DEF PoolInv
<1>4. /\ us = [h \in DOMAIN ts \ hashes |-> ts[h]]
      /\ rs = [a \in {b \in DOMAIN qs : Left(qs[b]) # << >>} |-> Left(qs[a])]
      /\ fee_index' = KeepOnly(index, Range(index) \ hashes)
  BY <1>1, <1>2, Zenon DEF Removed
<1>5. DOMAIN us = DOMAIN ts \ hashes /\ \A h \in DOMAIN us : us[h] = ts[h]
  BY <1>4
<1>6. Table(us)
  BY <1>3, <1>4, <1>5 DEF Table
<1>7. IndexOf(us, fee_index')
  <2> DEFINE S == Range(index) \ hashes
             r == KeepOnly(index, S)
  <2>1. index \in Seq(DOMAIN ts) /\ Ascending(index, FeeOrder)
        /\ \A h \in DOMAIN ts : \E i \in 1..Len(index) : index[i] = h
    BY <1>3 DEF IndexOf
  <2>2. \A i \in 1..Len(index) : index[i] \in DOMAIN ts /\ index[i] \in Range(index)
    BY <2>1 DEF Range
  <2>3. r \in Seq(DOMAIN ts) /\ \A k \in 1..Len(r) : r[k] \in S
    <3> HIDE DEF S
    <3> QED BY <2>1, KeepOnlyElements
  <2>4. \A i \in 1..Len(index) : index[i] \in S => \E k \in 1..Len(r) : r[k] = index[i]
    <3> HIDE DEF S
    <3> QED BY <2>1, KeepOnlyElements
  <2>5. Ascending(r, FeeOrder)
    <3> HIDE DEF S
    <3> QED BY <2>1, KeepOnlyAscending
  <2> HIDE DEF r
  <2>6. \A k \in 1..Len(r) : r[k] \in DOMAIN us
    BY <1>5, <2>3
  <2>7. r \in Seq(DOMAIN us)
    BY <2>3, <2>6
  <2>8. ASSUME NEW h \in DOMAIN us PROVE \E k \in 1..Len(r) : r[k] = h
    <3>1. h \in DOMAIN ts /\ h \notin hashes
      BY <1>5
    <3>2. PICK i \in 1..Len(index) : index[i] = h
      BY <2>1, <3>1
    <3>3. index[i] \in S
      BY <2>2, <3>1, <3>2
    <3> HIDE DEF S
    <3> QED BY <2>4, <3>2, <3>3
  <2> QED BY <1>4, <2>5, <2>7, <2>8 DEF IndexOf, r
<1>8. ASSUME NEW a \in DOMAIN qs
      PROVE  /\ QueueOf(us, a, Left(qs[a])) /\ Len(Left(qs[a])) <= Len(qs[a])
             /\ \A i \in 1..Len(qs[a]) : TxHash(qs[a][i]) \notin hashes =>
                  \E k \in 1..Len(Left(qs[a])) : Left(qs[a])[k] = qs[a][i]
  <2>1. PICK q : q = qs[a]
    OBVIOUS
  <2> DEFINE S == Kept(q)
             r == KeepOnly(q, S)
  <2>2. /\ q \in Seq(Transactions) /\ Ascending(q, NonceOrder)
        /\ \A i \in 1..Len(q) :
             q[i].from = a /\ TxHash(q[i]) \in DOMAIN ts /\ ts[TxHash(q[i])].tx = q[i]
    BY <1>3, <2>1 DEF QueuesOf, QueueOf
  <2>3. \A i \in 1..Len(q) : TxHash(q[i]) \notin hashes => q[i] \in S
    BY <2>2 DEF Range
  <2>4. \A x \in S : TxHash(x) \notin hashes
    OBVIOUS
  <2> HIDE DEF S
  <2>5. /\ r \in Seq(Transactions) /\ Len(r) <= Len(q)
        /\ \A i \in 1..Len(q) : q[i] \in S => \E k \in 1..Len(r) : r[k] = q[i]
        /\ \A k \in 1..Len(r) : r[k] \in S
    BY <2>2, KeepOnlyElements
  <2>6. /\ Ascending(r, NonceOrder)
        /\ \A k \in 1..Len(r) : \E i \in 1..Len(q) : r[k] = q[i]
    <3>1. q \in Seq(Transactions) /\ Ascending(q, NonceOrder)
      BY <2>2
    <3>2. Ascending(r, NonceOrder)
      BY <3>1, KeepOnlyAscending
    <3>3. \A k \in 1..Len(r) : \E i \in 1..Len(q) : r[k] = q[i]
      <4>1. TakenFrom(r, q)
        BY <3>1, KeepOnlyAscending
      <4> QED BY <4>1 DEF TakenFrom
    <3> QED BY <3>2, <3>3
  <2> HIDE DEF r
  <2>7. ASSUME NEW k \in 1..Len(r)
        PROVE  /\ r[k].from = a /\ TxHash(r[k]) \in DOMAIN us
               /\ us[TxHash(r[k])].tx = r[k]
    <3>1. PICK i \in 1..Len(q) : r[k] = q[i]
      BY <2>6
    <3>2. /\ r[k].from = a /\ TxHash(r[k]) \in DOMAIN ts
          /\ ts[TxHash(r[k])].tx = r[k] /\ TxHash(r[k]) \notin hashes
      BY <2>2, <2>4, <2>5, <3>1
    <3> QED BY <1>5, <3>2
  <2>8. QueueOf(us, a, r)
    BY <2>5, <2>6, <2>7 DEF QueueOf
  <2>9. r = Left(qs[a])
    BY <2>1 DEF r, S
  <2>10. \A i \in 1..Len(q) : TxHash(q[i]) \notin hashes =>
           \E k \in 1..Len(r) : r[k] = q[i]
    BY <2>3, <2>5
  <2> HIDE DEF Left
  <2> QED BY <2>1, <2>5, <2>8, <2>9, <2>10
<1> HIDE DEF Left
<1>9. /\ DOMAIN rs = {b \in DOMAIN qs : Left(qs[b]) # << >>}
      /\ \A b \in DOMAIN rs : rs[b] = Left(qs[b])
  BY <1>4
<1>10. ASSUME NEW b \in DOMAIN rs
       PROVE  /\ QueueOf(us, b, rs[b])
              /\ Len(rs[b]) \in 1..max_transactions_per_account
  <2>1. /\ b \in DOMAIN qs /\ rs[b] = Left(qs[b]) /\ rs[b] # << >>
        /\ QueueOf(us, b, rs[b]) /\ Len(rs[b]) <= Len(qs[b])
    BY <1>8, <1>9
  <2>2. rs[b] \in Seq(Transactions)
    BY <2>1 DEF QueueOf
  <2>3. Len(rs[b]) \in Nat /\ Len(rs[b]) # 0
    BY <2>1, <2>2
  <2>4. Len(qs[b]) \in 1..max_transactions_per_account
    BY <1>3, <2>1 DEF QueuesOf
  <2> QED BY <2>1, <2>3, <2>4, MempoolConstants
<1>11. ASSUME NEW h \in DOMAIN us
       PROVE  /\ us[h].tx.from \in DOMAIN rs
              /\ \E i \in 1..Len(rs[us[h].tx.from]) : rs[us[h].tx.from][i] = us[h].tx
  <2>1. PICK x : x = ts[h].tx /\ us[h].tx = x /\ h \in DOMAIN ts /\ h \notin hashes
    BY <1>5
  <2>2. x.from \in DOMAIN qs /\ \E i \in 1..Len(qs[x.from]) : qs[x.from][i] = x
    BY <1>3, <2>1 DEF QueuesOf
  <2>3. PICK i \in 1..Len(qs[x.from]) : qs[x.from][i] = x
    BY <2>2
  <2>4. TxHash(x) = h
    BY <1>3, <2>1 DEF Table
  <2>5. PICK k \in 1..Len(Left(qs[x.from])) : Left(qs[x.from])[k] = x
    BY <1>8, <2>1, <2>2, <2>3, <2>4
  <2>6. Left(qs[x.from]) # << >>
    BY <2>5
  <2>7. x.from \in DOMAIN rs /\ rs[x.from] = Left(qs[x.from])
    BY <1>9, <2>2, <2>6
  <2> QED BY <2>1, <2>5, <2>7
<1>12. QueuesOf(us, rs)
  BY <1>10, <1>11 DEF QueuesOf
<1> QED
  BY <1>2, <1>6, <1>7, <1>12 DEF PoolInv

LEMMA TickKeepsPool ==
  ASSUME PoolInv, Tick PROVE PoolInv'
<1>1. PICK ts : ts = transactions
  OBVIOUS
<1>2. PICK us : us = transactions'
  OBVIOUS
<1>3. Table(ts) /\ IndexOf(ts, fee_index) /\ QueuesOf(ts, account_queues)
  BY <1>1 DEF PoolInv
<1>4. us = [h \in DOMAIN ts |->
              [ts[h] EXCEPT !.age = IF @ <= max_age_seconds THEN @ + 1 ELSE @]]
  BY <1>1, <1>2 DEF Tick
<1>5. \A h \in DOMAIN ts : ts[h] \in [tx : Transactions, age : Nat]
  BY <1>3 DEF Table
<1>6. \A h \in DOMAIN ts : /\ us[h] \in [tx : Transactions, age : Nat]
                           /\ us[h].tx = ts[h].tx
  BY <1>4, <1>5, MempoolConstants
<1>7. DOMAIN us = DOMAIN ts /\ us = [h \in DOMAIN us |-> us[h]]
  BY <1>4
<1>8. Table(us)
  BY <1>3, <1>6, <1>7 DEF Table
<1>9. IndexOf(us, fee_index)
  BY <1>3, <1>7 DEF IndexOf
<1>10. ASSUME NEW a, NEW q, QueueOf(ts, a, q) PROVE QueueOf(us, a, q)
  BY <1>6, <1>7, <1>10 DEF QueueOf
<1>11. QueuesOf(us, account_queues)
  <2>1. \A a \in DOMAIN account_queues :
          /\ QueueOf(us, a, account_queues[a])
          /\ Len(account_queues[a]) \in 1..max_transactions_per_account
    BY <1>3, <1>10 DEF QueuesOf
  <2>2. ASSUME NEW h \in DOMAIN us
        PROVE  LET tx == us[h].tx
               IN  /\ tx.from \in DOMAIN account_queues
                   /\ \E i \in 1..Len(account_queues[tx.from]) :
                        account_queues[tx.from][i] = tx
    BY <1>3, <1>6, <1>7 DEF QueuesOf
  <2> QED BY <2>1, <2>2 DEF QueuesOf
<1>12. UNCHANGED <<account_queues, fee_index>>
  BY DEF Tick
<1> QED
  BY <1>2, <1>8, <1>9, <1>11, <1>12 DEF PoolInv

LEMMA EmptyPool ==
  Table(<< >>) /\ IndexOf(<< >>, << >>) /\ QueuesOf(<< >>, << >>)
  BY DEF Table, IndexOf, QueuesOf, Ascending

LEMMA NextKeepsPool ==
  ASSUME PoolInv, [MempoolNext]_allVars PROVE PoolInv'
<1>1. ASSUME UNCHANGED mempoolVars PROVE PoolInv'
  BY <1>1 DEF PoolInv, mempoolVars
<1>2. ASSUME NEW tx \in Transactions, AddTransaction(tx) \/ Execute(tx) PROVE PoolInv'
  BY <1>1, <1>2, AddKeepsPool DEF Execute
<1>3. ASSUME NEW hash, RemoveTransactions({hash}) PROVE PoolInv'
  BY <1>3, RemoveKeepsPool DEF RemoveTransactions
<1>4. ASSUME PruneOldTransactions PROVE PoolInv'
  BY <1>4, RemoveKeepsPool DEF PruneOldTransactions
<1>5. ASSUME Clear PROVE PoolInv'
  BY <1>5, EmptyPool DEF Clear, PoolInv
<1>6. ASSUME NEW height, NEW base_fee, ProposeBlock(height, base_fee) PROVE PoolInv'
  BY <1>1, <1>6 DEF ProposeBlock
<1>7. ASSUME UNCHANGED allVars PROVE PoolInv'
  BY <1>1, <1>7 DEF allVars, mempoolVars
<1> QED
  BY <1>1, <1>2, <1>3, <1>4, <1>5, <1>6, <1>7, TickKeepsPool DEF MempoolNext

LEMMA PoolAgrees ==
  ASSUME PoolInv PROVE IndexesAgree
<1> DEFINE ts == transactions
           qs == account_queues
           index == fee_index
<1>2. Table(ts) /\ IndexOf(ts, index) /\ QueuesOf(ts, qs)
  BY DEF PoolInv
<1>3. /\ index \in Seq(DOMAIN ts) /\ DOMAIN index = 1..Len(index)
      /\ Ascending(index, FeeOrder)
      /\ \A h \in DOMAIN ts : \E i \in 1..Len(index) : index[i] = h
  BY <1>2 DEF IndexOf
<1>4. Range(index) = DOMAIN ts
  <2>1. \A i \in DOMAIN index : index[i] \in DOMAIN ts
    BY <1>3
  <2>2. Range(index) \subseteq DOMAIN ts
    BY <2>1 DEF Range
  <2>3. DOMAIN ts \subseteq Range(index)
    BY <1>3 DEF Range
  <2> QED BY <2>2, <2>3
<1>5. \A i, j \in 1..Len(index) : i < j =>
        index[i] # index[j] /\ index[i].fee <= index[j].fee
  BY <1>3 DEF Ascending, FeeOrder
<1>6. IsInjective(index)
  <2>1. SUFFICES ASSUME NEW i \in 1..Len(index), NEW j \in 1..Len(index), i # j
                 PROVE  index[i] # index[j]
    BY <1>3 DEF IsInjective
  <2>2. i < j \/ j < i
    BY <2>1
  <2> QED BY <1>5, <2>2
<1>7. UNION {Range(qs[a]) : a \in DOMAIN qs} = {ts[h].tx : h \in DOMAIN ts}
  <2>1. ASSUME NEW a \in DOMAIN qs, NEW x \in Range(qs[a])
        PROVE  x \in {ts[h].tx : h \in DOMAIN ts}
    <3>1. /\ qs[a] \in Seq(Transactions)
          /\ \A i \in 1..Len(qs[a]) : /\ TxHash(qs[a][i]) \in DOMAIN ts
                                      /\ ts[TxHash(qs[a][i])].tx = qs[a][i]
      BY <1>2 DEF QueuesOf, QueueOf
    <3>2. PICK i \in 1..Len(qs[a]) : x = qs[a][i]
      BY <2>1, <3>1 DEF Range
    <3> QED BY <3>1, <3>2
  <2>2. ASSUME NEW h \in DOMAIN ts
        PROVE  \E a \in DOMAIN qs : ts[h].tx \in Range(qs[a])
    <3>1. PICK x : x = ts[h].tx
      OBVIOUS
    <3>2. /\ x.from \in DOMAIN qs
          /\ \E i \in 1..Len(qs[x.from]) : qs[x.from][i] = x
      BY <1>2, <3>1 DEF QueuesOf
    <3>3. qs[x.from] \in Seq(Transactions)
      BY <1>2, <3>2 DEF QueuesOf, QueueOf
    <3> QED BY <3>1, <3>2, <3>3 DEF Range
  <2>3. UNION {Range(qs[a]) : a \in DOMAIN qs} \subseteq {ts[h].tx : h \in DOMAIN ts}
    BY <2>1
  <2>4. {ts[h].tx : h \in DOMAIN ts} \subseteq UNION {Range(qs[a]) : a \in DOMAIN qs}
    BY <2>2
  <2> QED BY <2>3, <2>4
<1>8. ASSUME NEW a \in DOMAIN qs
      PROVE  LET q == qs[a]
             IN  /\ Len(q) \in 1..max_transactions_per_account
                 /\ IsInjective(q) /\ \A i \in DOMAIN q : q[i].from = a
                 /\ \A i, j \in DOMAIN q : i < j => q[i].nonce <= q[j].nonce
  <2>1. PICK q : q = qs[a]
    OBVIOUS
  <2>2. /\ q \in Seq(Transactions) /\ DOMAIN q = 1..Len(q) /\ Ascending(q, NonceOrder)
        /\ Len(q) \in 1..max_transactions_per_account
        /\ \A i \in 1..Len(q) : q[i].from = a
    BY <1>2, <2>1 DEF QueuesOf, QueueOf
  <2>3. \A i, j \in 1..Len(q) : i < j =>
          TxHash(q[i]) # TxHash(q[j]) /\ q[i].nonce <= q[j].nonce
    BY <2>2 DEF Ascending, NonceOrder
  <2>4. IsInjective(q)
    <3>1. SUFFICES ASSUME NEW i \in 1..Len(q), NEW j \in 1..Len(q), i # j
                   PROVE  q[i] # q[j]
      BY <2>2 DEF IsInjective
    <3>2. i < j \/ j < i
      BY <3>1
    <3> QED BY <2>3, <3>2
  <2> QED BY <2>1, <2>2, <2>3, <2>4
<1>9. \A i, j \in DOMAIN index : i < j => index[i].fee <= index[j].fee
  BY <1>3, <1>5
<1> QED
  BY <1>4, <1>6, <1>7, <1>8, <1>9 DEF IndexesAgree

\* Whatever is added, removed, pruned and cleared, in whatever order, the
\* mempool's table, queues and fee index hold the same transactions, each once
\* and in order: for any transactions, limits and ages.
THEOREM MempoolIndexes == MempoolSpec => []IndexesAgree
<1>1. MempoolInit => PoolInv
  BY EmptyPool DEF MempoolInit, PoolInv
<1>2. PoolInv /\ [MempoolNext]_allVars => PoolInv'
  BY NextKeepsPool
<1>3. PoolInv => IndexesAgree
  BY PoolAgrees
<1> QED
  BY <1>1, <1>2, <1>3, PTL DEF MempoolSpec

-----------------------------------------------------------------------------
(* The selection of transactions for a block *)

\* sel is what get_transactions_for_block has after each round of its loop.
Rounds(sel, max_gas, min_base_fee) ==
  /\ sel[0] = SelectionStart
  /\ \A n \in 1..Len(fee_index) :
       sel[n] = Consider(fee_index[(Len(fee_index) + 1) - n], sel[n - 1],
                         max_gas, min_base_fee)

LEMMA SelectionRounds ==
  ASSUME NEW max_gas, NEW min_base_fee, Len(fee_index) \in Nat
  PROVE  \E sel : /\ Rounds(sel, max_gas, min_base_fee)
                  /\ GetTransactionsForBlock(max_gas, min_base_fee)
                       = sel[Len(fee_index)].txs
<1> DEFINE L == Len(fee_index)
           Step(n, s) == Consider(fee_index[L + 1 - n], s, max_gas, min_base_fee)
           Def(f, m) == [n \in 0..m |-> IF n = 0 THEN SelectionStart
                                        ELSE Step(n, f[n - 1])]
           G == {m \in Nat : \E f : f = Def(f, m)}
<1> HIDE DEF Step
<1>1. 0 \in G
  <2> DEFINE f == [n \in 0..0 |-> SelectionStart]
  <2>1. f = Def(f, 0)
    OBVIOUS
  <2> HIDE DEF f
  <2> QED BY <2>1
<1>2. ASSUME NEW m \in Nat, m \in G PROVE m + 1 \in G
  <2>1. PICK f : f = Def(f, m)
    BY <1>2
  <2> DEFINE q == Step(m + 1, f[m])
             g == [n \in 0..(m + 1) |-> IF n = m + 1 THEN q ELSE f[n]]
  <2>2. g = Def(g, m + 1)
    <3>1. \A n \in 0..m : f[n] = IF n = 0 THEN SelectionStart ELSE Step(n, f[n - 1])
      BY <2>1
    <3>2. \A n \in 0..m : g[n] = f[n]
      OBVIOUS
    <3>3. ASSUME NEW n \in 0..(m + 1)
          PROVE  g[n] = IF n = 0 THEN SelectionStart ELSE Step(n, g[n - 1])
      <4>1. CASE n = m + 1
        <5>1. g[n] = q /\ n - 1 = m /\ g[m] = f[m] /\ n # 0
          BY <3>2, <4>1
        <5> HIDE DEF g
        <5> QED BY <4>1, <5>1
      <4>2. CASE n \in 1..m
        <5>1. g[n] = f[n] /\ g[n - 1] = f[n - 1] /\ n # 0 /\ n \in 0..m
          BY <3>2, <4>2
        <5> HIDE DEF g
        <5> QED BY <3>1, <5>1
      <4>3. CASE n = 0
        <5>1. g[n] = f[n] /\ n \in 0..m
          BY <3>2, <4>3
        <5> HIDE DEF g
        <5> QED BY <3>1, <4>3, <5>1
      <4> QED BY <4>1, <4>2, <4>3
    <3>4. g = [n \in 0..(m + 1) |-> g[n]]
      OBVIOUS
    <3> HIDE DEF g
    <3> QED BY <3>3, <3>4
  <2> HIDE DEF g, q, Def
  <2> QED BY <2>2
<1>3. L \in G
  <2> HIDE DEF G
  <2> QED BY <1>1, <1>2, NumberInduction
<1> DEFINE F == CHOOSE f : f = Def(f, L)
<1>4. F = Def(F, L)
  <2> HIDE DEF Def
  <2> QED BY <1>3
<1>5. \A n \in 0..L : F[n] = IF n = 0 THEN SelectionStart ELSE Step(n, F[n - 1])
  <2> HIDE DEF F
  <2> QED BY <1>4
<1>6. GetTransactionsForBlock(max_gas, min_base_fee) = F[L].txs
  BY DEF GetTransactionsForBlock, Step
<1> HIDE DEF F
<1>7. F[0] = SelectionStart
  BY <1>5
<1>8. ASSUME NEW n \in 1..L
      PROVE  F[n] = Consider(fee_index[(L + 1) - n], F[n - 1], max_gas, min_base_fee)
  <2>1. n \in 0..L /\ n # 0 /\ L + 1 - n = (L + 1) - n
    OBVIOUS
  <2> QED BY <1>5, <2>1 DEF Step
<1>9. Rounds(F, max_gas, min_base_fee)
  BY <1>7, <1>8 DEF Rounds
<1> QED
  BY <1>6, <1>9

\* How many of the first n transactions are a's.
OfSender(txs, n, a) == Cardinality({j \in 1..n : txs[j].from = a})

LEMMA IntervalFinite ==
  ASSUME NEW n \in Nat PROVE IsFiniteSet(1..n)
  BY FS_Interval

LEMMA OfSenderType ==
  ASSUME NEW txs, NEW n \in Nat, NEW a PROVE OfSender(txs, n, a) \in Nat
<1>1. IsFiniteSet(1..n)
  BY IntervalFinite
<1>2. IsFiniteSet({j \in 1..n : txs[j].from = a})
  BY <1>1, FS_Subset
<1> QED
  BY <1>2, FS_CardinalityType DEF OfSender

LEMMA OfSenderAppend ==
  ASSUME NEW txs \in Seq(Transactions), NEW tx \in Transactions, NEW a
  PROVE  /\ \A i \in 0..Len(txs) : OfSender(Append(txs, tx), i, a) = OfSender(txs, i, a)
         /\ OfSender(Append(txs, tx), Len(txs) + 1, a)
              = OfSender(txs, Len(txs), a) + IF tx.from = a THEN 1 ELSE 0
<1> DEFINE u == Append(txs, tx)
           L == Len(txs)
           Of(v, n) == {j \in 1..n : v[j].from = a}
<1>1. L \in Nat /\ u[L + 1] = tx /\ \A j \in 1..L : u[j] = txs[j]
  OBVIOUS
<1> HIDE DEF u, L
<1>2. ASSUME NEW i \in 0..L PROVE Of(u, i) = Of(txs, i)
  <2>1. \A j \in 1..i : u[j] = txs[j]
    BY <1>1
  <2> QED BY <2>1
<1>3. \A j : j \in 1..(L + 1) <=> j \in 1..L \/ j = L + 1
  BY <1>1
<1>4. IsFiniteSet(Of(txs, L)) /\ Cardinality(Of(txs, L)) \in Nat
  <2>1. IsFiniteSet(1..L)
    BY <1>1, IntervalFinite
  <2> QED BY <2>1, FS_Subset, FS_CardinalityType
<1>5. CASE tx.from = a
  <2>1. Of(u, L + 1) = Of(u, L) \cup {L + 1}
    BY <1>1, <1>3, <1>5
  <2>2. L + 1 \notin Of(txs, L) /\ Of(u, L) = Of(txs, L)
    BY <1>1, <1>2
  <2> HIDE DEF Of
  <2>3. Cardinality(Of(u, L + 1)) = Cardinality(Of(txs, L)) + 1
    BY <1>4, <2>1, <2>2, FS_AddElement
  <2> QED BY <1>2, <1>5, <2>3 DEF OfSender, Of, u, L
<1>6. CASE tx.from # a
  <2>1. Of(u, L + 1) = Of(u, L)
    BY <1>1, <1>3, <1>6
  <2>2. Of(u, L) = Of(txs, L)
    BY <1>1, <1>2
  <2> HIDE DEF Of
  <2>3. Cardinality(Of(u, L + 1)) = Cardinality(Of(txs, L)) + 0
    BY <1>4, <2>1, <2>2
  <2> QED BY <1>2, <1>6, <2>3 DEF OfSender, Of, u, L
<1> QED
  BY <1>5, <1>6

\* What has been selected runs on from the accounts' nonces, and next_nonce is
\* where each sender's run has got to.
Follows(s) ==
  /\ s.txs \in Seq(Transactions)
  /\ s.next_nonce \in [DOMAIN account_queues -> Nat]
  /\ \A a \in DOMAIN account_queues :
       s.next_nonce[a] = GetAccount(accounts, a).nonce + OfSender(s.txs, Len(s.txs), a)
  /\ \A i \in 1..Len(s.txs) :
       s.txs[i].nonce = GetAccount(accounts, s.txs[i].from).nonce
                          + OfSender(s.txs, i - 1, s.txs[i].from)

LEMMA NonceType ==
  ASSUME LedgerTypeOK, NEW a PROVE GetAccount(accounts, a).nonce \in Nat
  BY GetAccountType DEF LedgerTypeOK, AccountMap, Account

LEMMA StartFollows ==
  ASSUME LedgerTypeOK PROVE Follows(SelectionStart)
<1> DEFINE s == SelectionStart
           A == DOMAIN account_queues
<1>1. /\ s.txs = << >> /\ s.gas_used = 0
      /\ s.next_nonce = [a \in A |-> GetAccount(accounts, a).nonce]
  BY DEF SelectionStart
<1> HIDE DEF s
<1>2. ASSUME NEW a PROVE OfSender(<< >>, 0, a) = 0
  <2>1. {j \in 1..0 : << >>[j].from = a} = {}
    OBVIOUS
  <2> QED BY <2>1, FS_EmptySet DEF OfSender
<1>3. \A a \in A : GetAccount(accounts, a).nonce \in Nat
  BY NonceType
<1>4. s.next_nonce \in [A -> Nat]
  BY <1>1, <1>3
<1>5. ASSUME NEW a \in A
      PROVE  s.next_nonce[a]
               = GetAccount(accounts, a).nonce + OfSender(s.txs, Len(s.txs), a)
  <2>1. OfSender(s.txs, Len(s.txs), a) = 0
    BY <1>1, <1>2
  <2>2. s.next_nonce[a] = GetAccount(accounts, a).nonce
    BY <1>1
  <2> QED BY <1>3, <2>1, <2>2
<1>6. s.txs \in Seq(Transactions) /\ Len(s.txs) = 0
  BY <1>1
<1> QED
  BY <1>4, <1>5, <1>6 DEF Follows, s

LEMMA IncludeFollows ==
  ASSUME LedgerTypeOK, NEW s, Follows(s), NEW tx \in Transactions,
         tx.from \in DOMAIN account_queues, tx.nonce = s.next_nonce[tx.from]
  PROVE  Follows(Include(s, tx))
<1> DEFINE A == DOMAIN account_queues
           txs == s.txs
           L == Len(txs)
           u == Append(txs, tx)
           next == [a \in DOMAIN s.next_nonce |->
                      s.next_nonce[a] + IF a = tx.from THEN 1 ELSE 0]
           r == Include(s, tx)
           Acc(a) == GetAccount(accounts, a).nonce
<1>1. r.txs = u /\ r.next_nonce = next
  BY DEF Include
<1> HIDE DEF r
<1>2. /\ txs \in Seq(Transactions) /\ s.next_nonce \in [A -> Nat] /\ L \in Nat
      /\ \A a \in A : s.next_nonce[a] = Acc(a) + OfSender(txs, L, a)
      /\ \A i \in 1..L : txs[i].nonce = Acc(txs[i].from)
                                          + OfSender(txs, i - 1, txs[i].from)
  BY DEF Follows
<1> HIDE DEF txs, Acc
<1>3. /\ u \in Seq(Transactions) /\ Len(u) = L + 1 /\ u[L + 1] = tx
      /\ \A i \in 1..L : u[i] = txs[i]
  BY <1>2
<1>4. ASSUME NEW a
      PROVE  /\ \A i \in 0..L : OfSender(u, i, a) = OfSender(txs, i, a)
             /\ OfSender(u, L + 1, a)
                  = OfSender(txs, L, a) + IF tx.from = a THEN 1 ELSE 0
  BY <1>2, OfSenderAppend
<1> HIDE DEF u, L
<1>5. next \in [A -> Nat]
  BY <1>2
<1>6. ASSUME NEW a \in A PROVE next[a] = Acc(a) + OfSender(u, L + 1, a)
  <2>1. next[a] = s.next_nonce[a] + IF a = tx.from THEN 1 ELSE 0
    BY <1>2
  <2>2. Acc(a) \in Nat /\ OfSender(txs, L, a) \in Nat
    BY <1>2, NonceType, OfSenderType DEF Acc
  <2>3. s.next_nonce[a] = Acc(a) + OfSender(txs, L, a)
    BY <1>2
  <2>4. OfSender(u, L + 1, a) = OfSender(txs, L, a) + IF tx.from = a THEN 1 ELSE 0
    BY <1>4
  <2> HIDE DEF next
  <2> QED BY <2>1, <2>2, <2>3, <2>4
<1>7. ASSUME NEW i \in 1..(L + 1)
      PROVE  u[i].nonce = Acc(u[i].from) + OfSender(u, i - 1, u[i].from)
  <2>1. CASE i = L + 1
    <3>1. u[i] = tx /\ i - 1 = L /\ L \in 0..L
      BY <1>2, <1>3, <2>1
    <3>2. tx.nonce = Acc(tx.from) + OfSender(txs, L, tx.from)
      BY <1>2
    <3>3. OfSender(u, L, tx.from) = OfSender(txs, L, tx.from)
      BY <1>4, <3>1
    <3> QED BY <3>1, <3>2, <3>3
  <2>2. CASE i \in 1..L
    <3>1. u[i] = txs[i] /\ i - 1 \in 0..L
      BY <1>2, <1>3, <2>2
    <3>2. OfSender(u, i - 1, txs[i].from) = OfSender(txs, i - 1, txs[i].from)
      BY <1>4, <3>1
    <3> QED BY <1>2, <2>2, <3>1, <3>2
  <2> QED BY <1>2, <2>1, <2>2
<1> HIDE DEF next
<1>8. Follows(r)
  BY <1>1, <1>3, <1>5, <1>6, <1>7 DEF Follows, Acc
<1> QED
  BY <1>8 DEF r

\* Every held transaction has its sender's queue, so its nonce is compared.
LEMMA HeldSenders ==
  ASSUME PoolInv, NEW h \in DOMAIN transactions
  PROVE  /\ transactions[h].tx \in Transactions /\ TxHash(transactions[h].tx) = h
         /\ transactions[h].tx.from \in DOMAIN account_queues
<1>1. transactions[h].tx \in Transactions /\ TxHash(transactions[h].tx) = h
  BY DEF PoolInv, Table
<1>2. transactions[h].tx.from \in DOMAIN account_queues
  BY DEF PoolInv, QueuesOf
<1> QED
  BY <1>1, <1>2

LEMMA ConsiderFollows ==
  ASSUME PoolInv, LedgerTypeOK, NEW hash, NEW s, Follows(s),
         NEW max_gas, NEW min_base_fee
  PROVE  Follows(Consider(hash, s, max_gas, min_base_fee))
<1>1. CASE /\ hash \in DOMAIN transactions
           /\ Includable(transactions[hash].tx, s, max_gas, min_base_fee)
  <2>1. PICK tx : tx = transactions[hash].tx
    OBVIOUS
  <2>2. tx \in Transactions /\ tx.from \in DOMAIN account_queues
    BY <1>1, <2>1, HeldSenders
  <2>3. tx.nonce = s.next_nonce[tx.from]
    BY <1>1, <2>1, <2>2 DEF Includable, Follows
  <2>4. Consider(hash, s, max_gas, min_base_fee) = Include(s, tx)
    BY <1>1, <2>1 DEF Consider
  <2> QED BY <2>2, <2>3, <2>4, IncludeFollows
<1>2. CASE ~(/\ hash \in DOMAIN transactions
             /\ Includable(transactions[hash].tx, s, max_gas, min_base_fee))
  BY <1>2 DEF Consider
<1> QED
  BY <1>1, <1>2

LEMMA RoundsFollow ==
  ASSUME PoolInv, LedgerTypeOK, NEW max_gas, NEW min_base_fee,
         NEW sel, Rounds(sel, max_gas, min_base_fee)
  PROVE  \A n \in 0..Len(fee_index) : Follows(sel[n])
<1> DEFINE L == Len(fee_index)
           G == {n \in Nat : n <= L => Follows(sel[n])}
<1>0. L \in Nat
  BY DEF PoolInv, IndexOf
<1>1. 0 \in G
  BY StartFollows DEF Rounds
<1>2. ASSUME NEW n \in Nat, n \in G PROVE n + 1 \in G
  <2>1. SUFFICES ASSUME n + 1 <= L PROVE Follows(sel[n + 1])
    OBVIOUS
  <2>2. n + 1 \in 1..L /\ (n + 1) - 1 = n /\ Follows(sel[n])
    BY <1>0, <1>2, <2>1
  <2>3. sel[n + 1] = Consider(fee_index[(L + 1) - (n + 1)], sel[n],
                              max_gas, min_base_fee)
    BY <2>2 DEF Rounds
  <2> QED BY <2>2, <2>3, ConsiderFollows
<1>3. Nat \subseteq G
  <2> HIDE DEF G
  <2> QED BY <1>1, <1>2, NumberInduction
<1> QED
  BY <1>0, <1>3

GasSum(txs) == StakeSum(DOMAIN txs, [i \in DOMAIN txs |-> txs[i].gas_limit])

LEMMA GasLimits ==
  ASSUME NEW txs \in Seq(Transactions)
  PROVE  LET f == [i \in DOMAIN txs |-> txs[i].gas_limit]
         IN  /\ DOMAIN txs = 1..Len(txs) /\ Len(txs) \in Nat /\ IsFiniteSet(DOMAIN txs)
             /\ \A i \in DOMAIN txs : f[i] = txs[i].gas_limit /\ f[i] \in Nat
             /\ GasSum(txs) = StakeSum(DOMAIN txs, f) /\ GasSum(txs) \in Nat
<1> DEFINE f == [i \in DOMAIN txs |-> txs[i].gas_limit]
<1>1. DOMAIN txs = 1..Len(txs) /\ Len(txs) \in Nat
  OBVIOUS
<1>2. IsFiniteSet(DOMAIN txs)
  BY <1>1, IntervalFinite
<1>3. \A i \in DOMAIN txs : txs[i] \in Transactions
  BY <1>1
<1>4. \A i \in DOMAIN txs : f[i] = txs[i].gas_limit /\ f[i] \in Nat
  BY <1>3, TransactionFields
<1>5. GasSum(txs) = StakeSum(DOMAIN txs, f)
  BY DEF GasSum
<1> HIDE DEF f
<1>6. StakeSum(DOMAIN txs, f) \in Nat
  BY <1>2, <1>4, StakeSumType
<1> QED
  BY <1>1, <1>2, <1>4, <1>5, <1>6 DEF f

LEMMA GasAppend ==
  ASSUME NEW txs \in Seq(Transactions), NEW tx \in Transactions
  PROVE  GasSum(Append(txs, tx)) = GasSum(txs) + tx.gas_limit
<1> DEFINE u == Append(txs, tx)
           L == Len(txs)
           D == DOMAIN txs
           E == DOMAIN u
           f == [i \in D |-> txs[i].gas_limit]
           g == [i \in E |-> u[i].gas_limit]
<1>1. /\ u \in Seq(Transactions) /\ L \in Nat /\ u[L + 1] = tx
      /\ D = 1..L /\ E = 1..(L + 1)
      /\ \A i \in 1..L : u[i] = txs[i]
  OBVIOUS
<1> HIDE DEF u
<1>2. /\ IsFiniteSet(D) /\ GasSum(txs) = StakeSum(D, f)
      /\ \A i \in D : f[i] = txs[i].gas_limit
  BY GasLimits
<1>3. /\ GasSum(u) = StakeSum(E, g)
      /\ \A i \in E : g[i] = u[i].gas_limit /\ g[i] \in Nat
  BY <1>1, GasLimits
<1>4. E = D \cup {L + 1} /\ L + 1 \notin D
  BY <1>1
<1> HIDE DEF f, g, D, E, L
<1>5. StakeSum(D \cup {L + 1}, g) = StakeSum(D, g) + g[L + 1]
  <2>1. PICK x : x = L + 1
    OBVIOUS
  <2>2. /\ IsFiniteSet(D) /\ x \notin D
        /\ \A id \in D \cup {x} : g[id] \in Nat
    BY <1>2, <1>3, <1>4, <2>1
  <2>3. StakeSum(D \cup {x}, g) = StakeSum(D, g) + g[x]
    BY <2>2, StakeSumGrow
  <2> QED BY <2>1, <2>3
<1>6. \A i \in D : g[i] = f[i]
  BY <1>1, <1>2, <1>3, <1>4
<1>7. StakeSum(D, g) = StakeSum(D, f)
  BY <1>6, StakeSumEqual
<1>8. g[L + 1] = tx.gas_limit
  BY <1>1, <1>3, <1>4
<1> QED
  BY <1>2, <1>3, <1>4, <1>5, <1>7, <1>8 DEF u

LEMMA GasPrefix ==
  ASSUME NEW txs \in Seq(Transactions), NEW m \in 0..Len(txs)
  PROVE  GasSum(SubSeq(txs, 1, m)) <= GasSum(txs)
<1> DEFINE u == SubSeq(txs, 1, m)
           D == DOMAIN txs
           E == DOMAIN u
           f == [i \in D |-> txs[i].gas_limit]
           g == [i \in E |-> u[i].gas_limit]
<1>1. /\ u \in Seq(Transactions) /\ E = 1..m /\ D = 1..Len(txs) /\ E \in SUBSET D
      /\ \A i \in 1..m : u[i] = txs[i]
  OBVIOUS
<1> HIDE DEF u
<1>2. /\ IsFiniteSet(D) /\ GasSum(txs) = StakeSum(D, f)
      /\ \A i \in D : f[i] = txs[i].gas_limit /\ f[i] \in Nat
  BY GasLimits
<1>3. GasSum(u) = StakeSum(E, g) /\ \A i \in E : g[i] = u[i].gas_limit
  BY <1>1, GasLimits
<1> HIDE DEF f, g, D, E
<1>4. StakeSum(E, g) = StakeSum(E, f)
  <2>1. \A i \in E : g[i] = f[i]
    BY <1>1, <1>2, <1>3
  <2> QED BY <2>1, StakeSumEqual
<1>5. StakeSum(E, f) <= StakeSum(D, f)
  <2>1. D \in SUBSET D
    OBVIOUS
  <2> QED BY <1>1, <1>2, <2>1, StakeSumMonotone
<1> QED
  BY <1>2, <1>3, <1>4, <1>5 DEF u

LEMMA RoundsFit ==
  ASSUME PoolInv, LedgerTypeOK, GasFits, NEW min_base_fee,
         NEW sel, Rounds(sel, max_block_gas, min_base_fee)
  PROVE  \A n \in 0..Len(fee_index) :
           sel[n].gas_used = GasSum(sel[n].txs) /\ sel[n].gas_used <= max_block_gas
<1> DEFINE L == Len(fee_index)
           Fits(s) == s.gas_used = GasSum(s.txs) /\ s.gas_used <= max_block_gas
           G == {n \in Nat : n <= L => Fits(sel[n])}
<1>0. L \in Nat /\ max_block_gas \in Nat /\ Width \in Nat \ {0}
  BY MempoolConstants, LedgerConstants DEF PoolInv, IndexOf, Uint
<1>1. Fits(SelectionStart)
  <2>1. GasSum(<< >>) = 0
    BY StakeSumEmpty DEF GasSum
  <2>2. SelectionStart.txs = << >> /\ SelectionStart.gas_used = 0
    BY DEF SelectionStart
  <2> QED BY <1>0, <2>1, <2>2
<1>2. 0 \in G
  <2> HIDE DEF Fits
  <2> QED BY <1>1 DEF Rounds
<1>3. ASSUME NEW n \in Nat, n \in G PROVE n + 1 \in G
  <2>1. SUFFICES ASSUME n + 1 <= L PROVE Fits(sel[n + 1])
    OBVIOUS
  <2>2. PICK s, hash : s = sel[n] /\ hash = fee_index[(L + 1) - (n + 1)]
    OBVIOUS
  <2>3. /\ n + 1 \in 1..L /\ (n + 1) - 1 = n /\ Fits(s) /\ n \in 0..L
    BY <1>0, <1>3, <2>1, <2>2
  <2>4. sel[n + 1] = Consider(hash, s, max_block_gas, min_base_fee)
    BY <2>2, <2>3 DEF Rounds
  <2>5. s.txs \in Seq(Transactions)
    BY <2>2, <2>3, RoundsFollow DEF Follows
  <2>6. CASE /\ hash \in DOMAIN transactions
             /\ Includable(transactions[hash].tx, s, max_block_gas, min_base_fee)
    <3>1. PICK tx : tx = transactions[hash].tx
      OBVIOUS
    <3>2. tx \in Transactions /\ sel[n + 1] = Include(s, tx)
      BY <2>4, <2>6, <3>1, HeldSenders DEF Consider
    <3>3. /\ Include(s, tx).txs = Append(s.txs, tx)
          /\ Include(s, tx).gas_used = (s.gas_used + tx.gas_limit) % Width
      BY DEF Include
    <3>4. GasSum(Append(s.txs, tx)) = GasSum(s.txs) + tx.gas_limit
      BY <2>5, <3>2, GasAppend
    <3>5. /\ GasSum(s.txs) \in Nat /\ tx.gas_limit \in Nat
          /\ max_block_gas + tx.gas_limit < Width
      BY <2>5, <3>2, GasLimits, TransactionFields DEF GasFits
    <3>6. (s.gas_used + tx.gas_limit) % Width = s.gas_used + tx.gas_limit
      <4>1. /\ s.gas_used + tx.gas_limit \in Nat
            /\ s.gas_used + tx.gas_limit < Width
        BY <1>0, <2>3, <3>5
      <4>2. \A k \in Nat : k < Width => k % Width = k
        BY <1>0
      <4> QED BY <4>1, <4>2
    <3>7. (s.gas_used + tx.gas_limit) % Width <= max_block_gas
      BY <2>6, <3>1 DEF Includable
    <3> QED BY <2>3, <3>2, <3>3, <3>4, <3>6, <3>7
  <2>7. CASE ~(/\ hash \in DOMAIN transactions
               /\ Includable(transactions[hash].tx, s, max_block_gas, min_base_fee))
    BY <2>3, <2>4, <2>7 DEF Consider
  <2> QED BY <2>6, <2>7
<1>4. Nat \subseteq G
  <2> HIDE DEF G
  <2> QED BY <1>2, <1>3, NumberInduction
<1> QED
  BY <1>0, <1>4

\* What is proposed is the beginning of what is selected.
LEMMA ProposedPrefix ==
  ASSUME PoolInv, LedgerTypeOK, NEW base_fee
  PROVE  LET txs == GetTransactionsForBlock(max_block_gas, base_fee)
         IN  /\ txs \in Seq(Transactions)
             /\ \E m \in 0..Len(txs) : Proposed(base_fee) = SubSeq(txs, 1, m)
<1> DEFINE txs == GetTransactionsForBlock(max_block_gas, base_fee)
           m == Min({Len(txs), max_transactions_per_block})
<1>1. Len(fee_index) \in Nat
  BY DEF PoolInv, IndexOf
<1>2. PICK sel : Rounds(sel, max_block_gas, base_fee) /\ txs = sel[Len(fee_index)].txs
  BY <1>1, SelectionRounds
<1>3. txs \in Seq(Transactions)
  BY <1>1, <1>2, RoundsFollow DEF Follows
<1> HIDE DEF txs
<1>4. Len(txs) \in Nat /\ max_transactions_per_block \in Nat
  BY <1>3, MempoolConstants
<1>5. m \in 0..Len(txs)
  <2>1. ASSUME NEW x \in Nat, NEW y \in Nat PROVE Min({x, y}) \in 0..x
    <3>1. \E k \in {x, y} : \A l \in {x, y} : k <= l
      OBVIOUS
    <3>2. Min({x, y}) \in {x, y} /\ \A l \in {x, y} : Min({x, y}) <= l
      BY <3>1 DEF Min
    <3> QED BY <3>2
  <2> QED BY <1>4, <2>1
<1>6. Proposed(base_fee) = SubSeq(txs, 1, m)
  BY DEF Proposed, txs
<1> QED
  BY <1>3, <1>5, <1>6 DEF txs

LEMMA SelectionSound ==
  ASSUME PoolInv, LedgerTypeOK, GasFits PROVE SelectionFollowsNonces
<1>1. SUFFICES ASSUME NEW base_fee \in BaseFees
               PROVE  LET txs == Proposed(base_fee)
                      IN  /\ \A i \in DOMAIN txs :
                               txs[i].nonce = GetAccount(accounts, txs[i].from).nonce
                                 + Cardinality({j \in 1..(i - 1) :
                                                  txs[j].from = txs[i].from})
                          /\ GasSum(txs) <= max_block_gas
  BY DEF SelectionFollowsNonces, GasSum
<1> DEFINE all == GetTransactionsForBlock(max_block_gas, base_fee)
<1>2. Len(fee_index) \in Nat /\ max_block_gas \in Nat
  BY MempoolConstants, LedgerConstants DEF PoolInv, IndexOf, Uint
<1>3. PICK sel : Rounds(sel, max_block_gas, base_fee) /\ all = sel[Len(fee_index)].txs
  BY <1>2, SelectionRounds
<1>4. PICK s : s = sel[Len(fee_index)]
  OBVIOUS
<1>5. Follows(s) /\ s.txs = all
  BY <1>2, <1>3, <1>4, RoundsFollow
<1>6. GasSum(all) <= max_block_gas
  BY <1>2, <1>3, <1>4, RoundsFit
<1>7. PICK m \in 0..Len(all) : Proposed(base_fee) = SubSeq(all, 1, m)
  BY ProposedPrefix
<1>8. PICK p : p = Proposed(base_fee)
  OBVIOUS
<1> HIDE DEF all
<1>9. /\ all \in Seq(Transactions)
      /\ \A i \in 1..Len(all) :
           all[i].nonce = GetAccount(accounts, all[i].from).nonce
                            + OfSender(all, i - 1, all[i].from)
  BY <1>5 DEF Follows
<1>10. DOMAIN p = 1..m /\ \A i \in 1..m : p[i] = all[i] /\ i \in 1..Len(all)
  BY <1>7, <1>8, <1>9
<1>11. GasSum(p) <= max_block_gas
  <2>1. GasSum(p) <= GasSum(all)
    BY <1>7, <1>8, <1>9, GasPrefix
  <2>2. p \in Seq(Transactions)
    BY <1>7, <1>8, <1>9
  <2>3. GasSum(p) \in Nat /\ GasSum(all) \in Nat
    BY <1>9, <2>2, GasLimits
  <2> QED BY <1>2, <1>6, <2>1, <2>3
<1>12. ASSUME NEW i \in DOMAIN p
       PROVE  p[i].nonce = GetAccount(accounts, p[i].from).nonce
                + Cardinality({j \in 1..(i - 1) : p[j].from = p[i].from})
  <2>1. i \in 1..m /\ p[i] = all[i] /\ i \in 1..Len(all)
    BY <1>10
  <2>2. \A j \in 1..(i - 1) : p[j] = all[j]
    BY <1>10, <2>1
  <2>3. {j \in 1..(i - 1) : p[j].from = p[i].from}
          = {j \in 1..(i - 1) : all[j].from = all[i].from}
    BY <2>1, <2>2
  <2> QED BY <1>9, <2>1, <2>3 DEF OfSender
<1> QED
  BY <1>8, <1>11, <1>12

\* The held transactions a block could begin with.
GoodFirst(base_fee) ==
  {tx \in {transactions[h].tx : h \in DOMAIN transactions} :
     /\ tx.nonce = GetAccount(accounts, tx.from).nonce
     /\ tx.fee >= base_fee /\ tx.gas_limit <= max_block_gas}

\* Of the n highest entries of the fee index none was good, and nothing has been
\* selected; or the first one selected is the best.
BestSoFar(good, n, s) ==
  \/ /\ s = SelectionStart
     /\ \A i \in 1..Len(fee_index) :
          i > Len(fee_index) - n => transactions[fee_index[i]].tx \notin good
  \/ /\ Len(s.txs) > 0 /\ s.txs[1] \in good
     /\ \A tx \in good : tx.fee <= s.txs[1].fee

\* A transaction can be included first if and only if it is good.
LEMMA FirstIncludable ==
  ASSUME PoolInv, NEW h \in DOMAIN transactions, NEW base_fee
  PROVE  Includable(transactions[h].tx, SelectionStart, max_block_gas, base_fee)
           <=> transactions[h].tx \in GoodFirst(base_fee)
<1> DEFINE s == SelectionStart
           A == DOMAIN account_queues
<1>1. PICK tx : tx = transactions[h].tx
  OBVIOUS
<1>2. tx \in Transactions /\ tx.from \in A
  BY <1>1, HeldSenders
<1>3. /\ s.gas_used = 0 /\ DOMAIN s.next_nonce = A
      /\ \A a \in A : s.next_nonce[a] = GetAccount(accounts, a).nonce
  BY DEF SelectionStart
<1> HIDE DEF s
<1>4. (s.gas_used + tx.gas_limit) % Width = tx.gas_limit
  <2>1. tx.gas_limit \in Nat /\ tx.gas_limit < Width /\ Width \in Nat \ {0}
    BY <1>2, TransactionFields, LedgerConstants DEF Uint
  <2>2. 0 + tx.gas_limit = tx.gas_limit
    BY <2>1
  <2>3. tx.gas_limit % Width = tx.gas_limit
    BY <2>1
  <2> QED BY <1>3, <2>2, <2>3
<1>5. Includable(tx, s, max_block_gas, base_fee)
        <=> /\ tx.fee >= base_fee /\ tx.gas_limit <= max_block_gas
            /\ tx.nonce = GetAccount(accounts, tx.from).nonce
  BY <1>2, <1>3, <1>4 DEF Includable
<1> QED
  BY <1>1, <1>5 DEF GoodFirst, s

LEMMA RoundsBest ==
  ASSUME PoolInv, LedgerTypeOK, NEW base_fee,
         NEW sel, Rounds(sel, max_block_gas, base_fee)
  PROVE  \A n \in 0..Len(fee_index) : BestSoFar(GoodFirst(base_fee), n, sel[n])
<1> DEFINE L == Len(fee_index)
           good == GoodFirst(base_fee)
           G == {n \in Nat : n <= L => BestSoFar(good, n, sel[n])}
<1>0. /\ L \in Nat /\ fee_index \in Seq(DOMAIN transactions)
      /\ \A i \in 1..L : fee_index[i] \in DOMAIN transactions
  BY DEF PoolInv, IndexOf
<1>1. 0 \in G
  <2>1. \A i \in 1..L : ~(i > L - 0)
    BY <1>0
  <2> QED BY <2>1 DEF Rounds, BestSoFar
<1>2. ASSUME NEW n \in Nat, n \in G PROVE n + 1 \in G
  <2>1. SUFFICES ASSUME n + 1 <= L PROVE BestSoFar(good, n + 1, sel[n + 1])
    OBVIOUS
  <2>2. PICK s, p : s = sel[n] /\ p = L - n
    OBVIOUS
  <2>3. /\ p \in 1..L /\ p = (L + 1) - (n + 1) /\ n + 1 \in 1..L
        /\ (n + 1) - 1 = n /\ n \in 0..L
    BY <1>0, <2>1, <2>2
  <2>4. PICK hash, tx : hash = fee_index[p] /\ tx = transactions[hash].tx
    OBVIOUS
  <2>5. hash \in DOMAIN transactions /\ tx \in Transactions /\ TxHash(tx) = hash
    BY <1>0, <2>3, <2>4, HeldSenders
  <2>6. sel[n + 1] = IF Includable(tx, s, max_block_gas, base_fee)
                     THEN Include(s, tx) ELSE s
    BY <2>2, <2>3, <2>4, <2>5 DEF Rounds, Consider
  <2>7. Follows(s) /\ Include(s, tx).txs = Append(s.txs, tx)
    BY <2>2, <2>3, RoundsFollow DEF Include
  <2>8. s.txs \in Seq(Transactions)
    BY <2>7 DEF Follows
  <2>9. CASE /\ s = SelectionStart
             /\ \A i \in 1..L : i > L - n => transactions[fee_index[i]].tx \notin good
    <3>1. Includable(tx, s, max_block_gas, base_fee) <=> tx \in good
      BY <2>4, <2>5, <2>9, FirstIncludable
    <3>2. CASE tx \in good
      <4>1. sel[n + 1].txs = <<tx>>
        <5>1. s.txs = << >>
          BY <2>9 DEF SelectionStart
        <5>2. sel[n + 1].txs = Append(s.txs, tx)
          BY <2>6, <2>7, <3>1, <3>2
        <5> QED BY <5>1, <5>2
      <4>2. Len(sel[n + 1].txs) > 0 /\ sel[n + 1].txs[1] = tx
        BY <4>1
      <4>3. ASSUME NEW g \in good PROVE g.fee <= tx.fee
        <5>1. PICK h \in DOMAIN transactions : g = transactions[h].tx
          BY DEF GoodFirst
        <5>2. g \in Transactions /\ TxHash(g) = h
          BY <5>1, HeldSenders
        <5>3. PICK i \in 1..L : fee_index[i] = h
          BY DEF PoolInv, IndexOf
        <5>4. ~(i > L - n)
          BY <2>9, <5>1, <5>3
        <5>5. i < p \/ i = p
          BY <1>0, <2>2, <2>3, <5>4
        <5>6. tx.fee \in Nat /\ TxHash(tx).fee = tx.fee /\ TxHash(g).fee = g.fee
          BY <2>5, <5>2, TransactionFields
        <5>7. CASE i < p
          <6>1. <<fee_index[i], fee_index[p]>> \in FeeOrder
            BY <2>3, <5>7 DEF PoolInv, IndexOf, Ascending
          <6>2. fee_index[i].fee <= fee_index[p].fee
            BY <6>1 DEF FeeOrder
          <6> QED BY <2>4, <2>5, <5>2, <5>3, <5>6, <6>2
        <5>8. CASE i = p
          BY <2>4, <5>1, <5>3, <5>6, <5>8
        <5> QED BY <5>5, <5>7, <5>8
      <4> QED BY <3>2, <4>2, <4>3 DEF BestSoFar
    <3>3. CASE tx \notin good
      <4>1. sel[n + 1] = SelectionStart
        BY <2>6, <2>9, <3>1, <3>3
      <4>2. ASSUME NEW i \in 1..L, i > L - (n + 1)
            PROVE  transactions[fee_index[i]].tx \notin good
        <5>1. i > L - n \/ i = p
          BY <1>0, <2>2, <4>2
        <5> QED BY <2>4, <2>9, <3>3, <5>1
      <4> QED BY <4>1, <4>2 DEF BestSoFar
    <3> QED BY <3>2, <3>3
  <2>10. CASE /\ Len(s.txs) > 0 /\ s.txs[1] \in good
              /\ \A g \in good : g.fee <= s.txs[1].fee
    <3>1. CASE Includable(tx, s, max_block_gas, base_fee)
      <4>1. sel[n + 1].txs = Append(s.txs, tx)
        BY <2>6, <2>7, <3>1
      <4>2. Len(sel[n + 1].txs) > 0 /\ sel[n + 1].txs[1] = s.txs[1]
        BY <2>5, <2>8, <2>10, <4>1
      <4> QED BY <2>10, <4>2 DEF BestSoFar
    <3>2. CASE ~Includable(tx, s, max_block_gas, base_fee)
      BY <2>6, <2>10, <3>2 DEF BestSoFar
    <3> QED BY <3>1, <3>2
  <2>11. BestSoFar(good, n, s)
    BY <1>2, <2>2, <2>3
  <2> HIDE DEF good
  <2> QED BY <2>9, <2>10, <2>11 DEF BestSoFar
<1>3. Nat \subseteq G
  <2> HIDE DEF G
  <2> QED BY <1>1, <1>2, NumberInduction
<1> QED
  BY <1>0, <1>3

LEMMA SelectionBest ==
  ASSUME PoolInv, LedgerTypeOK PROVE BestProposedFirst
<1>1. SUFFICES ASSUME NEW base_fee \in BaseFees, GoodFirst(base_fee) # {}
               PROVE  LET txs == GetTransactionsForBlock(max_block_gas, base_fee)
                      IN  /\ txs # << >> /\ Head(txs) \in GoodFirst(base_fee)
                          /\ \A tx \in GoodFirst(base_fee) : tx.fee <= Head(txs).fee
  BY DEF BestProposedFirst, GoodFirst
<1> DEFINE txs == GetTransactionsForBlock(max_block_gas, base_fee)
           L == Len(fee_index)
           good == GoodFirst(base_fee)
<1>2. L \in Nat
  BY DEF PoolInv, IndexOf
<1>3. PICK sel : Rounds(sel, max_block_gas, base_fee) /\ txs = sel[L].txs
  BY <1>2, SelectionRounds
<1>4. BestSoFar(good, L, sel[L]) /\ Follows(sel[L])
  BY <1>2, <1>3, RoundsBest, RoundsFollow
<1>5. \E i \in 1..L : transactions[fee_index[i]].tx \in good
  <2>1. PICK h \in DOMAIN transactions : transactions[h].tx \in good
    BY <1>1 DEF GoodFirst
  <2>2. PICK i \in 1..L : fee_index[i] = h
    BY DEF PoolInv, IndexOf
  <2> QED BY <2>1, <2>2
<1>6. \A i \in 1..L : i > L - L
  BY <1>2
<1> HIDE DEF txs, good, L
<1>7. /\ Len(txs) > 0 /\ txs[1] \in good /\ \A tx \in good : tx.fee <= txs[1].fee
  BY <1>3, <1>4, <1>5, <1>6 DEF BestSoFar, L
<1>8. txs \in Seq(Transactions)
  BY <1>3, <1>4 DEF Follows
<1>9. txs # << >> /\ Head(txs) = txs[1]
  BY <1>7, <1>8
<1> QED
  BY <1>7, <1>9 DEF txs, good

\* The mempool acts on the ledger only as any caller of the state machine does.
LEMMA MempoolStepsAreLedgerSteps ==
  ASSUME PoolInv, LedgerTypeOK, [MempoolNext]_allVars PROVE [Next]_ledgerVars
<1>1. ASSUME NEW tx \in Transactions, Execute(tx) PROVE Next
  BY <1>1 DEF Execute, Next
<1>2. ASSUME NEW height \in BlockHeights, NEW base_fee, ProposeBlock(height, base_fee)
      PROVE  Next
  <2>1. PICK p : p = Proposed(base_fee)
    OBVIOUS
  <2> DEFINE all == GetTransactionsForBlock(max_block_gas, base_fee)
  <2>2. all \in Seq(Transactions) /\ \E m \in 0..Len(all) : p = SubSeq(all, 1, m)
    BY <2>1, ProposedPrefix
  <2> HIDE DEF all
  <2>3. p \in Seq(Transactions)
    BY <2>2
  <2>4. Range(p) \in SUBSET Transactions
    BY <2>3 DEF Range
  <2>5. ExecuteBlock(height, Range(p))
    BY <1>2, <2>1 DEF ProposeBlock
  <2> QED BY <2>4, <2>5 DEF Next
<1>3. ASSUME NEW tx, AddTransaction(tx) PROVE UNCHANGED ledgerVars
  BY <1>3 DEF AddTransaction
<1>4. ASSUME NEW hash, RemoveTransactions({hash}) PROVE UNCHANGED ledgerVars
  BY <1>4 DEF RemoveTransactions
<1>5. ASSUME PruneOldTransactions \/ Clear \/ Tick PROVE UNCHANGED ledgerVars
  BY <1>5 DEF PruneOldTransactions, Clear, Tick
<1>6. ASSUME UNCHANGED allVars PROVE UNCHANGED ledgerVars
  BY <1>6 DEF allVars, ledgerVars
<1>7. Resets => Next
  BY DEF Next
<1> QED
  BY <1>1, <1>2, <1>3, <1>4, <1>5, <1>6, <1>7 DEF MempoolNext

LEMMA MempoolInvariant == MempoolSpec => []PoolInv /\ []LedgerTypeOK
<1>1. MempoolInit => PoolInv /\ LedgerTypeOK
  BY EmptyPool, InitTypes DEF MempoolInit, PoolInv
<1>2. PoolInv /\ LedgerTypeOK /\ [MempoolNext]_allVars => PoolInv' /\ LedgerTypeOK'
  BY NextKeepsPool, MempoolStepsAreLedgerSteps, NextTypes
<1> QED
  BY <1>1, <1>2, PTL DEF MempoolSpec

\* The mempool and the proposer above it leave the ledger to its rules: what
\* holds of the state machine under any calls holds of it here.
THEOREM MempoolKeepsLedger == MempoolSpec => Spec
<1>1. MempoolInit => Init
  BY DEF MempoolInit
<1>2. PoolInv /\ LedgerTypeOK /\ [MempoolNext]_allVars => [Next]_ledgerVars
  BY MempoolStepsAreLedgerSteps
<1> QED
  BY <1>1, <1>2, MempoolInvariant, PTL DEF MempoolSpec, Spec

\* What propose_block takes from the mempool runs on from the accounts' nonces,
\* sender by sender, and stays within the block's gas, as long as no sum of gas
\* leaves the width.
THEOREM MempoolSelection ==
  ASSUME GasFits PROVE MempoolSpec => []SelectionFollowsNonces
<1>1. PoolInv /\ LedgerTypeOK => SelectionFollowsNonces
  BY GasFits, SelectionSound
<1> QED
  BY <1>1, MempoolInvariant, PTL

\* No stale, early or oversized transaction keeps get_transactions_for_block
\* from a good one: the first selected is a good one with the highest fee.
THEOREM MempoolBestFirst == MempoolSpec => []BestProposedFirst
<1>1. PoolInv /\ LedgerTypeOK => BestProposedFirst
  BY SelectionBest
<1> QED
  BY <1>1, MempoolInvariant, PTL
=============================================================================
