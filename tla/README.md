# Sarafu Core in TLA+

This directory holds a TLA+ development of the Sarafu node (`src/`, C++): modules
that model its components, TLC configurations that check them on small
instances, and TLAPS proofs of the properties that matter most.
`PROJECT.json` lists components, runs, mutants, the map from definitions to
source lines, findings, hazards and theorems.

## 1. The system

A node is one process made of the parts below. `Node` (src/node.cpp) constructs
them, registers message handlers and starts background threads;
`ConsensusLoop` is the newer driver of the same engine. Nothing in the
components takes a lock, except the network layer's connection table, the
monitors and the RPC front ends.

| part | state | operations | talks to | what makes it correct |
|---|---|---|---|---|
| ValidatorRegistry | `validators_` (map), `current_set_` (vector, epoch, total stake), `unbonding_requests_` | add, update, bond, unbond, process_unbonding, record_signature, check_downtime, slash, transition_epoch, distribute_rewards | engine, aggregator and verifier read the set; detector slashes | the two copies agree as far as needed, `total_stake` is exact, elections follow stake, tombstones hold |
| SlashingDetector | per-validator signature and vote histories | record, detect, calculate_penalty, apply_slashing, prune | registry, token supply | no honest validator reported, evidence kept, penalties conserve tokens |
| ConsensusEngine | view, highest QC, finalized height and blocks, block store, height index | propose_block, on_receive_block, on_receive_vote, trigger_view_change, set_genesis_block | aggregator, verifier, registry, state machine, mempool, network | finality implies a quorum, no conflicting finality, progress |
| VoteAggregator | votes per (height, hash), a copy of the validator set | add_vote, has_supermajority, aggregate_votes, clear, update_validator_set | engine | each validator counted once |
| QCVerifier | none | verify_qc | engine, registry | only real quorums pass |
| ConsensusLoop | running flag, thread, last block time | start, stop, loop, handlers | engine, network, fee market | views last, silent leaders are replaced, stop returns |
| StateMachine, TransactionExecutor, TransactionValidator, AccountManager | accounts, receipts, snapshots, fee counters | initialize_from_genesis, execute_block, execute_transaction, revert_to_height | engine, mempool | tokens conserved, no replay |
| Mempool | per-account queues, fee index, lookup | add, select for a block, remove, prune | account manager, engine, loop | the three indexes agree, selections are executable |
| FeeMarket, MonetaryPolicyEngine | base fee; supply and rates | update_base_fee; update_supply, distribute_rewards | loop, RPC | clamped adjustment; supply accounting |
| GovernanceModule | proposals, votes | submit, vote, finalize, execute | registry stake | thresholds, life cycle |
| NetworkLayer, Libp2pHost, MessageHandler | peers, connections, bans, seen messages; the encodings of every message | connect, maintain, broadcast, handle, reputation, ban; serialize, deserialize | loop, node | banned peers stay out, each message handled once, what is written is read back |
| SyncManager, CheckpointManager, BlockValidator | status, progress, stop flag | start_sync, fast_sync, stop_sync; produce, aggregate, verify; validate_block | network, storage, state machine | a stop ends a sync; a checkpoint young enough can be served |
| LightClient | epoch, validator set root, finalized height and hash | initialize, verify_header, update_epoch | full nodes | never off the chain, catches up |
| Storage (Database, StateStorage, StatePersistence) | column families, in memory behind one mutex | store with receipts, look up, prune | block validation, sync, checkpoints | what is indexed is found, receipts follow their block |
| GenesisBuilder | allocations, total, validator set | add (with vesting), create set, build, validate | state machine loads the result | every token arrives |
| Node, main | running and shutdown flags, background threads | Initialize, Start, Stop, signal handler | all of the above | whenever a signal comes, everything is taken down in order |
| RPC, rate limiter, monitoring, CLI, configuration, logging, crypto | counters, windows, alerts | requests | everything | limits hold, no self-deadlock |

What is hard here is not the size of a part but what happens between calls:
the registry's copies drift apart within an epoch; a penalty is computed in one
call and applied in another; votes, blocks and registry changes reach the
engine in any order; the loop's thread and the network's thread share a plain
integer; nothing is told when the validator set changes; proposals are judged
with other stakes than they were voted on with; a light client and a syncing
node see parts of a chain in any order; readers, writers and the pruner share
the database access by access; and the signal that ends the process runs Stop
wherever the main thread is.

## 2. Modules

| module | models | composed of |
|---|---|---|
| `StakeSums` | the loops that add up stake, and the two-thirds threshold | |
| `Filters` | the erase loops over histories and queues | |
| `ValidatorRegistry`, `MCValidatorRegistry` | validator_registry.cpp, validator.cpp | `StakeSums` |
| `SlashingDetector`, `MCSlashing` | slashing_detector.cpp | `ValidatorRegistry` (its actions and its functions) |
| `ConsensusEngine`, `MCConsensusEngine` | consensus_engine.cpp, vote_aggregator.cpp, qc_verifier.cpp | `StakeSums` |
| `ConsensusLoop` | consensus_loop.cpp | |
| `StateMachine` | state_machine.cpp, account_manager.cpp, transaction_validator.cpp, transaction_executor.cpp | `StakeSums` (sums of balances) |
| `Mempool`, `MCMempool` | mempool.cpp and the selection in `propose_block` | `StateMachine` |
| `Codec`, `WireFormats`, `Wire`, `MCWire` | every serialize/deserialize pair, the network frame, the dispatch of message_handler.cpp | one on the other |
| `MerkleTree` | merkle_tree.cpp | |
| `LightClient`, `MCLightClient` | light_client.cpp | `StakeSums`, `MerkleTree` |
| `ProposalLifecycle` | the abstract promise of governance about time | |
| `GovernanceModule` | governance_module.cpp | `StakeSums`; implements `ProposalLifecycle` |
| `GenesisBuilder` | genesis_builder.cpp, `initialize_from_genesis` | `StakeSums`, `MerkleTree` |
| `FeesAndSupply` | fee_market.cpp, monetary_policy_engine.cpp | `StakeSums` |
| `MCEconomy` | | the three above |
| `BlockValidator`, `CheckpointManager` | block_validator.cpp, checkpoint_manager.cpp (operators: neither keeps state) | `MerkleTree`; `StakeSums` |
| `BlockStore` | state_storage.cpp, state_persistence.cpp, database.cpp, the storing half of sync_manager.cpp | `BlockValidator`, `CheckpointManager` |
| `SyncManager`, `MCSync` | the loops of sync_manager.cpp | `CheckpointManager`; `MCSync` adds `BlockStore` |
| `NetworkLayer` | network_layer.cpp above the host | |
| `Node`, `MCNode` | node.cpp, main.cpp | `NetworkLayer` |
| `SharedProofs` | | facts on sums, filters and Merkle trees that the theorems use |
| `ValidatorRegistryProofs` (`ValidatorRegistry`, `SlashingDetector`), `ConsensusEngineProofs`, `LedgerProofs` (`StateMachine`, `Mempool`), `EconomyProofs` (`GovernanceModule`, `FeesAndSupply`, `GenesisBuilder`), `ChainProofs` (`LightClient`, `BlockStore`), `NodeProofs` (`NetworkLayer`, `Node`, `ConsensusLoop`), `WireProofs` (`Wire`) | | the theorems |

**ValidatorRegistry.** `validators` is the map, `set_validators`, `position`
and `total_stake` are the vector's entries, their order and the running total.
One action per public operation that changes state; a call that returns false
changes nothing and is a stuttering step. Operations are functions on a copy
(`Bonded`, `Slashed`, `UpdatedCopy`, `DowntimeChecked`, `ElectedMap`), so that
`apply_slashing`, which calls several of them, chains the same functions.
`unbonding_requests` is a bag, since nothing reads its order. Addresses are
numbers because their order breaks ties in `Validator::operator<`. The threshold
0.95 is a fraction; stake is a natural number (the code's uint64 sums stay far
below 2^64 for any supply that fits one).

**SlashingDetector.** A block hash is a pair (height, variant); honest
validators sign and vote for variant 0. The code makes and applies events in
separate calls, without saying who does; `Report` and `ApplySlashing` are
separate actions, so that bonds, unbonds and elections happen in between. The
penalty formula is evaluated exactly where the code uses doubles.

**ConsensusEngine.** One engine; peers, votes and registry changes are its
environment. A hash is the header it covers. Roots, transactions and the
execution's result are abstracted; `executed` records what was run on the state
machine. A vote names the (height, hash) key under which the aggregator files
it. A signature is the key that made it, an aggregate the signatures in it;
`verify_aggregated` holds when each is by the key the set lists, and an aggregate
of nothing throws. Honest validators vote for blocks their own engine may
accept (`Votable`) or this one did; faulty ones vote at will, under any key of
their own, a forged signature or a wrong height. `SignedGenesisQC` is an
assumption about the environment: without a certificate for the genesis block
that verifies, no chain starts; `GenesisCertified` says whether there is one
(section 6). The aggregator's set stays
`InitialSet`, because no code calls `update_validator_set`; view numbers in votes
and certificates are left out, because no check reads them.

**ConsensusLoop.** Each access of the loop thread to shared state is an action;
`HandleBlock` is the network thread. Time is kept as ages, so that the state
space is finite without a bound on the length of a run.

**StateMachine.** `accounts` is the account manager's map; reading an address
without an account gives an empty one, and each helper reads and writes the map
as the code's does, so that a sender who is also recipient or proposer is
handled by the same steps. Sums and products are modulo `Width`. A hash covers
everything but the signature, a signature is the key that made it.
`execute_block` validates with a default-constructed key (libsodium rejects it),
so a block's transactions all fail and leave receipts; `execute_transaction`
with the sender's key is the way accounts change. `executed` is a history
variable: the nonces used since the accounts were last reset.

**Mempool.** `transactions`, `account_queues` and `fee_index` are the three
indexes; insertion points are those of the code's loop and of `std::multimap`.
Selection is a recursive function over the fee index from its end, one value
per round of the loop, with the gas and the next nonces as the loop keeps them. Time of receipt is kept as an age. Operations
are single steps: the code has no lock, and calls from several threads are
undefined behaviour this module does not describe.

**Codec, WireFormats, Wire.** `WireFormats` has one table per serialize method
and one per deserialize method, written from its own code: the items in their
order, the width and byte order of each integer, the counts and lengths, the
maxima that are refused. `Codec` says what writing and reading a table does,
byte by byte and with the tests for the end that the code makes; integers stay
below 2^24, which is enough to tell byte orders apart. A method calls those of
its parts, so writing and reading exist at four levels (`Write0` to `Write`,
`Read0` to `Read`), as deep as a block response goes. `Wire` sends a message
from one to the other: it may be cut at any place or changed in any byte, a
network message is framed with its hash, and the registry of handlers decodes
what it gets and penalises a sender whose payload it cannot decode. The hash is
a parameter: of the payloads that are sent, it must not be the hash of the same
payload with one byte changed, and a payload followed by its hash must not hold
the hash of one of its prefixes right behind it, which is what a frame with a
changed length would need (`HashAssumption`; TLC evaluates it for the mixing of
bytes that the run uses).

**MerkleTree.** Levels, siblings, proofs and their verification as the code
computes them, the repeated last node of an odd level included. Hashes are
the trees below them.

**LightClient.** The chain grows under it; `Initialize`, `VerifyHeader` and
`UpdateEpoch` take what full nodes send, in any order, repeated or never. A
restart makes a new client. What the code does not check (the stake a proof
claims, the outcome of the signers' Merkle proofs, the validator set of an
epoch update) is taken as truthful and listed in section 6.

**GovernanceModule.** Every caller passes the chain's height and the stakes of
the moment; `ChangeStake` moves stakes while votes are open. `cast` and
`judged` are history variables: the stake each vote was cast with, and the
total at the decision. The doubles 0.10 and 0.667 are fractions over 100 and
1000. `ImplementsLifecycle` maps a proposal to its phase and to the height it
was submitted or approved at, worked out from the deadlines the code stores.

**GenesisBuilder.** Allocations in the order they were added, with the
schedules the threshold gives them; the state machine loads the block if the
root over its own accounts is the builder's. `AddressOrder` is the order of the
accounts' hashes. `Sorted` is `std::sort` by what it guarantees: fewer than k
elements are before the one at place k, and k or more are not after it.

**FeesAndSupply.** Exact fractions in place of doubles, with the code's rounding;
supply modulo `SupplyWidth`. `opening` is a history variable, the supply when
the epoch's counters were last reset.

**BlockStore.** Every operation of `Database` holds its mutex and a batch is one
operation, so one access is one step. The writer validates a block with
`BlockValidator` and stores it with receipts in one batch, or, when syncing,
puts block and index one after the other without receipts. The pruner reads
the horizon, scans, deletes receipts and block and records how far it came, one
access each. Readers look a hash up and then the block. Checkpoints are made of
the chain's blocks, aggregated from the signatures that arrive, and kept while
the chain goes on. The database begins with the genesis block, as the tests set
it up.

**SyncManager.** Each caller of `start_sync` or `fast_sync` runs its own loop;
status, progress and the stop flag are shared. A request waits for its timeout
and gets nothing, as `request_block_from_peer` does; applying a block is an
action of `BlockStore`.

**NetworkLayer.** Peers with reputations, bans with the time they end, and the
messages seen with the time they were. `Tick` is the clock; the order of
`peers_` decides ties. `lastBan` and `handled` are history variables: the end of
the latest ban of a peer, the last time a message was handled or sent.

**Node.** Where the main thread is, and where each background thread is. The
signal handler runs on the main thread, between any two of its steps.

## 3. Runs

| run | expects | bounds and what it shows |
|---|---|---|
| Registry | pass | 2 validators, 2 keys (symmetric), 1 place, stake in steps of 200 (so that the 0.5 % and 1 % penalties are whole), 2 epochs: competition for the place, ties, downtime penalties of the first two kinds, tombstones and full unbonding all occur. |
| Slashing | pass | 3 validators (two recipients, so that bounties round), one offender, histories of 2, heights 1 and 2, 3 records at a time, 2 events, one election: trimming, pruning, events applied late and twice, bonding in between. |
| EngineSafety | pass | 3 validators, one faulty, and a fourth that replaces one in a later set with a rotated key; 2 blocks, two views: forged signatures, wrong heights, forks, late certificates, registry changes between two votes. |
| EngineLiveness | pass | two honest validators, the third crashed, heights up to 2, two timestamps (so that there are rival blocks); fairness below. |
| EngineConflict | violation | honest validators only, one height, two views: both blocks are finalized (section 6) |
| Loop | pass | 3 validators, this node the second; timeout twice the block time as in the code; 2 blocks arrive; no time between reading the clock and using it (section 6) |
| Mempool | pass | 3 addresses (one without an account), 5 transactions: two that differ only in the signature, one to the zero address, one to its own sender with the next nonce and a fee below its base fee; width 16, queues of 2, 3 units of gas for 4 wanted, ages up to 2: replacement by age, full queues, ties, stale and early nonces, genesis and reverts in between. |
| Wire | pass | a message of every type with lists of 0, 1 and 2 elements and flags set and clear, whole, cut at every byte, and, in a frame, with any one byte changed |
| Light | pass | 5 epochs of 2 blocks whose sets have 3, 5, 1, 4 and 2 members (trees of every shape up to 5 leaves), three faulty validators below two thirds in every epoch, one restart |
| Economy | pass | 2 voters with stakes 0, 1 and 20 (below, at and above the thresholds), 2 proposals side by side, one submission backed twice by one voter and one with an invalid value, one change of stake; 3 addresses and up to 4 allocations (odd and even trees) with amounts at the vesting threshold, at the cap and above it; 3 blocks with gas limits whose targets are 0, 2 and 5 |
| Sync | pass | heights up to 4 with a period of 2, so that pruning overtakes readers and checkpoints; blocks with 3, 0, 2 and 1 transactions and five bodies offered for each; two jailed signers and a faulty one; two syncing threads, 3 calls, 3 peers that differ in reputation and role |
| Node | pass | 2 peers for 1 place, bans of 1 to 3 ticks with a clock up to 3 and messages remembered for 1, so that bans and records expire; every point at which the one signal can arrive |

The MC modules of the last runs have a variable `part`: their components share
no state in the code (or, in MCNode, one of them makes only a few of the calls
the other allows), so a behaviour exercises one part and the run checks each.

Deadlock is checked for the loop. Elsewhere callers may stop calling, and the
process of `Node` ends.

Every property of every passing run has a mutant of the code that breaks it
(`PROJECT.json`), defined next to the definition it replaces.

**Fairness.** The engine's liveness run assumes a responsive network: a block
that can be accepted arrives, a leader proposes, and each honest validator's
votes for accepted blocks arrive (weak fairness each). The code neither
guarantees nor prevents this; it is the header's own condition ("responsive").
The loop's run assumes that threads are scheduled and that time passes (strong
fairness of the tick, since the model forbids it while a clock reading is held;
the loop sleeps in every round). Nobody is assumed to call start or stop.
The mempool's run assumes that time passes and that the node's pruning task,
which runs every minute until shutdown, is scheduled. A light client catches up
if it is initialized and offered the head's header and the sets of the epochs
again and again (weak fairness of each: honest nodes serve it). A sync thread
goes on when it can (its sleep and its timeout end); nobody is assumed to call
stop. The threads of the node are scheduled, and no signal is assumed.

## 4. Proofs

All with TLAPS, for every value of the constants that meets the named
assumptions. Of the 40 properties the passing runs check, 33 are stated by a
theorem; the other seven are the liveness properties.

**How inductions are done.** The provers cannot use the library's induction
rules, so `SharedProofs` states two of its own over sets instead of predicates,
from the least counterexample: `NumberInduction` and `FiniteSetInduction`. A
recursive function is first shown to be the function its equation describes
(`TreeLevelsStep`, `IndexAtStep`, `VerifyProofStep`, within `KeepOnlyFilters` and
the like: a function with the values up to n exists, for every n), and then reasoned
about by its equation.

**SharedProofs.** A stake sum is the cardinality of the set of units behind it,
so that additivity and the change of one entry follow from the library's facts
on finite sets. *QuorumsIntersect*: two sets with two thirds each share a third.
Merkle trees: every leaf's proof verifies against the root, for any number of
leaves (`ProofsVerify`); two lists with one root are equal or one of them
repeats an element (`RootBinds`), which is exactly as much as the odd levels of
merkle_tree.cpp allow. The argument goes down from the root: nodes of equal
hash have equal children, and two trees of different depth would need a leaf
that is an inner node.

**ValidatorRegistryProofs.** *RegistryTypes* (TypeOK is inductive),
*RegistrySafety* and *SetCopyLagsSafely* (`SetTotalStake` and `SetLagsSafely`
together are inductive: the total survives a slash because the set's copy of a
stake is never below the map's, and that in turn because bonds and slashes
write both copies and everything else that writes one copy only lowers the
map's), *NoActivation* (the action property, from the same invariant).
*TopStakeElected*: the rank of a validator is the number of those before it, so
whoever is left out although eligible is behind everyone elected.
*TombstonesLast* needs that whoever is tombstoned in the map is not Active in
the set. Where updates appear, they set no status but Tombstoned, the only one
the source passes to `update_validator`.

The same module goes on with the slashing detector. *SlashingTypes* carries the registry's invariants over to
the detector's specification (`SlashInv`). *HonestSafe*: what is on record was
signed, trimming and pruning only drop records (`KeepOnly` keeps a subset), and
an event needs two signatures of one height. *SlashingConserves* has one
hypothesis, that all bonded stake is part of the supply (`StakeBacked`): the
supply is lowered with a floor at zero, which would otherwise hide a unit. The
bounties are rounded down and the last recipient gets what is left; the
proof adds the bounties up by induction over the recipients. *EvidenceLasts*
follows a pair of conflicting records through each kind of housekeeping.

**ConsensusEngineProofs.** *EngineFinality*: FinalityImpliesQC is not inductive;
the proof adds that the votes filed under every key are counted (`Counted`: the
stake is the sum over the signers, all of them active in the aggregator's set),
that the index points into the store, and that votes only grow, so that a quorum
once signed stays signed. The registry may change at any step.
*EngineAccountability* follows with QuorumsIntersect. *EngineHeight* needs more:
honest votes state the real height, so if the faulty stake alone is no quorum
(`FaultyNoQuorum`), a certificate's height is its block's.

**LedgerProofs.** *LedgerTypes* holds whatever wraps. *LedgerConservation*
and *SupplyKept* (`SupplyBacked`, and the action property `SupplyConserved`) assume `AmountsFit`:
the genesis supply and every amount plus fee are below the width, which nothing
in the code ensures (section 6). The invariant is needed for the step: a balance
can be added to without wrapping because all balances together stay below the
genesis supply. Each write changes the sum by what it changes in one account
(`UpdateAccountSum`), and a transaction is a chain of such writes. *LedgerNonces*
needs no such assumption; its inductive form (`SpentBelow`) speaks of one nonce
at a time. *MempoolIndexes*: `PoolInv` says which hashes each index holds, once
each, and how the queues are ordered; insertion and erasure in the middle of a
list are lemmas of their own. *MempoolKeepsLedger*: the mempool's composition
implements the state machine's specification, so that the theorems above hold
of it as well. *MempoolSelection* (under `GasFits`, since the loop's gas counter
wraps otherwise) and *MempoolBestFirst* follow the selection loop round by
round: the next nonce of a sender is the account's plus the number of his
transactions included so far, and nothing before the first good transaction of
the fee index is included.

**EconomyProofs.** *VotesDecide* (`DecisionsFollowVotes`) needs the tally as part
of its invariant (`Tallied`: the two counters are the sums of the stakes cast by
the voters on record), and, since the stake of a voter is written into `cast`
only when it votes, that changing one entry outside the set of voters leaves the
sums alone (`TallyGrows`). *GovernanceRefines* (`ImplementsLifecycle`): the
deadlines stored are a height plus a period, so that subtracting the period
gives the height the abstract proposal keeps, and each step maps to one step of
one proposal or to a stutter; the timelock of any parameter is at least the
shortest (`TimelockType`). *FeeResponds*: the fee never falls below 4, from where
an eighth of it rounds to at least one half (`MarketInv`). *RewardsAreBacked*: the
epoch's counter and the change of the supply agree modulo the width, and each
reward is off by half a token at most. *GenesisIsSound*: no total wraps, because
a single allocation is at most 5% of the supply and 105% of the supply are below
the width (`GenesisAssumption`); what vests is monotone, by the monotonicity of
division. Loading: if the addresses differ, the two lists of accounts have the
same elements without repetitions, and sort to one list (`SortedSame`); if the
roots agree, `RootBinds` leaves equal lists, and then no address was allocated
to twice and the sums are one, or a repetition that sorting did not make
(`SortedRepeats`), which is an allocation made twice.

**ChainProofs.** *LightClientSafety* (`ClientOnChain`): the epoch the client
holds is at least that of the block it finalized, which is part of the property
because a header is checked against it; a header off the chain is signed by
faulty validators only (`NoForkVerified`), who have less than two thirds of any
epoch (`FaultyAssumption`). It rests on the truthfulness of the total stake in a
proof, as the model does. *MembersAreProvable*: the root the client holds is
that of its epoch (`RootInv`), and `ProofsVerify`. *CheckpointsHold*
(`CheckpointsServable`): the tip is stored and a block half put is the next one
(`TipInv`); the pruner stays below the horizon it worked out when it started,
while the chain only grows (`PrunerInv`); a checkpoint that verifies names a
block that is there as long as it is within the period (`Held`). The age that is
accepted must not exceed the period that is kept (`BlockStoreAssumption`), and
faulty validators must be too few to sign by themselves
(`FaultyStakeAssumption`). *StoreReadsAreSound*: `ReadInv` says that an index
entry is written after its block and erased after it has passed the horizon, so
that a reader between its two accesses can only lose what has passed it
(`ReaderInv`); a body with the root of the header is the proposer's by
`RootBinds`, unless it repeats a transaction, because a proposer puts none in
twice (`BodyAssumption`); a receipt is deleted before its block.

**NodeProofs.** *BansHold* (`BannedStayOut`) is not inductive: a peer may be
connected when it is not on record as banned, so the invariant (`BansInv`) says
that whoever is not on record has no ban still running, which the clean-up of
expired bans keeps. *MessagesHandledOnce* (`HandledOnce`) in the same way for the
messages forgotten (`SeenInv`). *TasksSafe* (`TasksFindNetwork`) follows from
where the main thread can be while there are threads (`NodeInv`). The theorems
about the network are for any sequence of calls (`NetworkSpec`), the one about
tasks for the node's own (`NodeSpec`). *EarlyOnlyWhenWrapped*: a view is given up
before its timeout only because the unsigned difference of two times wrapped, or
by no more than the lag between reading the clock and using it, whatever the
periods; `LoopInv` bounds the ages. *ViewsLast* is the case without lag, the one
the run checks.

**WireProofs.** *WireRoundTrip*, *WireNoPrefixMisread* and *WireFrameProtects*:
the run's three invariants for every message of every type whose fields fit their
bytes (`MessagesAssumption`), with lists and texts of any length. The proof is
about `Codec`'s two interpreters of tables and not about the types one by one.
Data *carries* bytes from a position on if it agrees with them as far as it goes
(`Carries`), so that whole and cut data are one case: data that carries what an
item wrote is read as the item if it is long enough, and refused otherwise
(`Reads`). This is shown of integers in both byte orders, texts, parts with a
length in front, lists (`ListRead`, by induction over the elements, with the place
of each in the bytes, `Offsets`), and from the items of layouts (`ItemsRead`,
`LayoutRead`, `LayoutCut`), then of layouts within layouts (`Level0` to `Level3`).
What is left of a type is that its two tables agree: the same kinds, widths,
byte orders and flags, and elements without a length of exactly the size that
the reader assumes (`Agree0` to `Agree3`, one lemma per pair of methods). Two
types are different and have proofs of their own: a vote, whose reader skips the
signature, and an allocation, whose reader does not test for the end. A frame
with one byte changed (`FrameDamaged`) is split by where the byte is: in the
type, the payload and the hash follow; in the length, the payload that is read is
a prefix and the hash is elsewhere; in the payload or in the hash, they no longer
belong together. The inductive invariant (`WInv`) adds to the three properties
what the bytes on the way are: those sent, a prefix of them, or a frame with one
byte changed.

The attempt corrected the model: an allocation cut right before its vesting flag
is read without a vesting schedule (genesis_builder.cpp:184 tests for the flag),
where the model had its reader run past the end.

Only model-checked: the seven liveness properties, which need fairness.

## 5. Not modelled

- RPC, REST and WebSocket gateways and their rate limiter: text formats and
  request plumbing over state that the other modules model.
- Monitoring: counters and their export. Nothing in the node calls the security
  monitor; `export_security_metrics` locks a mutex it holds
  (security_monitor.cpp:314) and would not return.
- CLI, configuration, logging: parsing and output.
- Signatures and hash functions: library calls, abstracted to what was signed or
  hashed.
- The libp2p host below the network layer: sockets, and a read loop that drops
  what it reads. Two of its behaviours matter to whoever completes it:
  `ban_peer` leaves the host's connection open, and `handle_disconnect` of an old
  connection erases a newer one to the same peer.
- `save_state` and the account columns: no part of the node calls them. They
  write the height before the accounts, in separate accesses.
- Unlocked maps used from several threads (network layer, mempool): undefined
  behaviour; each call is one step here.
- A second signal, and a signal delivered to a background thread, which would
  then join itself.
- Several engines with timers of their own; the views of several nodes may
  drift apart, and nothing in the code brings them together.
- The message handlers of `Node` are placeholders (node.cpp:552-618) that act on
  nothing.

## 6. Divergences

Shown by a run (quoted in "findings"): two blocks at one height are finalized
by honest votes.

Shown by changing a constant: with `GenesisCertified = FALSE`, as
`set_genesis_block` leaves it, no block is ever accepted
(consensus_engine.cpp:211); with `MaxLag = 1` a view change fires early when
another thread stores a time after the loop has read the clock
(consensus_loop.cpp:184); with amounts that violate `AmountsFit`, a transaction
whose amount and fee wrap makes tokens (transaction_executor.cpp:25).

Met while modelling, present in the models, without a run of their own:

- `add_vote` counts a vote without checking its signature
  (vote_aggregator.cpp:13, against vote_aggregator.h:38): with a faulty
  validator in the liveness run, one bad signature keeps an accepted block from
  being finalized;
- `execute_block` changes no account (state_machine.cpp:74), proposed
  transactions stay in the mempool, and `revert_to_height` clears the accounts
  (state_machine.cpp:169);
- the mempool takes no note of signatures or recipients, so a copy of a
  transaction with a wrong signature takes its place (mempool.cpp:22), and
  transactions that are affordable one by one may not be together (30);
- `unbond_stake` of everything turns a tombstone into Standby
  (validator_registry.cpp:146, against the comment at 218);
- `check_downtime` repeated for one epoch penalises again from the second
  violation on (332, against 330);
- ineligible validators use up ranks, so places stay empty (220, against
  test_top_n_selection.cpp:23);
- two votes in one view for successive blocks count as a surround vote
  (slashing_detector.cpp:180, against slashing_detector.h:176);
- a double sign whose penalty rounds to zero is not tombstoned (344, against
  Sarafu-Whitepater.md:117), and with nobody to reward half of a penalty
  vanishes (370);
- votes that complete a certificate before their block arrives make the engine
  reject that block for ever (consensus_engine.cpp:299);
- `extends_highest_qc` compares heights, not ancestry (287, against 244);
- the aggregator keeps the validator set of its construction (31, against
  vote_aggregator.h:98), and `check_supermajority` trusts its sum.
- a first downtime jails until the current epoch, and the same transition
  releases (validator_registry.cpp:191);
- evidence is not remembered: the same two signatures slash again with every
  event made from them (slashing_detector.cpp:333);
- a network `Vote` loses its signature when it is read (message_handler.cpp:61);
  `GenesisAllocation` and `HeaderProof` are read without a test for the end, and
  an allocation cut right before its flag loses its vesting schedule; the
  hash of a frame leaves its type byte out (network_layer.cpp:98);
- an odd level of a Merkle tree repeats its last node, so [a,b,c] and [a,b,c,c]
  have one root: a repeated genesis allocation is lost when the block is loaded,
  and a block's body can repeat its last transaction (merkle_tree.cpp:30);
- 0.667 rejects exactly two thirds (governance_module.h:279); a backer listed
  twice counts twice (governance_module.cpp:13); stake that moves from one voter
  to another between their votes counts twice; executing a proposal applies
  nothing (161);
- a base fee of 3 or less never rises again (fee_market.cpp:36), which is why
  `InitialBaseFee` is above 3: from there it does not fall below;
- each reward is rounded by itself, so that together they may exceed the
  issuance by half a token per validator, and a second call pays again
  (monetary_policy_engine.cpp:96);
- the light client takes the total stake from the proof and ignores the outcome
  of the Merkle proofs (light_client.cpp:289); `update_epoch` checks only that
  there is stake (351);
- `verify_state_root` compares with the state before the block is executed
  (block_validator.cpp:174);
- a sync never receives a block (sync_manager.cpp:214); a batch that was only
  partly downloaded would be passed over (72); a stop that comes before a sync
  starts is lost, and `fast_sync` does not ask whether one is running (85);
- the database is in memory (database.cpp), and `LoadOrCreateGenesis` stores no
  genesis block;
- `NetworkLayer::handle_message` has no caller, so that blocks and votes of peers
  do not arrive;
- `shutdown_requested_` is never cleared: the background tasks of a second
  `Start` end at once (node.cpp:469).

## 7. Next

1. Several engines with their timers: view synchronisation; an abstract
   specification of single-height agreement that the engine refines when every
   validator votes once per height.
2. Storage with crashes between writes, once the database is durable and
   `save_state` has a caller.
