--------------------------- MODULE GenesisBuilder ---------------------------
(***************************************************************************)
(* Building the genesis block: allocations with a cap and compulsory       *)
(* vesting, the first validator set, the block with the Merkle root of the *)
(* accounts, and the state machine that loads the allocations and compares *)
(* the roots.                                                              *)
(***************************************************************************)
EXTENDS StakeSums, MerkleTree

CONSTANTS AddressOrder,    \* the addresses, in the order of their account hashes
          Amounts,         \* amounts that are allocated
          TotalSupply,     \* config_.total_supply
          Width,           \* 2^64
          Candidates,      \* lists of genesis validators: their stakes by id
          ValidatorSetSize, MinimumSelfBond,
          VestingDuration, \* the default vesting_duration_seconds
          MaxAllocations   \* bound: how many allocations are added

ASSUME GenesisAssumption ==
    /\ TotalSupply \in Nat /\ Width \in Nat /\ TotalSupply * 105 < Width * 100
    /\ Amounts \subseteq 0..(Width - 1) /\ VestingDuration \in Nat
    /\ ValidatorSetSize \in Nat /\ MinimumSelfBond \in Nat /\ MaxAllocations \in Nat
    /\ \A i, j \in DOMAIN AddressOrder : AddressOrder[i] = AddressOrder[j] => i = j
    /\ DOMAIN AddressOrder \subseteq Nat

VARIABLES allocations,     \* allocations_
          total_allocated, \* total_allocated_
          validator_set,   \* validator_set_; <<>> until it is initialized
          block,           \* the genesis block; <<>> until it is built
          accounts,        \* the accounts of the state machine that loads it
          loaded           \* what initialize_from_genesis returned

genesisVars == <<allocations, total_allocated, validator_set, block, accounts, loaded>>

Addresses == {AddressOrder[i] : i \in DOMAIN AddressOrder}

\* The elements that may stand at place k of the list s once it is sorted by
\* the order R: fewer than k are before it, and k or more are not after it.
AtPlace(s, R, k) ==
    {e \in {s[i] : i \in DOMAIN s} :
        /\ Cardinality({i \in DOMAIN s : <<s[i], e>> \in R}) < k
        /\ Cardinality({i \in DOMAIN s : <<e, s[i]>> \notin R}) >= k}
\* std::sort
Sorted(s, R) == [k \in DOMAIN s |-> CHOOSE e \in AtPlace(s, R, k) : TRUE]

\* 5% and 2% of the supply, truncated.
AllocationCap == (TotalSupply * 5) \div 100
VestingThreshold == (TotalSupply * 2) \div 100

\* A schedule vests its amount linearly from the genesis time, which is 0.
VestingSchedule(amount, duration) == [total_amount |-> amount, duration_seconds |-> duration]
CalculateVestedAmount(s, now) ==
    IF now >= s.duration_seconds THEN s.total_amount
    ELSE (s.total_amount * now) \div s.duration_seconds
IsFullyVested(s, now) == now >= s.duration_seconds

GenesisInit ==
    /\ allocations = <<>>
    /\ total_allocated = 0
    /\ validator_set = <<>>
    /\ block = <<>>
    /\ accounts = <<>>
    /\ loaded = "no"

Fits(amount) ==
    /\ amount <= AllocationCap
    /\ (total_allocated + amount) % Width <= TotalSupply

Allocate(address, amount, vesting) ==
    /\ Len(allocations) < MaxAllocations
    /\ Fits(amount)
    /\ allocations' = Append(allocations,
                             [address |-> address, amount |-> amount, vesting |-> vesting])
    /\ total_allocated' = (total_allocated + amount) % Width
    /\ UNCHANGED <<validator_set, block, accounts, loaded>>

\* add_vesting_allocation
AddVestingAllocation(address, amount) ==
    Allocate(address, amount, <<VestingSchedule(amount, VestingDuration)>>)

\* Mutant: large allocations are not given a schedule.
AddAllocationUnvested(address, amount) == Allocate(address, amount, <<>>)
\* add_allocation: above the threshold the allocation vests without asking.
AddAllocation(address, amount) ==
    IF amount > VestingThreshold
    THEN AddVestingAllocation(address, amount)
    ELSE Allocate(address, amount, <<>>)

\* create_genesis_validator_set over the stakes of the candidates, whose ids
\* are 1, 2, ...: the top by stake, ties by id, must all meet the self-bond.
CreateGenesisValidatorSet(stakes) ==
    LET Before(i, j) == stakes[i] > stakes[j] \/ (stakes[i] = stakes[j] /\ i < j)
        Order == {p \in (DOMAIN stakes) \X (DOMAIN stakes) : Before(p[1], p[2])}
        ranked == Sorted([i \in DOMAIN stakes |-> i], Order)
        active == {ranked[k] : k \in {j \in DOMAIN stakes : j <= ValidatorSetSize}}
    IN  /\ stakes # <<>>
        /\ \A i \in active : stakes[i] >= MinimumSelfBond
        /\ validator_set' = [active |-> active, total_stake |-> StakeSum(active, stakes),
                             root |-> RootOfList(ranked)]
        /\ UNCHANGED <<allocations, total_allocated, block, accounts, loaded>>

\* validate
Validate ==
    /\ total_allocated <= TotalSupply
    /\ \A i \in DOMAIN allocations :
          /\ allocations[i].amount <= AllocationCap
          /\ allocations[i].amount > VestingThreshold => allocations[i].vesting # <<>>

\* The root over accounts, given as pairs of address and balance, in the
\* order of their hashes.
Position(address) == CHOOSE i \in DOMAIN AddressOrder : AddressOrder[i] = address
HashedBefore(x, y) ==
    \/ Position(x[1]) < Position(y[1])
    \/ x[1] = y[1] /\ x[2] < y[2]
Accounts == Addresses \X Amounts
HashOrder == {p \in Accounts \X Accounts : HashedBefore(p[1], p[2])}
RootOf(pairs) == RootOfList(Sorted(pairs, HashOrder))

\* compute_state_root: one account per allocation.
ComputeStateRoot == RootOf([i \in DOMAIN allocations |->
                                <<allocations[i].address, allocations[i].amount>>])

\* build: throws unless the allocations are valid and there is a set.
Build ==
    /\ block = <<>>
    /\ Validate
    /\ validator_set # <<>>
    /\ block' = [state_root |-> ComputeStateRoot, validator_set_root |-> validator_set.root]
    /\ UNCHANGED <<allocations, total_allocated, validator_set, accounts, loaded>>

\* The accounts that create_account leaves: the last allocation of an address.
Created ==
    [a \in {allocations[i].address : i \in DOMAIN allocations} |->
        LET last == CHOOSE i \in DOMAIN allocations :
                        /\ allocations[i].address = a
                        /\ \A j \in DOMAIN allocations : allocations[j].address = a => j <= i
        IN  allocations[last].amount]
\* The addresses of the accounts, each once, in the order the map gives them.
Holders(accs) ==
    CHOOSE s \in [1..Cardinality(DOMAIN accs) -> DOMAIN accs] :
        \A a \in DOMAIN accs : \E i \in DOMAIN s : s[i] = a

\* Mutant: the root is not compared.
LoadsAnyRoot(accs) == TRUE
RootMatches(accs) ==
    LET holders == Holders(accs)
    IN  RootOf([i \in DOMAIN holders |-> <<holders[i], accs[holders[i]]>>]) = block.state_root

\* initialize_from_genesis with the builder's block and allocations.
InitializeFromGenesis ==
    /\ block # <<>> /\ loaded = "no"
    /\ IF RootMatches(Created)
       THEN accounts' = Created /\ loaded' = "yes"
       ELSE accounts' = <<>> /\ loaded' = "refused"
    /\ UNCHANGED <<allocations, total_allocated, validator_set, block>>

GenesisNext ==
    \/ /\ block = <<>>
       /\ \/ \E a \in Addresses, n \in Amounts : AddAllocation(a, n)
          \/ \E a \in Addresses, n \in Amounts : AddVestingAllocation(a, n)
          \/ \E stakes \in Candidates : CreateGenesisValidatorSet(stakes)
    \/ Build
    \/ InitializeFromGenesis

GenesisSpec == GenesisInit /\ [][GenesisNext]_genesisVars

-----------------------------------------------------------------------------
(* Properties.                                                             *)

\* However allocations are added, the builder never reaches a state it
\* refuses to build from, all tokens are accounted for within the supply,
\* and whatever vests does so bit by bit and in full.
GenesisBuildable ==
    /\ Validate
    /\ total_allocated = StakeSum(DOMAIN allocations, [i \in DOMAIN allocations |-> allocations[i].amount])
    /\ \A i \in DOMAIN allocations : allocations[i].vesting # <<>> =>
          LET s == allocations[i].vesting[1]
          IN  /\ s.total_amount = allocations[i].amount
              /\ \A now \in 0..VestingDuration :
                    /\ CalculateVestedAmount(s, now) <= CalculateVestedAmount(s, now + 1)
                    /\ IsFullyVested(s, now) => CalculateVestedAmount(s, now) = s.total_amount

\* Whatever the builder can reach it can build (GenesisBuildable); the state
\* machine loads every genesis block whose addresses differ, and what it
\* loads holds every token the builder counted.  The exception: an
\* allocation made twice with one amount may get lost, since a tree over an
\* odd number of accounts hashes its last one twice.
GenesisSound ==
    /\ GenesisBuildable
    /\ loaded = "refused" =>
          \E i, j \in DOMAIN allocations : i # j /\ allocations[i].address = allocations[j].address
    /\ loaded = "yes" =>
          \/ StakeSum(DOMAIN accounts, accounts) = total_allocated
          \/ \E i, j \in DOMAIN allocations :
                /\ i # j /\ allocations[i].address = allocations[j].address
                /\ allocations[i].amount = allocations[j].amount
=============================================================================
