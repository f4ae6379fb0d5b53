------------------------- MODULE ValidatorRegistry -------------------------
(***************************************************************************)
(* consensus::ValidatorRegistry (src/consensus/validator_registry.cpp):    *)
(* bonding, unbonding, downtime penalties, slashing and the election of    *)
(* the active set at an epoch boundary.                                    *)
(*                                                                         *)
(* The registry keeps every validator TWICE: in the map validators_ and,   *)
(* from the last transition_epoch on, in the vector                        *)
(* current_set_.validators.  Some operations write both copies (bond,      *)
(* slash, update), others only the map (unbond, check_downtime,            *)
(* record_signature).  The module keeps both copies so that their          *)
(* relation can be stated.                                                 *)
(*                                                                         *)
(* Every operation is given as a function from the old map or set to the   *)
(* new one, and as an action that applies it; apply_slashing               *)
(* (SlashingDetector) chains the same functions.  A call that returns      *)
(* false changes nothing and is a stuttering step.                         *)
(***************************************************************************)
EXTENDS StakeSums

CONSTANTS
  ValidatorIDs,             \* addresses, as numbers: their order breaks ties
  ConsensusKeys,            \* BLS public keys
  nullopt,                  \* an absent std::optional argument
  active_validator_count,   \* Config: N
  minimum_self_bond,        \* Config: S_min
  unbonding_period_blocks,  \* Config
  ThresholdNum,             \* Config::downtime_threshold as the fraction
  ThresholdDen,             \*   ThresholdNum / ThresholdDen
  UpdateStatuses,           \* statuses callers pass to update_validator
  Amounts,                  \* amounts callers bond, unbond and slash
  EpochLengths,             \* values of total_blocks_in_epoch
  MaxStake,                 \* bound on one validator's bonded stake
  MaxEpoch,                 \* bound on the epoch number
  MaxHeight,                \* bound on the block height
  MaxRequests,              \* bound on equal pending unbonding requests
  MaxDowntime               \* bound on separate downtime checks in a row

Statuses == {"Active", "Standby", "Jailed", "Tombstoned"}

ASSUME RegistryConstants ==
  /\ ValidatorIDs \subseteq Nat /\ IsFiniteSet(ValidatorIDs)
  /\ nullopt \notin ConsensusKeys /\ nullopt \notin Statuses
  /\ active_validator_count \in Nat
  /\ minimum_self_bond \in Nat
  /\ unbonding_period_blocks \in Nat
  /\ ThresholdNum \in Nat /\ ThresholdDen \in Nat
  /\ UpdateStatuses \subseteq Statuses
  /\ Amounts \subseteq Nat
  /\ EpochLengths \subseteq Nat
  /\ MaxStake \in Nat /\ MaxEpoch \in Nat /\ MaxHeight \in Nat
  /\ MaxRequests \in Nat /\ MaxDowntime \in Nat

VARIABLES
  validators,          \* validators_: the map of registered validators
  epoch,               \* current_set_.epoch
  set_validators,      \* current_set_.validators, the fields that are read
  position,            \* index of each validator in current_set_.validators
  total_stake,         \* current_set_.total_stake
  unbonding_requests,  \* unbonding_requests_ as a bag: its order is not read
  height               \* the block height callers pass

setVars == <<epoch, set_validators, position, total_stake>>
registryVars == <<validators, setVars, unbonding_requests, height>>

-----------------------------------------------------------------------------
(* Types *)

Validator ==
  [ consensus_key : ConsensusKeys, bonded_stake : Nat, status : Statuses,
    jailed_until_epoch : Nat, consecutive_downtime_epochs : Nat,
    blocks_signed_this_epoch : Nat ]

\* An element of current_set_.validators.  Of its other fields the set's copy
\* is never read.
Member == [consensus_key : ConsensusKeys, bonded_stake : Nat, status : Statuses]

UnbondingRequest ==
  [validator_id : ValidatorIDs, amount : Nat, completion_height : Nat]

-----------------------------------------------------------------------------
(* Helpers *)

\* Unsigned subtraction with the floor the code tests for.
Floored(a, b) == IF a >= b THEN a - b ELSE 0

MemberStake(sv) == [id \in DOMAIN sv |-> sv[id].bonded_stake]

\* ValidatorSet::get_active_validators
ActiveIn(sv) == {id \in DOMAIN sv : sv[id].status = "Active"}

-----------------------------------------------------------------------------
(* update_validator *)

UpdateEntry(v, key, status) ==
  [v EXCEPT !.consensus_key = IF key = nullopt THEN @ ELSE key,
            !.status = IF status = nullopt THEN @ ELSE status]

UpdatedCopy(f, id, key, status) ==
  [i \in DOMAIN f |-> IF i = id THEN UpdateEntry(f[i], key, status) ELSE f[i]]

\* Mutant: a tombstoned member's stake stays in the total.
UpdatedTotalKept(sv, total, id, status) == total

\* Only a tombstone takes an active member's stake out of the total.
UpdatedTotal(sv, total, id, status) ==
  IF id \in ActiveIn(sv) /\ status = "Tombstoned"
  THEN Floored(total, sv[id].bonded_stake)
  ELSE total

-----------------------------------------------------------------------------
(* bond_stake and slash_validator *)

\* Mutant: whoever has bonded the minimum is active at once.
BondedActivates(f, amount) ==
  [id \in DOMAIN f |->
     [f[id] EXCEPT !.bonded_stake = @ + amount[id],
                   !.status = IF f[id].bonded_stake + amount[id] >= minimum_self_bond
                              THEN "Active" ELSE @]]

\* bond_stake(id, amount[id]) for every id: one amount for one call, several
\* for the rewards apply_slashing bonds in a row.
Bonded(f, amount) ==
  [id \in DOMAIN f |-> [f[id] EXCEPT !.bonded_stake = @ + amount[id]]]

OnlyFor(id, amount) == [i \in ValidatorIDs |-> IF i = id THEN amount ELSE 0]

\* The amount really slashed: never more than the map's copy of the stake.
ActualSlash(vals, id, amount) ==
  IF vals[id].bonded_stake < amount THEN vals[id].bonded_stake ELSE amount

Slashed(f, id, amount) ==
  [i \in DOMAIN f |->
     IF i = id THEN [f[i] EXCEPT !.bonded_stake = Floored(@, amount)] ELSE f[i]]

\* The set's copy may hold less than the map's: then less leaves the total.
SlashedTotal(sv, total, id, amount) ==
  IF id \in ActiveIn(sv)
  THEN Floored(total, IF sv[id].bonded_stake < amount
                      THEN sv[id].bonded_stake ELSE amount)
  ELSE total

-----------------------------------------------------------------------------
(* check_downtime *)

Underperformed(v, total_blocks) ==
  v.blocks_signed_this_epoch * ThresholdDen < ThresholdNum * total_blocks

AlreadyPenalized(v, e) ==
  /\ v.consecutive_downtime_epochs > 0
  /\ v.status = "Jailed"
  /\ v.jailed_until_epoch = e + 1

Penalize(v, e) ==
  CASE v.consecutive_downtime_epochs = 0 ->
         [v EXCEPT !.status = "Jailed", !.jailed_until_epoch = e + 1,
                   !.consecutive_downtime_epochs = 1]
    [] v.consecutive_downtime_epochs = 1 ->
         [v EXCEPT !.bonded_stake = @ - (@ * 5) \div 1000,
                   !.status = "Standby", !.consecutive_downtime_epochs = 2]
    [] OTHER ->
         [v EXCEPT !.bonded_stake = @ - @ \div 100,
                   !.status = "Standby", !.consecutive_downtime_epochs = @ + 1]

DowntimeEntry(v, e, total_blocks) ==
  IF ~Underperformed(v, total_blocks)
  THEN [v EXCEPT !.consecutive_downtime_epochs = 0]
  ELSE IF AlreadyPenalized(v, e) THEN v ELSE Penalize(v, e)

\* The map after check_downtime(e, total_blocks): members of the set that are
\* Active THERE are checked, whatever their status in the map.
DowntimeChecked(vals, sv, e, total_blocks) ==
  [id \in DOMAIN vals |->
     IF total_blocks > 0 /\ id \in ActiveIn(sv)
     THEN DowntimeEntry(vals[id], e, total_blocks)
     ELSE vals[id]]

-----------------------------------------------------------------------------
(* transition_epoch *)

\* Mutant: ties go to the higher address.
RankedBeforeHighID(vals, a, b) ==
  \/ vals[a].bonded_stake > vals[b].bonded_stake
  \/ vals[a].bonded_stake = vals[b].bonded_stake /\ a > b

\* Validator::operator<, the order of rank_by_stake.
RankedBefore(vals, a, b) ==
  \/ vals[a].bonded_stake > vals[b].bonded_stake
  \/ vals[a].bonded_stake = vals[b].bonded_stake /\ a < b

\* The index rank_by_stake gives to id.
Rank(vals, id) == Cardinality({o \in DOMAIN vals : RankedBefore(vals, o, id)})

Released(v, e) ==
  IF v.status = "Jailed" /\ v.jailed_until_epoch <= e
  THEN [v EXCEPT !.status = "Standby", !.jailed_until_epoch = 0]
  ELSE v

\* Mutant: the tombstone is not looked at.
ElectedTombstoned(v, rank) ==
  IF /\ rank < active_validator_count
     /\ v.bonded_stake >= minimum_self_bond
     /\ v.status # "Jailed"
  THEN [v EXCEPT !.status = "Active"]
  ELSE [v EXCEPT !.status = IF @ = "Active" THEN "Standby" ELSE @]

Elected(v, rank) ==
  CASE v.status = "Tombstoned" -> v
    [] /\ v.status # "Tombstoned"
       /\ rank < active_validator_count
       /\ v.bonded_stake >= minimum_self_bond
       /\ v.status # "Jailed" -> [v EXCEPT !.status = "Active"]
    [] OTHER -> [v EXCEPT !.status = IF @ = "Active" THEN "Standby" ELSE @]

\* The map after the loop of transition_epoch over the ranked validators.
ElectedMap(vals, e) ==
  [id \in DOMAIN vals |->
     Elected(Released([vals[id] EXCEPT !.blocks_signed_this_epoch = 0], e),
             Rank(vals, id))]

AsMembers(vals) ==
  [id \in DOMAIN vals |->
     [consensus_key |-> vals[id].consensus_key,
      bonded_stake  |-> vals[id].bonded_stake,
      status        |-> vals[id].status]]

-----------------------------------------------------------------------------
(* distribute_rewards_proportional *)

\* Mutant: the last recipient gets his rounded share too, the rest is lost.
RewardsRoundedDown(recipients, sv, total, amount) ==
  [id \in recipients |-> (sv[id].bonded_stake * amount) \div total]

\* The rewards for amount: everyone but the last active validator of the set
\* gets the floor of his share, the last one what is left.
ProportionalRewards(recipients, sv, total, amount) ==
  LET share == [id \in recipients |-> (sv[id].bonded_stake * amount) \div total]
      last  == CHOOSE id \in recipients :
                 \A o \in recipients : position[o] <= position[id]
  IN  [id \in recipients |->
         IF id = last
         THEN amount - StakeSum(recipients \ {last}, share)
         ELSE share[id]]

DistributeRewards(amount) ==
  IF amount = 0 \/ total_stake = 0 \/ ActiveIn(set_validators) = {}
  THEN << >>
  ELSE ProportionalRewards(ActiveIn(set_validators), set_validators,
                           total_stake, amount)

-----------------------------------------------------------------------------
(* The specification *)

Init ==
  /\ validators = << >>
  /\ epoch = 0
  /\ set_validators = << >>
  /\ position = << >>
  /\ total_stake = 0
  /\ unbonding_requests = << >>
  /\ height = 0

AddValidator(id, key, stake) ==
  /\ id \notin DOMAIN validators
  /\ stake <= MaxStake
  /\ validators' =
       [i \in DOMAIN validators \cup {id} |->
          IF i = id
          THEN [consensus_key |-> key, bonded_stake |-> stake,
                status |-> "Standby", jailed_until_epoch |-> 0,
                consecutive_downtime_epochs |-> 0,
                blocks_signed_this_epoch |-> 0]
          ELSE validators[i]]
  /\ UNCHANGED <<setVars, unbonding_requests, height>>

\* Mutant: the set's copy is forgotten.
UpdateMapOnly(id, key, status) ==
  /\ id \in DOMAIN validators
  /\ validators' = UpdatedCopy(validators, id, key, status)
  /\ UNCHANGED <<setVars, unbonding_requests, height>>

UpdateValidator(id, key, status) ==
  /\ id \in DOMAIN validators
  /\ validators' = UpdatedCopy(validators, id, key, status)
  /\ set_validators' = UpdatedCopy(set_validators, id, key, status)
  /\ total_stake' = UpdatedTotal(set_validators, total_stake, id, status)
  /\ UNCHANGED <<epoch, position, unbonding_requests, height>>

BondStake(id, amount) ==
  /\ id \in DOMAIN validators
  /\ validators[id].bonded_stake + amount <= MaxStake
  /\ validators' = Bonded(validators, OnlyFor(id, amount))
  /\ set_validators' = Bonded(set_validators, OnlyFor(id, amount))
  /\ total_stake' = IF id \in ActiveIn(set_validators)
                    THEN total_stake + amount ELSE total_stake
  /\ UNCHANGED <<epoch, position, unbonding_requests, height>>

\* unbonding_requests_.push_back
PushRequest(bag, r) ==
  [x \in DOMAIN bag \cup {r} |->
     IF x # r THEN bag[x] ELSE IF r \in DOMAIN bag THEN bag[r] + 1 ELSE 1]

Unbonded(v, amount) ==
  [v EXCEPT !.bonded_stake = @ - amount,
            !.status = IF v.bonded_stake = amount THEN "Standby" ELSE @]

UnbondStake(id, amount) ==
  /\ id \in DOMAIN validators
  /\ validators[id].bonded_stake >= amount
  /\ LET remaining == validators[id].bonded_stake - amount
         request == [validator_id |-> id, amount |-> amount,
                     completion_height |-> height + unbonding_period_blocks]
     IN  /\ remaining = 0 \/ remaining >= minimum_self_bond
         /\ request \in DOMAIN unbonding_requests =>
              unbonding_requests[request] < MaxRequests
         /\ validators' = [i \in DOMAIN validators |->
                             IF i = id THEN Unbonded(validators[i], amount)
                             ELSE validators[i]]
         /\ unbonding_requests' = PushRequest(unbonding_requests, request)
  /\ UNCHANGED <<setVars, height>>

ProcessUnbonding ==
  /\ \E r \in DOMAIN unbonding_requests : r.completion_height <= height
  /\ unbonding_requests' =
       [r \in {x \in DOMAIN unbonding_requests : x.completion_height > height}
          |-> unbonding_requests[r]]
  /\ UNCHANGED <<validators, setVars, height>>

RecordSignature(id) ==
  /\ id \in DOMAIN validators
  /\ \E n \in EpochLengths : validators[id].blocks_signed_this_epoch < n
  /\ validators' = [i \in DOMAIN validators |->
                      IF i = id
                      THEN [validators[i] EXCEPT !.blocks_signed_this_epoch = @ + 1]
                      ELSE validators[i]]
  /\ UNCHANGED <<setVars, unbonding_requests, height>>

\* The public call, for the epoch that is ending; transition_epoch makes the
\* same check again.
CheckDowntime(total_blocks) ==
  /\ \A id \in DOMAIN validators :
       validators[id].consecutive_downtime_epochs < MaxDowntime
  /\ validators' = DowntimeChecked(validators, set_validators, epoch, total_blocks)
  /\ UNCHANGED <<setVars, unbonding_requests, height>>

SlashValidator(id, amount) ==
  /\ id \in DOMAIN validators
  /\ LET actual == ActualSlash(validators, id, amount)
     IN  /\ validators' = Slashed(validators, id, actual)
         /\ set_validators' = Slashed(set_validators, id, actual)
         /\ total_stake' = SlashedTotal(set_validators, total_stake, id, actual)
  /\ UNCHANGED <<epoch, position, unbonding_requests, height>>

\* The map transition_epoch ranks: after the downtime penalties, which the
\* first transition skips.
RankedMap(new_epoch, total_blocks) ==
  IF new_epoch > 1
  THEN DowntimeChecked(validators, set_validators, new_epoch - 1, total_blocks)
  ELSE validators

TransitionEpoch(total_blocks) ==
  /\ epoch < MaxEpoch
  /\ LET new_epoch == epoch + 1
         ranked == RankedMap(new_epoch, total_blocks)
         elected == ElectedMap(ranked, new_epoch)
     IN  /\ epoch' = new_epoch
         /\ validators' = elected
         /\ set_validators' = AsMembers(elected)
         /\ position' = [id \in DOMAIN ranked |-> Rank(ranked, id)]
         /\ total_stake' = StakeSum(ActiveIn(AsMembers(elected)),
                                    MemberStake(AsMembers(elected)))
  /\ UNCHANGED <<unbonding_requests, height>>

\* The chain grows: the height callers pass moves on.
AdvanceHeight ==
  /\ height < MaxHeight
  /\ height' = height + 1
  /\ UNCHANGED <<validators, setVars, unbonding_requests>>

Next ==
  \/ \E id \in ValidatorIDs, key \in ConsensusKeys, stake \in Amounts :
       AddValidator(id, key, stake)
  \/ \E id \in ValidatorIDs, key \in ConsensusKeys \cup {nullopt},
        status \in UpdateStatuses \cup {nullopt} :
       UpdateValidator(id, key, status)
  \/ \E id \in ValidatorIDs, amount \in Amounts :
       \/ BondStake(id, amount)
       \/ UnbondStake(id, amount)
       \/ SlashValidator(id, amount)
  \/ \E id \in ValidatorIDs : RecordSignature(id)
  \/ \E n \in EpochLengths : CheckDowntime(n) \/ TransitionEpoch(n)
  \/ ProcessUnbonding
  \/ AdvanceHeight

Spec == Init /\ [][Next]_registryVars

-----------------------------------------------------------------------------
(* Properties *)

\* The two copies of the validators, the set's order and the queue of
\* unbonding requests keep the types the code gives them.
TypeOK ==
  /\ DOMAIN validators \subseteq ValidatorIDs
  /\ validators \in [DOMAIN validators -> Validator]
  /\ DOMAIN set_validators \subseteq ValidatorIDs
  /\ set_validators \in [DOMAIN set_validators -> Member]
  /\ position \in [DOMAIN set_validators -> Nat]
  /\ epoch \in Nat /\ total_stake \in Nat /\ height \in Nat
  /\ DOMAIN unbonding_requests \subseteq UnbondingRequest
  /\ unbonding_requests \in [DOMAIN unbonding_requests -> Nat \ {0}]

\* current_set_.total_stake, which bond_stake, slash_validator and
\* update_validator adjust one by one, is always the sum of the stake of the
\* members that are Active (validator.h, ValidatorSet): every quorum and
\* every reward divides by it.
SetTotalStake ==
  total_stake = StakeSum(ActiveIn(set_validators), MemberStake(set_validators))

\* How the set's copy may lag behind the map within an epoch: every member is
\* registered under the same consensus key, a member's stake is never below
\* the map's (unbond_stake and check_downtime write the map only), so that
\* slash_validator never meets the floor of the set's copy, and whoever is
\* Active in the map is Active in the set.
SetLagsSafely ==
  /\ DOMAIN set_validators \subseteq DOMAIN validators
  /\ \A id \in DOMAIN set_validators :
       /\ set_validators[id].consensus_key = validators[id].consensus_key
       /\ set_validators[id].bonded_stake >= validators[id].bonded_stake
  /\ \A id \in DOMAIN validators : validators[id].status = "Active" =>
       id \in ActiveIn(set_validators)

\* transition_epoch never elects more than active_validator_count validators,
\* and no other operation adds one.
ActiveSetBounded ==
  Cardinality(ActiveIn(set_validators)) <= active_validator_count

\* A transition elects by stake: every validator it leaves out although he
\* meets the minimum and is neither jailed nor tombstoned ranks behind every
\* validator it elects, by the stake left AFTER the downtime penalties.
TopNElected ==
  [][epoch' # epoch =>
       \A a \in ActiveIn(set_validators'), b \in DOMAIN set_validators' :
         /\ set_validators'[b].status = "Standby"
         /\ set_validators'[b].bonded_stake >= minimum_self_bond
         => \/ set_validators'[a].bonded_stake > set_validators'[b].bonded_stake
            \/ /\ set_validators'[a].bonded_stake = set_validators'[b].bonded_stake
               /\ a < b]_registryVars

\* Between two transitions nobody enters the active set, so that the leaders
\* and quorums of an epoch come from validators elected at its start.
NoActivationWithinEpoch ==
  [][epoch' = epoch =>
       ActiveIn(set_validators') \subseteq ActiveIn(set_validators)]_registryVars

\* A tombstone is permanent while the validator has stake: no release from
\* jail, downtime penalty, election or update takes it back.  (unbond_stake
\* does: it sets whoever unbonds everything to Standby.)
TombstoneUntilUnbonded ==
  [][\A id \in DOMAIN validators :
       validators[id].status = "Tombstoned" =>
         \/ validators'[id].status = "Tombstoned"
         \/ validators'[id].bonded_stake = 0]_registryVars

=============================================================================
