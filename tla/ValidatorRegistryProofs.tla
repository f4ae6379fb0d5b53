---------------------- MODULE ValidatorRegistryProofs ----------------------
(***************************************************************************)
(* Theorems about the validator registry, for every number of validators,  *)
(* every stake and every configuration, and behind them those about the    *)
(* slashing detector and the registry it slashes: the histories, who is    *)
(* reported, what evidence lasts, and what apply_slashing does to stake    *)
(* and supply.                                                             *)
(***************************************************************************)
EXTENDS SlashingDetector, SharedProofs

-----------------------------------------------------------------------------
(* What the operations do to one validator *)

LEMMA FlooredType ==
  ASSUME NEW a \in Nat, NEW b \in Nat
  PROVE  Floored(a, b) \in Nat /\ Floored(a, b) <= a
BY DEF Floored

LEMMA SlashShares ==
  ASSUME NEW s \in Nat
  PROVE  /\ s - (s * 5) \div 1000 \in Nat /\ s - (s * 5) \div 1000 <= s
         /\ s - s \div 100 \in Nat /\ s - s \div 100 <= s
OBVIOUS

LEMMA PenalizeEntry ==
  ASSUME NEW v \in Validator, NEW e \in Nat
  PROVE  /\ Penalize(v, e) \in Validator
         /\ Penalize(v, e).bonded_stake <= v.bonded_stake
         /\ Penalize(v, e).consensus_key = v.consensus_key
         /\ Penalize(v, e).status # "Active"
<1>1. v.bonded_stake \in Nat /\ v.consecutive_downtime_epochs \in Nat
  BY DEF Validator
<1>2. CASE v.consecutive_downtime_epochs = 0
  <2> DEFINE u == e + 1
             w == [v EXCEPT !.status = "Jailed", !.jailed_until_epoch = u,
                            !.consecutive_downtime_epochs = 1]
  <2>1. u \in Nat
    OBVIOUS
  <2>2. Penalize(v, e) = w
    BY <1>2 DEF Penalize
  <2> HIDE DEF u
  <2>3. /\ w \in Validator
        /\ w.bonded_stake = v.bonded_stake /\ w.consensus_key = v.consensus_key
        /\ w.status = "Jailed"
    BY <2>1 DEF Validator, Statuses
  <2> HIDE DEF w
  <2> QED BY <1>1, <2>2, <2>3
<1>3. CASE v.consecutive_downtime_epochs = 1
  <2> DEFINE s == v.bonded_stake - (v.bonded_stake * 5) \div 1000
             w == [v EXCEPT !.bonded_stake = s, !.status = "Standby",
                            !.consecutive_downtime_epochs = 2]
  <2>1. s \in Nat /\ s <= v.bonded_stake
    BY <1>1, SlashShares
  <2>2. Penalize(v, e) = w
    BY <1>3 DEF Penalize
  <2> HIDE DEF s
  <2>3. /\ w \in Validator
        /\ w.bonded_stake = s /\ w.consensus_key = v.consensus_key
        /\ w.status = "Standby"
    BY <2>1 DEF Validator, Statuses
  <2> HIDE DEF w
  <2> QED BY <2>1, <2>2, <2>3
<1>4. CASE v.consecutive_downtime_epochs > 1
  <2> DEFINE s == v.bonded_stake - v.bonded_stake \div 100
             c == v.consecutive_downtime_epochs + 1
  <2>1. s \in Nat /\ s <= v.bonded_stake /\ c \in Nat
    BY <1>1, SlashShares
  <2>2. Penalize(v, e) = [v EXCEPT !.bonded_stake = s, !.status = "Standby",
                                   !.consecutive_downtime_epochs = c]
    BY <1>4, <1>1 DEF Penalize
  <2> HIDE DEF s, c
  <2> QED BY <2>1, <2>2 DEF Validator, Statuses
<1> QED
  BY <1>1, <1>2, <1>3, <1>4

LEMMA DowntimeEntryKeeps ==
  ASSUME NEW v \in Validator, NEW e \in Nat, NEW n \in Nat
  PROVE  /\ DowntimeEntry(v, e, n) \in Validator
         /\ DowntimeEntry(v, e, n).bonded_stake <= v.bonded_stake
         /\ DowntimeEntry(v, e, n).consensus_key = v.consensus_key
         /\ DowntimeEntry(v, e, n).status = "Active" => v.status = "Active"
<1> DEFINE w == [v EXCEPT !.consecutive_downtime_epochs = 0]
<1>1. v.bonded_stake \in Nat
  BY DEF Validator
<1>2. /\ w \in Validator /\ w.bonded_stake = v.bonded_stake
      /\ w.consensus_key = v.consensus_key /\ w.status = v.status
  BY DEF Validator
<1>3. \/ DowntimeEntry(v, e, n) = w
      \/ DowntimeEntry(v, e, n) = v
      \/ DowntimeEntry(v, e, n) = Penalize(v, e)
  BY DEF DowntimeEntry
<1>4. /\ Penalize(v, e) \in Validator
      /\ Penalize(v, e).bonded_stake <= v.bonded_stake
      /\ Penalize(v, e).consensus_key = v.consensus_key
      /\ Penalize(v, e).status # "Active"
  BY PenalizeEntry
<1> HIDE DEF w
<1> QED
  BY <1>1, <1>2, <1>3, <1>4

LEMMA ElectedEntry ==
  ASSUME NEW v \in Validator, NEW e \in Nat, NEW rank \in Nat
  PROVE  LET w == Elected(Released([v EXCEPT !.blocks_signed_this_epoch = 0], e),
                          rank)
         IN  /\ w \in Validator
             /\ w.status = "Active" => rank < active_validator_count
<1> DEFINE b == [v EXCEPT !.blocks_signed_this_epoch = 0]
           r == Released(b, e)
<1>1. b \in Validator
  BY DEF Validator
<1>2. r \in Validator
  <2> HIDE DEF b
  <2> QED BY <1>1 DEF Released, Validator, Statuses
<1>3. /\ Elected(r, rank) \in Validator
      /\ Elected(r, rank).status = "Active" => rank < active_validator_count
  <2> HIDE DEF r
  <2> QED BY <1>2 DEF Elected, Validator, Statuses
<1> QED
  BY <1>3

-----------------------------------------------------------------------------
(* What the operations do to the map and to the set *)

LEMMA DowntimeCheckedKeeps ==
  ASSUME NEW vals, vals \in [DOMAIN vals -> Validator], NEW sv,
         NEW e \in Nat, NEW n \in Nat
  PROVE  LET w == DowntimeChecked(vals, sv, e, n)
         IN  /\ DOMAIN w = DOMAIN vals
             /\ w \in [DOMAIN vals -> Validator]
             /\ \A id \in DOMAIN vals :
                  /\ w[id].bonded_stake <= vals[id].bonded_stake
                  /\ w[id].consensus_key = vals[id].consensus_key
                  /\ w[id].status = "Active" => vals[id].status = "Active"
<1> DEFINE w == DowntimeChecked(vals, sv, e, n)
<1>1. DOMAIN w = DOMAIN vals
  BY DEF DowntimeChecked
<1>2. ASSUME NEW id \in DOMAIN vals
      PROVE  /\ w[id] \in Validator
             /\ w[id].bonded_stake <= vals[id].bonded_stake
             /\ w[id].consensus_key = vals[id].consensus_key
             /\ w[id].status = "Active" => vals[id].status = "Active"
  <2>1. vals[id] \in Validator /\ vals[id].bonded_stake \in Nat
    BY DEF Validator
  <2>2. w[id] = vals[id] \/ w[id] = DowntimeEntry(vals[id], e, n)
    BY DEF DowntimeChecked
  <2> DEFINE d == DowntimeEntry(vals[id], e, n)
  <2>3. /\ d \in Validator
        /\ d.bonded_stake <= vals[id].bonded_stake
        /\ d.consensus_key = vals[id].consensus_key
        /\ d.status = "Active" => vals[id].status = "Active"
    BY <2>1, DowntimeEntryKeeps, Zenon
  <2> HIDE DEF d, w
  <2> QED BY <2>1, <2>2, <2>3 DEF d
<1>3. w \in [DOMAIN vals -> Validator]
  BY <1>1, <1>2 DEF DowntimeChecked
<1> QED
  BY <1>1, <1>2, <1>3

\* Two validators never have the same rank.
LEMMA RankInjective ==
  ASSUME NEW vals, vals \in [DOMAIN vals -> Validator],
         DOMAIN vals \subseteq Nat, IsFiniteSet(DOMAIN vals),
         NEW a \in DOMAIN vals, NEW b \in DOMAIN vals, a # b
  PROVE  Rank(vals, a) # Rank(vals, b)
<1> DEFINE before(x) == {o \in DOMAIN vals : RankedBefore(vals, o, x)}
<1>1. \A x \in DOMAIN vals : vals[x].bonded_stake \in Nat /\ x \in Nat
  BY DEF Validator
<1>2. \A x \in DOMAIN vals : IsFiniteSet(before(x))
  BY FS_Subset
<1>3. ASSUME NEW x \in DOMAIN vals, NEW y \in DOMAIN vals,
             RankedBefore(vals, x, y)
      PROVE  Cardinality(before(x)) # Cardinality(before(y))
  <2>1. x \in before(y) /\ x \notin before(x)
    BY <1>1, <1>3 DEF RankedBefore
  <2>2. before(x) \subseteq before(y)
    BY <1>1, <1>3 DEF RankedBefore
  <2> HIDE DEF before
  <2> QED BY <1>2, <2>1, <2>2, FS_Subset
<1>4. RankedBefore(vals, a, b) \/ RankedBefore(vals, b, a)
  BY <1>1 DEF RankedBefore
<1> QED
  BY <1>3, <1>4 DEF Rank

LEMMA RankType ==
  ASSUME NEW vals, IsFiniteSet(DOMAIN vals), NEW id
  PROVE  Rank(vals, id) \in Nat
BY FS_Subset, FS_CardinalityType DEF Rank

\* An amount for one validator is an amount for each.
LEMMA OnlyForType ==
  ASSUME NEW id, NEW a \in Nat
  PROVE  OnlyFor(id, a) \in [ValidatorIDs -> Nat]
BY DEF OnlyFor

\* The two copies of a validator, the map's and the set's, have the fields the
\* operations write.
LEMMA EntryFields ==
  ASSUME NEW T, T = Validator \/ T = Member, NEW v \in T
  PROVE  /\ v.bonded_stake \in Nat /\ v.status \in Statuses
         /\ v.consensus_key \in ConsensusKeys
<1>1. CASE T = Validator
  BY <1>1 DEF Validator
<1>2. CASE T = Member
  BY <1>2 DEF Member
<1> QED
  BY <1>1, <1>2

LEMMA StakeEntry ==
  ASSUME NEW T, T = Validator \/ T = Member, NEW v \in T, NEW s \in Nat
  PROVE  LET w == [v EXCEPT !.bonded_stake = s]
         IN  /\ w \in T /\ w.bonded_stake = s
             /\ w.status = v.status /\ w.consensus_key = v.consensus_key
<1>1. CASE T = Validator
  <2>1. v \in Validator
    BY <1>1
  <2> QED BY <1>1, <2>1 DEF Validator
<1>2. CASE T = Member
  <2>1. v \in Member
    BY <1>2
  <2> QED BY <1>2, <2>1 DEF Member
<1> QED
  BY <1>1, <1>2

LEMMA UpdateEntryKeeps ==
  ASSUME NEW T, T = Validator \/ T = Member, NEW v \in T,
         NEW key \in ConsensusKeys \cup {nullopt},
         NEW status \in Statuses \cup {nullopt}
  PROVE  /\ UpdateEntry(v, key, status) \in T
         /\ UpdateEntry(v, key, status).bonded_stake = v.bonded_stake
         /\ status = nullopt => UpdateEntry(v, key, status).status = v.status
         /\ status # nullopt => UpdateEntry(v, key, status).status = status
         /\ key = nullopt =>
              UpdateEntry(v, key, status).consensus_key = v.consensus_key
         /\ key # nullopt => UpdateEntry(v, key, status).consensus_key = key
<1> DEFINE k == IF key = nullopt THEN v.consensus_key ELSE key
           s == IF status = nullopt THEN v.status ELSE status
           w == [v EXCEPT !.consensus_key = k, !.status = s]
<1>1. k \in ConsensusKeys /\ s \in Statuses
  BY EntryFields
<1>2. UpdateEntry(v, key, status) = w
  BY DEF UpdateEntry
<1> HIDE DEF k, s
<1>3. /\ w \in T /\ w.bonded_stake = v.bonded_stake
      /\ w.status = s /\ w.consensus_key = k
  <2>1. CASE T = Validator
    <3>1. v \in Validator
      BY <2>1
    <3> QED BY <1>1, <2>1, <3>1 DEF Validator
  <2>2. CASE T = Member
    <3>1. v \in Member
      BY <2>2
    <3> QED BY <1>1, <2>2, <3>1 DEF Member
  <2> QED BY <2>1, <2>2
<1> HIDE DEF w
<1> QED
  BY <1>2, <1>3 DEF k, s

\* bond_stake changes the stake of a copy and nothing else.
StakeAdded(f, g, T, amount) ==
  /\ DOMAIN g = DOMAIN f /\ g \in [DOMAIN f -> T]
  /\ \A id \in DOMAIN f :
       /\ g[id].bonded_stake = f[id].bonded_stake + amount[id]
       /\ g[id].status = f[id].status
       /\ g[id].consensus_key = f[id].consensus_key

LEMMA BondedKeeps ==
  ASSUME NEW T, T = Validator \/ T = Member, NEW f, f \in [DOMAIN f -> T],
         DOMAIN f \subseteq ValidatorIDs, NEW amount \in [ValidatorIDs -> Nat]
  PROVE  StakeAdded(f, Bonded(f, amount), T, amount)
<1> DEFINE g == Bonded(f, amount)
<1>1. ASSUME NEW id \in DOMAIN f
      PROVE  /\ g[id] \in T
             /\ g[id].bonded_stake = f[id].bonded_stake + amount[id]
             /\ g[id].status = f[id].status
             /\ g[id].consensus_key = f[id].consensus_key
  <2> DEFINE s == f[id].bonded_stake + amount[id]
  <2>1. f[id] \in T /\ s \in Nat
    BY EntryFields
  <2>2. g[id] = [f[id] EXCEPT !.bonded_stake = s]
    BY DEF Bonded
  <2> HIDE DEF s, g
  <2> QED BY <2>1, <2>2, StakeEntry DEF s
<1>2. g = [id \in DOMAIN f |-> g[id]]
  BY DEF Bonded
<1> HIDE DEF g
<1> QED
  BY <1>1, <1>2 DEF g, StakeAdded

\* slash_validator takes the amount from one copy, down to zero.
StakeTaken(f, g, T, x, amount) ==
  /\ DOMAIN g = DOMAIN f /\ g \in [DOMAIN f -> T]
  /\ \A id \in DOMAIN f :
       /\ g[id].bonded_stake = (IF id = x THEN Floored(f[id].bonded_stake, amount)
                                ELSE f[id].bonded_stake)
       /\ g[id].status = f[id].status
       /\ g[id].consensus_key = f[id].consensus_key

LEMMA SlashedKeeps ==
  ASSUME NEW T, T = Validator \/ T = Member, NEW f, f \in [DOMAIN f -> T],
         NEW x, NEW amount \in Nat
  PROVE  StakeTaken(f, Slashed(f, x, amount), T, x, amount)
<1> DEFINE g == Slashed(f, x, amount)
<1>1. ASSUME NEW id \in DOMAIN f
      PROVE  /\ g[id] \in T
             /\ g[id].bonded_stake =
                  (IF id = x THEN Floored(f[id].bonded_stake, amount)
                   ELSE f[id].bonded_stake)
             /\ g[id].status = f[id].status
             /\ g[id].consensus_key = f[id].consensus_key
  <2> DEFINE s == Floored(f[id].bonded_stake, amount)
  <2>1. f[id] \in T /\ s \in Nat
    BY EntryFields, FlooredType
  <2>2. g[id] = IF id = x THEN [f[id] EXCEPT !.bonded_stake = s] ELSE f[id]
    BY DEF Slashed
  <2>3. CASE id = x
    <3> HIDE DEF s, g
    <3> QED BY <2>1, <2>2, <2>3, StakeEntry DEF s
  <2>4. CASE id # x
    <3> HIDE DEF s, g
    <3> QED BY <2>1, <2>2, <2>4
  <2> QED BY <2>3, <2>4
<1>2. g = [id \in DOMAIN f |-> g[id]]
  BY DEF Slashed
<1> HIDE DEF g
<1> QED
  BY <1>1, <1>2 DEF g, StakeTaken

\* update_validator changes key and status of one copy.
EntryUpdated(f, g, T, x, key, status) ==
  /\ DOMAIN g = DOMAIN f /\ g \in [DOMAIN f -> T]
  /\ \A id \in DOMAIN f :
       /\ g[id].bonded_stake = f[id].bonded_stake
       /\ g[id].status =
            (IF id = x /\ status # nullopt THEN status ELSE f[id].status)
       /\ g[id].consensus_key =
            (IF id = x /\ key # nullopt THEN key ELSE f[id].consensus_key)

LEMMA UpdatedKeeps ==
  ASSUME NEW T, T = Validator \/ T = Member, NEW f, f \in [DOMAIN f -> T],
         NEW x, NEW key \in ConsensusKeys \cup {nullopt},
         NEW status \in Statuses \cup {nullopt}
  PROVE  EntryUpdated(f, UpdatedCopy(f, x, key, status), T, x, key, status)
<1> DEFINE g == UpdatedCopy(f, x, key, status)
<1>1. ASSUME NEW id \in DOMAIN f
      PROVE  /\ g[id] \in T
             /\ g[id].bonded_stake = f[id].bonded_stake
             /\ g[id].status =
                  (IF id = x /\ status # nullopt THEN status ELSE f[id].status)
             /\ g[id].consensus_key =
                  (IF id = x /\ key # nullopt THEN key ELSE f[id].consensus_key)
  <2> DEFINE w == UpdateEntry(f[id], key, status)
  <2>1. f[id] \in T
    OBVIOUS
  <2>2. g[id] = IF id = x THEN w ELSE f[id]
    BY DEF UpdatedCopy
  <2>3. /\ w \in T /\ w.bonded_stake = f[id].bonded_stake
        /\ status = nullopt => w.status = f[id].status
        /\ status # nullopt => w.status = status
        /\ key = nullopt => w.consensus_key = f[id].consensus_key
        /\ key # nullopt => w.consensus_key = key
    BY <2>1, UpdateEntryKeeps
  <2> HIDE DEF g, w
  <2> QED BY <2>1, <2>2, <2>3
<1>2. g = [id \in DOMAIN f |-> g[id]]
  BY DEF UpdatedCopy
<1> HIDE DEF g
<1> QED
  BY <1>1, <1>2 DEF g, EntryUpdated

\* The active members of a set are finitely many and have natural stakes.
LEMMA ActiveMembers ==
  ASSUME NEW sv, sv \in [DOMAIN sv -> Member], DOMAIN sv \subseteq ValidatorIDs
  PROVE  /\ IsFiniteSet(ActiveIn(sv))
         /\ \A id \in ActiveIn(sv) : MemberStake(sv)[id] \in Nat
         /\ StakeSum(ActiveIn(sv), MemberStake(sv)) \in Nat
<1>1. IsFiniteSet(ActiveIn(sv))
  <2>1. ActiveIn(sv) \in SUBSET ValidatorIDs
    BY DEF ActiveIn
  <2> QED BY <2>1, RegistryConstants, FS_Subset
<1>2. \A id \in ActiveIn(sv) : MemberStake(sv)[id] \in Nat
  BY DEF ActiveIn, MemberStake, Member
<1> QED
  BY <1>1, <1>2, StakeSumType

\* The map and the set that transition_epoch leaves behind.
LEMMA ElectedMapKeeps ==
  ASSUME NEW vals, vals \in [DOMAIN vals -> Validator],
         DOMAIN vals \subseteq ValidatorIDs, NEW e \in Nat
  PROVE  /\ DOMAIN ElectedMap(vals, e) = DOMAIN vals
         /\ ElectedMap(vals, e) \in [DOMAIN vals -> Validator]
         /\ \A id \in DOMAIN vals : ElectedMap(vals, e)[id].status = "Active" =>
              Rank(vals, id) < active_validator_count
<1> DEFINE w == ElectedMap(vals, e)
<1>1. IsFiniteSet(DOMAIN vals)
  BY RegistryConstants, FS_Subset
<1>2. ASSUME NEW id \in DOMAIN vals
      PROVE  /\ w[id] \in Validator
             /\ w[id].status = "Active" => Rank(vals, id) < active_validator_count
  <2>1. vals[id] \in Validator /\ Rank(vals, id) \in Nat
    BY <1>1, RankType
  <2>2. w[id] = Elected(Released([vals[id] EXCEPT !.blocks_signed_this_epoch = 0],
                                 e), Rank(vals, id))
    BY DEF ElectedMap
  <2> HIDE DEF w
  <2> QED BY <2>1, <2>2, ElectedEntry
<1>3. w = [id \in DOMAIN vals |-> w[id]]
  BY DEF ElectedMap
<1> HIDE DEF w
<1> QED
  BY <1>2, <1>3 DEF w

LEMMA AsMembersKeeps ==
  ASSUME NEW vals, vals \in [DOMAIN vals -> Validator]
  PROVE  /\ DOMAIN AsMembers(vals) = DOMAIN vals
         /\ AsMembers(vals) \in [DOMAIN vals -> Member]
         /\ \A id \in DOMAIN vals :
              /\ AsMembers(vals)[id].consensus_key = vals[id].consensus_key
              /\ AsMembers(vals)[id].bonded_stake = vals[id].bonded_stake
              /\ AsMembers(vals)[id].status = vals[id].status
BY DEF AsMembers, Validator, Member

\* The map transition_epoch ranks has the types of the registered map.
LEMMA RankedMapKeeps ==
  ASSUME TypeOK, NEW n \in Nat
  PROVE  LET w == RankedMap(epoch + 1, n)
         IN  DOMAIN w = DOMAIN validators /\ w \in [DOMAIN validators -> Validator]
<1>0. validators \in [DOMAIN validators -> Validator] /\ epoch \in Nat
  BY DEF TypeOK
<1>1. /\ DOMAIN DowntimeChecked(validators, set_validators, epoch, n)
           = DOMAIN validators
      /\ DowntimeChecked(validators, set_validators, epoch, n)
           \in [DOMAIN validators -> Validator]
  BY <1>0, DowntimeCheckedKeeps
<1>2. (epoch + 1) - 1 = epoch
  BY DEF TypeOK
<1> QED
  BY <1>1, <1>2 DEF RankedMap, TypeOK

-----------------------------------------------------------------------------
(* Type correctness *)

\* Init, and every operation, give the variables values of their types.
LEMMA TypeStep ==
  ASSUME TypeOK, [Next]_registryVars
  PROVE  TypeOK'
<1> USE RegistryConstants
<1>1. ASSUME NEW id \in ValidatorIDs, NEW key \in ConsensusKeys,
             NEW stake \in Amounts, AddValidator(id, key, stake)
      PROVE  TypeOK'
  <2> DEFINE v == [consensus_key |-> key, bonded_stake |-> stake,
                   status |-> "Standby", jailed_until_epoch |-> 0,
                   consecutive_downtime_epochs |-> 0,
                   blocks_signed_this_epoch |-> 0]
  <2>1. v \in Validator
    BY DEF Validator, Statuses
  <2>2. validators' = [i \in DOMAIN validators \cup {id} |->
                         IF i = id THEN v ELSE validators[i]]
    BY <1>1 DEF AddValidator
  <2> HIDE DEF v
  <2>3. DOMAIN validators' \subseteq ValidatorIDs
        /\ validators' \in [DOMAIN validators' -> Validator]
    BY <2>1, <2>2 DEF TypeOK
  <2> QED BY <1>1, <2>3 DEF AddValidator, TypeOK, setVars
<1>2. ASSUME NEW id \in ValidatorIDs, NEW key \in ConsensusKeys \cup {nullopt},
             NEW status \in UpdateStatuses \cup {nullopt},
             UpdateValidator(id, key, status)
      PROVE  TypeOK'
  <2>0. /\ validators' = UpdatedCopy(validators, id, key, status)
        /\ set_validators' = UpdatedCopy(set_validators, id, key, status)
        /\ validators \in [DOMAIN validators -> Validator]
        /\ set_validators \in [DOMAIN set_validators -> Member]
        /\ status \in Statuses \cup {nullopt}
    BY <1>2 DEF UpdateValidator, TypeOK
  <2>1. /\ DOMAIN validators' = DOMAIN validators
        /\ validators' \in [DOMAIN validators -> Validator]
    <3>1. EntryUpdated(validators, UpdatedCopy(validators, id, key, status),
                       Validator, id, key, status)
      BY <2>0, UpdatedKeeps, Zenon
    <3> QED BY <2>0, <3>1 DEF EntryUpdated
  <2>2. /\ DOMAIN set_validators' = DOMAIN set_validators
        /\ set_validators' \in [DOMAIN set_validators -> Member]
    <3>1. EntryUpdated(set_validators, UpdatedCopy(set_validators, id, key, status),
                       Member, id, key, status)
      BY <2>0, UpdatedKeeps, Zenon
    <3> QED BY <2>0, <3>1 DEF EntryUpdated
  <2>3. total_stake' \in Nat
    <3>1. ASSUME id \in ActiveIn(set_validators)
          PROVE  set_validators[id].bonded_stake \in Nat
      BY <3>1 DEF ActiveIn, TypeOK, Member
    <3> QED BY <1>2, <3>1, FlooredType DEF UpdateValidator, UpdatedTotal, TypeOK
  <2> QED BY <1>2, <2>1, <2>2, <2>3 DEF UpdateValidator, TypeOK
<1>3. ASSUME NEW id \in ValidatorIDs, NEW amount \in Amounts, BondStake(id, amount)
      PROVE  TypeOK'
  <2>1. OnlyFor(id, amount) \in [ValidatorIDs -> Nat]
    BY OnlyForType
  <2>0. /\ validators \in [DOMAIN validators -> Validator]
        /\ set_validators \in [DOMAIN set_validators -> Member]
        /\ DOMAIN validators \subseteq ValidatorIDs
        /\ DOMAIN set_validators \subseteq ValidatorIDs
    BY DEF TypeOK
  <2>2. StakeAdded(validators, validators', Validator, OnlyFor(id, amount))
    <3>1. validators' = Bonded(validators, OnlyFor(id, amount))
      BY <1>3 DEF BondStake
    <3> QED BY <2>0, <2>1, <3>1, BondedKeeps, Zenon
  <2>3. StakeAdded(set_validators, set_validators', Member, OnlyFor(id, amount))
    <3>1. set_validators' = Bonded(set_validators, OnlyFor(id, amount))
      BY <1>3 DEF BondStake
    <3> QED BY <2>0, <2>1, <3>1, BondedKeeps, Zenon
  <2>4. total_stake' \in Nat
    BY <1>3 DEF BondStake, TypeOK
  <2> QED BY <1>3, <2>2, <2>3, <2>4 DEF BondStake, TypeOK, StakeAdded
<1>4. ASSUME NEW id \in ValidatorIDs, NEW amount \in Amounts,
             UnbondStake(id, amount)
      PROVE  TypeOK'
  <2> DEFINE w == Unbonded(validators[id], amount)
             r == [validator_id |-> id, amount |-> amount,
                   completion_height |-> height + unbonding_period_blocks]
  <2>1. w \in Validator
    <3> DEFINE s == validators[id].bonded_stake - amount
               u == IF validators[id].bonded_stake = amount THEN "Standby"
                    ELSE validators[id].status
    <3>1. validators[id] \in Validator /\ validators[id].bonded_stake >= amount
      BY <1>4 DEF UnbondStake, TypeOK
    <3>2. s \in Nat /\ u \in Statuses
      BY <3>1 DEF Validator, Statuses
    <3>3. w = [validators[id] EXCEPT !.bonded_stake = s, !.status = u]
      BY DEF Unbonded
    <3> HIDE DEF s, u, w
    <3> QED BY <3>1, <3>2, <3>3 DEF Validator
  <2>2. r \in UnbondingRequest
    BY DEF UnbondingRequest, TypeOK
  <2>3. validators' = [i \in DOMAIN validators |->
                         IF i = id THEN w ELSE validators[i]]
        /\ unbonding_requests' = PushRequest(unbonding_requests, r)
    BY <1>4 DEF UnbondStake
  <2> HIDE DEF w, r
  <2>4. /\ DOMAIN validators' = DOMAIN validators
        /\ validators' \in [DOMAIN validators -> Validator]
    BY <2>1, <2>3 DEF TypeOK
  <2>5. /\ DOMAIN unbonding_requests' \subseteq UnbondingRequest
        /\ unbonding_requests' \in [DOMAIN unbonding_requests' -> Nat \ {0}]
    BY <2>2, <2>3 DEF TypeOK, PushRequest
  <2> QED BY <1>4, <2>4, <2>5 DEF UnbondStake, TypeOK, setVars
<1>5. CASE ProcessUnbonding
  BY <1>5 DEF ProcessUnbonding, TypeOK, setVars
<1>6. ASSUME NEW id \in ValidatorIDs, RecordSignature(id)
      PROVE  TypeOK'
  <2> DEFINE b == validators[id].blocks_signed_this_epoch + 1
             w == [validators[id] EXCEPT !.blocks_signed_this_epoch = b]
  <2>1. validators[id] \in Validator /\ b \in Nat
    BY <1>6 DEF RecordSignature, TypeOK, Validator
  <2>2. validators' = [i \in DOMAIN validators |->
                         IF i = id THEN w ELSE validators[i]]
    BY <1>6 DEF RecordSignature
  <2> HIDE DEF b
  <2>3. w \in Validator
    BY <2>1 DEF Validator
  <2> HIDE DEF w
  <2> QED BY <1>6, <2>2, <2>3 DEF RecordSignature, TypeOK, setVars
<1>7. ASSUME NEW n \in EpochLengths, CheckDowntime(n)
      PROVE  TypeOK'
  <2>1. /\ DOMAIN validators' = DOMAIN validators
        /\ validators' \in [DOMAIN validators -> Validator]
    BY <1>7, DowntimeCheckedKeeps DEF CheckDowntime, TypeOK
  <2> QED BY <1>7, <2>1 DEF CheckDowntime, TypeOK, setVars
<1>8. ASSUME NEW id \in ValidatorIDs, NEW amount \in Amounts,
             SlashValidator(id, amount)
      PROVE  TypeOK'
  <2> DEFINE a == ActualSlash(validators, id, amount)
  <2>1. a \in Nat
    BY <1>8 DEF SlashValidator, ActualSlash, TypeOK, Validator
  <2>2. /\ validators' = Slashed(validators, id, a)
        /\ set_validators' = Slashed(set_validators, id, a)
        /\ total_stake' = SlashedTotal(set_validators, total_stake, id, a)
        /\ UNCHANGED <<epoch, position, unbonding_requests, height>>
    BY <1>8 DEF SlashValidator
  <2> HIDE DEF a
  <2>0. /\ validators \in [DOMAIN validators -> Validator]
        /\ set_validators \in [DOMAIN set_validators -> Member]
    BY DEF TypeOK
  <2>3. StakeTaken(validators, validators', Validator, id, a)
    BY <2>0, <2>1, <2>2, SlashedKeeps, Zenon
  <2>4. StakeTaken(set_validators, set_validators', Member, id, a)
    BY <2>0, <2>1, <2>2, SlashedKeeps, Zenon
  <2>5. total_stake' \in Nat
    <3>1. ASSUME id \in ActiveIn(set_validators)
          PROVE  set_validators[id].bonded_stake \in Nat
      BY <3>1 DEF ActiveIn, TypeOK, Member
    <3> QED BY <2>1, <2>2, <3>1, FlooredType DEF SlashedTotal, TypeOK
  <2> QED BY <2>2, <2>3, <2>4, <2>5 DEF TypeOK, StakeTaken
<1>9. ASSUME NEW n \in EpochLengths, TransitionEpoch(n)
      PROVE  TypeOK'
  <2> DEFINE ranked == RankedMap(epoch + 1, n)
             elected == ElectedMap(ranked, epoch + 1)
  <2>1. /\ epoch' = epoch + 1
        /\ validators' = elected
        /\ set_validators' = AsMembers(elected)
        /\ position' = [id \in DOMAIN ranked |-> Rank(ranked, id)]
        /\ total_stake' = StakeSum(ActiveIn(AsMembers(elected)),
                                   MemberStake(AsMembers(elected)))
        /\ UNCHANGED <<unbonding_requests, height>>
    BY <1>9 DEF TransitionEpoch
  <2>2. DOMAIN ranked = DOMAIN validators /\ ranked \in [DOMAIN ranked -> Validator]
    BY RankedMapKeeps
  <2>3. epoch + 1 \in Nat /\ DOMAIN ranked \subseteq ValidatorIDs
    BY <2>2 DEF TypeOK
  <2> HIDE DEF ranked
  <2>4. DOMAIN elected = DOMAIN ranked /\ elected \in [DOMAIN ranked -> Validator]
    BY <2>2, <2>3, ElectedMapKeeps
  <2> HIDE DEF elected
  <2>5. /\ DOMAIN AsMembers(elected) = DOMAIN ranked
        /\ AsMembers(elected) \in [DOMAIN ranked -> Member]
    BY <2>4, AsMembersKeeps
  <2>6. total_stake' \in Nat
    BY <2>1, <2>3, <2>5, ActiveMembers
  <2>7. position' \in [DOMAIN ranked -> Nat]
    <3>1. IsFiniteSet(DOMAIN ranked)
      BY <2>3, FS_Subset
    <3> QED BY <2>1, <3>1, RankType
  <2> QED BY <2>1, <2>2, <2>3, <2>4, <2>5, <2>6, <2>7 DEF TypeOK
<1>10. CASE AdvanceHeight
  BY <1>10 DEF AdvanceHeight, TypeOK, setVars
<1>11. CASE UNCHANGED registryVars
  BY <1>11 DEF registryVars, setVars, TypeOK
<1> QED
  BY <1>1, <1>2, <1>3, <1>4, <1>5, <1>6, <1>7, <1>8, <1>9, <1>10, <1>11 DEF Next

\* Every reachable state of the registry is well typed: in particular no
\* amount the code subtracts (unbonding, slashing, downtime) ever wraps an
\* unsigned stake below zero.
THEOREM RegistryTypes == Spec => []TypeOK
<1>1. Init => TypeOK
  BY DEF Init, TypeOK
<1>2. TypeOK /\ [Next]_registryVars => TypeOK'
  BY TypeStep
<1> QED
  BY <1>1, <1>2, PTL DEF Spec

-----------------------------------------------------------------------------
(* The active set and its total stake *)

\* The parts the invariant is made of need one another: SetLagsSafely keeps
\* slash_validator away from the floor of the set's copy, SetTotalStake from
\* the floor of the total.
RegistryInv == TypeOK /\ SetTotalStake /\ SetLagsSafely /\ ActiveSetBounded

\* An operation that writes the map only, and lowers what it writes.
LowersMap ==
  /\ UNCHANGED setVars
  /\ DOMAIN validators \subseteq DOMAIN validators'
  /\ \A id \in DOMAIN validators :
       /\ validators'[id].consensus_key = validators[id].consensus_key
       /\ validators'[id].bonded_stake <= validators[id].bonded_stake
       /\ validators'[id].status = "Active" => validators[id].status = "Active"
  /\ \A id \in DOMAIN validators' \ DOMAIN validators :
       validators'[id].status # "Active"

LEMMA LowersMapKeeps ==
  ASSUME RegistryInv, TypeOK', LowersMap
  PROVE  SetTotalStake' /\ SetLagsSafely' /\ ActiveSetBounded'
<1>1. UNCHANGED <<set_validators, total_stake>>
  BY DEF LowersMap, setVars
<1>2. SetTotalStake' /\ ActiveSetBounded'
  BY <1>1 DEF RegistryInv, SetTotalStake, ActiveSetBounded
<1>3. DOMAIN set_validators' \subseteq DOMAIN validators'
  BY <1>1 DEF RegistryInv, SetLagsSafely, LowersMap
<1>4. ASSUME NEW id \in DOMAIN set_validators
      PROVE  /\ set_validators'[id].consensus_key = validators'[id].consensus_key
             /\ set_validators'[id].bonded_stake >= validators'[id].bonded_stake
  <2>1. id \in DOMAIN validators /\ id \in DOMAIN validators'
    BY DEF RegistryInv, SetLagsSafely, LowersMap
  <2>2. /\ set_validators[id].bonded_stake \in Nat
        /\ validators[id].bonded_stake \in Nat
        /\ validators'[id].bonded_stake \in Nat
    BY <2>1, EntryFields DEF RegistryInv, TypeOK
  <2> QED BY <1>1, <2>1, <2>2 DEF RegistryInv, SetLagsSafely, LowersMap
<1>5. ASSUME NEW id \in DOMAIN validators', validators'[id].status = "Active"
      PROVE  id \in ActiveIn(set_validators')
  BY <1>1, <1>5 DEF RegistryInv, SetLagsSafely, LowersMap
<1> QED
  BY <1>1, <1>2, <1>3, <1>4, <1>5 DEF SetLagsSafely

\* The map-only operations lower the map.
LEMMA MapOnlyLowers ==
  ASSUME TypeOK,
         \/ \E id \in ValidatorIDs, key \in ConsensusKeys, stake \in Amounts :
              AddValidator(id, key, stake)
         \/ \E id \in ValidatorIDs, amount \in Amounts : UnbondStake(id, amount)
         \/ \E id \in ValidatorIDs : RecordSignature(id)
         \/ \E n \in EpochLengths : CheckDowntime(n)
         \/ ProcessUnbonding
         \/ AdvanceHeight
  PROVE  LowersMap
<1>0. /\ validators \in [DOMAIN validators -> Validator] /\ epoch \in Nat
      /\ \A id \in DOMAIN validators : validators[id].bonded_stake \in Nat
  BY EntryFields DEF TypeOK
<1>1. ASSUME NEW id \in ValidatorIDs, NEW key \in ConsensusKeys,
             NEW stake \in Amounts, AddValidator(id, key, stake)
      PROVE  LowersMap
  <2>1. UNCHANGED setVars /\ DOMAIN validators' = DOMAIN validators \cup {id}
    BY <1>1 DEF AddValidator
  <2>2. \A i \in DOMAIN validators : validators'[i] = validators[i]
    BY <1>1 DEF AddValidator
  <2>3. validators'[id].status = "Standby"
    BY <1>1 DEF AddValidator
  <2> QED BY <1>0, <2>1, <2>2, <2>3 DEF LowersMap
<1>2. ASSUME NEW id \in ValidatorIDs, NEW amount \in Amounts,
             UnbondStake(id, amount)
      PROVE  LowersMap
  <2> DEFINE w == Unbonded(validators[id], amount)
  <2>1. /\ UNCHANGED setVars /\ DOMAIN validators' = DOMAIN validators
        /\ id \in DOMAIN validators
        /\ \A i \in DOMAIN validators :
             validators'[i] = IF i = id THEN w ELSE validators[i]
    BY <1>2 DEF UnbondStake
  <2>2. /\ w.consensus_key = validators[id].consensus_key
        /\ w.bonded_stake <= validators[id].bonded_stake
        /\ w.status = "Active" => validators[id].status = "Active"
    <3> DEFINE s == validators[id].bonded_stake - amount
               u == IF validators[id].bonded_stake = amount THEN "Standby"
                    ELSE validators[id].status
    <3>1. s <= validators[id].bonded_stake
      BY <1>0, <2>1, RegistryConstants
    <3>2. w = [validators[id] EXCEPT !.bonded_stake = s, !.status = u]
      BY DEF Unbonded
    <3>3. u = "Active" => validators[id].status = "Active"
      OBVIOUS
    <3>4. validators[id] \in Validator
      BY <1>0, <2>1
    <3> HIDE DEF s, u, w
    <3>5. /\ w.consensus_key = validators[id].consensus_key
          /\ w.bonded_stake = s /\ w.status = u
      BY <3>2, <3>4 DEF Validator
    <3> QED BY <3>1, <3>3, <3>5
  <2> HIDE DEF w
  <2> QED BY <1>0, <2>1, <2>2 DEF LowersMap
<1>3. ASSUME NEW id \in ValidatorIDs, RecordSignature(id)
      PROVE  LowersMap
  <2> DEFINE b == validators[id].blocks_signed_this_epoch + 1
             w == [validators[id] EXCEPT !.blocks_signed_this_epoch = b]
  <2>1. /\ UNCHANGED setVars /\ DOMAIN validators' = DOMAIN validators
        /\ id \in DOMAIN validators
        /\ \A i \in DOMAIN validators :
             validators'[i] = IF i = id THEN w ELSE validators[i]
    BY <1>3 DEF RecordSignature
  <2>2. validators[id] \in Validator
    BY <1>0, <2>1
  <2> HIDE DEF b
  <2>3. /\ w.consensus_key = validators[id].consensus_key
        /\ w.bonded_stake = validators[id].bonded_stake
        /\ w.status = validators[id].status
    BY <2>2 DEF Validator
  <2> HIDE DEF w
  <2> QED BY <1>0, <2>1, <2>3 DEF LowersMap
<1>4. ASSUME NEW n \in EpochLengths, CheckDowntime(n)
      PROVE  LowersMap
  <2>1. n \in Nat
    BY RegistryConstants
  <2>2. validators' = DowntimeChecked(validators, set_validators, epoch, n)
        /\ UNCHANGED setVars
    BY <1>4 DEF CheckDowntime
  <2> QED BY <1>0, <2>1, <2>2, DowntimeCheckedKeeps DEF LowersMap
<1>5. CASE ProcessUnbonding \/ AdvanceHeight
  BY <1>0, <1>5 DEF ProcessUnbonding, AdvanceHeight, LowersMap
<1> QED
  BY <1>1, <1>2, <1>3, <1>4, <1>5

\* The map, the set and the total as the invariant relates them: apply_slashing
\* chains several operations, so each is shown to keep the relation whatever
\* map, set and total it starts from.
CopiesAgree(vals, sv, total) ==
  /\ DOMAIN vals \subseteq ValidatorIDs /\ vals \in [DOMAIN vals -> Validator]
  /\ DOMAIN sv \subseteq DOMAIN vals /\ sv \in [DOMAIN sv -> Member]
  /\ total = StakeSum(ActiveIn(sv), MemberStake(sv))
  /\ \A id \in DOMAIN sv : /\ sv[id].consensus_key = vals[id].consensus_key
                           /\ sv[id].bonded_stake >= vals[id].bonded_stake
  /\ \A id \in DOMAIN vals : vals[id].status = "Active" => id \in ActiveIn(sv)

LEMMA InvGivesCopies ==
  ASSUME RegistryInv
  PROVE  CopiesAgree(validators, set_validators, total_stake)
BY DEF RegistryInv, TypeOK, SetTotalStake, SetLagsSafely, CopiesAgree

LEMMA CopiesGiveInv ==
  ASSUME CopiesAgree(validators, set_validators, total_stake)'
  PROVE  SetTotalStake' /\ SetLagsSafely'
BY DEF SetTotalStake, SetLagsSafely, CopiesAgree

\* bond_stake adds the amounts to both copies and, for the active members, to
\* the total.
LEMMA BondCopies ==
  ASSUME NEW vals, NEW sv, NEW total, CopiesAgree(vals, sv, total),
         NEW amount \in [ValidatorIDs -> Nat]
  PROVE  /\ CopiesAgree(Bonded(vals, amount), Bonded(sv, amount),
                        total + StakeSum(ActiveIn(sv), amount))
         /\ ActiveIn(Bonded(sv, amount)) = ActiveIn(sv)
<1> DEFINE A == ActiveIn(sv)
           vals2 == Bonded(vals, amount)
           sv2 == Bonded(sv, amount)
<1>1. /\ DOMAIN vals \subseteq ValidatorIDs /\ vals \in [DOMAIN vals -> Validator]
      /\ DOMAIN sv \subseteq DOMAIN vals /\ sv \in [DOMAIN sv -> Member]
      /\ DOMAIN sv \subseteq ValidatorIDs
  BY DEF CopiesAgree
<1>2. StakeAdded(vals, vals2, Validator, amount)
  BY <1>1, BondedKeeps, Zenon
<1>3. StakeAdded(sv, sv2, Member, amount)
  BY <1>1, BondedKeeps, Zenon
<1> HIDE DEF vals2, sv2
<1>4. ActiveIn(sv2) = A
  BY <1>3 DEF StakeAdded, ActiveIn
<1>5. StakeSum(ActiveIn(sv2), MemberStake(sv2)) = total + StakeSum(A, amount)
  <2> DEFINE f == MemberStake(sv)
             g == MemberStake(sv2)
             h == [i \in A |-> f[i] + amount[i]]
  <2>1. IsFiniteSet(A) /\ \A i \in A : f[i] \in Nat
    BY <1>1, ActiveMembers
  <2>2. \A i \in A : i \in ValidatorIDs /\ g[i] = f[i] + amount[i]
    BY <1>1, <1>3 DEF MemberStake, ActiveIn, StakeAdded
  <2>3. total = StakeSum(A, f)
    BY DEF CopiesAgree
  <2>4. \A i \in A : amount[i] \in Nat
    BY <2>2
  <2> HIDE DEF f, g, A
  <2>5. StakeSum(A, h) = StakeSum(A, f) + StakeSum(A, amount)
    BY <2>1, <2>4, StakeSumAdd
  <2>6. \A i \in A : g[i] = h[i]
    BY <2>2
  <2> HIDE DEF h
  <2>7. StakeSum(A, g) = StakeSum(A, h)
    BY <2>6, StakeSumEqual
  <2> QED BY <1>4, <2>3, <2>5, <2>7 DEF g
<1>6. ASSUME NEW i \in DOMAIN sv2
      PROVE  /\ sv2[i].consensus_key = vals2[i].consensus_key
             /\ sv2[i].bonded_stake >= vals2[i].bonded_stake
  <2>1. i \in DOMAIN sv /\ i \in DOMAIN vals /\ amount[i] \in Nat
    BY <1>1, <1>3 DEF StakeAdded
  <2>2. /\ sv[i].bonded_stake \in Nat /\ vals[i].bonded_stake \in Nat
        /\ sv[i].consensus_key = vals[i].consensus_key
        /\ sv[i].bonded_stake >= vals[i].bonded_stake
    BY <1>1, <2>1, EntryFields DEF CopiesAgree
  <2>3. /\ sv2[i].bonded_stake = sv[i].bonded_stake + amount[i]
        /\ vals2[i].bonded_stake = vals[i].bonded_stake + amount[i]
        /\ sv2[i].consensus_key = sv[i].consensus_key
        /\ vals2[i].consensus_key = vals[i].consensus_key
    BY <1>2, <1>3, <2>1 DEF StakeAdded
  <2> QED BY <2>1, <2>2, <2>3
<1>7. \A i \in DOMAIN vals2 : vals2[i].status = "Active" => i \in ActiveIn(sv2)
  BY <1>2, <1>4 DEF StakeAdded, CopiesAgree
<1>8. /\ DOMAIN vals2 = DOMAIN vals /\ vals2 \in [DOMAIN vals2 -> Validator]
      /\ DOMAIN sv2 = DOMAIN sv /\ sv2 \in [DOMAIN sv2 -> Member]
  BY <1>2, <1>3 DEF StakeAdded
<1>9. CopiesAgree(vals2, sv2, total + StakeSum(A, amount))
  BY <1>1, <1>5, <1>6, <1>7, <1>8 DEF CopiesAgree
<1> QED
  BY <1>4, <1>9 DEF vals2, sv2

\* slash_validator takes the same amount from both copies and the total: the
\* amount is at most the map's stake, which is at most the set's, which is at
\* most the total, so that no floor is met.
LEMMA SlashCopies ==
  ASSUME NEW vals, NEW sv, NEW total, CopiesAgree(vals, sv, total),
         NEW id \in DOMAIN vals, NEW a \in Nat, a <= vals[id].bonded_stake
  PROVE  /\ CopiesAgree(Slashed(vals, id, a), Slashed(sv, id, a),
                        SlashedTotal(sv, total, id, a))
         /\ ActiveIn(Slashed(sv, id, a)) = ActiveIn(sv)
<1> DEFINE A == ActiveIn(sv)
           vals2 == Slashed(vals, id, a)
           sv2 == Slashed(sv, id, a)
           total2 == SlashedTotal(sv, total, id, a)
<1>1. /\ DOMAIN vals \subseteq ValidatorIDs /\ vals \in [DOMAIN vals -> Validator]
      /\ DOMAIN sv \subseteq DOMAIN vals /\ sv \in [DOMAIN sv -> Member]
      /\ DOMAIN sv \subseteq ValidatorIDs
  BY DEF CopiesAgree
<1>2. /\ \A i \in DOMAIN vals : vals[i].bonded_stake \in Nat
      /\ \A i \in DOMAIN sv : sv[i].bonded_stake \in Nat
  BY <1>1, EntryFields
<1>3. StakeTaken(vals, vals2, Validator, id, a)
  BY <1>1, SlashedKeeps, Zenon
<1>4. StakeTaken(sv, sv2, Member, id, a)
  BY <1>1, SlashedKeeps, Zenon
<1> HIDE DEF vals2, sv2
<1>5. ActiveIn(sv2) = A
  BY <1>4 DEF StakeTaken, ActiveIn
<1>6. \A i \in DOMAIN sv : /\ sv[i].consensus_key = vals[i].consensus_key
                           /\ sv[i].bonded_stake >= vals[i].bonded_stake
  BY DEF CopiesAgree
<1>7. total2 = StakeSum(A, MemberStake(sv2))
  <2> DEFINE f == MemberStake(sv)
             g == MemberStake(sv2)
  <2>1. /\ IsFiniteSet(A) /\ \A i \in A : f[i] \in Nat
        /\ total \in Nat /\ total = StakeSum(A, f)
    BY <1>1, ActiveMembers DEF CopiesAgree
  <2>2. \A i \in A : /\ i \in DOMAIN sv /\ f[i] = sv[i].bonded_stake
                     /\ g[i] = IF i = id THEN Floored(f[i], a) ELSE f[i]
    BY <1>4 DEF MemberStake, ActiveIn, StakeTaken
  <2>3. \A i \in A : g[i] \in Nat
    BY <2>1, <2>2, FlooredType
  <2> HIDE DEF f, g
  <2>4. CASE id \in A
    <3>1. f[id] \in Nat /\ a <= f[id] /\ f[id] = sv[id].bonded_stake
      BY <1>2, <1>6, <2>1, <2>2, <2>4
    <3>2. g[id] = f[id] - a
      BY <2>2, <2>4, <3>1 DEF Floored
    <3>3. total2 = Floored(total, a)
      BY <2>4, <3>1 DEF SlashedTotal
    <3> HIDE DEF A, total2
    <3>4. /\ StakeSum(A, g) = (StakeSum(A, f) - f[id]) + g[id]
          /\ f[id] <= StakeSum(A, f)
      <4>1. \A i \in A \ {id} : f[i] = g[i]
        BY <2>2
      <4> QED BY <2>1, <2>3, <2>4, <4>1, StakeSumChange
    <3> QED BY <2>1, <3>1, <3>2, <3>3, <3>4 DEF Floored, g
  <2>5. CASE id \notin A
    <3>1. StakeSum(A, g) = StakeSum(A, f)
      <4>1. \A i \in A : f[i] = g[i]
        BY <2>2, <2>5
      <4> QED BY <4>1, StakeSumEqual
    <3>2. total2 = total
      BY <2>5 DEF SlashedTotal
    <3> QED BY <2>1, <3>1, <3>2 DEF g
  <2> QED BY <2>4, <2>5
<1> HIDE DEF total2
<1>8. ASSUME NEW i \in DOMAIN sv2
      PROVE  /\ sv2[i].consensus_key = vals2[i].consensus_key
             /\ sv2[i].bonded_stake >= vals2[i].bonded_stake
  <2>1. i \in DOMAIN sv /\ i \in DOMAIN vals
    BY <1>1, <1>4 DEF StakeTaken
  <2>2. /\ sv2[i].consensus_key = sv[i].consensus_key
        /\ vals2[i].consensus_key = vals[i].consensus_key
        /\ sv2[i].bonded_stake = (IF i = id THEN Floored(sv[i].bonded_stake, a)
                                  ELSE sv[i].bonded_stake)
        /\ vals2[i].bonded_stake = (IF i = id THEN Floored(vals[i].bonded_stake, a)
                                    ELSE vals[i].bonded_stake)
    BY <1>3, <1>4, <2>1 DEF StakeTaken
  <2> QED BY <1>2, <1>6, <2>1, <2>2 DEF Floored
<1>9. \A i \in DOMAIN vals2 : vals2[i].status = "Active" => i \in ActiveIn(sv2)
  BY <1>3, <1>5 DEF StakeTaken, CopiesAgree
<1>10. /\ DOMAIN vals2 = DOMAIN vals /\ vals2 \in [DOMAIN vals2 -> Validator]
       /\ DOMAIN sv2 = DOMAIN sv /\ sv2 \in [DOMAIN sv2 -> Member]
  BY <1>3, <1>4 DEF StakeTaken
<1>11. CopiesAgree(vals2, sv2, total2)
  BY <1>1, <1>5, <1>7, <1>8, <1>9, <1>10 DEF CopiesAgree
<1> QED
  BY <1>5, <1>11 DEF vals2, sv2, total2

\* update_validator, called with a key or with Tombstoned as apply_slashing
\* does: the member leaves the active set with all of his stake.
LEMMA UpdateCopies ==
  ASSUME NEW vals, NEW sv, NEW total, CopiesAgree(vals, sv, total),
         NEW id, NEW key \in ConsensusKeys \cup {nullopt},
         NEW status \in {"Tombstoned", nullopt}
  PROVE  /\ CopiesAgree(UpdatedCopy(vals, id, key, status),
                        UpdatedCopy(sv, id, key, status),
                        UpdatedTotal(sv, total, id, status))
         /\ ActiveIn(UpdatedCopy(sv, id, key, status)) \subseteq ActiveIn(sv)
<1> DEFINE vals2 == UpdatedCopy(vals, id, key, status)
           sv2 == UpdatedCopy(sv, id, key, status)
           total2 == UpdatedTotal(sv, total, id, status)
           A == ActiveIn(sv)
           B == ActiveIn(sv2)
           f == MemberStake(sv)
           g == MemberStake(sv2)
<1>1. /\ DOMAIN vals \subseteq ValidatorIDs /\ vals \in [DOMAIN vals -> Validator]
      /\ DOMAIN sv \subseteq DOMAIN vals /\ sv \in [DOMAIN sv -> Member]
      /\ DOMAIN sv \subseteq ValidatorIDs
      /\ status \in Statuses \cup {nullopt} /\ nullopt # "Tombstoned"
  BY RegistryConstants DEF CopiesAgree, Statuses
<1>2. EntryUpdated(vals, vals2, Validator, id, key, status)
  BY <1>1, UpdatedKeeps, Zenon
<1>3. EntryUpdated(sv, sv2, Member, id, key, status)
  BY <1>1, UpdatedKeeps, Zenon
<1> HIDE DEF vals2, sv2
<1>4. B = IF status = "Tombstoned" THEN A \ {id} ELSE A
  BY <1>1, <1>3 DEF EntryUpdated, ActiveIn
<1>5. /\ IsFiniteSet(A) /\ \A i \in A : f[i] \in Nat
      /\ total \in Nat /\ total = StakeSum(A, f)
  BY <1>1, ActiveMembers DEF CopiesAgree
<1>6. \A i \in A : f[i] = g[i] /\ f[i] = sv[i].bonded_stake
  BY <1>3 DEF EntryUpdated, ActiveIn, MemberStake
<1>7. total2 = StakeSum(B, g)
  <2>1. StakeSum(B, g) = StakeSum(B, f)
    <3>1. \A i \in B : f[i] = g[i]
      BY <1>4, <1>6
    <3> HIDE DEF f, g, B
    <3> QED BY <3>1, StakeSumEqual
  <2>2. CASE id \in A /\ status = "Tombstoned"
    <3>1. total2 = Floored(total, f[id])
      BY <1>6, <2>2 DEF UpdatedTotal
    <3>2. B = A \ {id}
      BY <1>4, <2>2
    <3> HIDE DEF f, g, A, B, total2
    <3>3. StakeSum(A, f) = f[id] + StakeSum(A \ {id}, f)
      BY <1>5, <2>2, StakeSumSplit
    <3>4. StakeSum(A \ {id}, f) \in Nat
      <4>1. IsFiniteSet(A \ {id})
        BY <1>5, FS_RemoveElement
      <4> QED BY <1>5, <4>1, StakeSumType
    <3> QED BY <1>5, <2>1, <2>2, <3>1, <3>2, <3>3, <3>4 DEF Floored
  <2>3. CASE id \notin A \/ status # "Tombstoned"
    <3>1. total2 = total /\ B = A
      BY <1>4, <2>3 DEF UpdatedTotal
    <3> QED BY <1>5, <2>1, <3>1
  <2> QED BY <2>2, <2>3
<1>8. ASSUME NEW i \in DOMAIN sv2
      PROVE  /\ i \in DOMAIN vals2
             /\ sv2[i].consensus_key = vals2[i].consensus_key
             /\ sv2[i].bonded_stake >= vals2[i].bonded_stake
  BY <1>2, <1>3 DEF EntryUpdated, CopiesAgree
<1>9. ASSUME NEW i \in DOMAIN vals2, vals2[i].status = "Active"
      PROVE  i \in B
  <2>1. i \in A
    BY <1>1, <1>2, <1>9 DEF EntryUpdated, CopiesAgree
  <2>2. ~(i = id /\ status = "Tombstoned")
    BY <1>1, <1>2, <1>9 DEF EntryUpdated
  <2> QED BY <1>4, <2>1, <2>2
<1>10. /\ DOMAIN vals2 = DOMAIN vals /\ vals2 \in [DOMAIN vals2 -> Validator]
       /\ DOMAIN sv2 = DOMAIN sv /\ sv2 \in [DOMAIN sv2 -> Member]
  BY <1>2, <1>3 DEF EntryUpdated
<1> HIDE DEF total2
<1>11. CopiesAgree(vals2, sv2, total2)
  BY <1>1, <1>7, <1>8, <1>9, <1>10 DEF CopiesAgree
<1> QED
  BY <1>4, <1>11 DEF vals2, sv2, total2

\* The three operations as actions.
LEMMA BondKeeps ==
  ASSUME RegistryInv, NEW id \in ValidatorIDs, NEW amount \in Amounts,
         BondStake(id, amount)
  PROVE  /\ SetTotalStake' /\ SetLagsSafely'
         /\ ActiveIn(set_validators') = ActiveIn(set_validators)
<1> DEFINE am == OnlyFor(id, amount)
           A == ActiveIn(set_validators)
<1>1. amount \in Nat /\ am \in [ValidatorIDs -> Nat]
  BY RegistryConstants, OnlyForType
<1>2. \A i \in ValidatorIDs : am[i] = IF i = id THEN amount ELSE 0
  BY DEF OnlyFor
<1>3. /\ validators' = Bonded(validators, am)
      /\ set_validators' = Bonded(set_validators, am)
      /\ total_stake' = IF id \in A THEN total_stake + amount ELSE total_stake
  BY DEF BondStake
<1>4. CopiesAgree(validators, set_validators, total_stake) /\ total_stake \in Nat
  BY InvGivesCopies DEF RegistryInv, TypeOK
<1> HIDE DEF am
<1>5. StakeSum(A, am) = IF id \in A THEN amount ELSE 0
  <2>1. IsFiniteSet(A) /\ A \subseteq ValidatorIDs
    BY ActiveMembers DEF RegistryInv, TypeOK, ActiveIn
  <2> HIDE DEF A
  <2> QED BY <1>1, <1>2, <2>1, OneStakeSum
<1>6. total_stake' = total_stake + StakeSum(A, am)
  BY <1>1, <1>3, <1>4, <1>5
<1>7. /\ CopiesAgree(validators', set_validators', total_stake')
      /\ ActiveIn(set_validators') = A
  BY <1>1, <1>3, <1>4, <1>6, BondCopies
<1> QED
  BY <1>7, CopiesGiveInv

LEMMA SlashKeeps ==
  ASSUME RegistryInv, NEW id \in ValidatorIDs, NEW amount \in Amounts,
         SlashValidator(id, amount)
  PROVE  /\ SetTotalStake' /\ SetLagsSafely'
         /\ ActiveIn(set_validators') = ActiveIn(set_validators)
<1>1. PICK a : a = ActualSlash(validators, id, amount)
  OBVIOUS
<1>2. /\ id \in DOMAIN validators
      /\ validators' = Slashed(validators, id, a)
      /\ set_validators' = Slashed(set_validators, id, a)
      /\ total_stake' = SlashedTotal(set_validators, total_stake, id, a)
  BY <1>1 DEF SlashValidator
<1>3. a \in Nat /\ a <= validators[id].bonded_stake
  <2>1. validators[id].bonded_stake \in Nat /\ amount \in Nat
    BY <1>2, RegistryConstants, EntryFields DEF RegistryInv, TypeOK
  <2> QED BY <1>1, <2>1 DEF ActualSlash
<1>4. CopiesAgree(validators, set_validators, total_stake)
  BY InvGivesCopies
<1>5. /\ CopiesAgree(validators', set_validators', total_stake')
      /\ ActiveIn(set_validators') = ActiveIn(set_validators)
  BY <1>2, <1>3, <1>4, SlashCopies
<1> QED
  BY <1>5, CopiesGiveInv

LEMMA UpdateKeeps ==
  ASSUME RegistryInv, NEW id \in ValidatorIDs,
         NEW key \in ConsensusKeys \cup {nullopt},
         NEW status \in {"Tombstoned", nullopt},
         UpdateValidator(id, key, status)
  PROVE  /\ SetTotalStake' /\ SetLagsSafely'
         /\ ActiveIn(set_validators') \subseteq ActiveIn(set_validators)
<1>1. /\ validators' = UpdatedCopy(validators, id, key, status)
      /\ set_validators' = UpdatedCopy(set_validators, id, key, status)
      /\ total_stake' = UpdatedTotal(set_validators, total_stake, id, status)
  BY DEF UpdateValidator
<1>2. CopiesAgree(validators, set_validators, total_stake)
  BY InvGivesCopies
<1>3. /\ CopiesAgree(validators', set_validators', total_stake')
      /\ ActiveIn(set_validators') \subseteq ActiveIn(set_validators)
  BY <1>1, <1>2, UpdateCopies
<1> QED
  BY <1>3, CopiesGiveInv

\* An election copies the map into the set; the ranks of the elected are
\* distinct numbers below active_validator_count.
LEMMA ElectionCopies ==
  ASSUME NEW ranked, ranked \in [DOMAIN ranked -> Validator],
         DOMAIN ranked \subseteq ValidatorIDs, NEW e \in Nat
  PROVE  LET elected == ElectedMap(ranked, e)
             sv == AsMembers(elected)
         IN  /\ CopiesAgree(elected, sv, StakeSum(ActiveIn(sv), MemberStake(sv)))
             /\ DOMAIN elected = DOMAIN ranked /\ DOMAIN sv = DOMAIN ranked
             /\ Cardinality(ActiveIn(sv)) <= active_validator_count
<1> DEFINE elected == ElectedMap(ranked, e)
           sv == AsMembers(elected)
           N == active_validator_count
<1>3. /\ DOMAIN ranked \subseteq Nat /\ IsFiniteSet(DOMAIN ranked) /\ N \in Nat
  BY RegistryConstants, FS_Subset
<1>4. /\ DOMAIN elected = DOMAIN ranked
      /\ elected \in [DOMAIN elected -> Validator]
      /\ \A id \in DOMAIN ranked :
           elected[id].status = "Active" => Rank(ranked, id) < N
  BY ElectedMapKeeps
<1> HIDE DEF elected
<1>5. /\ DOMAIN sv = DOMAIN elected /\ sv \in [DOMAIN sv -> Member]
      /\ \A id \in DOMAIN elected :
           /\ sv[id].consensus_key = elected[id].consensus_key
           /\ sv[id].bonded_stake = elected[id].bonded_stake
           /\ sv[id].status = elected[id].status
  BY <1>4, AsMembersKeeps
<1> HIDE DEF sv
<1>6. CopiesAgree(elected, sv, StakeSum(ActiveIn(sv), MemberStake(sv)))
  <2>1. \A id \in DOMAIN elected : elected[id].bonded_stake \in Nat
    BY <1>4, EntryFields
  <2> QED BY <1>4, <1>5, <2>1 DEF CopiesAgree, ActiveIn
<1>8. Cardinality(ActiveIn(sv)) <= N
  <2> DEFINE A == ActiveIn(sv)
             I == 0..(N - 1)
             r == [id \in A |-> Rank(ranked, id)]
  <2>1. \A id \in A : id \in DOMAIN ranked /\ Rank(ranked, id) < N
    BY <1>4, <1>5 DEF ActiveIn
  <2>2. ASSUME NEW id \in A
        PROVE  Rank(ranked, id) \in I
    <3>1. Rank(ranked, id) \in Nat
      BY <1>3, RankType, Zenon
    <3> QED BY <1>3, <2>1, <3>1
  <2>3. ASSUME NEW a \in A, NEW b \in A, a # b
        PROVE  Rank(ranked, a) # Rank(ranked, b)
    <3>1. a \in DOMAIN ranked /\ b \in DOMAIN ranked
      BY <2>1
    <3> QED BY <1>3, <2>3, <3>1, RankInjective, Zenon
  <2>4. r \in Injection(A, I)
    <3> HIDE DEF A, I
    <3>1. r \in [A -> I] /\ \A a, b \in A : r[a] = r[b] => a = b
      BY <2>2, <2>3
    <3> HIDE DEF r
    <3> QED BY <3>1 DEF Injection, IsInjective
  <2>5. IsFiniteSet(I) /\ Cardinality(I) = N
    <3>1. 0 \in Int /\ N - 1 \in Int
      BY <1>3
    <3>2. /\ IsFiniteSet(I)
          /\ Cardinality(I) = IF 0 > N - 1 THEN 0 ELSE (N - 1) - 0 + 1
      <4> HIDE DEF N
      <4> QED BY <3>1, FS_Interval, Zenon
    <3> QED BY <1>3, <3>2
  <2> HIDE DEF A, I, r
  <2>6. Cardinality(A) <= Cardinality(I)
    BY <2>4, <2>5, FS_Injection
  <2> QED BY <2>5, <2>6 DEF A
<1> QED
  BY <1>4, <1>5, <1>6, <1>8 DEF elected, sv

\* transition_epoch holds an election and sums up anew.
LEMMA TransitionKeeps ==
  ASSUME TypeOK, NEW n \in EpochLengths, TransitionEpoch(n)
  PROVE  SetTotalStake' /\ SetLagsSafely' /\ ActiveSetBounded'
<1> DEFINE ranked == RankedMap(epoch + 1, n)
           elected == ElectedMap(ranked, epoch + 1)
           sv == AsMembers(elected)
<1>1. /\ validators' = elected /\ set_validators' = sv
      /\ total_stake' = StakeSum(ActiveIn(sv), MemberStake(sv))
  BY DEF TransitionEpoch
<1>2. /\ DOMAIN ranked = DOMAIN validators
      /\ ranked \in [DOMAIN ranked -> Validator]
  BY RankedMapKeeps, RegistryConstants
<1>3. epoch + 1 \in Nat /\ DOMAIN ranked \subseteq ValidatorIDs
  BY <1>2 DEF TypeOK
<1> HIDE DEF ranked
<1>4. /\ CopiesAgree(elected, sv, StakeSum(ActiveIn(sv), MemberStake(sv)))
      /\ Cardinality(ActiveIn(sv)) <= active_validator_count
  BY <1>2, <1>3, ElectionCopies
<1> HIDE DEF elected, sv
<1> QED
  BY <1>1, <1>4, CopiesGiveInv DEF ActiveSetBounded

-----------------------------------------------------------------------------
(* The theorems *)

\* An operation other than transition_epoch.
LEMMA StepWithinEpoch ==
  ASSUME UpdateStatuses \subseteq {"Tombstoned"}, RegistryInv, TypeOK',
         [Next]_registryVars, ~ \E n \in EpochLengths : TransitionEpoch(n)
  PROVE  /\ SetTotalStake' /\ SetLagsSafely'
         /\ ActiveIn(set_validators') \subseteq ActiveIn(set_validators)
<1>1. CASE LowersMap
  BY <1>1, LowersMapKeeps DEF LowersMap, setVars
<1>2. CASE \E id \in ValidatorIDs, key \in ConsensusKeys \cup {nullopt},
            status \in UpdateStatuses \cup {nullopt} :
             UpdateValidator(id, key, status)
  BY <1>2, UpdateKeeps
<1>3. CASE \E id \in ValidatorIDs, amount \in Amounts : BondStake(id, amount)
  BY <1>3, BondKeeps
<1>4. CASE \E id \in ValidatorIDs, amount \in Amounts : SlashValidator(id, amount)
  BY <1>4, SlashKeeps
<1>5. CASE UNCHANGED registryVars
  BY <1>5 DEF registryVars, setVars, RegistryInv, SetTotalStake, SetLagsSafely
<1>6. TypeOK
  BY DEF RegistryInv
<1> QED
  BY <1>1, <1>2, <1>3, <1>4, <1>5, <1>6, MapOnlyLowers DEF Next

LEMMA RegistryInvStep ==
  ASSUME UpdateStatuses \subseteq {"Tombstoned"}, RegistryInv, [Next]_registryVars
  PROVE  RegistryInv'
<1>1. TypeOK /\ TypeOK'
  BY TypeStep DEF RegistryInv
<1>2. CASE \E n \in EpochLengths : TransitionEpoch(n)
  BY <1>1, <1>2, TransitionKeeps DEF RegistryInv
<1>3. CASE ~ \E n \in EpochLengths : TransitionEpoch(n)
  <2> DEFINE A == ActiveIn(set_validators)
             B == ActiveIn(set_validators')
  <2>1. SetTotalStake' /\ SetLagsSafely' /\ B \subseteq A
    BY <1>1, <1>3, StepWithinEpoch
  <2>2. IsFiniteSet(A)
    BY <1>1, ActiveMembers DEF TypeOK
  <2>3. /\ Cardinality(A) <= active_validator_count
        /\ active_validator_count \in Nat
    BY RegistryConstants DEF RegistryInv, ActiveSetBounded
  <2>4. /\ Cardinality(B) <= Cardinality(A)
        /\ Cardinality(A) \in Nat /\ Cardinality(B) \in Nat
    <3> HIDE DEF A, B
    <3> QED BY <2>1, <2>2, FS_Subset, FS_CardinalityType
  <2> QED BY <1>1, <2>1, <2>3, <2>4 DEF RegistryInv, ActiveSetBounded
<1> QED
  BY <1>2, <1>3

LEMMA RegistryInit ==
  ASSUME Init
  PROVE  RegistryInv
<1>1. ActiveIn(set_validators) = {} /\ StakeUnits({}, MemberStake(set_validators)) = {}
  BY DEF Init, ActiveIn, StakeUnits
<1>2. Cardinality({}) = 0
  BY FS_EmptySet
<1>3. TypeOK /\ SetLagsSafely
  BY DEF Init, TypeOK, SetLagsSafely
<1>4. SetTotalStake
  BY <1>1, <1>2 DEF Init, SetTotalStake, StakeSum
<1>5. ActiveSetBounded
  BY <1>1, <1>2, RegistryConstants DEF ActiveSetBounded
<1> QED
  BY <1>3, <1>4, <1>5 DEF RegistryInv

\* For every configuration whose callers tombstone but never jail or activate
\* by update_validator: the total is the active stake, the set lags behind the
\* map on the safe side, and at most active_validator_count members are active.
THEOREM RegistrySafety ==
  ASSUME UpdateStatuses \subseteq {"Tombstoned"}
  PROVE  Spec => [](SetTotalStake /\ SetLagsSafely /\ ActiveSetBounded)
<1>1. Init => RegistryInv
  BY RegistryInit
<1>2. RegistryInv /\ [Next]_registryVars => RegistryInv'
  BY RegistryInvStep
<1>3. RegistryInv => SetTotalStake /\ SetLagsSafely /\ ActiveSetBounded
  BY DEF RegistryInv
<1> QED
  BY <1>1, <1>2, <1>3, PTL DEF Spec

\* Nobody enters the active set within an epoch.
THEOREM NoActivation ==
  ASSUME UpdateStatuses \subseteq {"Tombstoned"}
  PROVE  Spec => NoActivationWithinEpoch
<1>1. RegistryInv /\ [Next]_registryVars =>
        [epoch' = epoch =>
           ActiveIn(set_validators') \subseteq ActiveIn(set_validators)]_registryVars
  <2> SUFFICES ASSUME RegistryInv, [Next]_registryVars, epoch' = epoch
               PROVE  ActiveIn(set_validators') \subseteq ActiveIn(set_validators)
    OBVIOUS
  <2>1. ~ \E n \in EpochLengths : TransitionEpoch(n)
    BY DEF TransitionEpoch, RegistryInv, TypeOK
  <2>2. TypeOK'
    BY TypeStep DEF RegistryInv
  <2> QED BY <2>1, <2>2, StepWithinEpoch
<1>2. Init => RegistryInv
  BY RegistryInit
<1>3. RegistryInv /\ [Next]_registryVars => RegistryInv'
  BY RegistryInvStep
<1> QED
  BY <1>1, <1>2, <1>3, PTL DEF Spec, NoActivationWithinEpoch

\* The set's copy of a validator never lags behind the map on the unsafe side.
THEOREM SetCopyLagsSafely ==
  ASSUME UpdateStatuses \subseteq {"Tombstoned"}
  PROVE  Spec => []SetLagsSafely
<1>1. SetTotalStake /\ SetLagsSafely /\ ActiveSetBounded => SetLagsSafely
  OBVIOUS
<1> QED
  BY <1>1, RegistrySafety, PTL

-----------------------------------------------------------------------------
(* Who is elected *)

\* What the loop of transition_epoch makes of one validator: the stake stays, a
\* tombstone stays, and whoever ends up Standby with enough stake has a rank
\* beyond the active set.
LEMMA ElectedOutcome ==
  ASSUME NEW v \in Validator, NEW e \in Nat, NEW rank \in Nat
  PROVE  LET w == Elected(Released([v EXCEPT !.blocks_signed_this_epoch = 0], e),
                          rank)
         IN  /\ w.bonded_stake = v.bonded_stake
             /\ v.status = "Tombstoned" => w.status = "Tombstoned"
             /\ w.status = "Active" => rank < active_validator_count
             /\ w.status = "Standby" /\ w.bonded_stake >= minimum_self_bond =>
                  ~(rank < active_validator_count)
<1> DEFINE b == [v EXCEPT !.blocks_signed_this_epoch = 0]
           r == Released(b, e)
<1>1. b \in Validator /\ b.bonded_stake = v.bonded_stake /\ b.status = v.status
  BY DEF Validator
<1>2. /\ r \in Validator /\ r.bonded_stake = v.bonded_stake
      /\ v.status = "Tombstoned" => r.status = "Tombstoned"
  <2> HIDE DEF b
  <2> QED BY <1>1 DEF Released, Validator, Statuses
<1>3. r.status \in Statuses
  BY <1>2 DEF Validator
<1> HIDE DEF r
<1>4. CASE r.status = "Tombstoned"
  <2>1. Elected(r, rank) = r
    BY <1>4 DEF Elected
  <2> QED BY <1>2, <1>4, <2>1 DEF r
<1>5. CASE /\ r.status # "Tombstoned" /\ r.status # "Jailed"
           /\ rank < active_validator_count /\ r.bonded_stake >= minimum_self_bond
  <2>1. Elected(r, rank) = [r EXCEPT !.status = "Active"]
    BY <1>5 DEF Elected
  <2>2. /\ Elected(r, rank).bonded_stake = r.bonded_stake
        /\ Elected(r, rank).status = "Active"
    BY <1>2, <2>1 DEF Validator
  <2> QED BY <1>2, <1>5, <2>2 DEF r
<1>6. CASE /\ r.status # "Tombstoned"
           /\ ~(/\ r.status # "Jailed" /\ rank < active_validator_count
                /\ r.bonded_stake >= minimum_self_bond)
  <2> DEFINE u == IF r.status = "Active" THEN "Standby" ELSE r.status
  <2>1. Elected(r, rank) = [r EXCEPT !.status = u]
    BY <1>6 DEF Elected
  <2> HIDE DEF u
  <2>2. Elected(r, rank).bonded_stake = r.bonded_stake /\ Elected(r, rank).status = u
    BY <1>2, <2>1 DEF Validator
  <2>3. u # "Active" /\ (u = "Standby" => r.status # "Jailed")
    BY <1>3 DEF Statuses, u
  <2> QED BY <1>2, <1>6, <2>2, <2>3 DEF r
<1> QED
  BY <1>4, <1>5, <1>6

\* The order of rank_by_stake is total, and whoever comes before has the lower
\* index.
LEMMA RankFollowsOrder ==
  ASSUME NEW vals, vals \in [DOMAIN vals -> Validator],
         DOMAIN vals \subseteq Nat, IsFiniteSet(DOMAIN vals),
         NEW a \in DOMAIN vals, NEW b \in DOMAIN vals,
         Rank(vals, a) < Rank(vals, b)
  PROVE  RankedBefore(vals, a, b)
<1> DEFINE before(x) == {o \in DOMAIN vals : RankedBefore(vals, o, x)}
<1>1. \A x \in DOMAIN vals : vals[x].bonded_stake \in Nat /\ x \in Nat
  BY DEF Validator
<1>2. \A x \in DOMAIN vals : IsFiniteSet(before(x))
  BY FS_Subset
<1>3. ASSUME RankedBefore(vals, b, a)
      PROVE  FALSE
  <2>1. before(b) \subseteq before(a)
    BY <1>1, <1>3 DEF RankedBefore
  <2>2. Cardinality(before(b)) <= Cardinality(before(a))
    <3> HIDE DEF before
    <3> QED BY <1>2, <2>1, FS_Subset
  <2>3. Rank(vals, a) = Cardinality(before(a)) /\ Rank(vals, b) = Cardinality(before(b))
    BY DEF Rank
  <2>4. Cardinality(before(a)) \in Nat /\ Cardinality(before(b)) \in Nat
    <3> HIDE DEF before
    <3> QED BY <1>2, FS_CardinalityType
  <2> HIDE DEF before
  <2> QED BY <2>2, <2>3, <2>4
<1>4. a # b
  <2>1. Rank(vals, a) \in Nat
    BY RankType, Zenon
  <2> QED BY <2>1
<1>5. RankedBefore(vals, a, b) \/ RankedBefore(vals, b, a)
  BY <1>1, <1>4 DEF RankedBefore
<1> QED
  BY <1>3, <1>5

\* What a transition makes of every validator.
LEMMA TransitionOutcome ==
  ASSUME TypeOK, NEW n \in EpochLengths, TransitionEpoch(n),
         NEW ranked, ranked = RankedMap(epoch + 1, n)
  PROVE  /\ ranked \in [DOMAIN ranked -> Validator]
         /\ DOMAIN ranked = DOMAIN validators
         /\ DOMAIN ranked \subseteq Nat /\ IsFiniteSet(DOMAIN ranked)
         /\ DOMAIN validators' = DOMAIN ranked
         /\ DOMAIN set_validators' = DOMAIN ranked
         /\ \A id \in DOMAIN ranked :
              /\ set_validators'[id].status = validators'[id].status
              /\ set_validators'[id].bonded_stake = validators'[id].bonded_stake
              /\ validators'[id].bonded_stake = ranked[id].bonded_stake
              /\ ranked[id].status = "Tombstoned" =>
                   validators'[id].status = "Tombstoned"
              /\ validators'[id].status = "Active" =>
                   Rank(ranked, id) < active_validator_count
              /\ validators'[id].status = "Standby"
                   /\ validators'[id].bonded_stake >= minimum_self_bond =>
                   ~(Rank(ranked, id) < active_validator_count)
<1>1. validators' = ElectedMap(ranked, epoch + 1)
      /\ set_validators' = AsMembers(validators')
  BY DEF TransitionEpoch
<1>2. DOMAIN ranked = DOMAIN validators /\ ranked \in [DOMAIN ranked -> Validator]
  BY RankedMapKeeps, RegistryConstants
<1>3. /\ epoch + 1 \in Nat /\ DOMAIN ranked \subseteq ValidatorIDs
      /\ DOMAIN ranked \subseteq Nat /\ IsFiniteSet(DOMAIN ranked)
  BY <1>2, RegistryConstants, FS_Subset DEF TypeOK
<1>4. DOMAIN validators' = DOMAIN ranked /\ DOMAIN set_validators' = DOMAIN ranked
  BY <1>1 DEF ElectedMap, AsMembers
<1>5. ASSUME NEW id \in DOMAIN ranked
      PROVE  /\ set_validators'[id].status = validators'[id].status
             /\ set_validators'[id].bonded_stake = validators'[id].bonded_stake
  BY <1>1, <1>4 DEF AsMembers
<1>6. ASSUME NEW id \in DOMAIN ranked
      PROVE  /\ validators'[id].bonded_stake = ranked[id].bonded_stake
             /\ ranked[id].status = "Tombstoned" =>
                  validators'[id].status = "Tombstoned"
             /\ validators'[id].status = "Active" =>
                  Rank(ranked, id) < active_validator_count
             /\ validators'[id].status = "Standby"
                  /\ validators'[id].bonded_stake >= minimum_self_bond =>
                  ~(Rank(ranked, id) < active_validator_count)
  <2>1. ranked[id] \in Validator /\ Rank(ranked, id) \in Nat
    BY <1>2, <1>3, RankType
  <2>2. validators'[id] =
          Elected(Released([ranked[id] EXCEPT !.blocks_signed_this_epoch = 0],
                           epoch + 1), Rank(ranked, id))
    BY <1>1 DEF ElectedMap
  <2> QED BY <1>3, <2>1, <2>2, ElectedOutcome
<1> QED
  BY <1>2, <1>3, <1>4, <1>5, <1>6

\* A transition elects the top of the ranking by the stake that the downtime
\* penalties leave, whatever the configuration and whoever updates statuses.
THEOREM TopStakeElected == Spec => TopNElected
<1>1. TypeOK /\ [Next]_registryVars =>
        [epoch' # epoch =>
           \A a \in ActiveIn(set_validators'), b \in DOMAIN set_validators' :
             /\ set_validators'[b].status = "Standby"
             /\ set_validators'[b].bonded_stake >= minimum_self_bond
             => \/ set_validators'[a].bonded_stake > set_validators'[b].bonded_stake
                \/ /\ set_validators'[a].bonded_stake = set_validators'[b].bonded_stake
                   /\ a < b]_registryVars
  <2> SUFFICES ASSUME TypeOK, [Next]_registryVars, epoch' # epoch,
                      NEW a \in ActiveIn(set_validators'),
                      NEW b \in DOMAIN set_validators',
                      set_validators'[b].status = "Standby",
                      set_validators'[b].bonded_stake >= minimum_self_bond
               PROVE  \/ set_validators'[a].bonded_stake > set_validators'[b].bonded_stake
                      \/ /\ set_validators'[a].bonded_stake = set_validators'[b].bonded_stake
                         /\ a < b
    OBVIOUS
  <2>1. PICK n \in EpochLengths : TransitionEpoch(n)
    BY DEF Next, registryVars, setVars, AddValidator, UpdateValidator, BondStake,
           UnbondStake, SlashValidator, RecordSignature, CheckDowntime,
           ProcessUnbonding, AdvanceHeight
  <2>2. PICK ranked : ranked = RankedMap(epoch + 1, n)
    OBVIOUS
  <2>3. /\ ranked \in [DOMAIN ranked -> Validator]
        /\ DOMAIN ranked \subseteq Nat /\ IsFiniteSet(DOMAIN ranked)
        /\ a \in DOMAIN ranked /\ b \in DOMAIN ranked
        /\ set_validators'[a].bonded_stake = ranked[a].bonded_stake
        /\ set_validators'[b].bonded_stake = ranked[b].bonded_stake
        /\ Rank(ranked, a) < active_validator_count
        /\ ~(Rank(ranked, b) < active_validator_count)
    BY <2>1, <2>2, TransitionOutcome DEF ActiveIn
  <2>4. Rank(ranked, a) \in Nat /\ Rank(ranked, b) \in Nat
    BY <2>3, RankType
  <2>5. Rank(ranked, a) < Rank(ranked, b)
    BY <2>3, <2>4, RegistryConstants
  <2>6. RankedBefore(ranked, a, b)
    BY <2>3, <2>5, RankFollowsOrder
  <2> QED BY <2>3, <2>6 DEF RankedBefore
<1> QED
  BY <1>1, RegistryTypes, PTL DEF Spec, TopNElected

-----------------------------------------------------------------------------
(* Tombstones *)

\* A tombstone in the map is one in the set: check_downtime, which looks at the
\* status in the set and writes the map, never meets a tombstoned validator.
TombstonedInSet ==
  \A id \in DOMAIN validators :
    validators[id].status = "Tombstoned" => id \notin ActiveIn(set_validators)

\* What every operation leaves of a tombstone.
TombstoneKept ==
  \A id \in DOMAIN validators :
    validators[id].status = "Tombstoned" =>
      /\ id \in DOMAIN validators'
      /\ validators'[id].status = "Tombstoned" \/ validators'[id].bonded_stake = 0

\* An operation that leaves the set alone and tombstones nobody.
LEMMA NoNewTombstone ==
  ASSUME TombstonedInSet, UNCHANGED set_validators,
         \A id \in DOMAIN validators' : validators'[id].status = "Tombstoned" =>
           id \in DOMAIN validators /\ validators[id].status = "Tombstoned"
  PROVE  TombstonedInSet'
BY DEF TombstonedInSet

\* A downtime check changes nothing of who is not active in the set.
LEMMA DowntimeTombstones ==
  ASSUME NEW vals, vals \in [DOMAIN vals -> Validator], NEW sv,
         NEW e \in Nat, NEW n \in Nat,
         \A id \in DOMAIN vals :
           vals[id].status = "Tombstoned" => id \notin ActiveIn(sv),
         NEW id \in DOMAIN vals
  PROVE  DowntimeChecked(vals, sv, e, n)[id].status = "Tombstoned" <=>
           vals[id].status = "Tombstoned"
<1>1. CASE id \notin ActiveIn(sv)
  BY <1>1 DEF DowntimeChecked
<1>2. CASE id \in ActiveIn(sv)
  <2>1. vals[id] \in Validator /\ vals[id].status # "Tombstoned"
    BY <1>2
  <2>2. \/ DowntimeChecked(vals, sv, e, n)[id] = vals[id]
        \/ DowntimeChecked(vals, sv, e, n)[id] = Penalize(vals[id], e)
        \/ DowntimeChecked(vals, sv, e, n)[id] =
             [vals[id] EXCEPT !.consecutive_downtime_epochs = 0]
    BY DEF DowntimeChecked, DowntimeEntry
  <2>3. [vals[id] EXCEPT !.consecutive_downtime_epochs = 0].status = vals[id].status
    BY <2>1 DEF Validator
  <2>4. Penalize(vals[id], e).status # "Tombstoned"
    BY <2>1 DEF Penalize, Validator
  <2> QED BY <2>1, <2>2, <2>3, <2>4
<1> QED
  BY <1>1, <1>2

LEMMA TombstoneStep ==
  ASSUME UpdateStatuses \subseteq {"Tombstoned"}, TypeOK, TombstonedInSet,
         [Next]_registryVars
  PROVE  TombstonedInSet' /\ TombstoneKept
<1>0. /\ validators \in [DOMAIN validators -> Validator]
      /\ set_validators \in [DOMAIN set_validators -> Member]
      /\ DOMAIN validators \subseteq ValidatorIDs
      /\ DOMAIN set_validators \subseteq ValidatorIDs
      /\ epoch \in Nat
      /\ nullopt # "Tombstoned" /\ "Tombstoned" \in Statuses
      /\ Amounts \subseteq Nat /\ EpochLengths \subseteq Nat
  BY RegistryConstants DEF TypeOK, Statuses
<1>1. ASSUME NEW id \in ValidatorIDs, NEW key \in ConsensusKeys,
             NEW stake \in Amounts, AddValidator(id, key, stake)
      PROVE  TombstonedInSet' /\ TombstoneKept
  <2>1. /\ UNCHANGED set_validators /\ DOMAIN validators' = DOMAIN validators \cup {id}
        /\ \A i \in DOMAIN validators : validators'[i] = validators[i]
        /\ id \notin DOMAIN validators /\ validators'[id].status = "Standby"
    BY <1>1 DEF AddValidator, setVars
  <2> QED BY <2>1, NoNewTombstone DEF TombstoneKept
<1>2. ASSUME NEW id \in ValidatorIDs, NEW key \in ConsensusKeys \cup {nullopt},
             NEW status \in UpdateStatuses \cup {nullopt},
             UpdateValidator(id, key, status)
      PROVE  TombstonedInSet' /\ TombstoneKept
  <2>1. /\ validators' = UpdatedCopy(validators, id, key, status)
        /\ set_validators' = UpdatedCopy(set_validators, id, key, status)
        /\ status \in {"Tombstoned", nullopt} /\ status \in Statuses \cup {nullopt}
    BY <1>0, <1>2 DEF UpdateValidator
  <2>2. EntryUpdated(validators, validators', Validator, id, key, status)
    BY <1>0, <2>1, UpdatedKeeps, Zenon
  <2>3. EntryUpdated(set_validators, set_validators', Member, id, key, status)
    BY <1>0, <2>1, UpdatedKeeps, Zenon
  <2>4. /\ DOMAIN validators' = DOMAIN validators
        /\ DOMAIN set_validators' = DOMAIN set_validators
        /\ \A i \in DOMAIN validators : validators'[i].status =
             (IF i = id /\ status # nullopt THEN status ELSE validators[i].status)
        /\ \A i \in DOMAIN set_validators : set_validators'[i].status =
             (IF i = id /\ status # nullopt THEN status ELSE set_validators[i].status)
    BY <2>2, <2>3 DEF EntryUpdated
  <2> QED BY <1>0, <2>1, <2>4 DEF TombstonedInSet, TombstoneKept, ActiveIn
<1>3. ASSUME NEW id \in ValidatorIDs, NEW amount \in Amounts, BondStake(id, amount)
      PROVE  TombstonedInSet' /\ TombstoneKept
  <2>1. OnlyFor(id, amount) \in [ValidatorIDs -> Nat]
    BY <1>0, OnlyForType
  <2>2. /\ validators' = Bonded(validators, OnlyFor(id, amount))
        /\ set_validators' = Bonded(set_validators, OnlyFor(id, amount))
    BY <1>3 DEF BondStake
  <2>3. StakeAdded(validators, validators', Validator, OnlyFor(id, amount))
    BY <1>0, <2>1, <2>2, BondedKeeps, Zenon
  <2>4. StakeAdded(set_validators, set_validators', Member, OnlyFor(id, amount))
    BY <1>0, <2>1, <2>2, BondedKeeps, Zenon
  <2>5. /\ DOMAIN validators' = DOMAIN validators
        /\ DOMAIN set_validators' = DOMAIN set_validators
        /\ \A i \in DOMAIN validators : validators'[i].status = validators[i].status
        /\ \A i \in DOMAIN set_validators :
             set_validators'[i].status = set_validators[i].status
    BY <2>3, <2>4 DEF StakeAdded
  <2> QED BY <2>5 DEF TombstonedInSet, TombstoneKept, ActiveIn
<1>4. ASSUME NEW id \in ValidatorIDs, NEW amount \in Amounts,
             UnbondStake(id, amount)
      PROVE  TombstonedInSet' /\ TombstoneKept
  <2> DEFINE w == Unbonded(validators[id], amount)
  <2>1. /\ UNCHANGED set_validators /\ DOMAIN validators' = DOMAIN validators
        /\ id \in DOMAIN validators
        /\ \A i \in DOMAIN validators :
             validators'[i] = IF i = id THEN w ELSE validators[i]
    BY <1>4 DEF UnbondStake, setVars
  <2>2. /\ w.status = "Tombstoned" => validators[id].status = "Tombstoned"
        /\ w.status = validators[id].status \/ w.bonded_stake = 0
    <3> DEFINE s == validators[id].bonded_stake - amount
               u == IF validators[id].bonded_stake = amount THEN "Standby"
                    ELSE validators[id].status
    <3>1. validators[id].bonded_stake \in Nat /\ amount \in Nat
      BY <1>0, <2>1, EntryFields
    <3>2. w = [validators[id] EXCEPT !.bonded_stake = s, !.status = u]
      BY DEF Unbonded
    <3>3. /\ u = "Tombstoned" => validators[id].status = "Tombstoned"
          /\ u = validators[id].status \/ s = 0
      BY <3>1
    <3>4. validators[id] \in Validator
      BY <1>0, <2>1
    <3> HIDE DEF s, u, w
    <3>5. w.bonded_stake = s /\ w.status = u
      BY <3>2, <3>4 DEF Validator
    <3> QED BY <3>3, <3>5
  <2> HIDE DEF w
  <2> QED BY <2>1, <2>2, NoNewTombstone DEF TombstoneKept
<1>5. CASE ProcessUnbonding \/ AdvanceHeight \/ UNCHANGED registryVars
  <2>1. UNCHANGED <<validators, set_validators>>
    BY <1>5 DEF ProcessUnbonding, AdvanceHeight, registryVars, setVars
  <2> QED BY <2>1 DEF TombstonedInSet, TombstoneKept
<1>6. ASSUME NEW id \in ValidatorIDs, RecordSignature(id)
      PROVE  TombstonedInSet' /\ TombstoneKept
  <2> DEFINE b == validators[id].blocks_signed_this_epoch + 1
             w == [validators[id] EXCEPT !.blocks_signed_this_epoch = b]
  <2>1. /\ UNCHANGED set_validators /\ DOMAIN validators' = DOMAIN validators
        /\ id \in DOMAIN validators
        /\ \A i \in DOMAIN validators :
             validators'[i] = IF i = id THEN w ELSE validators[i]
    BY <1>6 DEF RecordSignature, setVars
  <2>2. validators[id] \in Validator
    BY <1>0, <2>1
  <2> HIDE DEF b
  <2>3. w.status = validators[id].status
    BY <2>2 DEF Validator
  <2> HIDE DEF w
  <2> QED BY <2>1, <2>3, NoNewTombstone DEF TombstoneKept
<1>7. ASSUME NEW n \in EpochLengths, CheckDowntime(n)
      PROVE  TombstonedInSet' /\ TombstoneKept
  <2>1. /\ validators' = DowntimeChecked(validators, set_validators, epoch, n)
        /\ UNCHANGED set_validators /\ n \in Nat
    BY <1>0, <1>7 DEF CheckDowntime, setVars
  <2>2. DOMAIN validators' = DOMAIN validators
    BY <2>1 DEF DowntimeChecked
  <2>3. \A id \in DOMAIN validators : validators'[id].status = "Tombstoned" <=>
          validators[id].status = "Tombstoned"
    BY <1>0, <2>1, DowntimeTombstones DEF TombstonedInSet
  <2> QED BY <2>1, <2>2, <2>3, NoNewTombstone DEF TombstoneKept
<1>8. ASSUME NEW id \in ValidatorIDs, NEW amount \in Amounts,
             SlashValidator(id, amount)
      PROVE  TombstonedInSet' /\ TombstoneKept
  <2>1. PICK a : a = ActualSlash(validators, id, amount)
    OBVIOUS
  <2>2. a \in Nat
    BY <1>0, <1>8, <2>1, EntryFields DEF SlashValidator, ActualSlash
  <2>3. /\ validators' = Slashed(validators, id, a)
        /\ set_validators' = Slashed(set_validators, id, a)
    BY <1>8, <2>1 DEF SlashValidator
  <2>4. StakeTaken(validators, validators', Validator, id, a)
    BY <1>0, <2>2, <2>3, SlashedKeeps, Zenon
  <2>5. StakeTaken(set_validators, set_validators', Member, id, a)
    BY <1>0, <2>2, <2>3, SlashedKeeps, Zenon
  <2>6. /\ DOMAIN validators' = DOMAIN validators
        /\ DOMAIN set_validators' = DOMAIN set_validators
        /\ \A i \in DOMAIN validators : validators'[i].status = validators[i].status
        /\ \A i \in DOMAIN set_validators :
             set_validators'[i].status = set_validators[i].status
    BY <2>4, <2>5 DEF StakeTaken
  <2> QED BY <2>6 DEF TombstonedInSet, TombstoneKept, ActiveIn
<1>9. ASSUME NEW n \in EpochLengths, TransitionEpoch(n)
      PROVE  TombstonedInSet' /\ TombstoneKept
  <2>1. PICK ranked : ranked = RankedMap(epoch + 1, n)
    OBVIOUS
  <2>2. /\ DOMAIN ranked = DOMAIN validators
        /\ DOMAIN validators' = DOMAIN ranked /\ DOMAIN set_validators' = DOMAIN ranked
        /\ \A id \in DOMAIN ranked :
             /\ set_validators'[id].status = validators'[id].status
             /\ ranked[id].status = "Tombstoned" =>
                  validators'[id].status = "Tombstoned"
    BY <1>9, <2>1, TransitionOutcome
  <2>3. \A id \in DOMAIN validators : validators[id].status = "Tombstoned" =>
          ranked[id].status = "Tombstoned"
    <3>1. n \in Nat /\ (epoch + 1) - 1 = epoch
      BY <1>0
    <3>2. \/ ranked = validators
          \/ ranked = DowntimeChecked(validators, set_validators, epoch, n)
      BY <2>1, <3>1 DEF RankedMap
    <3> QED BY <1>0, <3>1, <3>2, DowntimeTombstones DEF TombstonedInSet
  <2> QED BY <2>2, <2>3 DEF TombstonedInSet, TombstoneKept, ActiveIn
<1> QED
  BY <1>1, <1>2, <1>3, <1>4, <1>5, <1>6, <1>7, <1>8, <1>9 DEF Next

\* A tombstone lasts as long as the validator has stake.
THEOREM TombstonesLast ==
  ASSUME UpdateStatuses \subseteq {"Tombstoned"}
  PROVE  Spec => TombstoneUntilUnbonded
<1>1. Init => TombstonedInSet
  BY DEF Init, TombstonedInSet
<1>2. TypeOK /\ TombstonedInSet /\ [Next]_registryVars => TombstonedInSet'
  BY TombstoneStep
<1>3. TypeOK /\ TombstonedInSet /\ [Next]_registryVars =>
        [\A id \in DOMAIN validators :
           validators[id].status = "Tombstoned" =>
             \/ validators'[id].status = "Tombstoned"
             \/ validators'[id].bonded_stake = 0]_registryVars
  BY TombstoneStep DEF TombstoneKept
<1> QED
  BY <1>1, <1>2, <1>3, RegistryTypes, PTL DEF Spec, TombstoneUntilUnbonded

-----------------------------------------------------------------------------
(* Histories *)

\* Trimming keeps the newest records, at most max_signature_history of them,
\* and drops one only from a full history.
LEMMA RecordedKeeps ==
  ASSUME NEW D, NEW s \in Seq(D), NEW x \in D, Len(s) <= max_signature_history
  PROVE  LET r == Recorded(s, x)
         IN  /\ r \in Seq(D) /\ Len(r) <= max_signature_history
             /\ \/ r = Append(s, x)
                \/ Len(s) = max_signature_history /\ Len(r) = max_signature_history
<1> DEFINE h == Append(s, x)
           m == max_signature_history
<1>1. h \in Seq(D) /\ Len(h) = Len(s) + 1 /\ Len(s) \in Nat /\ m \in Nat
  BY SlashingConstants
<1> HIDE DEF h
<1>2. CASE Len(h) > m
  <2>1. Len(s) = m /\ Len(h) = m + 1 /\ Len(h) - m + 1 = 2
    BY <1>1, <1>2
  <2>2. Recorded(s, x) = SubSeq(h, 2, m + 1)
    BY <1>2, <2>1 DEF Recorded, h
  <2>3. SubSeq(h, 2, m + 1) \in Seq(D) /\ Len(SubSeq(h, 2, m + 1)) = m
    BY <1>1, <2>1
  <2> QED BY <1>1, <2>1, <2>2, <2>3
<1>3. CASE ~(Len(h) > m)
  <2>1. Recorded(s, x) = h
    BY <1>3 DEF Recorded, h
  <2>2. Len(h) <= m
    BY <1>1, <1>3
  <2> QED BY <1>1, <2>1, <2>2 DEF h
<1> QED
  BY <1>2, <1>3

\* p holds every record of s that a retention of r blocks covers at height h.
CoveredKept(s, p, h, r) ==
  \A i \in 1..Len(s) : ~(s[i].block_height + r < h) =>
    \E k \in 1..Len(p) : p[k] = s[i]

\* Pruning keeps a history within its bounds, and every record that the
\* retention covers.
LEMMA PrunedKeeps ==
  ASSUME NEW D, NEW s \in Seq(D), NEW h \in Nat, NEW r \in Nat,
         \A x \in D : x.block_height \in Nat
  PROVE  LET p == Pruned(s, h, r)
         IN  p \in Seq(D) /\ Len(p) <= Len(s) /\ CoveredKept(s, p, h, r)
<1>1. CASE h < r
  <2>1. Pruned(s, h, r) = s
    BY <1>1 DEF Pruned
  <2> QED BY <2>1 DEF CoveredKept
<1>2. CASE ~(h < r)
  <2> DEFINE S == {x \in Range(s) : x.block_height >= h - r}
             p == KeepOnly(s, S)
  <2>1. Pruned(s, h, r) = p
    BY <1>2 DEF Pruned
  <2>2. ASSUME NEW i \in 1..Len(s), ~(s[i].block_height + r < h)
        PROVE  s[i] \in S
    <3>1. s[i] \in D /\ s[i] \in Range(s)
      BY DEF Range
    <3>2. s[i].block_height \in Nat
      BY <3>1
    <3>3. s[i].block_height >= h - r
      BY <2>2, <3>2
    <3> QED BY <3>1, <3>3
  <2> HIDE DEF S
  <2>3. /\ p \in Seq(D) /\ Len(p) <= Len(s)
        /\ \A i \in 1..Len(s) : s[i] \in S => \E k \in 1..Len(p) : p[k] = s[i]
    BY KeepOnlyElements
  <2>4. CoveredKept(s, p, h, r)
    BY <2>2, <2>3 DEF CoveredKept
  <2> QED BY <2>1, <2>3, <2>4
<1> QED
  BY <1>1, <1>2

\* What a validator can have on record: an honest one signs the chain's block.
Signed(id) == {b \in BlockHashes : id \in Offenders \/ b[2] = 0}

SignatureRecords(id) == {[block_height |-> b[1], block_hash |-> b] : b \in Signed(id)}

VoteRecords(id) ==
  {[block_height |-> b[1], block_hash |-> b, view_number |-> v] :
     b \in Signed(id), v \in Views}

Histories ==
  /\ DOMAIN signature_history = ValidatorIDs
  /\ DOMAIN vote_history = ValidatorIDs
  /\ \A id \in ValidatorIDs :
       /\ signature_history[id] \in Seq(SignatureRecords(id))
       /\ vote_history[id] \in Seq(VoteRecords(id))
       /\ Len(signature_history[id]) <= max_signature_history
       /\ Len(vote_history[id]) <= max_signature_history

SlashingEvents ==
  [validator_id : ValidatorIDs, reason : SafetyViolations, penalty_amount : Nat]

\* The inductive invariant.
SlashInv ==
  /\ RegistryInv
  /\ DOMAIN validators = ValidatorIDs
  /\ total_supply \in 0..InitialSupply
  /\ Histories
  /\ events \subseteq SlashingEvents
  /\ HonestSignersNotReported

LEMMA RecordTypes ==
  ASSUME NEW id
  PROVE  /\ \A x \in SignatureRecords(id) :
              /\ x.block_height \in Nat
              /\ id \notin Offenders => x.block_hash = <<x.block_height, 0>>
         /\ \A x \in VoteRecords(id) : x.block_height \in Nat
<1>1. ASSUME NEW b \in Signed(id)
      PROVE  b[1] \in Nat /\ (id \notin Offenders => b = <<b[1], 0>>)
  BY SlashingConstants DEF Signed, BlockHashes
<1>2. ASSUME NEW x \in SignatureRecords(id)
      PROVE  /\ x.block_height \in Nat
             /\ id \notin Offenders => x.block_hash = <<x.block_height, 0>>
  <2>1. PICK b \in Signed(id) : x = [block_height |-> b[1], block_hash |-> b]
    BY DEF SignatureRecords
  <2>2. x.block_height = b[1] /\ x.block_hash = b
    BY <2>1
  <2> QED BY <1>1, <2>2
<1>3. ASSUME NEW x \in VoteRecords(id)
      PROVE  x.block_height \in Nat
  BY <1>1 DEF VoteRecords
<1> QED
  BY <1>2, <1>3

\* Nobody who signs one block per height has two conflicting signatures.
LEMMA HonestNotViolator ==
  ASSUME Histories, NEW id \in Violators("DoubleSign"), DOMAIN validators = ValidatorIDs
  PROVE  id \in Offenders
<1>1. id \in ValidatorIDs
  BY DEF Violators
<1>2. PICK i \in DOMAIN signature_history[id], j \in DOMAIN signature_history[id] :
        DoubleSigned(signature_history[id][i], signature_history[id][j])
  BY DEF Violators
<1>3. signature_history[id] \in Seq(SignatureRecords(id))
  BY <1>1 DEF Histories
<1>4. /\ signature_history[id][i] \in SignatureRecords(id)
      /\ signature_history[id][j] \in SignatureRecords(id)
  BY <1>2, <1>3
<1> QED
  BY <1>2, <1>4, RecordTypes DEF DoubleSigned

-----------------------------------------------------------------------------
(* apply_slashing *)

\* A floored share is not above the share.
LEMMA ShareBelow ==
  ASSUME NEW s \in Nat, NEW d \in Nat, NEW t \in Nat, t > 0
  PROVE  LET x == (s * d) \div t
         IN  x \in Nat /\ t * x <= d * s + 0
<1> DEFINE n == s * d
<1>1. n \in Nat /\ d * s + 0 = n
  OBVIOUS
<1> HIDE DEF n
<1>2. n \div t \in Nat /\ t * (n \div t) <= n
  BY <1>1
<1> QED
  BY <1>1, <1>2 DEF n

\* distribute_rewards_proportional hands out the whole amount: the floors of
\* the shares leave something, or nothing, for the last one.
LEMMA RewardsAddUp ==
  ASSUME NEW R, IsFiniteSet(R), NEW sv, NEW d \in Nat,
         \A id \in R : sv[id].bonded_stake \in Nat /\ position[id] \in Nat,
         NEW f, \A id \in R : f[id] = sv[id].bonded_stake,
         NEW t \in Nat, t = StakeSum(R, f), t > 0
  PROVE  LET w == ProportionalRewards(R, sv, t, d)
         IN  /\ w \in [R -> Nat]
             /\ StakeSum(R, w) = d
<1> DEFINE share == [id \in R |-> (sv[id].bonded_stake * d) \div t]
           last == CHOOSE id \in R : \A o \in R : position[o] <= position[id]
           O == R \ {last}
           w == ProportionalRewards(R, sv, t, d)
<1>1. R # {}
  BY StakeSumEmpty
<1>2. last \in R
  <2>1. \A id \in R : position[id] \in Nat
    OBVIOUS
  <2>2. \E id \in R : \A o \in R : position[o] <= position[id]
    BY <1>1, <2>1, HighestExists
  <2> QED BY <2>2
<1>3. ASSUME NEW id \in R
      PROVE  share[id] \in Nat /\ t * share[id] <= d * f[id] + 0
  <2>1. share[id] = (f[id] * d) \div t /\ f[id] \in Nat
    OBVIOUS
  <2>2. /\ (f[id] * d) \div t \in Nat
        /\ t * ((f[id] * d) \div t) <= d * f[id] + 0
    BY <2>1, ShareBelow, Zenon
  <2> HIDE DEF share
  <2> QED BY <2>1, <2>2, Zenon
<1>4. w = [id \in R |-> IF id = last THEN d - StakeSum(O, share) ELSE share[id]]
  BY DEF ProportionalRewards
<1> HIDE DEF share, last, w
<1>5. IsFiniteSet(O) /\ O \subseteq R /\ last \notin O
  BY FS_RemoveElement
<1>6. StakeSum(R, share) \in Nat /\ StakeSum(O, share) \in Nat
  BY <1>3, <1>5, StakeSumType
<1>7. StakeSum(O, share) <= d
  <2>1. StakeSum(O, share) <= StakeSum(R, share)
    BY <1>3, <1>5, StakeSumMonotone
  <2>2. t * StakeSum(R, share) <= d * t + 0 * Cardinality(R)
    <3>1. \A id \in R : f[id] \in Nat /\ share[id] \in Nat
      BY <1>3
    <3>2. \A id \in R : t * share[id] <= d * f[id] + 0
      BY <1>3
    <3>3. t * StakeSum(R, share) <= d * StakeSum(R, f) + 0 * Cardinality(R)
      BY <3>1, <3>2, StakeSumBound
    <3> QED BY <3>3
  <2>3. Cardinality(R) \in Nat
    BY FS_CardinalityType
  <2>4. ASSUME NEW x \in Nat, NEW c \in Nat, t * x <= d * t + 0 * c
        PROVE  x <= d
    <3>1. SUFFICES ASSUME x >= d + 1 PROVE FALSE
      BY <2>4
    <3>2. t * x >= t * (d + 1)
      BY <3>1
    <3>3. t * (d + 1) = d * t + t
      OBVIOUS
    <3> QED BY <2>4, <3>2, <3>3
  <2>5. StakeSum(R, share) <= d
    BY <1>6, <2>2, <2>3, <2>4
  <2> QED BY <1>6, <2>1, <2>5
<1>8. \A id \in R : w[id] = IF id = last THEN d - StakeSum(O, share) ELSE share[id]
  BY <1>4
<1>9. w \in [R -> Nat]
  BY <1>3, <1>4, <1>6, <1>7
<1>10. StakeSum(R, w) = w[last] + StakeSum(O, w)
  BY <1>2, <1>9, StakeSumSplit
<1>11. StakeSum(O, w) = StakeSum(O, share)
  <2>1. \A id \in O : w[id] = share[id]
    BY <1>5, <1>8
  <2> QED BY <2>1, StakeSumEqual
<1>12. w[last] = d - StakeSum(O, share)
  BY <1>2, <1>8
<1> QED
  BY <1>6, <1>9, <1>10, <1>11, <1>12 DEF w

\* Those who have nothing add nothing.
LEMMA StakeSumOutside ==
  ASSUME NEW A, NEW R \in SUBSET A, NEW f, \A id \in A \ R : f[id] = 0
  PROVE  StakeSum(A, f) = StakeSum(R, f)
<1>1. \A id \in A \ R : 1..f[id] = {}
  OBVIOUS
<1>2. StakeUnits(A, f) = StakeUnits(R, f)
  BY <1>1 DEF StakeUnits
<1> QED
  BY <1>2 DEF StakeSum

\* The bounties: nobody but the recipients gets one, and together they are the
\* distributed half whenever there is someone to reward.
LEMMA BountyAddsUp ==
  ASSUME RegistryInv, NEW id \in ValidatorIDs, NEW d \in Nat
  PROVE  LET R == Recipients(id)
             b == Bounty(id, d)
         IN  /\ b \in [ValidatorIDs -> Nat]
             /\ \A i \in ValidatorIDs \ R : b[i] = 0
             /\ StakeSum(R, MemberStake(set_validators)) > 0 => StakeSum(R, b) = d
<1> DEFINE R == Recipients(id)
           f == MemberStake(set_validators)
           t == StakeSum(R, f)
           w == ProportionalRewards(R, set_validators, t, d)
           b == Bounty(id, d)
<1>1. /\ R \subseteq ValidatorIDs /\ R \subseteq DOMAIN set_validators
      /\ IsFiniteSet(R)
  <2>1. R \subseteq DOMAIN set_validators /\ DOMAIN set_validators \subseteq ValidatorIDs
    BY DEF RegistryInv, TypeOK, Recipients, ActiveIn
  <2> QED BY <2>1, RegistryConstants, FS_Subset
<1>2. \A i \in R : /\ set_validators[i].bonded_stake \in Nat /\ position[i] \in Nat
                   /\ f[i] = set_validators[i].bonded_stake
  BY <1>1, EntryFields DEF RegistryInv, TypeOK, MemberStake
<1>3. t \in Nat
  BY <1>1, <1>2, StakeSumType
<1>4. b = [i \in ValidatorIDs |-> IF t > 0 /\ d > 0 /\ i \in R THEN w[i] ELSE 0]
  BY DEF Bounty
<1> HIDE DEF R, f
<1>5. t > 0 => w \in [R -> Nat] /\ StakeSum(R, w) = d
  BY <1>1, <1>2, <1>3, RewardsAddUp
<1> HIDE DEF t, w, b
<1>6. /\ b \in [ValidatorIDs -> Nat]
      /\ \A i \in ValidatorIDs \ R : b[i] = 0
  BY <1>4, <1>5
<1>7. ASSUME t > 0
      PROVE  StakeSum(R, b) = d
  <2>1. CASE d > 0
    <3>1. \A i \in R : b[i] = w[i]
      BY <1>1, <1>4, <1>7, <2>1
    <3> QED BY <1>5, <1>7, <3>1, StakeSumEqual
  <2>2. CASE d = 0
    <3>1. \A i \in R \ {} : b[i] = 0
      BY <1>1, <1>4, <2>2
    <3>2. StakeSum(R, b) = StakeSum({}, b)
      BY <3>1, StakeSumOutside
    <3> QED BY <2>2, <3>2, StakeSumEmpty
  <2> QED BY <2>1, <2>2
<1> QED
  BY <1>6, <1>7 DEF R, f, t, b

\* The stakes of the map through the three operations apply_slashing chains.
LEMMA BondedSum ==
  ASSUME NEW vals, vals \in [DOMAIN vals -> Validator], DOMAIN vals \subseteq ValidatorIDs,
         NEW b \in [ValidatorIDs -> Nat]
  PROVE  LET g == Bonded(vals, b)
         IN  StakeSum(DOMAIN vals, MemberStake(g))
               = StakeSum(DOMAIN vals, MemberStake(vals)) + StakeSum(DOMAIN vals, b)
<1> DEFINE V == DOMAIN vals
           g == Bonded(vals, b)
           f == MemberStake(vals)
           s == [i \in V |-> f[i] + b[i]]
<1>1. StakeAdded(vals, g, Validator, b)
  BY BondedKeeps, Zenon
<1>2. \A i \in V : f[i] \in Nat /\ b[i] \in Nat /\ f[i] = vals[i].bonded_stake
  BY EntryFields DEF MemberStake
<1>3. IsFiniteSet(V)
  BY RegistryConstants, FS_Subset
<1> HIDE DEF g, f
<1>4. \A i \in V : MemberStake(g)[i] = s[i]
  BY <1>1, <1>2 DEF StakeAdded, MemberStake
<1>5. StakeSum(V, MemberStake(g)) = StakeSum(V, s)
  <2> HIDE DEF V, s
  <2> QED BY <1>4, StakeSumEqual
<1>6. StakeSum(V, s) = StakeSum(V, f) + StakeSum(V, b)
  <2> HIDE DEF V
  <2> QED BY <1>2, <1>3, StakeSumAdd
<1> QED
  BY <1>5, <1>6 DEF f, g

LEMMA SlashedSum ==
  ASSUME NEW vals, vals \in [DOMAIN vals -> Validator], DOMAIN vals \subseteq ValidatorIDs,
         NEW id \in DOMAIN vals, NEW a \in Nat, a <= vals[id].bonded_stake
  PROVE  LET g == Slashed(vals, id, a)
         IN  /\ StakeSum(DOMAIN vals, MemberStake(g))
                  = StakeSum(DOMAIN vals, MemberStake(vals)) - a
             /\ a <= StakeSum(DOMAIN vals, MemberStake(vals))
             /\ StakeSum(DOMAIN vals, MemberStake(vals)) \in Nat
<1> DEFINE V == DOMAIN vals
           g == Slashed(vals, id, a)
           f == MemberStake(vals)
           h == MemberStake(g)
<1>1. StakeTaken(vals, g, Validator, id, a)
  BY SlashedKeeps, Zenon
<1>2. \A i \in V : f[i] \in Nat /\ f[i] = vals[i].bonded_stake
  BY EntryFields DEF MemberStake
<1>3. IsFiniteSet(V)
  BY RegistryConstants, FS_Subset
<1> HIDE DEF g
<1>4. \A i \in V : h[i] = IF i = id THEN Floored(f[i], a) ELSE f[i]
  BY <1>1, <1>2 DEF StakeTaken, MemberStake
<1> HIDE DEF h, f
<1>5. a <= f[id] /\ f[id] \in Nat /\ h[id] = f[id] - a
  BY <1>2, <1>4 DEF Floored
<1>6. \A i \in V : f[i] \in Nat /\ h[i] \in Nat
  BY <1>2, <1>4, <1>5
<1>7. \A i \in V \ {id} : f[i] = h[i]
  BY <1>4
<1>8. /\ StakeSum(V, h) = (StakeSum(V, f) - f[id]) + h[id]
      /\ f[id] <= StakeSum(V, f) /\ StakeSum(V, f) \in Nat
  <2>1. id \in V
    OBVIOUS
  <2> HIDE DEF V
  <2>2. /\ StakeSum(V, h) = (StakeSum(V, f) - f[id]) + h[id]
        /\ f[id] <= StakeSum(V, f)
    BY <1>3, <1>6, <1>7, <2>1, StakeSumChange
  <2>3. StakeSum(V, f) \in Nat
    BY <1>2, <1>3, StakeSumType
  <2> QED BY <2>2, <2>3
<1> QED
  BY <1>5, <1>8 DEF f, g, h

LEMMA UpdatedSum ==
  ASSUME NEW vals, vals \in [DOMAIN vals -> Validator],
         NEW id, NEW status \in {"Tombstoned", nullopt}
  PROVE  LET g == UpdatedCopy(vals, id, nullopt, status)
         IN  /\ \A i \in DOMAIN vals : g[i].bonded_stake = vals[i].bonded_stake
             /\ StakeSum(DOMAIN vals, MemberStake(g))
                  = StakeSum(DOMAIN vals, MemberStake(vals))
<1> DEFINE g == UpdatedCopy(vals, id, nullopt, status)
           V == DOMAIN vals
           f == MemberStake(vals)
           h == MemberStake(g)
<1>0. status \in Statuses \cup {nullopt} /\ nullopt \in ConsensusKeys \cup {nullopt}
  BY DEF Statuses
<1>1. EntryUpdated(vals, g, Validator, id, nullopt, status)
  BY <1>0, UpdatedKeeps, Zenon
<1> HIDE DEF g
<1>2. \A i \in V : g[i].bonded_stake = vals[i].bonded_stake
  BY <1>1 DEF EntryUpdated
<1>3. \A i \in V : h[i] = f[i]
  BY <1>1, <1>2 DEF EntryUpdated, MemberStake
<1> HIDE DEF f, h
<1>4. StakeSum(V, h) = StakeSum(V, f)
  <2> HIDE DEF V
  <2> QED BY <1>3, StakeSumEqual
<1> QED
  BY <1>2, <1>4 DEF f, g, h

\* What apply_slashing does with a positive penalty: the registry's invariant
\* is kept through bounties, slash and tombstone; the map's stakes change by
\* the bounties and the penalty, the supply by the burnt half.
LEMMA PenaltyOutcome ==
  ASSUME SlashInv, NEW e \in events, ApplyPenalty(e),
         UNCHANGED <<epoch, position, unbonding_requests, height>>
  PROVE  /\ RegistryInv'
         /\ DOMAIN validators' = ValidatorIDs
         /\ total_supply' \in 0..InitialSupply
         /\ \E penalty \in Nat :
              /\ total_supply' = Floored(total_supply, penalty \div 2)
              /\ penalty <= StakeSum(ValidatorIDs, MemberStake(validators))
              /\ StakeSum(ValidatorIDs, MemberStake(validators)) \in Nat
              /\ StakeSum(Recipients(e.validator_id), MemberStake(set_validators)) > 0 =>
                   StakeSum(ValidatorIDs, MemberStake(validators'))
                     = StakeSum(ValidatorIDs, MemberStake(validators)) - penalty \div 2
         /\ \A i \in ValidatorIDs \ {e.validator_id} :
              validators'[i].bonded_stake >= validators[i].bonded_stake
<1>1. PICK id \in ValidatorIDs : id = e.validator_id
  BY DEF SlashInv, SlashingEvents
<1>2. /\ e.penalty_amount \in Nat /\ id \in DOMAIN validators
      /\ DOMAIN validators = ValidatorIDs /\ validators \in [ValidatorIDs -> Validator]
      /\ total_supply \in Nat /\ total_supply <= InitialSupply
      /\ RegistryInv
  BY SlashingConstants DEF SlashInv, SlashingEvents, RegistryInv, TypeOK
<1>3. \A i \in ValidatorIDs : validators[i].bonded_stake \in Nat
  BY <1>2, EntryFields
<1>4. PICK penalty \in Nat : /\ penalty = ActualSlash(validators, id, e.penalty_amount)
                             /\ penalty <= validators[id].bonded_stake
  BY <1>2, <1>3 DEF ActualSlash
<1>5. PICK d \in Nat : d = penalty - penalty \div 2
  BY <1>4
<1>6. PICK b : b = Bounty(id, d)
  OBVIOUS
<1>7. PICK status \in {"Tombstoned", nullopt} :
        status = IF e.reason \in SafetyViolations THEN "Tombstoned" ELSE nullopt
  OBVIOUS
<1> DEFINE R == Recipients(id)
           A == ActiveIn(set_validators)
           N(f) == StakeSum(ValidatorIDs, MemberStake(f))
<1>8. PICK vals1, sv1, total1 :
        /\ vals1 = Bonded(validators, b) /\ sv1 = Bonded(set_validators, b)
        /\ total1 = total_stake + StakeSum(R, b)
  OBVIOUS
<1>9. PICK vals2, sv2, total2 :
        /\ vals2 = Slashed(vals1, id, penalty) /\ sv2 = Slashed(sv1, id, penalty)
        /\ total2 = SlashedTotal(sv1, total1, id, penalty)
  OBVIOUS
<1>10. /\ validators' = UpdatedCopy(vals2, id, nullopt, status)
       /\ set_validators' = UpdatedCopy(sv2, id, nullopt, status)
       /\ total_stake' = UpdatedTotal(sv2, total2, id, status)
       /\ total_supply' = Floored(total_supply, penalty \div 2)
  BY <1>1, <1>4, <1>5, <1>6, <1>7, <1>8, <1>9 DEF ApplyPenalty
<1>11. /\ b \in [ValidatorIDs -> Nat]
       /\ \A i \in ValidatorIDs \ R : b[i] = 0
       /\ StakeSum(R, MemberStake(set_validators)) > 0 => StakeSum(R, b) = d
  BY <1>2, <1>6, BountyAddsUp
<1>12. R \subseteq A /\ A \subseteq ValidatorIDs /\ id \notin R
  BY <1>2 DEF Recipients, ActiveIn, RegistryInv, TypeOK
<1>13. StakeSum(A, b) = StakeSum(R, b) /\ StakeSum(ValidatorIDs, b) = StakeSum(R, b)
  <2> HIDE DEF R, A
  <2>1. \A i \in A \ R : b[i] = 0
    BY <1>11, <1>12
  <2>2. StakeSum(A, b) = StakeSum(R, b)
    BY <1>12, <2>1, StakeSumOutside
  <2>3. R \in SUBSET ValidatorIDs
    BY <1>12
  <2>4. StakeSum(ValidatorIDs, b) = StakeSum(R, b)
    BY <1>11, <2>3, StakeSumOutside
  <2> QED BY <2>2, <2>4
<1> HIDE DEF R
\* the invariant
<1>14. CopiesAgree(vals1, sv1, total1) /\ ActiveIn(sv1) = A
  <2>1. CopiesAgree(validators, set_validators, total_stake)
    BY <1>2, InvGivesCopies
  <2> QED BY <1>8, <1>11, <1>13, <2>1, BondCopies
<1>15. /\ StakeAdded(validators, vals1, Validator, b)
       /\ vals1 \in [ValidatorIDs -> Validator] /\ DOMAIN vals1 = ValidatorIDs
       /\ \A i \in ValidatorIDs :
            vals1[i].bonded_stake = validators[i].bonded_stake + b[i]
  <2>1. StakeAdded(validators, vals1, Validator, b)
    BY <1>2, <1>8, <1>11, BondedKeeps
  <2> QED BY <1>2, <2>1 DEF StakeAdded
<1>16. vals1[id].bonded_stake = validators[id].bonded_stake
  BY <1>3, <1>11, <1>12, <1>15
<1>17. CopiesAgree(vals2, sv2, total2) /\ ActiveIn(sv2) = A
  BY <1>4, <1>9, <1>14, <1>15, <1>16, SlashCopies
<1>18. /\ vals2 \in [ValidatorIDs -> Validator] /\ DOMAIN vals2 = ValidatorIDs
       /\ \A i \in ValidatorIDs \ {id} :
            vals2[i].bonded_stake = vals1[i].bonded_stake
  <2>1. StakeTaken(vals1, vals2, Validator, id, penalty)
    BY <1>9, <1>15, SlashedKeeps
  <2> QED BY <1>15, <2>1 DEF StakeTaken
<1>19. /\ CopiesAgree(validators', set_validators', total_stake')
       /\ ActiveIn(set_validators') \subseteq A
  <2>1. nullopt \in ConsensusKeys \cup {nullopt}
    OBVIOUS
  <2> QED BY <1>7, <1>10, <1>17, <2>1, UpdateCopies
<1>20. /\ DOMAIN validators' = ValidatorIDs /\ validators' \in [ValidatorIDs -> Validator]
       /\ DOMAIN set_validators' = DOMAIN set_validators
  <2>1. DOMAIN validators' = DOMAIN vals2 /\ DOMAIN set_validators' = DOMAIN sv2
    BY <1>10 DEF UpdatedCopy
  <2>2. DOMAIN sv2 = DOMAIN set_validators
    BY <1>8, <1>9 DEF Slashed, Bonded
  <2> QED BY <1>18, <1>19, <2>1, <2>2 DEF CopiesAgree
<1>21. RegistryInv'
  <2>1. SetTotalStake' /\ SetLagsSafely'
    BY <1>19, CopiesGiveInv
  <2>2. IsFiniteSet(A) /\ total_stake' \in Nat
    <3>1. IsFiniteSet(A)
      BY <1>12, RegistryConstants, FS_Subset
    <3>2. /\ set_validators' \in [DOMAIN set_validators' -> Member]
          /\ DOMAIN set_validators' \subseteq ValidatorIDs
          /\ total_stake' = StakeSum(ActiveIn(set_validators'), MemberStake(set_validators'))
      BY <1>19 DEF CopiesAgree
    <3> QED BY <3>1, <3>2, ActiveMembers
  <2>3. TypeOK'
    BY <1>2, <1>19, <1>20, <2>2 DEF TypeOK, RegistryInv, CopiesAgree
  <2>4. ActiveSetBounded'
    <3> DEFINE B == ActiveIn(set_validators')
    <3>1. /\ Cardinality(A) <= active_validator_count
          /\ active_validator_count \in Nat
      BY <1>2, RegistryConstants DEF RegistryInv, ActiveSetBounded
    <3>2. /\ Cardinality(B) <= Cardinality(A)
          /\ Cardinality(A) \in Nat /\ Cardinality(B) \in Nat
      <4> HIDE DEF A, B
      <4>1. B \subseteq A
        BY <1>19 DEF B
      <4> QED BY <2>2, <4>1, FS_Subset, FS_CardinalityType
    <3> QED BY <3>1, <3>2 DEF ActiveSetBounded
  <2> QED BY <2>1, <2>3, <2>4 DEF RegistryInv
\* the supply and the stakes
<1>22. total_supply' \in 0..InitialSupply
  <2>1. penalty \div 2 \in Nat /\ InitialSupply \in Nat
    BY SlashingConstants
  <2> QED BY <1>2, <1>10, <2>1 DEF Floored
<1>23. N(vals1) = N(validators) + StakeSum(ValidatorIDs, b)
  BY <1>2, <1>8, <1>11, BondedSum
<1>24. N(vals2) = N(vals1) - penalty
  BY <1>4, <1>9, <1>15, <1>16, SlashedSum
<1>25. penalty <= N(validators) /\ N(validators) \in Nat
  BY <1>2, <1>4, SlashedSum
<1>26. /\ N(validators') = N(vals2)
       /\ \A i \in ValidatorIDs : validators'[i].bonded_stake = vals2[i].bonded_stake
  BY <1>10, <1>18, UpdatedSum
<1>27. ASSUME StakeSum(R, MemberStake(set_validators)) > 0
       PROVE  N(validators') = N(validators) - penalty \div 2
  <2>1. StakeSum(ValidatorIDs, b) = d
    BY <1>11, <1>13, <1>27
  <2> HIDE DEF N
  <2> QED BY <1>5, <1>23, <1>24, <1>25, <1>26, <2>1
<1>28. ASSUME NEW i \in ValidatorIDs \ {id}
       PROVE  validators'[i].bonded_stake >= validators[i].bonded_stake
  <2>1. validators'[i].bonded_stake = validators[i].bonded_stake + b[i]
    BY <1>15, <1>18, <1>26
  <2>2. validators[i].bonded_stake \in Nat /\ b[i] \in Nat
    BY <1>3, <1>11
  <2> QED BY <2>1, <2>2
<1> QED
  BY <1>1, <1>10, <1>20, <1>21, <1>22, <1>25, <1>27, <1>28 DEF R

-----------------------------------------------------------------------------
(* The invariant *)

LEMMA SlashInit ==
  ASSUME SlashingInit
  PROVE  SlashInv
<1> DEFINE G == GenesisValidators
           w == ElectedMap(G, 1)
           sv == AsMembers(w)
<1>1. DOMAIN G = ValidatorIDs /\ G \in [DOMAIN G -> Validator]
  <2>1. ASSUME NEW id \in ValidatorIDs
        PROVE  G[id] \in Validator
    <3>1. InitialKey[id] \in ConsensusKeys /\ InitialStake[id] \in Nat
      BY SlashingConstants
    <3> QED BY <3>1 DEF GenesisValidators, Validator, Statuses
  <2>2. DOMAIN G = ValidatorIDs /\ G = [id \in ValidatorIDs |-> G[id]]
    BY DEF GenesisValidators
  <2> HIDE DEF G
  <2> QED BY <2>1, <2>2
<1>2. /\ validators = w /\ set_validators = sv /\ epoch = 1
      /\ position = [id \in ValidatorIDs |-> Rank(G, id)]
      /\ total_stake = StakeSum(ActiveIn(sv), MemberStake(sv))
      /\ unbonding_requests = << >> /\ height = 0
  BY DEF SlashingInit
<1> HIDE DEF G
<1>3. /\ CopiesAgree(w, sv, StakeSum(ActiveIn(sv), MemberStake(sv)))
      /\ DOMAIN w = DOMAIN G /\ DOMAIN sv = DOMAIN G
      /\ Cardinality(ActiveIn(sv)) <= active_validator_count
  BY <1>1, ElectionCopies
<1>4. \A id \in ValidatorIDs : Rank(G, id) \in Nat
  BY <1>1, RegistryConstants, RankType
<1> HIDE DEF w, sv
<1>5. total_stake \in Nat
  BY <1>1, <1>2, <1>3, ActiveMembers DEF CopiesAgree
<1>6. TypeOK
  BY <1>1, <1>2, <1>3, <1>4, <1>5 DEF TypeOK, CopiesAgree
<1>7. RegistryInv
  BY <1>2, <1>3, <1>6 DEF RegistryInv, CopiesAgree, SetTotalStake, SetLagsSafely,
                          ActiveSetBounded
<1>8. Histories
  <2>1. \A D : << >> \in Seq(D) /\ Len(<< >>) = 0
    OBVIOUS
  <2> QED BY <2>1, SlashingConstants DEF SlashingInit, Histories
<1> QED
  BY <1>1, <1>2, <1>3, <1>7, <1>8, SlashingConstants
     DEF SlashInv, SlashingInit, HonestSignersNotReported

\* The registry's own operations, whatever update_validator's callers do.
LEMMA RegistryStepKeeps ==
  ASSUME SlashInv, RegistryStep
  PROVE  SlashInv'
<1>1. /\ RegistryInv /\ TypeOK /\ DOMAIN validators = ValidatorIDs
      /\ UNCHANGED slashingVars
  BY DEF SlashInv, RegistryInv, RegistryStep
<1>2. /\ total_supply' = total_supply /\ signature_history' = signature_history
      /\ vote_history' = vote_history /\ events' = events
  BY <1>1 DEF slashingVars, detectorVars
<1>3. TypeOK'
  <2>1. Next
    BY DEF RegistryStep, Next
  <2> QED BY <1>1, <2>1, TypeStep
<1>4. RegistryInv' /\ DOMAIN validators' = ValidatorIDs
  <2>1. ASSUME NEW id \in ValidatorIDs, NEW amount \in Amounts, BondStake(id, amount)
        PROVE  RegistryInv' /\ DOMAIN validators' = ValidatorIDs
    <3>1. /\ SetTotalStake' /\ SetLagsSafely'
          /\ ActiveIn(set_validators') = ActiveIn(set_validators)
      BY <1>1, <2>1, BondKeeps
    <3>2. DOMAIN validators' = ValidatorIDs
      BY <1>1, <2>1 DEF BondStake, Bonded
    <3> QED BY <1>1, <1>3, <3>1, <3>2 DEF RegistryInv, ActiveSetBounded
  <2>2. ASSUME NEW id \in ValidatorIDs, NEW amount \in Amounts, UnbondStake(id, amount)
        PROVE  RegistryInv' /\ DOMAIN validators' = ValidatorIDs
    <3>1. LowersMap
      BY <1>1, <2>2, MapOnlyLowers
    <3>2. SetTotalStake' /\ SetLagsSafely' /\ ActiveSetBounded'
      BY <1>1, <1>3, <3>1, LowersMapKeeps
    <3>3. DOMAIN validators' = ValidatorIDs
      BY <1>1, <2>2 DEF UnbondStake
    <3> QED BY <1>3, <3>2, <3>3 DEF RegistryInv
  <2>3. ASSUME NEW n \in EpochLengths, TransitionEpoch(n)
        PROVE  RegistryInv' /\ DOMAIN validators' = ValidatorIDs
    <3>1. SetTotalStake' /\ SetLagsSafely' /\ ActiveSetBounded'
      BY <1>1, <2>3, TransitionKeeps
    <3>2. DOMAIN validators' = DOMAIN RankedMap(epoch + 1, n)
      BY <2>3 DEF TransitionEpoch, ElectedMap
    <3>3. n \in Nat
      BY RegistryConstants
    <3>4. DOMAIN RankedMap(epoch + 1, n) = ValidatorIDs
      BY <1>1, <3>3, RankedMapKeeps
    <3> QED BY <1>3, <3>1, <3>2, <3>4 DEF RegistryInv
  <2> QED BY <2>1, <2>2, <2>3 DEF RegistryStep
<1> QED
  BY <1>2, <1>4 DEF SlashInv, Histories, HonestSignersNotReported

\* The detector's bookkeeping keeps the histories in bounds.
LEMMA HistoryStepKeeps ==
  ASSUME SlashInv, UNCHANGED <<registryVars, total_supply, events>>, Histories'
  PROVE  SlashInv'
<1>1. UNCHANGED registryVars
  OBVIOUS
<1>2. RegistryInv' /\ DOMAIN validators' = ValidatorIDs
  BY <1>1 DEF SlashInv, RegistryInv, registryVars, setVars, TypeOK, SetTotalStake,
              SetLagsSafely, ActiveSetBounded
<1> QED
  BY <1>2 DEF SlashInv, HonestSignersNotReported

LEMMA RecordStepKeeps ==
  ASSUME SlashInv, NEW id \in ValidatorIDs, NEW hash \in BlockHashes,
         \/ RecordSignatureOf(id, hash)
         \/ \E view \in Views : RecordVoteOf(id, hash, view)
  PROVE  SlashInv'
<1>1. Histories
  BY DEF SlashInv
<1>2. CASE RecordSignatureOf(id, hash)
  <2> DEFINE r == [block_height |-> hash[1], block_hash |-> hash]
             s == signature_history[id]
  <2>1. /\ r \in SignatureRecords(id)
        /\ s \in Seq(SignatureRecords(id)) /\ Len(s) <= max_signature_history
    BY <1>1, <1>2 DEF RecordSignatureOf, SignatureRecords, Signed, Histories
  <2>2. /\ signature_history' = [signature_history EXCEPT ![id] = Recorded(s, r)]
        /\ vote_history' = vote_history
        /\ UNCHANGED <<registryVars, total_supply, events>>
    BY <1>2 DEF RecordSignatureOf
  <2> HIDE DEF r, s
  <2>3. /\ Recorded(s, r) \in Seq(SignatureRecords(id))
        /\ Len(Recorded(s, r)) <= max_signature_history
    BY <2>1, RecordedKeeps
  <2>4. Histories'
    BY <1>1, <2>2, <2>3 DEF Histories
  <2> QED BY <2>2, <2>4, HistoryStepKeeps
<1>3. ASSUME NEW view \in Views, RecordVoteOf(id, hash, view)
      PROVE  SlashInv'
  <2> DEFINE r == [block_height |-> hash[1], block_hash |-> hash, view_number |-> view]
             s == vote_history[id]
  <2>1. /\ r \in VoteRecords(id)
        /\ s \in Seq(VoteRecords(id)) /\ Len(s) <= max_signature_history
    BY <1>1, <1>3 DEF RecordVoteOf, VoteRecords, Signed, Histories
  <2>2. /\ vote_history' = [vote_history EXCEPT ![id] = Recorded(s, r)]
        /\ signature_history' = signature_history
        /\ UNCHANGED <<registryVars, total_supply, events>>
    BY <1>3 DEF RecordVoteOf
  <2> HIDE DEF r, s
  <2>3. /\ Recorded(s, r) \in Seq(VoteRecords(id))
        /\ Len(Recorded(s, r)) <= max_signature_history
    BY <2>1, RecordedKeeps
  <2>4. Histories'
    BY <1>1, <2>2, <2>3 DEF Histories
  <2> QED BY <2>2, <2>4, HistoryStepKeeps
<1> QED
  BY <1>2, <1>3

LEMMA PruneStepKeeps ==
  ASSUME SlashInv, NEW h \in Heights, NEW r \in Retentions,
         PruneOldSignatures(h, r) \/ PruneOldVotes(h, r)
  PROVE  SlashInv'
<1>1. Histories /\ h \in Nat /\ r \in Nat /\ max_signature_history \in Nat
  BY SlashingConstants DEF SlashInv
<1>2. CASE PruneOldSignatures(h, r)
  <2>1. /\ signature_history' =
             [id \in ValidatorIDs |-> Pruned(signature_history[id], h, r)]
        /\ vote_history' = vote_history
        /\ UNCHANGED <<registryVars, total_supply, events>>
    BY <1>2 DEF PruneOldSignatures
  <2>2. ASSUME NEW id \in ValidatorIDs
        PROVE  /\ Pruned(signature_history[id], h, r) \in Seq(SignatureRecords(id))
               /\ Len(Pruned(signature_history[id], h, r)) <= max_signature_history
    <3>1. /\ signature_history[id] \in Seq(SignatureRecords(id))
          /\ Len(signature_history[id]) <= max_signature_history
      BY <1>1 DEF Histories
    <3>2. \A x \in SignatureRecords(id) : x.block_height \in Nat
      BY RecordTypes
    <3>3. /\ Pruned(signature_history[id], h, r) \in Seq(SignatureRecords(id))
          /\ Len(Pruned(signature_history[id], h, r)) <= Len(signature_history[id])
      BY <1>1, <3>1, <3>2, PrunedKeeps
    <3> QED BY <1>1, <3>1, <3>3
  <2>3. Histories'
    BY <1>1, <2>1, <2>2 DEF Histories
  <2> QED BY <2>1, <2>3, HistoryStepKeeps
<1>3. CASE PruneOldVotes(h, r)
  <2>1. /\ vote_history' = [id \in ValidatorIDs |-> Pruned(vote_history[id], h, r)]
        /\ signature_history' = signature_history
        /\ UNCHANGED <<registryVars, total_supply, events>>
    BY <1>3 DEF PruneOldVotes
  <2>2. ASSUME NEW id \in ValidatorIDs
        PROVE  /\ Pruned(vote_history[id], h, r) \in Seq(VoteRecords(id))
               /\ Len(Pruned(vote_history[id], h, r)) <= max_signature_history
    <3>1. /\ vote_history[id] \in Seq(VoteRecords(id))
          /\ Len(vote_history[id]) <= max_signature_history
      BY <1>1 DEF Histories
    <3>2. \A x \in VoteRecords(id) : x.block_height \in Nat
      BY RecordTypes
    <3>3. /\ Pruned(vote_history[id], h, r) \in Seq(VoteRecords(id))
          /\ Len(Pruned(vote_history[id], h, r)) <= Len(vote_history[id])
      BY <1>1, <3>1, <3>2, PrunedKeeps
    <3> QED BY <1>1, <3>1, <3>3
  <2>3. Histories'
    BY <1>1, <2>1, <2>2 DEF Histories
  <2> QED BY <2>1, <2>3, HistoryStepKeeps
<1> QED
  BY <1>2, <1>3

LEMMA PenaltyType ==
  ASSUME NEW s \in Nat, NEW t \in Nat, NEW v \in Nat
  PROVE  CalculatePenalty(s, t, v) \in Nat
<1> DEFINE n == s * s * (5 * t + 50 * v)
           m == 100 * t * t
<1>1. CASE t = 0 \/ s = 0
  BY <1>1 DEF CalculatePenalty
<1>2. CASE ~(t = 0 \/ s = 0)
  <2>1. n \in Nat /\ m \in Nat /\ m > 0
    <3>1. s * s \in Nat /\ 5 * t + 50 * v \in Nat /\ t * t \in Nat /\ t * t > 0
      BY <1>2
    <3>2. \A a, b \in Nat : a * b \in Nat
      OBVIOUS
    <3>3. m = 100 * (t * t)
      OBVIOUS
    <3> QED BY <3>1, <3>2, <3>3
  <2>2. CalculatePenalty(s, t, v) = IF n \div m > s THEN s ELSE n \div m
    BY <1>2 DEF CalculatePenalty
  <2> HIDE DEF n, m
  <2>3. n \div m \in Nat
    BY <2>1
  <2> QED BY <2>2, <2>3
<1> QED
  BY <1>1, <1>2

LEMMA ReportKeeps ==
  ASSUME SlashInv, NEW id \in ValidatorIDs, NEW reason \in SafetyViolations,
         Report(id, reason)
  PROVE  SlashInv'
<1> DEFINE W == Violators(reason)
           p == CalculatePenalty(MapStake[id], total_stake, StakeSum(W, MapStake))
           e == [validator_id |-> id, reason |-> reason, penalty_amount |-> p]
<1>1. /\ events' = events \cup {e} /\ id \in W
      /\ UNCHANGED <<registryVars, total_supply, signature_history, vote_history>>
  BY DEF Report
<1>2. p \in Nat
  <2>1. W \subseteq ValidatorIDs /\ IsFiniteSet(W) /\ id \in ValidatorIDs
    <3>1. W \subseteq ValidatorIDs
      BY DEF Violators, SlashInv
    <3> QED BY <3>1, RegistryConstants, FS_Subset
  <2>2. \A i \in ValidatorIDs : MapStake[i] \in Nat
    BY EntryFields DEF SlashInv, RegistryInv, TypeOK, MapStake
  <2>3. total_stake \in Nat
    BY DEF SlashInv, RegistryInv, TypeOK
  <2>4. StakeSum(W, MapStake) \in Nat
    <3> HIDE DEF W
    <3> QED BY <2>1, <2>2, StakeSumType
  <2> HIDE DEF W
  <2>5. MapStake[id] \in Nat
    BY <2>1, <2>2
  <2> QED BY <2>3, <2>4, <2>5, PenaltyType
<1> HIDE DEF p
<1>3. e \in SlashingEvents /\ e.reason = reason /\ e.validator_id = id
  BY <1>2 DEF SlashingEvents
<1>4. reason = "DoubleSign" => id \in Offenders
  BY <1>1, HonestNotViolator DEF SlashInv
<1> HIDE DEF e
<1>5. events' \subseteq SlashingEvents /\ HonestSignersNotReported'
  BY <1>1, <1>3, <1>4 DEF SlashInv, HonestSignersNotReported
<1>6. RegistryInv' /\ DOMAIN validators' = ValidatorIDs
  <2>1. UNCHANGED registryVars
    BY <1>1
  <2> QED BY <2>1 DEF SlashInv, RegistryInv, registryVars, setVars, TypeOK,
                      SetTotalStake, SetLagsSafely, ActiveSetBounded
<1>7. Histories' /\ total_supply' \in 0..InitialSupply
  BY <1>1 DEF SlashInv, Histories
<1> QED
  BY <1>5, <1>6, <1>7 DEF SlashInv

LEMMA ApplyKeeps ==
  ASSUME SlashInv, NEW e \in events, ApplySlashing(e)
  PROVE  SlashInv'
<1>1. /\ events' = events \ {e}
      /\ UNCHANGED <<epoch, position, unbonding_requests, height>>
      /\ signature_history' = signature_history /\ vote_history' = vote_history
  BY DEF ApplySlashing
<1>2. /\ RegistryInv' /\ DOMAIN validators' = ValidatorIDs
      /\ total_supply' \in 0..InitialSupply
  <2>1. CASE e.penalty_amount = 0
    <3>1. UNCHANGED <<validators, set_validators, total_stake, total_supply>>
      BY <2>1 DEF ApplySlashing
    <3> QED BY <1>1, <3>1 DEF SlashInv, RegistryInv, registryVars, setVars, TypeOK,
                              SetTotalStake, SetLagsSafely, ActiveSetBounded
  <2>2. CASE e.penalty_amount # 0
    <3>1. ApplyPenalty(e)
      BY <2>2 DEF ApplySlashing
    <3> QED BY <1>1, <3>1, PenaltyOutcome
  <2> QED BY <2>1, <2>2
<1>3. events' \subseteq SlashingEvents /\ HonestSignersNotReported'
  BY <1>1 DEF SlashInv, HonestSignersNotReported
<1> QED
  BY <1>1, <1>2, <1>3 DEF SlashInv, Histories

LEMMA SlashStep ==
  ASSUME SlashInv, [SlashingNext]_vars
  PROVE  SlashInv'
<1>1. CASE UNCHANGED vars
  <2>1. UNCHANGED <<registryVars, total_supply, events>> /\ Histories'
    BY <1>1 DEF vars, slashingVars, detectorVars, SlashInv, Histories
  <2> QED BY <2>1, HistoryStepKeeps
<1>2. CASE SlashingNext
  BY <1>2, RecordStepKeeps, PruneStepKeeps, ReportKeeps, ApplyKeeps, RegistryStepKeeps
     DEF SlashingNext
<1> QED
  BY <1>1, <1>2

-----------------------------------------------------------------------------
(* The theorems *)

\* For every configuration: the registry's total, the lag of the set's copy and
\* the bound on the active set survive apply_slashing, the histories stay
\* within max_signature_history and the supply never grows.
THEOREM SlashingTypes ==
  SlashingSpec => [](SlashingTypeOK /\ SetTotalStake /\ SetLagsSafely /\ ActiveSetBounded)
<1>1. SlashingInit => SlashInv
  BY SlashInit
<1>2. SlashInv /\ [SlashingNext]_vars => SlashInv'
  BY SlashStep
<1>3. SlashInv => SlashingTypeOK /\ SetTotalStake /\ SetLagsSafely /\ ActiveSetBounded
  BY DEF SlashInv, RegistryInv, Histories, SlashingTypeOK, SlashingEvents
<1> QED
  BY <1>1, <1>2, <1>3, PTL DEF SlashingSpec

\* For every configuration, and however the histories were trimmed and pruned,
\* nobody who signs one block per height is reported for double-signing.
THEOREM HonestSafe ==
  SlashingSpec => []HonestSignersNotReported
<1>1. SlashingInit => SlashInv
  BY SlashInit
<1>2. SlashInv /\ [SlashingNext]_vars => SlashInv'
  BY SlashStep
<1>3. SlashInv => HonestSignersNotReported
  BY DEF SlashInv
<1> QED
  BY <1>1, <1>2, <1>3, PTL DEF SlashingSpec

\* The bonded stake is part of the supply: what the ledger that passes the
\* supply to apply_slashing provides.
StakeBacked == StakeSum(DOMAIN validators, MapStake) <= total_supply

LEMMA ConservesStep ==
  ASSUME SlashInv, StakeBacked, NEW e \in events, ApplySlashing(e),
         StakeSum(Recipients(e.validator_id), MemberStake(set_validators)) > 0
  PROVE  /\ StakeSum(DOMAIN validators, MapStake)
              - StakeSum(DOMAIN validators', MapStake')
                = total_supply - total_supply'
         /\ \A id \in DOMAIN validators \ {e.validator_id} :
              validators'[id].bonded_stake >= validators[id].bonded_stake
<1>1. /\ DOMAIN validators = ValidatorIDs /\ MapStake = MemberStake(validators)
      /\ total_supply \in Nat
  BY SlashingConstants DEF SlashInv, MapStake, MemberStake
<1>2. MapStake' = MemberStake(validators')
  BY DEF MapStake, MemberStake
<1>3. \A id \in ValidatorIDs : validators[id].bonded_stake \in Nat
  BY EntryFields DEF SlashInv, RegistryInv, TypeOK
<1>4. StakeSum(DOMAIN validators, MapStake) \in Nat
  BY <1>1, <1>3, RegistryConstants, StakeSumType DEF MapStake
<1>5. CASE e.penalty_amount = 0
  <2>1. validators' = validators /\ total_supply' = total_supply
    BY <1>5 DEF ApplySlashing
  <2>2. MapStake' = MapStake /\ DOMAIN validators' = DOMAIN validators
    BY <1>1, <1>2, <2>1
  <2> QED BY <1>1, <1>3, <1>4, <2>1, <2>2
<1>6. CASE e.penalty_amount # 0
  <2>1. ApplyPenalty(e) /\ UNCHANGED <<epoch, position, unbonding_requests, height>>
    BY <1>6 DEF ApplySlashing
  <2> DEFINE N == StakeSum(ValidatorIDs, MemberStake(validators))
             M == StakeSum(ValidatorIDs, MemberStake(validators'))
  <2>2. PICK penalty \in Nat :
          /\ total_supply' = Floored(total_supply, penalty \div 2)
          /\ penalty <= N /\ N \in Nat
          /\ M = N - penalty \div 2
    BY <2>1, PenaltyOutcome
  <2>3. DOMAIN validators' = ValidatorIDs
        /\ \A i \in ValidatorIDs \ {e.validator_id} :
             validators'[i].bonded_stake >= validators[i].bonded_stake
    BY <2>1, PenaltyOutcome
  <2>4. N <= total_supply
    BY <1>1 DEF StakeBacked
  <2> HIDE DEF N, M
  <2>5. PICK b \in Nat : b = penalty \div 2 /\ b <= penalty
    OBVIOUS
  <2>6. M = N - b /\ total_supply' = total_supply - b
    BY <1>1, <2>2, <2>4, <2>5 DEF Floored
  <2>7. N - M = total_supply - total_supply'
    BY <1>1, <2>2, <2>6
  <2> QED BY <1>1, <1>2, <2>3, <2>7 DEF N, M
<1> QED
  BY <1>5, <1>6

\* For every configuration in which the bonded stake is part of the supply,
\* apply_slashing neither makes nor loses a unit while there is someone to
\* reward: the bounties are the distributed half to the last unit, the rest is
\* burnt, and nobody but the slashed validator loses stake.
THEOREM SlashingConserves ==
  SlashingSpec /\ []StakeBacked => SlashConserves
<1>1. SlashingInit => SlashInv
  BY SlashInit
<1>2. SlashInv /\ [SlashingNext]_vars => SlashInv'
  BY SlashStep
<1> DEFINE C == \A e \in events :
                  /\ ApplySlashing(e)
                  /\ StakeSum(Recipients(e.validator_id), MemberStake(set_validators)) > 0
                  => /\ StakeSum(DOMAIN validators, MapStake)
                          - StakeSum(DOMAIN validators', MapStake')
                            = total_supply - total_supply'
                     /\ \A id \in DOMAIN validators \ {e.validator_id} :
                          validators'[id].bonded_stake >= validators[id].bonded_stake
<1>3. SlashInv /\ StakeBacked => C
  BY ConservesStep
<1>4. [](SlashInv /\ StakeBacked) => [][C]_vars
  BY <1>3, PTL
<1> QED
  BY <1>1, <1>2, <1>4, PTL DEF SlashingSpec, SlashConserves

\* A signature on record stays there under append, and under pruning while the
\* retention covers it.
LEMMA ViolatorStays ==
  ASSUME SlashInv, DOMAIN validators' = ValidatorIDs, NEW id \in ValidatorIDs,
         NEW i \in DOMAIN signature_history[id], NEW j \in DOMAIN signature_history[id],
         DoubleSigned(signature_history[id][i], signature_history[id][j]),
         NEW k \in DOMAIN signature_history'[id], NEW l \in DOMAIN signature_history'[id],
         signature_history'[id][k] = signature_history[id][i],
         signature_history'[id][l] = signature_history[id][j]
  PROVE  id \in Violators("DoubleSign")'
<1>1. DoubleSigned(signature_history'[id][k], signature_history'[id][l])
  OBVIOUS
<1> QED
  BY <1>1 DEF Violators

LEMMA EvidenceStep ==
  ASSUME SlashInv, SlashInv', [SlashingNext]_vars, NEW id \in Violators("DoubleSign")
  PROVE  \/ id \in Violators("DoubleSign")'
         \/ /\ Len(signature_history[id]) = max_signature_history
            /\ Len(signature_history'[id]) = max_signature_history
         \/ \E h \in Heights, r \in Retentions :
              /\ PruneOldSignatures(h, r)
              /\ \A i, j \in DOMAIN signature_history[id] :
                   DoubleSigned(signature_history[id][i], signature_history[id][j])
                     => signature_history[id][i].block_height + r < h
<1> DEFINE s == signature_history[id]
           D == SignatureRecords(id)
<1>1. /\ id \in ValidatorIDs /\ DOMAIN validators' = ValidatorIDs
      /\ s \in Seq(D) /\ Len(s) <= max_signature_history
      /\ DOMAIN signature_history = ValidatorIDs
      /\ DOMAIN s = 1..Len(s)
  BY DEF Violators, SlashInv, Histories
<1>2. PICK i \in DOMAIN s, j \in DOMAIN s : DoubleSigned(s[i], s[j])
  BY DEF Violators
<1>3. CASE signature_history' = signature_history
  <2>1. signature_history'[id] = s
    BY <1>3
  <2> QED BY <1>1, <1>2, <2>1, ViolatorStays
<1>4. ASSUME NEW x \in ValidatorIDs, NEW hash \in BlockHashes, RecordSignatureOf(x, hash)
      PROVE  \/ id \in Violators("DoubleSign")'
             \/ /\ Len(signature_history[id]) = max_signature_history
                /\ Len(signature_history'[id]) = max_signature_history
  <2> DEFINE r == [block_height |-> hash[1], block_hash |-> hash]
  <2>1. signature_history' =
          [signature_history EXCEPT ![x] = Recorded(signature_history[x], r)]
    BY <1>4 DEF RecordSignatureOf
  <2>2. CASE x # id
    <3>1. signature_history'[id] = s
      BY <1>1, <2>1, <2>2
    <3> QED BY <1>1, <1>2, <3>1, ViolatorStays
  <2>3. CASE x = id
    <3>1. r \in D
      BY <1>4, <2>3 DEF RecordSignatureOf, SignatureRecords, Signed
    <3>2. signature_history'[id] = Recorded(s, r)
      BY <1>1, <2>1, <2>3
    <3> HIDE DEF r
    <3>3. \/ Recorded(s, r) = Append(s, r)
          \/ Len(s) = max_signature_history /\ Len(Recorded(s, r)) = max_signature_history
      BY <1>1, <3>1, RecordedKeeps
    <3>4. CASE Recorded(s, r) = Append(s, r)
      <4>1. /\ i \in DOMAIN Append(s, r) /\ Append(s, r)[i] = s[i]
            /\ j \in DOMAIN Append(s, r) /\ Append(s, r)[j] = s[j]
        BY <1>1, <1>2, <3>1
      <4> QED BY <1>1, <1>2, <3>2, <3>4, <4>1, ViolatorStays
    <3> QED BY <3>2, <3>3, <3>4
  <2> QED BY <2>2, <2>3
<1>5. ASSUME NEW h \in Heights, NEW r \in Retentions, PruneOldSignatures(h, r)
      PROVE  \/ id \in Violators("DoubleSign")'
             \/ \A a, b \in DOMAIN s : DoubleSigned(s[a], s[b]) => s[a].block_height + r < h
  <2>1. SUFFICES ASSUME NEW a \in DOMAIN s, NEW b \in DOMAIN s, DoubleSigned(s[a], s[b]),
                        ~(s[a].block_height + r < h)
                 PROVE  id \in Violators("DoubleSign")'
    OBVIOUS
  <2> DEFINE p == Pruned(s, h, r)
  <2>2. signature_history'[id] = p
    BY <1>1, <1>5 DEF PruneOldSignatures
  <2>3. h \in Nat /\ r \in Nat /\ \A x \in D : x.block_height \in Nat
    BY SlashingConstants, RecordTypes
  <2>4. p \in Seq(D) /\ CoveredKept(s, p, h, r)
    BY <1>1, <2>3, PrunedKeeps
  <2> HIDE DEF p
  <2>5. s[b].block_height = s[a].block_height
    BY <2>1 DEF DoubleSigned
  <2>6. PICK k \in 1..Len(p) : p[k] = s[a]
    BY <1>1, <2>1, <2>4 DEF CoveredKept
  <2>7. PICK l \in 1..Len(p) : p[l] = s[b]
    BY <1>1, <2>1, <2>4, <2>5 DEF CoveredKept
  <2>8. k \in DOMAIN p /\ l \in DOMAIN p
    BY <2>4
  <2> QED BY <1>1, <2>1, <2>2, <2>6, <2>7, <2>8, ViolatorStays
<1>6. CASE \E h \in Heights, r \in Retentions : PruneOldSignatures(h, r)
  BY <1>5, <1>6
<1>7. CASE UNCHANGED vars
  BY <1>3, <1>7 DEF vars, slashingVars, detectorVars
<1>8. CASE \E x \in ValidatorIDs, hash \in BlockHashes : RecordSignatureOf(x, hash)
  BY <1>4, <1>8
<1>9. CASE \/ \E x \in ValidatorIDs, hash \in BlockHashes, view \in Views :
                RecordVoteOf(x, hash, view)
           \/ \E h \in Heights, r \in Retentions : PruneOldVotes(h, r)
           \/ \E x \in ValidatorIDs, reason \in SafetyViolations : Report(x, reason)
           \/ \E e \in events : ApplySlashing(e)
           \/ RegistryStep
  <2>1. signature_history' = signature_history
    BY <1>9 DEF RecordVoteOf, PruneOldVotes, Report, ApplySlashing, RegistryStep,
                slashingVars, detectorVars
  <2> QED BY <1>3, <2>1
<1> QED
  BY <1>6, <1>7, <1>8, <1>9 DEF SlashingNext

\* For every configuration: two conflicting signatures on record stay
\* detectable until a full history drops its oldest record or a pruning call
\* whose retention no longer covers the conflict.
THEOREM EvidenceLasts ==
  SlashingSpec => EvidenceKept
<1>1. SlashingInit => SlashInv
  BY SlashInit
<1>2. SlashInv /\ [SlashingNext]_vars => SlashInv'
  BY SlashStep
<1> DEFINE E == \A id \in Violators("DoubleSign") :
                  \/ id \in Violators("DoubleSign")'
                  \/ /\ Len(signature_history[id]) = max_signature_history
                     /\ Len(signature_history'[id]) = max_signature_history
                  \/ \E h \in Heights, r \in Retentions :
                       /\ PruneOldSignatures(h, r)
                       /\ \A i, j \in DOMAIN signature_history[id] :
                            DoubleSigned(signature_history[id][i], signature_history[id][j])
                              => signature_history[id][i].block_height + r < h
<1>3. SlashInv /\ SlashInv' /\ [SlashingNext]_vars => E
  BY EvidenceStep
<1>4. SlashInv /\ SlashInv' /\ [SlashingNext]_vars => [E]_vars
  BY <1>3
<1> QED
  BY <1>1, <1>2, <1>4, PTL DEF SlashingSpec, EvidenceKept
=============================================================================
