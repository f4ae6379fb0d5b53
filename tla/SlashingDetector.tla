-------------------------- MODULE SlashingDetector --------------------------
(***************************************************************************)
(* consensus::SlashingDetector (src/consensus/slashing_detector.cpp)       *)
(* composed with the validator registry it slashes.                        *)
(*                                                                         *)
(* Signatures and votes are recorded per validator in bounded histories.   *)
(* Whoever drives the detector looks for two conflicting records, computes *)
(* the penalty from the stakes of that moment and makes a slashing event   *)
(* (Report); the event is applied later, when the registry may already     *)
(* look different (ApplySlashing).  A block hash is the pair of the height *)
(* and a variant: variant 0 is the chain's block, 1 a conflicting one.     *)
(* Honest validators sign and vote for variant 0 only.                     *)
(***************************************************************************)
EXTENDS ValidatorRegistry, Filters, Functions

CONSTANTS
  InitialStake,           \* stake of each validator registered at genesis
  InitialKey,             \* and its consensus key
  InitialSupply,          \* the token supply the driver passes
  Offenders,              \* validators that may sign a conflicting block
  max_signature_history,  \* Config
  Heights,                \* heights of recorded signatures and votes
  Views,                  \* view numbers of recorded votes
  Retentions,             \* retention periods passed to prune_old_*
  MaxRecords,             \* bound on the records held together
  MaxReports              \* bound on the number of events made

ASSUME SlashingConstants ==
  /\ InitialStake \in [ValidatorIDs -> Nat]
  /\ InitialKey \in [ValidatorIDs -> ConsensusKeys]
  /\ InitialSupply \in Nat
  /\ Offenders \subseteq ValidatorIDs
  /\ max_signature_history \in Nat
  /\ Heights \subseteq Nat /\ Views \subseteq Nat /\ Retentions \subseteq Nat
  /\ MaxRecords \in Nat /\ MaxReports \in Nat

VARIABLES
  total_supply,       \* the supply apply_slashing burns from
  signature_history,  \* signature_history_, per validator
  vote_history,       \* vote_history_, per validator
  events,             \* slashing events made and not yet applied
  reports             \* how many events were made (only to bound them)

detectorVars == <<signature_history, vote_history, events, reports>>
slashingVars == <<total_supply, detectorVars>>
vars == <<registryVars, slashingVars>>

BlockHashes == {<<h, v>> : h \in Heights, v \in {0, 1}}

SafetyViolations == {"DoubleSign", "SurroundVote"}

-----------------------------------------------------------------------------
(* Histories *)

\* push_back and trim to the newest max_signature_history records.
Recorded(history, record) ==
  LET h == Append(history, record)
      n == Len(h)
  IN  IF n > max_signature_history
      THEN SubSeq(h, n - max_signature_history + 1, n) ELSE h

\* Mutant: the records at the cutoff go too.
PrunedAtCutoff(history, current_height, retention) ==
  IF current_height < retention THEN history
  ELSE KeepOnly(history, {r \in Range(history) :
                            r.block_height > current_height - retention})

\* prune_old_signatures and prune_old_votes: records below the cutoff go.
Pruned(history, current_height, retention) ==
  IF current_height < retention THEN history
  ELSE KeepOnly(history, {r \in Range(history) :
                            r.block_height >= current_height - retention})

-----------------------------------------------------------------------------
(* Detection *)

\* Mutant: the heights are not compared.
DoubleSignedAnyHeight(r1, r2) == r1.block_hash # r2.block_hash

\* detect_double_sign on two records of one validator.
DoubleSigned(r1, r2) ==
  r1.block_height = r2.block_height /\ r1.block_hash # r2.block_hash

\* detect_surround_vote on two votes of one validator: besides two blocks at
\* one height, two different blocks in one VIEW count as a conflict.
SurroundVoted(v1, v2) ==
  /\ v1.block_hash # v2.block_hash
  /\ \/ v1.block_height = v2.block_height
     \/ v1.view_number = v2.view_number

\* The validators a driver finds guilty when it compares every two records.
Violators(reason) ==
  {id \in DOMAIN validators :
     IF reason = "DoubleSign"
     THEN \E i, j \in DOMAIN signature_history[id] :
            DoubleSigned(signature_history[id][i], signature_history[id][j])
     ELSE \E i, j \in DOMAIN vote_history[id] :
            SurroundVoted(vote_history[id][i], vote_history[id][j])}

MapStake == [id \in DOMAIN validators |-> validators[id].bonded_stake]

\* min(1, alpha s/S + beta s V/S^2) s with alpha = 0.05 and beta = 0.5, in
\* exact arithmetic (the code computes it in doubles and truncates).
CalculatePenalty(stake, total, violating) ==
  IF total = 0 \/ stake = 0 THEN 0
  ELSE LET exact == (stake * stake * (5 * total + 50 * violating))
                      \div (100 * total * total)
       IN  IF exact > stake THEN stake ELSE exact

-----------------------------------------------------------------------------
(* apply_slashing *)

\* The members rewarded for a slashing of id.
Recipients(id) == ActiveIn(set_validators) \ {id}

\* What every validator gets of the distributed half; without a recipient
\* with stake the half goes to no one.
Bounty(id, distribute_amount) ==
  LET stake == StakeSum(Recipients(id), MemberStake(set_validators))
      rewards == ProportionalRewards(Recipients(id), set_validators,
                                     stake, distribute_amount)
  IN  [i \in ValidatorIDs |->
         IF stake > 0 /\ distribute_amount > 0 /\ i \in Recipients(id)
         THEN rewards[i] ELSE 0]

\* The whole of apply_slashing for an event with a positive penalty: bond the
\* bounties, slash, burn, and tombstone for a safety violation.
ApplyPenalty(event) ==
  LET id      == event.validator_id
      penalty == ActualSlash(validators, id, event.penalty_amount)
      burn    == penalty \div 2
      bounty  == Bounty(id, penalty - burn)
      vals1   == Bonded(validators, bounty)
      sv1     == Bonded(set_validators, bounty)
      total1  == total_stake + StakeSum(Recipients(id), bounty)
      vals2   == Slashed(vals1, id, penalty)
      sv2     == Slashed(sv1, id, penalty)
      total2  == SlashedTotal(sv1, total1, id, penalty)
      status  == IF event.reason \in SafetyViolations
                 THEN "Tombstoned" ELSE nullopt
  IN  /\ validators' = UpdatedCopy(vals2, id, nullopt, status)
      /\ set_validators' = UpdatedCopy(sv2, id, nullopt, status)
      /\ total_stake' = UpdatedTotal(sv2, total2, id, status)
      /\ total_supply' = Floored(total_supply, burn)

-----------------------------------------------------------------------------
(* The specification *)

GenesisValidators ==
  [id \in ValidatorIDs |->
     [consensus_key |-> InitialKey[id], bonded_stake |-> InitialStake[id],
      status |-> "Standby", jailed_until_epoch |-> 0,
      consecutive_downtime_epochs |-> 0, blocks_signed_this_epoch |-> 0]]

\* The genesis validators registered and elected for epoch 1.
SlashingInit ==
  /\ validators = ElectedMap(GenesisValidators, 1)
  /\ epoch = 1
  /\ set_validators = AsMembers(validators)
  /\ position = [id \in ValidatorIDs |-> Rank(GenesisValidators, id)]
  /\ total_stake = StakeSum(ActiveIn(set_validators), MemberStake(set_validators))
  /\ unbonding_requests = << >>
  /\ height = 0
  /\ total_supply = InitialSupply
  /\ signature_history = [id \in ValidatorIDs |-> << >>]
  /\ vote_history = [id \in ValidatorIDs |-> << >>]
  /\ events = {}
  /\ reports = 0

\* How many records the histories hold.
RecordsHeld ==
  StakeSum(ValidatorIDs, [id \in ValidatorIDs |->
    Len(signature_history[id]) + Len(vote_history[id])])

\* record_signature: an honest validator signs one block per height.
RecordSignatureOf(id, hash) ==
  /\ id \in DOMAIN validators
  /\ id \in Offenders \/ hash[2] = 0
  /\ RecordsHeld < MaxRecords
  /\ signature_history' =
       [signature_history EXCEPT
          ![id] = Recorded(@, [block_height |-> hash[1], block_hash |-> hash])]
  /\ UNCHANGED <<registryVars, total_supply, vote_history, events, reports>>

\* record_vote: an honest validator votes along the chain.
RecordVoteOf(id, hash, view) ==
  /\ id \in DOMAIN validators
  /\ id \in Offenders \/ hash[2] = 0
  /\ RecordsHeld < MaxRecords
  /\ vote_history' =
       [vote_history EXCEPT
          ![id] = Recorded(@, [block_height |-> hash[1], block_hash |-> hash,
                               view_number |-> view])]
  /\ UNCHANGED <<registryVars, total_supply, signature_history, events, reports>>

PruneOldSignatures(current_height, retention) ==
  /\ signature_history' = [id \in ValidatorIDs |->
       Pruned(signature_history[id], current_height, retention)]
  /\ UNCHANGED <<registryVars, total_supply, vote_history, events, reports>>

PruneOldVotes(current_height, retention) ==
  /\ vote_history' = [id \in ValidatorIDs |->
       Pruned(vote_history[id], current_height, retention)]
  /\ UNCHANGED <<registryVars, total_supply, signature_history, events, reports>>

\* A driver turns a detected conflict into an event, with the penalty of now.
Report(id, reason) ==
  /\ reports < MaxReports
  /\ id \in Violators(reason)
  /\ \A e \in events : e.validator_id # id \/ e.reason # reason
  /\ events' = events \cup
       {[validator_id |-> id, reason |-> reason,
         penalty_amount |->
           CalculatePenalty(MapStake[id], total_stake,
                            StakeSum(Violators(reason), MapStake))]}
  /\ reports' = reports + 1
  /\ UNCHANGED <<registryVars, total_supply, signature_history, vote_history>>

\* apply_slashing does nothing for a zero penalty; the event is spent.
ApplySlashing(event) ==
  /\ event \in events
  /\ events' = events \ {event}
  /\ IF event.penalty_amount = 0
     THEN UNCHANGED <<validators, set_validators, total_stake, total_supply>>
     ELSE ApplyPenalty(event)
  /\ UNCHANGED <<epoch, position, unbonding_requests, height,
                 signature_history, vote_history, reports>>

\* Registry operations that interleave with slashing.
RegistryStep ==
  /\ \/ \E id \in ValidatorIDs, amount \in Amounts :
          BondStake(id, amount) \/ UnbondStake(id, amount)
     \/ \E n \in EpochLengths : TransitionEpoch(n)
  /\ UNCHANGED slashingVars

SlashingNext ==
  \/ \E id \in ValidatorIDs, hash \in BlockHashes :
       \/ RecordSignatureOf(id, hash)
       \/ \E view \in Views : RecordVoteOf(id, hash, view)
  \/ \E h \in Heights, r \in Retentions :
       PruneOldSignatures(h, r) \/ PruneOldVotes(h, r)
  \/ \E id \in ValidatorIDs, reason \in SafetyViolations : Report(id, reason)
  \/ \E event \in events : ApplySlashing(event)
  \/ RegistryStep

SlashingSpec == SlashingInit /\ [][SlashingNext]_vars

-----------------------------------------------------------------------------
(* Properties *)

\* The detector's own state keeps its types; a history never exceeds
\* max_signature_history.
SlashingTypeOK ==
  /\ TypeOK
  /\ total_supply \in 0..InitialSupply
  /\ \A id \in ValidatorIDs :
       /\ Len(signature_history[id]) <= max_signature_history
       /\ Len(vote_history[id]) <= max_signature_history
  /\ \A e \in events : e.validator_id \in ValidatorIDs /\ e.penalty_amount \in Nat

\* apply_slashing burns half of the penalty and bonds the other half to the
\* other active validators without losing or making a unit, although the
\* bounties are rounded down, the penalty was computed earlier and the set's
\* stakes lag behind the map's: while there is someone to reward, all bonded
\* stake shrinks by exactly what leaves the supply, and nobody but the
\* slashed validator loses anything.
SlashConserves ==
  [][\A e \in events :
       /\ ApplySlashing(e)
       /\ StakeSum(Recipients(e.validator_id), MemberStake(set_validators)) > 0
       => /\ StakeSum(DOMAIN validators, MapStake)
               - StakeSum(DOMAIN validators', MapStake')
                 = total_supply - total_supply'
          /\ \A id \in DOMAIN validators \ {e.validator_id} :
               validators'[id].bonded_stake >= validators[id].bonded_stake]_vars

\* Nobody is found guilty of double-signing who signed one block per height,
\* whatever was trimmed from or pruned out of the histories.
HonestSignersNotReported ==
  \A e \in events : e.reason = "DoubleSign" => e.validator_id \in Offenders

\* Evidence outlives housekeeping: a validator whose conflicting signatures are
\* on record stays detectable unless a full history dropped its oldest record
\* or a pruning call's retention no longer covered the height of the conflict.
EvidenceKept ==
  [][\A id \in Violators("DoubleSign") :
       \/ id \in Violators("DoubleSign")'
       \/ /\ Len(signature_history[id]) = max_signature_history
          /\ Len(signature_history'[id]) = max_signature_history
       \/ \E h \in Heights, r \in Retentions :
            /\ PruneOldSignatures(h, r)
            /\ \A i, j \in DOMAIN signature_history[id] :
                 DoubleSigned(signature_history[id][i], signature_history[id][j])
                   => signature_history[id][i].block_height + r < h]_vars
=============================================================================
