SPECIFICATION SlashingSpec
CONSTANTS
  ValidatorIDs = {1, 2, 3}
  ConsensusKeys = {k1}
  nullopt = nullopt
  active_validator_count = 3
  minimum_self_bond = 8
  unbonding_period_blocks = 1
  ThresholdNum = 95
  ThresholdDen = 100
  UpdateStatuses = {"Tombstoned"}
  Amounts = {22}
  EpochLengths = {0}
  MaxStake = 30
  MaxEpoch = 2
  MaxHeight = 0
  MaxRequests = 1
  MaxDowntime = 0
  InitialStake <- MCInitialStake
  InitialKey <- MCInitialKey
  InitialSupply = 100
  Offenders = {3}
  max_signature_history = 2
  Heights = {1, 2}
  Views = {1}
  Retentions = {0}
  MaxRecords = 3
  MaxReports = 2
INVARIANT HonestSignersNotReported
PROPERTIES SlashConserves EvidenceKept
CHECK_DEADLOCK FALSE
