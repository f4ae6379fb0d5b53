SPECIFICATION Spec
CONSTANTS
  ValidatorIDs = {1, 2}
  ConsensusKeys = {k1, k2}
  nullopt = nullopt
  active_validator_count = 1
  minimum_self_bond = 200
  unbonding_period_blocks = 1
  ThresholdNum = 95
  ThresholdDen = 100
  UpdateStatuses = {"Tombstoned"}
  Amounts = {200}
  EpochLengths = {1}
  MaxStake = 400
  MaxEpoch = 2
  MaxHeight = 1
  MaxRequests = 1
  MaxDowntime = 1
SYMMETRY KeySymmetry
INVARIANTS SetTotalStake SetLagsSafely
PROPERTIES TopNElected NoActivationWithinEpoch 
CHECK_DEADLOCK FALSE
