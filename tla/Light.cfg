SPECIFICATION LightSpec
CONSTANTS
  v1 = v1
  v2 = v2
  v3 = v3
  v4 = v4
  v5 = v5
  Validators <- MCValidators
  FaultySigners = {v3, v4, v5}
  MembersOf <- MCMembersOf
  Stake <- MCStake
  EpochLength = 2
  MaxChainHeight = 9
  MaxRestarts = 1
CHECK_DEADLOCK FALSE
 
 
PROPERTY ClientCatchesUp
