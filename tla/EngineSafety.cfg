SPECIFICATION Spec
CONSTANTS
  v1 = v1
  v2 = v2
  v3 = v3
  v4 = v4
  key1 = key1
  key2 = key2
  zero = zero
  forged = forged
  ValidatorIDs = {v1, v2, v3, v4}
  OwnKeys <- RotatedKeys
  Honest = {v1, v2}
  Faulty = {v3}
  self = v1
  InitialSet <- ThreeActive
  ValidatorSets <- LaterSets
  GenesisCertified = TRUE
  Proposers = {v1, v2}
  Timestamps = {1}
  MaxBlocks = 2
  MaxHeight = 1
  MaxView = 1
INVARIANTS FinalityImpliesQC AccountableSafety
CHECK_DEADLOCK FALSE
