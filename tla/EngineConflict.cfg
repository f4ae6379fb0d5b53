SPECIFICATION Spec
CONSTANTS
  v1 = v1
  v2 = v2
  v3 = v3
  v4 = v4
  key1 = key1
  key2 = key2
  zero = zero
  forged = forged
  ValidatorIDs = {v1, v2, v3}
  OwnKeys <- OneKey
  Honest = {v1, v2, v3}
  Faulty = {}
  self = v1
  InitialSet <- ThreeActive
  ValidatorSets <- NoSets
  GenesisCertified = TRUE
  Proposers = {v1, v2}
  Timestamps = {1}
  MaxBlocks = 2
  MaxHeight = 1
  MaxView = 1
INVARIANT NoConflictingFinalization
CHECK_DEADLOCK FALSE
