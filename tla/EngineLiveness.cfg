SPECIFICATION FairSpec
CONSTANTS
  v1 = v1
  v2 = v2
  v3 = v3
  v4 = v4
  key1 = key1
  key2 = key2
  zero = zero
  forged = forged
  ValidatorIDs = {v1, v2, v3}
  OwnKeys <- OneKey
  Honest = {v1, v2}
  Faulty = {}
  self = v1
  InitialSet <- ThreeActive
  ValidatorSets <- NoSets
  GenesisCertified = TRUE
  Proposers = {v1, v2}
  Timestamps = {1, 2}
  MaxBlocks = 2
  MaxHeight = 2
  MaxView = 1
INVARIANT FinalizedHeightTracksQC
 
CHECK_DEADLOCK FALSE
