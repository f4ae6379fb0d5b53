SPECIFICATION FairSpec
CONSTANTS
  BlockTime = 2
  ViewTimeout = 4
  MaxLag = 0
  ActiveCount = 3
  self = 1
  MaxArrivals = 2
PROPERTIES  SilentLeaderReplaced StopTerminates
