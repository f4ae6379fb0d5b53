SPECIFICATION MCSpec
CONSTANTS
    v1 = v1
    v2 = v2
    v3 = v3
    SetStakes <- MCStakes
    SetStatus <- MCStatus
    Faulty = {v1}
    BodyOf <- MCBodyOf
    BodiesSent <- MCBodiesSent
    WeakSubjectivityPeriod = 2
    MaxCheckpointAge = 2
    CheckpointInterval = 1
    MaxHeight = 4
    Callers = {v1, v2}
    SyncPeers = {v1, v2, v3}
    ReputationOf <- MCReputation
    IsValidator <- MCIsValidator
    CurrentHeight = 5
    CheckpointHeights = {2, 4, 6}
    MaxSyncAge = 3
    MaxCalls = 3

    
    
PROPERTY
    StopEndsSync
CHECK_DEADLOCK FALSE
