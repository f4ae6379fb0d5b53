SPECIFICATION EconomySpec
CONSTANTS
    a = a
    b = b
    c = c
    Voters = {a, b}
    StakeValues = {0, 1, 20}
    BlocksPerDay = 1
    VotingPeriodDays = 1
    SafetyDays = 2
    AdminDays = 1
    PerformanceDays = 1
    Submissions <- MCSubmissions
    MaxHeight = 3
    MaxProposals = 2
    MaxChanges = 1
    AddressOrder <- MCAddressOrder
    Amounts = {2, 5, 6}
    TotalSupply = 100
    Width = 128
    Candidates <- MCCandidates
    ValidatorSetSize = 2
    MinimumSelfBond = 2
    VestingDuration = 3
    MaxAllocations = 4
    InitialBaseFee = 6
    MaxGasValues = {1, 4, 10}
    InitialSupply = 3
    BondedValues = {0, 30, 50}
    Coefficients = {4, 5, 20}
    BlocksPerYear = 2
    BurnValues = {0, 4}
    SupplyWidth = 256
    ValidatorStakes <- MCStakes
    MaxBlocks = 3
INVARIANTS
    
    GenesisSound
    FeeStaysResponsive
    RewardsBacked
PROPERTY
    ImplementsLifecycle
CHECK_DEADLOCK FALSE
