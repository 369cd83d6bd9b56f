SPECIFICATION RelaySpec
CONSTANTS
    hubA = hubA
    hubB = hubB
    hubC = hubC
    x = x
    y = y
    z = z
    Blank = Blank
    Hubs <- MCPair
    KeyOrder <- MCPairOrder
    LiveSet <- MCPairOrder
    Configs <- MCConfigs
    Submits <- MCOneEach
    Heights = {1}
    Snapshot <- MCPairSnapshot
    Weighted <- MCWeighted
    Tolerance = 0
    EarlyMaxSeqs = 1
    EarlyMaxPerSeq = 4
    MaxViewSkew = 100
    NoRound = NoRound
    NoConfig = NoConfig
    NoHeight = NoHeight
    MaxSeq = 2
    MaxView = 1
    MaxDirect = 0
    Budgets <- MCCrashOrTimeouts
    LegKeys <- MCLegKeys
    Deadline <- MCDeadline
    Confirmations = 1
    EvictGrace = 1
    MaxTip = 4
    RelayPlans <- MCRetried
CHECK_DEADLOCK FALSE
INVARIANT PaidOnceEver
