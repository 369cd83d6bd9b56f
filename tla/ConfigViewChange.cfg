SPECIFICATION FairSpec
CONSTANTS
    hubA = hubA
    hubB = hubB
    hubC = hubC
    x = x
    y = y
    z = z
    Blank = Blank
    Hubs <- MCPair
    KeyOrder <- MCPairOrder
    LiveSet <- MCPairOrder
    Configs <- MCConfigs
    Submits <- MCOneEach
    Heights = {1}
    Snapshot <- MCPairSnapshot
    Weighted <- MCWeighted
    Tolerance = 0
    EarlyMaxSeqs = 1
    EarlyMaxPerSeq = 4
    MaxViewSkew = 100
    NoRound = NoRound
    NoConfig = NoConfig
    NoHeight = NoHeight
    MaxSeq = 1
    MaxView = 1
    MaxDirect = 0
    Budgets <- MCOneTimeout
CHECK_DEADLOCK FALSE
PROPERTY ViewChangeCompletes
