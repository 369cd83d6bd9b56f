SPECIFICATION Spec
CONSTANTS
    hubA = hubA
    hubB = hubB
    hubC = hubC
    x = x
    y = y
    z = z
    Blank = Blank
    Hubs <- MCHubs
    KeyOrder <- MCHubsOrder
    LiveSet <- MCHubsOrder
    Configs <- MCConfigs
    Submits <- MCAnotherEach
    Heights = {1, 2}
    Snapshot <- MCDriftSnapshot
    Weighted <- MCWeighted
    Tolerance = 1
    EarlyMaxSeqs = 1
    EarlyMaxPerSeq = 4
    MaxViewSkew = 100
    NoRound = NoRound
    NoConfig = NoConfig
    NoHeight = NoHeight
    MaxSeq = 1
    MaxView = 0
    MaxDirect = 0
    Budgets <- MCNoFault
CHECK_DEADLOCK FALSE
INVARIANT Agreement
