SPECIFICATION ProgressSpec
CONSTANTS
    hubA = hubA
    hubB = hubB
    hubC = hubC
    x = x
    y = y
    z = z
    Blank = Blank
    Hubs <- MCHubs
    KeyOrder <- MCHubsOrder
    LiveSet <- MCHubsOrder
    Configs <- MCConfigs
    Submits <- MCAnotherEach
    Heights = {1}
    Snapshot <- MCHubsSnapshot
    Weighted <- MCWeighted
    Tolerance = 1
    EarlyMaxSeqs = 1
    EarlyMaxPerSeq = 4
    MaxViewSkew = 100
    NoRound = NoRound
    NoConfig = NoConfig
    NoHeight = NoHeight
    MaxSeq = 1
    MaxView = 1
    MaxDirect = 0
    Budgets <- MCNoFault
    Parts = {"reorg"}
    NoItem = NoItem
    Rails = {"bridge"}
    MaxGen = 2
    MaxLedgerFaults = 1
    Deleters <- MCHubs
    RoundIds = {1, 2, 3, 4}
    IdSnapshot <- MCIdSnapshot
    IdWeighted <- MCIdWeighted
    Builds <- MCBuilds
    PushPlans <- MCPushPlans
    Watchers <- MCHubs
    Stamps = {1, 2, 3}
    StampMembers <- MCStampMembers
    NoReorgRound = NoReorgRound
    ReorgPlans <- MCUndisturbed
CHECK_DEADLOCK FALSE
PROPERTY RealReorgConfirmed
