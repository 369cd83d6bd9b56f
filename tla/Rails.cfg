SPECIFICATION RailsSpec
CONSTANTS
    Blank = Blank
    NoRow = NoRow
    NoSig = NoSig
    hubA = hubA
    hubB = hubB
    hubC = hubC
    Hubs = {hubA, hubB, hubC}
    KeyOrder <- MCKeyOrder
    Blocks = {1, 2, 3, 4}
    Snapshot <- MCSnapshot
    Weighted <- MCWeighted
    RidInt = 0
    Equiv = TRUE
    MaxView = 2
    MaxStamp = 1
    Scenarios <- MCScenarios
    PubkeyPool = {1, 2, 3}
    SourcePool = {1, 2, 3}
    Weights <- MCWeights
    MaxValidators = 3
    Rounds = {3, 4, 5}
    WindowSize = 2
    Led = {2}
    BufferMax = 2
    MaxAttempts = 2
    Ceiling = 2
    Retention = 1
    Budgets <- MCRestarts
INVARIANTS
    StakeQuorumsOverlapByAThird
    CountQuorumsIntersect
    ProofBehindFinal
    TypeOK
    SentOnce
    WithinCeiling
PROPERTIES
    CommitHolds
    NoEntryLost
CHECK_DEADLOCK FALSE
