SPECIFICATION QuorumAndRounds
CONSTANTS
    Blank = Blank
    NoRow = NoRow
    NoSig = NoSig
    hubA = hubA
    hubB = hubB
    hubC = hubC
    Hubs = {hubA, hubB, hubC}
    KeyOrder <- MCKeyOrder
    Blocks = {1, 2, 3, 4}
    Snapshot <- MCSnapshot
    Weighted <- MCWeighted
    RidInt = 0
    Equiv = TRUE
    MaxView = 2
    MaxStamp = 1
    Scenarios <- MCTimeouts
    PubkeyPool = {1, 2, 3}
    SourcePool = {1, 2, 3}
    Weights <- MCWeights
    MaxValidators = 0
INVARIANT
    ViewCoversProof
CHECK_DEADLOCK FALSE
