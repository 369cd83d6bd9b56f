SPECIFICATION MCSpec
CONSTANTS
    RoundPlans <- MCSlowLeader
    RoundLeader <- MCRoundLeader
    RoundSnapshot <- MCRoundSnapshot
    StoreAttempts <- MCStoreAttempts
    AbandonRearms <- MCAbandonRearms
    None = None
    PriceMax <- MCPriceMax
    MaxChange <- MCMaxChange
    GlobalMaxChange <- MCGlobalMaxChange
    Band <- MCBand
    Walks <- MCWalks
    Blank = Blank
INVARIANT StakeBehindRow
CHECK_DEADLOCK FALSE
