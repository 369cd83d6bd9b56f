SPECIFICATION MCSpec
CONSTANTS
    RoundPlans <- MCRoundPlans
    RoundLeader <- MCRoundLeader
    RoundSnapshot <- MCRoundSnapshot
    StoreAttempts <- MCStoreAttempts
    AbandonRearms <- MCAbandonRearms
    None = None
    PriceMax <- MCPriceMax
    MaxChange <- MCMaxChange
    GlobalMaxChange <- MCGlobalMaxChange
    Band <- MCBand
    Walks <- MCWalks
    Blank = Blank
INVARIANTS ProofBehindRow HonestProposalPasses MinorityBounded
PROPERTIES RoundRecorded CommittedStored Salvaged Moves NoBackstep ReachableMoveSpared
CHECK_DEADLOCK FALSE
