SPECIFICATION LiveSpec
CONSTANTS
    Me = 1
    Totals <- ThenTwo
    WireFrames <- FromRing
    LocalFrames <- FromHere
    NoiseWords <- Noise
    WireBudget = 2
    LocalBudget = 2
    FaultBudget = 1
    Excess = 1
INVARIANTS FairTurns
PROPERTIES FramesWhole AllLeave
CHECK_DEADLOCK FALSE
