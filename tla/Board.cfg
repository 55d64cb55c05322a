CONSTANTS
    All = 9
    TxTimeout = 1
    MaxWords = 2
    FlashBeats = 2
    PaccDepth = 1
    BurstMax = 2
    MemWords = 3
    OldId = 1
    NewId = 2
    FaultBudget = 1
    Menu <- MCMenu
    Sends <- MCSends
SPECIFICATION LiveSpec
INVARIANTS FiredWhole BlockWhole WaveStored
PROPERTIES WholePackets HostServed
