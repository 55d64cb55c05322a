SPECIFICATION LiveSpec
CONSTANTS
    N = 4
    Master = 0
    GroupSel = {1, 2}
    HostDests = {2}
    AckWidth = 10
    Manual = 0
    Budget <- TriggerBudget
    QuickDrain = TRUE
    Paced = TRUE
INVARIANTS Calm
PROPERTIES FireInstantsAligned BarrierImplemented
CHECK_DEADLOCK FALSE
