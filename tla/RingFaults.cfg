SPECIFICATION LiveSpec
CONSTANTS
    N = 3
    Master = 0
    GroupSel = {1, 2}
    HostDests = {}
    AckWidth = 10
    Manual = 0
    Budget <- FaultBudget
    QuickDrain = TRUE
    Paced = TRUE
INVARIANTS FiresAreGos
PROPERTIES TriggerCompletes
CHECK_DEADLOCK FALSE
