SPECIFICATION LiveSpec
CONSTANTS
    N = 11
    Master = 0
    GroupSel = {1}
    HostDests = {}
    AckWidth = 10
    Manual = 0
    Budget <- WideBudget
    QuickDrain = TRUE
    Paced = TRUE
PROPERTIES TriggerCompletes
ACTION_CONSTRAINT BackwardFirst
CHECK_DEADLOCK FALSE
