SPECIFICATION Spec
CONSTANTS
    N = 3
    Master = 0
    GroupSel = {1, 2}
    HostDests = {1,2,3}
    AckWidth = 10
    Manual = 0
    Budget <- TrafficBudget
    QuickDrain = FALSE
    Paced = TRUE
INVARIANTS FiresFollowGo MasterFiresOncePerGo
PROPERTIES GoOnlyWhenAllPaused ReservedPathLocked DiagAnswersQuery
CHECK_DEADLOCK FALSE
