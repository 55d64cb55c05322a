SPECIFICATION Spec
CONSTANTS
    N = 2
    Nominal = 2
    Settings = {1, 2}
    Readings = {1}
    Viewers = {v}
    None = None
    Torn = Torn
    Raised = Raised
    MaxRequests = 3
    MaxFaults = 1
    MaxQueue = 2
CHECK_DEADLOCK FALSE
INVARIANTS RefreshRepairs PagesAgree RecordsTrue RestartKeeps
