SPECIFICATION Spec
CONSTANTS Boards = {0, 1}  Values = {0, 1}  Erased = Erased  Torn = Torn  None = None
  MaxRequests = 3  MaxFaults = 1
INVARIANTS SavesSurvive BootRestores ShownIsLive
CHECK_DEADLOCK FALSE
