SPECIFICATION SpecSystem
CONSTANTS N = 3  NoId = NoId  MaxFaults = 2
  Outputs = 2  Project = {0, 1}  Nobody = Nobody  MaxWeb = 1  MaxErrors = 1
  Feed <- FeedOfBoard  MaxOperations = 2
INVARIANTS DoneMeansReady ModeStaysZero ChipInOrder DoneMeansClocked
CHECK_DEADLOCK FALSE
