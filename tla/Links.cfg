SPECIFICATION LinkSpec
CONSTANTS
    Limit = 3  MaxLen = 3  Offers <- TwoOfEach  Stuck = {"reply"}
    Pause = 6  Cooldown = 3  Threshold = 2  Depth = 10  Latency = 2  AckDelay = 1
INVARIANTS NoOverflow
PROPERTIES OneFrameAtATime EverySourceServed SenderResumes
