SPECIFICATION LiveSpec
CONSTANTS
    N = 3
    Hosts = {0, 1}
    Dests <- SomeDests
    All <- Everyone
    Budget <- TwoAndOne
    Strays <- SomeStrays
PROPERTIES InOrder EveryoneHears ComesToRest
CHECK_DEADLOCK FALSE
