SPECIFICATION FairSpec
CONSTANTS
    a = a
    b = b
    Jobs = {a, b}
    Steps = 2
    MaxFaults = 1
INVARIANTS
    StartedAreRemoved
    LeavesNothing
    OutputIsWhole
PROPERTY CancelEnds
CHECK_DEADLOCK FALSE
