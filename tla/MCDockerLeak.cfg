SPECIFICATION FairSpec
CONSTANTS
    a = a
    b = b
    Jobs = {a}
    Steps = 1
    MaxFaults = 0
PROPERTY EveryVolumeRemoved
CHECK_DEADLOCK FALSE
