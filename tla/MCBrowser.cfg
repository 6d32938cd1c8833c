SPECIFICATION FairSpec
CONSTANTS
    Old = {p}
    Runs = {q, r}
    p = p
    q = q
    r = r
    MaxMoves = 3
    MaxFaults = 1
INVARIANTS StreamsAreWatched RunningIsTrue
PROPERTIES StreamsAreNotCut RunningEnds
CHECK_DEADLOCK FALSE
