CONSTANTS
    r1 = r1
    c1 = c1
    w1 = w1
    l1 = l1
    Runs = {r1}
    Cancelers = {c1}
    Watchers = {w1}
    Listers = {l1}
    Filters = {"failed"}
    none = none
SPECIFICATION FairSpec
CHECK_DEADLOCK FALSE
INVARIANTS
    PendingMeansUntouched
PROPERTIES
    CancelTakesEffect
    RunsEnd
    FinishedRunsPruned
