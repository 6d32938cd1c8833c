CONSTANTS
    r1 = r1
    r2 = r2
    c1 = c1
    l1 = l1
    Runs = {r1, r2}
    Cancelers = {c1}
    Watchers = {}
    Listers = {l1}
    Filters = {"unspecified"}
    none = none
SPECIFICATION Spec
CHECK_DEADLOCK FALSE
SYMMETRY RunSymmetry
INVARIANTS
    ActiveRunsKnown
    RefusedOnlyWhenOver
    ListSeesAll
