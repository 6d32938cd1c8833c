CONSTANTS
    a = a
    b = b
    c = c
    u = u
    v = v
    w = w
    unnamed = unnamed
    none = none
    Names = {a, b, c}
    Configs <- AllConfigs
SPECIFICATION FairSpec
INVARIANTS
    AcceptsOnlyRunnable
    RejectsOnlyFaulty
    PathNamesCycle
    NearestEnvWins
PROPERTIES
    Termination
