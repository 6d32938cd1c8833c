CONSTANTS
    Unknown = 5
    Jobs <- MCJobs
    Names <- MCNames
    Graphs <- MCGraphs
SPECIFICATION FairSpec
INVARIANTS
    GroupsTight
    VerdictRight
    CycleIsReal
PROPERTIES
    Termination
