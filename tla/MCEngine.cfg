CONSTANTS
    a = a
    b = b
    c = c
    ghost = ghost
    Jobs <- MCJobs
    Names <- MCNames
    Graphs <- MCGraphs
    NumSteps <- MCNumSteps
SPECIFICATION FairSpec
INVARIANTS
    StartOnlyAfterSuccess
    ResultsComplete
    FinalStatusSound
    CancellationBounded
    TraceWellTold
PROPERTIES
    ContractSpec
    Termination
