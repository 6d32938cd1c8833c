SPECIFICATION FairSpec
CONSTANTS
    Pipelines = {p, q}
    p = p
    q = q
    MaxMoves = 2
    MaxFlight = 2
PROPERTIES NoForeignAnswers SettlesOnFinal
CHECK_DEADLOCK FALSE
