SPECIFICATION FairSpec
CONSTANTS
    Names <- MCNames
    Characters <- MCCharacters
    Wide <- MCWide
    Jobs <- MCJobs
    Programs <- MCPrograms
    MaxChunk = 2
    Window = 1
    Slack = 1
    MaxActs = 3
INVARIANTS TextKept SelectionOffered FollowingIsAtTheEnd
PROPERTY ComesToRest
CHECK_DEADLOCK FALSE
