SPECIFICATION FairSpec
CONSTANTS
    r1 = r1
    r2 = r2
    e1 = e1
    e2 = e2
    None = None
    Requests <- MCRequests
    Inputs <- MCInputs
    Rows <- MCRows
    Files <- MCFiles
    MaxCrashes = 1
INVARIANTS
    TypeOK
    NothingUnauthorized
    AnswersAreTrue
    ReadingsAreCounted
PROPERTIES
    EveryRequestIsAnswered
CHECK_DEADLOCK FALSE
