SPECIFICATION FairSpec
CONSTANTS
    r1 = r1
    Requests <- MCRequests
    Methods <- MCTexts
    MaxCrashes = 2
INVARIANTS
    CompletedWasReceived
    CopiesAreBounded
PROPERTIES
    QueuedIsDecided
CHECK_DEADLOCK FALSE
