SPECIFICATION Spec
CONSTANTS
    r1 = r1
    Requests <- MCRequests
    Methods <- MCImages
    MaxCrashes = 0
INVARIANTS
    ImagesAreSent
CHECK_DEADLOCK FALSE
