SPECIFICATION Spec
CONSTANTS
    r1 = r1
    Requests <- MCRequests
    Methods <- MCTexts
    MaxCrashes = 0
INVARIANTS
    MailErrorsFail
CHECK_DEADLOCK FALSE
