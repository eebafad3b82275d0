SPECIFICATION Spec
CONSTANTS
    s1 = s1
    s2 = s2
    peer = peer
    Sends <- MCSends
    To <- MCTo
    MaxNight = 1
    MaxCrashes = 0
INVARIANTS
    ReportIsForItsDay
CHECK_DEADLOCK FALSE
