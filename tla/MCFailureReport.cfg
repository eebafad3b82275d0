SPECIFICATION FairSpec
CONSTANTS
    s1 = s1
    s2 = s2
    peer = peer
    Sends <- MCSends
    To <- MCTo
    MaxNight = 1
    MaxCrashes = 1
INVARIANTS
    TableCountsAll
    OneOutcomePerReport
    NightNamesItsFailures
    MailsAreBounded
PROPERTIES
    ReportsEnd
CHECK_DEADLOCK FALSE
