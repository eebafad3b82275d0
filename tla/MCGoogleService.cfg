SPECIFICATION FairSpec
CONSTANTS
    s1 = s1
    s2 = s2
    c1 = c1
    c2 = c2
    ana = ana
    bia = bia
    caio = caio
    None = "none"
    Codes <- MCCodes
    Syncs <- MCSyncs
    People <- MCPeople
    Phones <- MCPhones
    Book <- MCBook
    MaxExpiries = 2
    MaxCrashes = 1
INVARIANTS
    SyncHoldsItsPages
    TokensAreKept
PROPERTIES
    SyncsAreAuthorized
    SyncsEnd
CHECK_DEADLOCK FALSE
