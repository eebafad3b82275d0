SPECIFICATION FairSpec
CONSTANTS
    s1 = s1
    s2 = s2
    s3 = s3
    c1 = c1
    c2 = c2
    Sockets <- MCSockets
    Token <- MCToken
    Calls <- MCCalls
INVARIANTS
    ClientsAreConnected
    FirstIsOldest
    MailsMatchClients
PROPERTIES
    ImplementsProviderCall
    VanishedLeave
CHECK_DEADLOCK FALSE
