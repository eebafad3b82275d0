SPECIFICATION LogFairSpec
CONSTANTS
    text = text
    mail = mail
    socket = socket
    image = image
    general = general
    Queues <- MCQueues
    Requests <- MCRequests
    QueueOf <- MCQueueOf
    JobName <- MCJobName
    Attempts <- MCAttempts
    Handlers <- MCHandlers
    RemoveTrying <- MCRemoveTrying
    MaxCrashes = 1
    Kind <- MCKind
    WantsEmail <- MCWantsEmail
    Contingency <- MCContingency
INVARIANTS
    RowsAreTrue
    OneRowPerOutcome
    OutcomeIsLogged
    ContingencyOnlyForFailed
PROPERTIES
    ImplementsJobOutcome
    AnsweredIsTold
    FailedTextIsMailed
CHECK_DEADLOCK FALSE
