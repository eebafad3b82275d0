SPECIFICATION LogSpec
CONSTANTS
    text = text
    mail = mail
    socket = socket
    image = image
    general = general
    Queues <- MCQueues
    Requests <- MCTriesRequests
    QueueOf <- MCTriesQueueOf
    JobName <- MCTriesJobName
    Attempts <- MCAttempts
    Handlers <- MCHandlers
    RemoveTrying <- MCTriesRemoveTrying
    MaxCrashes = 0
    Kind <- MCTriesKind
    WantsEmail <- MCTriesWantsEmail
    Contingency <- MCTriesContingency
INVARIANTS
    EveryTryIsLogged
CHECK_DEADLOCK FALSE
