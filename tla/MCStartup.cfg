SPECIFICATION FairSpec
CONSTANTS
    sendLogs = sendLogs
    maxbot = maxbot
    report = report
    message = message
    Queues <- MCQueues
    Starting <- MCStarting
    Jobs <- MCJobs
    QueueOf <- MCQueueOf
    MaxRetries = 3
    MaxCrashes = 1
INVARIANTS
    TypeOK
    GivesUpOnGone
    AllOrNone
PROPERTIES
    WaitingIsRun
CHECK_DEADLOCK FALSE
