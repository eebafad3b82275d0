SPECIFICATION Spec
CONSTANTS
    r1 = r1
    r2 = r2
    r3 = r3
    Queues <- MCQueues
    Requests <- MCRequests
    QueueOf <- MCQueueOf
    JobName <- MCJobName
    Attempts <- MCAttempts
    Handlers <- MCHandlers
    RemoveTrying <- MCRemoveTrying
    MaxCrashes = 1
INVARIANTS
    TypeOK
    OwnWorker
    CallbackProtocol
    EveryOutcomeCalled
    WorkersAreOpenJobs
PROPERTIES
    CallbacksAreTracked
CHECK_DEADLOCK FALSE
