--------------------------- MODULE MCQueueService ---------------------------
(* A small instance of QueueService: two queues with the attempts and the   *)
(* handlers of MAXBOT_QUEUE (3, 2 jobs) and SOCKET_QUEUE (2, 1 job).        *)
EXTENDS QueueService, TLC

CONSTANTS r1, r2, r3

MCQueues == {"MAXBOT", "SOCKET"}
MCRequests == {r1, r2, r3}

\* Two texts share a queue, the third request has the other one.
MCQueueOf == (r1 :> "MAXBOT") @@ (r2 :> "MAXBOT") @@ (r3 :> "SOCKET")
MCJobName == [r \in MCRequests |->
                IF r = r3 THEN "SendSocketText" ELSE "SendMaxbotText"]
MCAttempts == [q \in MCQueues |-> IF q = "MAXBOT" THEN 3 ELSE 2]
MCHandlers == [q \in MCQueues |-> IF q = "MAXBOT" THEN 2 ELSE 1]

\* sendMaxbotText passes true to trying, sendMaxbotImage and
\* sendScheduledText do not.
MCRemoveTrying == {r1}
=============================================================================
