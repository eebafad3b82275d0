----------------------------- MODULE MCStartup -----------------------------
(* A small instance of Startup: the queue of the nightly report, which has a *)
(* starter, and another one.                                                 *)
EXTENDS Startup, TLC

CONSTANTS sendLogs, maxbot, report, message

MCQueues == {sendLogs, maxbot}
MCStarting == {sendLogs}
MCJobs == {report, message}
MCQueueOf == (report :> sendLogs) @@ (message :> maxbot)
=============================================================================
