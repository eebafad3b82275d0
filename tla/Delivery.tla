------------------------------ MODULE Delivery ------------------------------
(***************************************************************************)
(* What the recipient gets: the handlers that Bull runs for the attempts   *)
(* of the send jobs, and the providers they call.                          *)
(* src/useCases/send/{send-maxbot.job,send-socket,send-email},             *)
(* src/services/EmailService.                                              *)
(*                                                                         *)
(* A handler runs in the process and is never cancelled: when Bull's       *)
(* `timeout' fails the attempt, or the process dies, what it has put on    *)
(* the wire can still be carried out by the provider, beside the next      *)
(* attempt.  A provider is external: it carries a call out or refuses it,  *)
(* and its answer may get lost.                                            *)
(***************************************************************************)
EXTENDS Naturals, Sequences, FiniteSets

CONSTANTS
    Requests,       \* the jobs that are sent
    Methods,        \* the methods of the send services that add them
    MaxCrashes      \* bound: how often the process dies and restarts

\* What each method adds: the name of the job, its attempts (the
\* defaultJobOptions of the queue) and whether its data hold a text or a url.
Job(name, attempts, content) ==
    [name |-> name, attempts |-> attempts, content |-> content]

\* sendMaxbotImage registers its job under the name of the text job.
JobOf ==
    [sendMaxbotText    |-> Job("SendMaxbotText", 3, "text"),
     sendMaxbotImage   |-> Job("SendMaxbotText", 3, "url"),
     sendScheduledText |-> Job("SendSocketText", 2, "text"),
     sendGeneral       |-> Job("sendGeneralEmailJob", 2, "text"),
     sendGeneralSg     |-> Job("SendGeneralEmailJobSg", 2, "text"),
     sendContingency   |-> Job("SendHtmlEmailJob", 2, "text")]

\* queue.process(name, 1, handle): what the handler of each name calls.
Processor ==
    [SendMaxbotText |-> "maxbot.sendText", SendMaxbotImage |-> "maxbot.sendImage",
     SendSocketText |-> "socket",
     SendHtmlEmailJob |-> "smtp", sendGeneralEmailJob |-> "smtp",
     SendHtmlEmailJobSg |-> "sendgrid", SendGeneralEmailJobSg |-> "sendgrid"]

ASSUME MethodsAssumption == Methods \subseteq DOMAIN JobOf
ASSUME CrashesAssumption == MaxCrashes \in Nat

VARIABLES
    method,         \* the method that added the job
    job,            \* Redis: where the job is
    attemptsMade,   \* Redis: its failed attempts
    started,        \* history: how often a handler was started for the job
    running,        \* the handler runs that have not ended
    wire,           \* calls on their way to a provider
    received,       \* history: what the recipient got, in order
    crashes         \* how many crashes so far

redisVars == <<method, job, attemptsMade>>
vars == <<method, job, attemptsMade, started, running, wire, received, crashes>>

Attempts(r) == JobOf[method[r]].attempts
Provider(r) == Processor[JobOf[method[r]].name]
Content(r)  == JobOf[method[r]].content

Contents == {"text", "url", "undefined"}
Stages   == {"status", "call", "wait", "success", "error"}

\* The types, and no attempt beyond those of the job.
TypeOK ==
    /\ method \in [Requests -> Methods \cup {"none"}]
    /\ job \in [Requests -> {"none", "queued", "active", "completed", "failed"}]
    /\ attemptsMade \in [Requests -> Nat]
    /\ \A r \in Requests :
        attemptsMade[r] <= (IF method[r] = "none" THEN 0 ELSE Attempts(r))
    /\ started \in [Requests -> Nat]
    /\ running \subseteq [request : Requests, nth : Nat, stage : Stages]
    /\ wire \subseteq [request : Requests, nth : Nat, content : Contents]
    /\ received \in [Requests -> Seq(Contents)]
    /\ crashes \in Nat

Init ==
    /\ method = [r \in Requests |-> "none"]
    /\ job = [r \in Requests |-> "none"]
    /\ attemptsMade = [r \in Requests |-> 0]
    /\ started = [r \in Requests |-> 0]
    /\ running = {}
    /\ wire = {}
    /\ received = [r \in Requests |-> <<>>]
    /\ crashes = 0

\* Bull waits for the newest run of a job only.
Current(run) == run.nth = started[run.request] /\ job[run.request] = "active"

At(run, stage) == [run EXCEPT !.stage = stage]

-----------------------------------------------------------------------------
(* The queue (see QueueService for what happens between a job and its         *)
(* caller).                                                                  *)

\* A method of the send services adds its job.
Add(r) ==
    /\ job[r] = "none"
    /\ \E m \in Methods : method' = [method EXCEPT ![r] = m]
    /\ job' = [job EXCEPT ![r] = "queued"]
    /\ UNCHANGED <<attemptsMade, started, running, wire, received, crashes>>

\* External: moveToCompleted
Complete(r) ==
    /\ job' = [job EXCEPT ![r] = "completed"]
    /\ UNCHANGED <<method, attemptsMade>>

\* External: moveToFailed counts the attempt and queues the job again until
\* its attempts are used up.
Fail(r) ==
    LET made == attemptsMade[r] + 1 IN
    /\ attemptsMade' = [attemptsMade EXCEPT ![r] = made]
    /\ job' = [job EXCEPT ![r] = IF made >= Attempts(r) THEN "failed"
                                 ELSE "queued"]
    /\ UNCHANGED method

-----------------------------------------------------------------------------
(* The handlers.                                                             *)

\* A text asks for the status of Maxbot from its third attempt on, an image
\* always, the others never.
FirstStage(r) ==
    IF \/ Provider(r) = "maxbot.sendImage"
       \/ Provider(r) = "maxbot.sendText" /\ attemptsMade[r] > 1
    THEN "status" ELSE "call"

StartRun(r) ==
    /\ job[r] = "queued"
    /\ job' = [job EXCEPT ![r] = "active"]
    /\ started' = [started EXCEPT ![r] = @ + 1]
    /\ running' = running \cup
                    {[request |-> r, nth |-> started'[r], stage |-> FirstStage(r)]}
    /\ UNCHANGED <<method, attemptsMade, wire, received, crashes>>

\* maxbot.getStatus: ready, or not ready (or no answer) and the handler throws.
CheckStatus(run) ==
    /\ run.stage = "status"
    /\ \E next \in {"call", "error"} :
        running' = (running \ {run}) \cup {At(run, next)}
    /\ UNCHANGED <<redisVars, started, wire, received, crashes>>

\* What a handler finds in the job's data: each reads either `text' or `url'.
Payload(r) ==
    LET reads == IF Provider(r) = "maxbot.sendImage" THEN "url" ELSE "text"
    IN  IF Content(r) = reads THEN reads ELSE "undefined"

\* A second call of the provider in the same run, as after an error.
Call_Bug(run) ==
    /\ run.stage \in {"call", "error"}
    /\ running' = (running \ {run}) \cup {At(run, "wait")}
    /\ wire' = wire \cup {[request |-> run.request, nth |-> run.nth,
                           content |-> Payload(run.request)]}
    /\ UNCHANGED <<redisVars, started, received, crashes>>

\* maxbot.sendText, maxbot.sendImage, socketServerService.sendText or
\* mailService.send, up to its await.
Call(run) ==
    /\ run.stage = "call"
    /\ running' = (running \ {run}) \cup {At(run, "wait")}
    /\ wire' = wire \cup {[request |-> run.request, nth |-> run.nth,
                           content |-> Payload(run.request)]}
    /\ UNCHANGED <<redisVars, started, received, crashes>>

\* The run that waits for the call's answer, if it is still there.
Waiting(call) ==
    {run \in running : /\ run.request = call.request
                       /\ run.nth = call.nth
                       /\ run.stage = "wait"}

\* The answer reaches the run, or is lost on its way.
Answer(call, stage) ==
    \/ running' = (running \ Waiting(call)) \cup
                    {At(run, stage) : run \in Waiting(call)}
    \/ UNCHANGED running

\* External: the provider carries the call out.
Carry(call) ==
    /\ wire' = wire \ {call}
    /\ received' = [received EXCEPT ![call.request] = Append(@, call.content)]
    /\ Answer(call, "success")
    /\ UNCHANGED <<redisVars, started, crashes>>

\* External: the provider refuses the call (status 0, success false, an SMTP
\* error), or it never gets there.
Refuse(call) ==
    /\ wire' = wire \ {call}
    /\ Answer(call, "error")
    /\ UNCHANGED <<redisVars, started, received, crashes>>

\* The client stops waiting: the 10 s of Maxbot, the 5 s of withTimeout, a
\* dropped connection to a mail server.
GiveUp(run) ==
    /\ run.stage = "wait"
    /\ running' = (running \ {run}) \cup {At(run, "error")}
    /\ UNCHANGED <<redisVars, started, wire, received, crashes>>

-----------------------------------------------------------------------------
(* The end of a run.                                                         *)

\* `!message' alone decides: a refusal is an answer too.
Swallows_Bug(r) == Provider(r) \in {"smtp", "socket"}

\* createTransporterSMTP turns an error into null and the handler returns it
\* (createTransporterSG tries the same, but its logger is undefined there and
\* the catch itself throws).  The other handlers throw.
Swallows(r) == Provider(r) = "smtp"

\* A run of an attempt that Bull has given up ends unheard.
EndRun(run) ==
    /\ run.stage \in {"success", "error"}
    /\ running' = running \ {run}
    /\ IF ~Current(run) THEN UNCHANGED redisVars
       ELSE IF run.stage = "success" \/ Swallows(run.request)
       THEN Complete(run.request)
       ELSE Fail(run.request)
    /\ UNCHANGED <<started, wire, received, crashes>>

\* Bull's timeout is left out.
TimeOut_Bug(run) ==
    /\ run.stage = "status"
    /\ Current(run)
    /\ Fail(run.request)
    /\ UNCHANGED <<started, running, wire, received, crashes>>

\* Bull's `timeout' fails the attempt; the run goes on.
TimeOut(run) ==
    /\ run.stage \notin {"success", "error"}
    /\ Current(run)
    /\ Fail(run.request)
    /\ UNCHANGED <<started, running, wire, received, crashes>>

RunStep(run) ==
    CheckStatus(run) \/ Call(run) \/ GiveUp(run) \/ EndRun(run) \/ TimeOut(run)

\* The process dies and starts again: its handler runs are gone, their jobs go
\* back to the queue, and what is on the wire is out of its reach.
Crash ==
    /\ crashes < MaxCrashes
    /\ crashes' = crashes + 1
    /\ job' = [r \in Requests |-> IF job[r] = "active" THEN "queued" ELSE job[r]]
    /\ running' = {}
    /\ UNCHANGED <<method, attemptsMade, started, wire, received>>

Next ==
    \/ \E r \in Requests : Add(r) \/ StartRun(r)
    \/ \E run \in running : RunStep(run)
    \/ \E call \in wire : Carry(call) \/ Refuse(call)
    \/ Crash

Spec == Init /\ [][Next]_vars

\* Bull starts the attempts and ends them, on time or by `timeout'.  Neither
\* the providers nor their clients owe an answer.
Fairness ==
    \A r \in Requests :
        /\ WF_vars(StartRun(r))
        /\ WF_vars(\E run \in running :
                    /\ run.request = r
                    /\ Current(run)
                    /\ TimeOut(run) \/ EndRun(run))

FairSpec == Spec /\ Fairness

-----------------------------------------------------------------------------
(* Properties.                                                              *)

\* A job that Redis calls completed has reached the recipient, whatever was
\* answered late, lost or tried again: a handler resolves only on an answer
\* that says so.  Jobs of the SMTP handler are the exception (see
\* MailErrorsFail).
CompletedWasReceived ==
    \A r \in Requests :
        job[r] = "completed" /\ Provider(r) # "smtp" => received[r] # <<>>

\* The recipient may get a message twice, but no more often than there were
\* attempts: one copy for each failed attempt, one for the attempt that runs
\* or has succeeded, and one for each restart that cut an attempt short.
CopiesAreBounded ==
    \A r \in Requests :
        Len(received[r]) + Cardinality({call \in wire : call.request = r})
            <= attemptsMade[r] + crashes
                + (IF job[r] \in {"active", "completed"} THEN 1 ELSE 0)

\* A job leaves the queue even if no provider ever answers: the `timeout' of
\* every queue ends each attempt and the attempts run out.
QueuedIsDecided ==
    \A r \in Requests :
        job[r] = "queued" ~> job[r] \in {"completed", "failed"}

\* An e-mail job whose mail no server took fails, so that the queue tries it
\* again (`adicionado tentativa exponencial', attempts and backoff of
\* send-email.job.ts).
MailErrorsFail ==
    \A r \in Requests :
        job[r] = "completed" /\ Provider(r) = "smtp" => received[r] # <<>>

\* What goes to the provider is what the request asked to send: an image
\* request sends its image (scope.md: type is text or image).
ImagesAreSent == \A call \in wire : call.content = Content(call.request)
=============================================================================
