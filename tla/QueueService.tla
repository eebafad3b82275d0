---------------------------- MODULE QueueService ----------------------------
(***************************************************************************)
(* The queue layer of the service: src/services/QueueService.              *)
(*                                                                         *)
(* A QueueService wraps one Bull queue.  A caller (an HTTP handler, or the *)
(* callback of another job) registers a QueueWorker that holds three       *)
(* callbacks, adds the job to Redis and only learns the job's id when      *)
(* Redis answers.  When an attempt of the job ends, Bull emits `completed' *)
(* or `failed' and processEvents looks the worker up by (name, id) to call *)
(* the callback.                                                           *)
(*                                                                         *)
(* Three kinds of state live in three places:                              *)
(*   - Redis (survives the process): job, attemptsMade, id, lastId         *)
(*   - the process (lost by a crash): workers, jobId, armed, event, http   *)
(*   - history, for the properties only: called, orphans, crashes          *)
(*                                                                         *)
(* A request stands for one call of setWorker(..).save(..): the HTTP       *)
(* request of the caller, its worker and the job it adds.                  *)
(*                                                                         *)
(* A definition whose name ends in _Bug is a plausible mistake in the code *)
(* that the definition after it models.  No specification uses it; in the  *)
(* place of the correct definition it breaks one of the properties.        *)
(***************************************************************************)
EXTENDS Naturals, Sequences, FiniteSets

CONSTANTS
    Queues,         \* the Bull queues of index.job.ts
    Requests,       \* the calls of setWorker(..).save(..)
    QueueOf,        \* [Requests -> Queues]
    JobName,        \* the job name of each request
    Attempts,       \* defaultJobOptions.attempts of each queue
    Handlers,       \* jobs per queue: queue.process(name, 1, handle) for each
    RemoveTrying,   \* requests that call trying(cb, true)
    MaxCrashes      \* bound: how often the process dies and restarts

ASSUME QueueAssumption  == QueueOf \in [Requests -> Queues]
ASSUME AttemptsAssumption == Attempts \in [Queues -> Nat \ {0}]
ASSUME HandlersAssumption == Handlers \in [Queues -> Nat \ {0}]
ASSUME RemoveTryingAssumption == RemoveTrying \subseteq Requests
ASSUME CrashesAssumption == MaxCrashes \in Nat

VARIABLES
    http,           \* what the caller's `await save()' has got so far
    job,            \* Redis: where the request's job is
    attemptsMade,   \* Redis: failed attempts of the job
    id,             \* Redis: the job's id, a counter of its queue (0: no job)
    lastId,         \* Redis: the last id given in each queue
    event,          \* the Bull event emitted and not yet handled
    workers,        \* QueueService.workers
    jobId,          \* QueueWorker.jobId (0: undefined)
    armed,          \* workers whose queueWorkerCallback.trying is not null
    called,         \* history: the callbacks called on the worker, in order
    orphans,        \* history: requests submitted before the last crash
    crashes         \* how many crashes so far

redisVars   == <<job, attemptsMade, id, lastId>>
processVars == <<http, event, workers, jobId, armed>>
historyVars == <<called, orphans, crashes>>
vars == <<http, job, attemptsMade, id, lastId, event, workers, jobId, armed,
          called, orphans, crashes>>

HttpStates == {"idle", "pending", "ok", "error", "lost"}
JobStates  == {"none", "queued", "active", "completed", "failed"}
Events     == {"none", "completed", "failed"}
Callbacks  == {"trying", "success", "failed", "TypeError"}

TypeOK ==
    /\ http \in [Requests -> HttpStates]
    /\ job \in [Requests -> JobStates]
    /\ attemptsMade \in [Requests -> Nat]
    /\ id \in [Requests -> Nat]
    /\ lastId \in [Queues -> Nat]
    /\ event \in [Requests -> Events]
    /\ workers \subseteq Requests
    /\ jobId \in [Requests -> Nat]
    /\ armed \subseteq Requests
    /\ called \in [Requests -> Seq(Callbacks)]
    /\ orphans \subseteq Requests
    /\ crashes \in Nat

Init ==
    /\ http = [r \in Requests |-> "idle"]
    /\ job = [r \in Requests |-> "none"]
    /\ attemptsMade = [r \in Requests |-> 0]
    /\ id = [r \in Requests |-> 0]
    /\ lastId = [q \in Queues |-> 0]
    /\ event = [r \in Requests |-> "none"]
    /\ workers = {}
    /\ jobId = [r \in Requests |-> 0]
    /\ armed = {}
    /\ called = [r \in Requests |-> <<>>]
    /\ orphans = {}
    /\ crashes = 0

-----------------------------------------------------------------------------
(* Adding a job: setWorker, then save. *)

\* setWorker(name).trying(..).failed(..).success(..).save(..) up to the await
\* on queue.add: the worker is in the list, its jobId is still undefined.
Submit(r) ==
    /\ http[r] = "idle"
    /\ http' = [http EXCEPT ![r] = "pending"]
    /\ workers' = workers \cup {r}
    /\ armed' = armed \cup {r}
    /\ UNCHANGED <<redisVars, historyVars, event, jobId>>

\* External: Redis runs the add script and gives the job the queue's next id.
RedisAdd(r) ==
    LET q == QueueOf[r] IN
    /\ http[r] = "pending"
    /\ job[r] = "none"
    /\ job' = [job EXCEPT ![r] = "queued"]
    /\ lastId' = [lastId EXCEPT ![q] = @ + 1]
    /\ id' = [id EXCEPT ![r] = lastId[q] + 1]
    /\ UNCHANGED <<processVars, historyVars, attemptsMade>>

\* `this.jobId = job.id' is missing.
SaveReplyNoId_Bug(r) ==
    /\ http[r] = "pending"
    /\ job[r] # "none"
    /\ http' = [http EXCEPT ![r] = "ok"]
    /\ UNCHANGED <<redisVars, historyVars, event, workers, jobId, armed>>

\* The await returns: this.jobId = job.id, and the caller goes on.
SaveReply(r) ==
    /\ http[r] = "pending"
    /\ job[r] # "none"
    /\ http' = [http EXCEPT ![r] = "ok"]
    /\ jobId' = [jobId EXCEPT ![r] = id[r]]
    /\ UNCHANGED <<redisVars, historyVars, event, workers, armed>>

\* The await throws: Redis refused the job, or ran the script and its answer
\* was lost.  Nothing removes the worker that setWorker put in the list.
SaveError(r) ==
    /\ http[r] = "pending"
    /\ http' = [http EXCEPT ![r] = "error"]
    /\ UNCHANGED <<redisVars, historyVars, event, workers, jobId, armed>>

-----------------------------------------------------------------------------
(* Bull runs the attempts of the jobs (external, node_modules/bull).        *)

\* The jobs of r's queue that a handler is running.
Running(r) == {s \in Requests : QueueOf[s] = QueueOf[r] /\ job[s] = "active"}

\* A free handler of the queue takes the job.  Every queue delays its jobs by
\* 10 ms or more and Redis answers one connection in order, so the answer to
\* the add (or its failure) reaches save before the job's first attempt ends.
Activate(r) ==
    /\ job[r] = "queued"
    /\ http[r] # "pending"
    /\ Cardinality(Running(r)) < Handlers[QueueOf[r]]
    /\ job' = [job EXCEPT ![r] = "active"]
    /\ UNCHANGED <<processVars, historyVars, attemptsMade, id, lastId>>

\* The handler's promise resolves: moveToCompleted, then emit('completed').
Complete(r) ==
    /\ job[r] = "active"
    /\ event[r] = "none"
    /\ job' = [job EXCEPT ![r] = "completed"]
    /\ event' = [event EXCEPT ![r] = "completed"]
    /\ UNCHANGED <<historyVars, attemptsMade, id, lastId, http, workers,
                   jobId, armed>>

\* The handler throws or its `timeout' passes: moveToFailed counts the attempt
\* and queues the job again until the attempts are used up; emit('failed').
Fail(r) ==
    LET made == attemptsMade[r] + 1 IN
    /\ job[r] = "active"
    /\ event[r] = "none"
    /\ attemptsMade' = [attemptsMade EXCEPT ![r] = made]
    /\ job' = [job EXCEPT ![r] = IF made >= Attempts[QueueOf[r]]
                                 THEN "failed" ELSE "queued"]
    /\ event' = [event EXCEPT ![r] = "failed"]
    /\ UNCHANGED <<historyVars, id, lastId, http, workers, jobId, armed>>

-----------------------------------------------------------------------------
(* The listeners of process() and processEvents.                            *)

\* Bull's name of the event is passed on as the callback's.
EventTypeRaw_Bug(r) ==
    IF event[r] = "completed" THEN event[r]
    ELSE IF attemptsMade[r] >= Attempts[QueueOf[r]] THEN "failed"
    ELSE "trying"

\* job.opts.attempts is not read and its fallback 0 is used.
EventTypeNoAttempts_Bug(r) ==
    IF event[r] = "completed" THEN "success" ELSE "failed"

\* > for >= between attemptsMade and attempts.
EventTypeLate_Bug(r) ==
    IF event[r] = "completed" THEN "success"
    ELSE IF attemptsMade[r] > Attempts[QueueOf[r]] THEN "failed"
    ELSE "trying"

\* The listeners classify the event: `failed' stands for both a failed
\* attempt and a failed job.
EventType(r) ==
    IF event[r] = "completed" THEN "success"
    ELSE IF attemptsMade[r] >= Attempts[QueueOf[r]] THEN "failed"
    ELSE "trying"

AttemptsRest(r) == Attempts[QueueOf[r]] - attemptsMade[r]

\* The worker is looked up by the job's name only.
MatchingByName_Bug(r) ==
    {w \in workers : QueueOf[w] = QueueOf[r] /\ JobName[w] = JobName[r]}

\* A worker that has no jobId yet matches any job.
MatchingUndefined_Bug(r) ==
    {w \in workers : /\ QueueOf[w] = QueueOf[r]
                     /\ JobName[w] = JobName[r]
                     /\ jobId[w] \in {0, id[r]}}

\* this.workers.find: workers of the queue's own service whose name and jobId
\* are the job's.
Matching(r) ==
    {w \in workers : /\ QueueOf[w] = QueueOf[r]
                     /\ JobName[w] = JobName[r]
                     /\ jobId[w] = id[r]}

\* processEvents when no worker is found: nothing is called.
Ignore(r) ==
    /\ event[r] # "none"
    /\ Matching(r) = {}
    /\ event' = [event EXCEPT ![r] = "none"]
    /\ UNCHANGED <<redisVars, historyVars, http, workers, jobId, armed>>

\* attemptsRest <= 2 for attemptsRest <= 1.
ClearsTryingEarly_Bug(r, w) == w \in RemoveTrying /\ AttemptsRest(r) <= 2

\* removeWorker(uid, 'trying') only when the next failure must be the last.
ClearsTrying(r, w) == w \in RemoveTrying /\ AttemptsRest(r) <= 1

\* processEvents('trying'): the entry may already be null, and destructuring
\* null throws before any callback is called.
Trying(r, w) ==
    /\ event[r] # "none"
    /\ EventType(r) = "trying"
    /\ w \in Matching(r)
    /\ event' = [event EXCEPT ![r] = "none"]
    /\ called' = [called EXCEPT ![w] = Append(@, IF w \in armed THEN "trying"
                                                 ELSE "TypeError")]
    /\ armed' = IF ClearsTrying(r, w) THEN armed \ {w} ELSE armed
    /\ UNCHANGED <<redisVars, http, workers, jobId, orphans, crashes>>

\* The worker is not removed.
SettleKeeps_Bug(r, w) ==
    /\ event[r] # "none"
    /\ EventType(r) # "trying"
    /\ w \in Matching(r)
    /\ event' = [event EXCEPT ![r] = "none"]
    /\ called' = [called EXCEPT ![w] = Append(@, EventType(r))]
    /\ UNCHANGED <<redisVars, http, workers, jobId, armed, orphans, crashes>>

\* processEvents('success' or 'failed'): every caller of a job that runs once
\* passes removeWorkerAfter with these two, so the worker leaves the list.
Settle(r, w) ==
    /\ event[r] # "none"
    /\ EventType(r) # "trying"
    /\ w \in Matching(r)
    /\ event' = [event EXCEPT ![r] = "none"]
    /\ called' = [called EXCEPT ![w] = Append(@, EventType(r))]
    /\ workers' = workers \ {w}
    /\ UNCHANGED <<redisVars, http, jobId, armed, orphans, crashes>>

Dispatch(r) ==
    \/ Ignore(r)
    \/ \E w \in Requests : Trying(r, w)
    \/ \E w \in Requests : Settle(r, w)

-----------------------------------------------------------------------------
\* The process dies (a crash, an unhandled rejection, a deploy) and starts
\* again (`restart: always'): workers and pending requests are gone, the jobs
\* that were running are stalled and go back to the queue.
Crash ==
    /\ crashes < MaxCrashes
    /\ crashes' = crashes + 1
    /\ orphans' = {r \in Requests : http[r] # "idle"}
    /\ http' = [r \in Requests |-> IF http[r] = "pending" THEN "lost"
                                   ELSE http[r]]
    /\ job' = [r \in Requests |-> IF job[r] = "active" THEN "queued"
                                  ELSE job[r]]
    /\ event' = [r \in Requests |-> "none"]
    /\ workers' = {}
    /\ jobId' = [r \in Requests |-> 0]
    /\ armed' = {}
    /\ UNCHANGED <<attemptsMade, id, lastId, called>>

Step(r) ==
    \/ Submit(r)
    \/ RedisAdd(r)
    \/ SaveReply(r)
    \/ SaveError(r)
    \/ Activate(r)
    \/ Complete(r)
    \/ Fail(r)
    \/ Dispatch(r)

Next == (\E r \in Requests : Step(r)) \/ Crash

Spec == Init /\ [][Next]_vars

\* A pending save gets an answer or an error, a free handler takes a queued
\* job, an attempt ends (at the latest when the job's `timeout' passes), and an
\* emitted event reaches its listener.  Nothing makes a request arrive, a job
\* succeed or the process die.
Fairness ==
    \A r \in Requests :
        /\ WF_vars(SaveReply(r) \/ SaveError(r))
        /\ WF_vars(Activate(r))
        /\ WF_vars(Complete(r) \/ Fail(r))
        /\ WF_vars(Dispatch(r))

FairSpec == Spec /\ Fairness

-----------------------------------------------------------------------------
(* Properties.                                                              *)

Terminal == {"success", "failed"}

\* The job has its outcome and the event has been handled (or lost).
Handled(r) == job[r] \in {"completed", "failed"} /\ event[r] = "none"

\* The caller was answered, by the process that is still running.
Tracked(r) == http[r] = "ok" /\ r \notin orphans

\* An event calls the callbacks of the request whose job it is about, and of
\* no other one, although ids are only unique within a queue and a worker has
\* no id yet while its save is pending (processEvents, the find).
OwnWorker ==
    \A r \in Requests : event[r] # "none" => Matching(r) \subseteq {r}

\* The callbacks of a request are: some `trying', fewer than the attempts, then
\* at most one of `success' and `failed'; and processEvents never meets the
\* null that removeWorker(uid, 'trying') leaves behind.
CallbackProtocol ==
    \A r \in Requests :
        /\ \A i \in 1 .. Len(called[r]) :
                /\ called[r][i] # "TypeError"
                /\ i < Len(called[r]) => called[r][i] = "trying"
        /\ Len(called[r]) <= Attempts[QueueOf[r]]

\* While the process that answered the request runs, no outcome is missed:
\* one callback for each failed attempt and one for the success, except the
\* one whose event is still on its way.
EveryOutcomeCalled ==
    \A r \in Requests : Tracked(r) =>
        Len(called[r]) + (IF event[r] = "none" THEN 0 ELSE 1)
            = attemptsMade[r] + (IF job[r] = "completed" THEN 1 ELSE 0)

\* QueueService.workers holds the workers of the jobs still without an outcome
\* and no others, except those whose save is pending or has thrown (a thrown
\* save leaves its worker in the list for good).
WorkersAreOpenJobs ==
    \A r \in Requests :
        /\ Tracked(r) => (r \in workers <=> ~Handled(r))
        /\ r \in workers => Tracked(r) \/ http[r] \in {"pending", "error"}

\* A step calls at most one callback, of a request that was answered by this
\* process, and never once `success' or `failed' was called.
CallbacksAreTracked ==
    [][\A r \in Requests : called'[r] # called[r] =>
        /\ Tracked(r)
        /\ \A i \in 1 .. Len(called[r]) : called[r][i] \notin Terminal
        /\ \A s \in Requests \ {r} : called'[s] = called[s]]_vars

\* What JobOutcome sees of a request: its job without queue and attempts, and
\* its last callback if that is a terminal one.
OutcomeOf ==
    [r \in Requests |-> IF job[r] \in {"queued", "active"} THEN "open"
                        ELSE job[r]]
ToldOf ==
    [r \in Requests |->
        LET n == Len(called[r]) IN
        IF n > 0 /\ called[r][n] \in Terminal THEN called[r][n] ELSE "none"]

Outcome == INSTANCE JobOutcome WITH outcome <- OutcomeOf, told <- ToldOf

\* The detailed specification implements what JobOutcome promises: an outcome
\* is never changed, it is told truthfully and once, and an accepted job gets
\* one in spite of crashes.
ImplementsJobOutcome == Outcome!Spec

\* A request that was answered has its success or failed callback called,
\* unless the process dies first: then nobody is ever told.
AnsweredIsTold ==
    \A r \in Requests :
        http[r] = "ok" ~>
            \/ r \in orphans
            \/ \E i \in 1 .. Len(called[r]) : called[r][i] \in Terminal
=============================================================================
