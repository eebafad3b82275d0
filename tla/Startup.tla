------------------------------- MODULE Startup -------------------------------
(***************************************************************************)
(* How the process starts: the database, the wait for Redis, the queues    *)
(* and the HTTP server.  src/index.ts, src/app/AppExpress.ts,              *)
(* src/services/QueueService/{afterRedisConnect,index}.ts.                 *)
(*                                                                         *)
(* Redis is waited for by polling the status of one client, which goes     *)
(* through any number of states between two polls.  The queues are         *)
(* processed only if a poll sees it ready; otherwise the server listens    *)
(* all the same.  An error of the database rejects startServer, which ends *)
(* the process, and docker starts it again.                                *)
(***************************************************************************)
EXTENDS Naturals

CONSTANTS
    Queues,         \* the queues of index.job.ts
    Starting,       \* those with a starter (onInit)
    Jobs,           \* the jobs of the queues
    QueueOf,
    MaxRetries,     \* of tryRedisConnection
    MaxCrashes      \* bound: how often the process dies and restarts

ASSUME QueuesAssumption ==
    Queues # {} /\ Starting \subseteq Queues /\ QueueOf \in [Jobs -> Queues]
ASSUME RetriesAssumption == MaxRetries \in Nat \ {0}
ASSUME CrashesAssumption == MaxCrashes \in Nat

VARIABLES
    app,            \* where startServer is
    initialized,    \* dataSource.isInitialized
    redis,          \* the status of the client that is polled
    retries,        \* tryRedisConnection: polls that found it gone
    saw,            \* history: the polls of this process, by what they saw
    handlers,       \* how often process() defined the handlers of a queue
    starters,       \* the queues whose starter was not called yet
    registered,     \* history: how often it was called in this process
    job,            \* Redis: where each job is
    crashes         \* how many crashes so far

queueVars == <<handlers, starters, registered>>
vars == <<app, initialized, redis, retries, saw, queueVars, job, crashes>>

\* External: the states of an ioredis client that tries again for ever.
NextStatus ==
    [connecting |-> {"connect", "close"}, connect |-> {"ready", "close"},
     ready |-> {"close"}, close |-> {"reconnecting"},
     reconnecting |-> {"connecting"}]

Statuses == DOMAIN NextStatus

\* The types, and that a handler is defined and a starter called once.
TypeOK ==
    /\ app \in {"down", "database", "timer", "listening"}
    /\ initialized \in BOOLEAN
    /\ redis \in Statuses
    /\ retries \in 0 .. MaxRetries
    /\ saw \in [Statuses -> 0 .. MaxRetries]
    /\ handlers \in [Queues -> 0 .. 1]
    /\ starters \subseteq Queues
    /\ registered \in [Queues -> 0 .. 1]
    /\ job \in [Jobs -> {"none", "waiting", "active", "done"}]
    /\ crashes \in Nat

InitProcess(a, i, n, s, h, t, r) ==
    /\ a = "down"
    /\ i = FALSE
    /\ n = 0
    /\ s = [status \in Statuses |-> 0]
    /\ h = [q \in Queues |-> 0]
    /\ t = Starting
    /\ r = [q \in Queues |-> 0]

Init ==
    /\ InitProcess(app, initialized, retries, saw, handlers, starters, registered)
    /\ redis = "connecting"
    /\ job = [j \in Jobs |-> "none"]
    /\ crashes = 0

-----------------------------------------------------------------------------
(* startServer                                                               *)

\* The modules are loaded (the queues create their clients), startServer runs.
StartServer ==
    /\ app = "down"
    /\ app' = "database"
    /\ UNCHANGED <<initialized, redis, retries, saw, queueVars, job, crashes>>

\* A starter that fails ends the loop over the queues.
ProcessQueuesStops_Bug ==
    /\ handlers' = [q \in Queues |-> IF q \in starters THEN 1 ELSE 0]
    /\ registered' = [q \in Queues |-> IF q \in starters THEN 1 ELSE 0]
    /\ starters' = {}

\* startQueues, on success: process() of each queue defines its listeners and
\* handlers and register() calls its starter.  All of it is one turn, so that no
\* job and no event comes between two of these calls or between two queues.
ProcessQueues ==
    /\ handlers' = [q \in Queues |-> handlers[q] + 1]
    /\ registered' = [q \in Queues |->
                        registered[q] + (IF q \in starters THEN 1 ELSE 0)]
    /\ starters' = {}

\* A client that is connecting counts like one that is gone.
CheckConnection_Bug ==
    /\ saw' = [saw EXCEPT ![redis] = IF redis = "connecting" THEN @ ELSE @ + 1]
    /\ IF redis = "ready"
       THEN app' = "listening" /\ ProcessQueues /\ UNCHANGED retries
       ELSE app' = "timer" /\ retries' = retries + 1 /\ UNCHANGED queueVars

\* checkConnection: on success startQueues and start go on to server.listen in
\* the same turn, otherwise a timer is set.
CheckConnection ==
    /\ saw' = [saw EXCEPT ![redis] = IF redis = "connecting" THEN @ ELSE @ + 1]
    /\ IF redis = "ready"
       THEN app' = "listening" /\ ProcessQueues /\ UNCHANGED retries
       ELSE /\ app' = "timer"
            /\ retries' = IF redis # "connecting" THEN retries + 1 ELSE retries
            /\ UNCHANGED queueVars

\* dataSource.initialize is there; listen and start run up to the first poll.
Initialize ==
    /\ app = "database"
    /\ initialized' = TRUE
    /\ CheckConnection
    /\ UNCHANGED <<redis, job, crashes>>

\* One poll too many.
IntervalOne_Bug ==
    /\ app = "timer"
    /\ IF retries <= MaxRetries THEN CheckConnection
       ELSE app' = "listening" /\ UNCHANGED <<retries, saw, queueVars>>
    /\ UNCHANGED <<initialized, redis, job, crashes>>

\* startQueues does not resolve when Redis is not there.
IntervalNoResolve_Bug ==
    /\ app = "timer"
    /\ retries < MaxRetries
    /\ CheckConnection
    /\ UNCHANGED <<initialized, redis, job, crashes>>

\* The timer is over: the next poll, or startQueues is false and the server
\* listens without queues.  The status is not looked at once more.
Interval ==
    /\ app = "timer"
    /\ IF retries < MaxRetries THEN CheckConnection
       ELSE app' = "listening" /\ UNCHANGED <<retries, saw, queueVars>>
    /\ UNCHANGED <<initialized, redis, job, crashes>>

-----------------------------------------------------------------------------
(* What happens beside it.                                                   *)

RedisStep ==
    /\ \E status \in NextStatus[redis] : redis' = status
    /\ UNCHANGED <<app, initialized, retries, saw, queueVars, job, crashes>>

\* A request, or a starter, adds a job.
AddJob(j) ==
    /\ job[j] = "none"
    /\ redis = "ready"
    /\ app = "listening" \/ registered[QueueOf[j]] > 0
    /\ job' = [job EXCEPT ![j] = "waiting"]
    /\ UNCHANGED <<app, initialized, redis, retries, saw, queueVars, crashes>>

\* External: Bull runs the handlers of a queue, however the job ends.
RunJob(j) ==
    /\ handlers[QueueOf[j]] > 0
    /\ redis = "ready"
    /\ \/ job[j] = "waiting" /\ job' = [job EXCEPT ![j] = "active"]
       \/ job[j] = "active" /\ job' = [job EXCEPT ![j] = "done"]
    /\ UNCHANGED <<app, initialized, redis, retries, saw, queueVars, crashes>>

\* The process dies, also by a rejection of initialize; its clients and its
\* memory are gone, and Bull puts what it was running back to wait.
Crash ==
    /\ app # "down"
    /\ crashes < MaxCrashes
    /\ crashes' = crashes + 1
    /\ InitProcess(app', initialized', retries', saw', handlers', starters',
                   registered')
    /\ redis' = "connecting"
    /\ job' = [j \in Jobs |-> IF job[j] = "active" THEN "waiting" ELSE job[j]]

Next ==
    \/ StartServer \/ Initialize \/ Interval
    \/ RedisStep
    \/ \E j \in Jobs : AddJob(j) \/ RunJob(j)
    \/ Crash

Spec == Init /\ [][Next]_vars

\* docker, the database and the timers do their part; the polls do not always
\* find the client connecting, and Redis gets ready again and again.
Fairness ==
    /\ WF_vars(StartServer) /\ WF_vars(Initialize) /\ WF_vars(Interval)
    /\ SF_vars(Interval /\ redis # "connecting")
    /\ WF_vars(RedisStep)
    /\ SF_vars(RedisStep /\ redis' = "connect")
    /\ SF_vars(RedisStep /\ redis' = "ready")
    /\ \A j \in Jobs : SF_vars(RunJob(j))

FairSpec == Spec /\ Fairness

-----------------------------------------------------------------------------
(* Properties.                                                              *)

Processing == \A q \in Queues : handlers[q] = 1
GaveUp     == app = "listening" /\ ~Processing

\* The server gives up its queues only when as many polls as tryRedisConnection
\* allows have found the client gone, and none found it ready; a client that
\* was connecting does not count.
GivesUpOnGone ==
    GaveUp =>
        /\ saw["connect"] + saw["close"] + saw["reconnecting"] = MaxRetries
        /\ saw["ready"] = 0

\* All queues are processed or none is, and a handler, which uses the database,
\* never runs before the database is there.
AllOrNone ==
    /\ Processing \/ \A q \in Queues : handlers[q] = 0
    /\ \A j \in Jobs : job[j] = "active" => Processing /\ initialized

\* A job that Redis holds is carried out by this process or a later one,
\* unless the one that runs has given up its queues.
WaitingIsRun == \A j \in Jobs : job[j] = "waiting" ~> job[j] = "done" \/ GaveUp
=============================================================================
