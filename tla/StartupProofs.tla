---------------------------- MODULE StartupProofs ----------------------------
(***************************************************************************)
(* Proofs about Startup, for any queues, jobs and number of polls.         *)
(*                                                                         *)
(* The invariant says that the process is in one of two modes.  Either     *)
(* nothing of the queues has been touched, and then no job is active and   *)
(* the server listens only after MaxRetries polls counted the client gone; *)
(* or startQueues ran to its end, after the one poll that found the client *)
(* ready.  GivesUpOnGone and AllOrNone are not inductive alone: neither    *)
(* relates retries to the polls, nor an active job to the handlers.        *)
(***************************************************************************)
EXTENDS Startup, TLAPS

\* Every poll that found the client gone is counted, no other is, and the
\* polling starts with the database there.
PollsAreCounted ==
    /\ retries = saw["connect"] + saw["close"] + saw["reconnecting"]
    /\ saw["connecting"] = 0
    /\ app \in {"down", "database"} => retries = 0
    /\ app = "timer" => initialized

\* No queue was processed by this process.
Untouched ==
    /\ handlers = [q \in Queues |-> 0]
    /\ registered = [q \in Queues |-> 0]
    /\ starters = Starting
    /\ saw["ready"] = 0
    /\ \A j \in Jobs : job[j] # "active"
    /\ app = "listening" => retries = MaxRetries

\* All of them were.
Processed ==
    /\ handlers = [q \in Queues |-> 1]
    /\ registered = [q \in Queues |-> IF q \in Starting THEN 1 ELSE 0]
    /\ starters = {}
    /\ saw["ready"] = 1
    /\ app = "listening"
    /\ initialized

IInv == TypeOK /\ PollsAreCounted /\ (Untouched \/ Processed)

-----------------------------------------------------------------------------
\* The states of the client, one by one.
LEMMA StatusesAre ==
    Statuses = {"connecting", "connect", "ready", "close", "reconnecting"}
BY DEF Statuses, NextStatus

\* Whatever a client does next, it is in one of its states again.
LEMMA NextStatusIsStatus ==
    \A status \in Statuses : NextStatus[status] \subseteq Statuses
<1> SUFFICES ASSUME NEW status \in Statuses
             PROVE  NextStatus[status] \subseteq Statuses
    OBVIOUS
<1>1. CASE status = "connecting" BY <1>1, StatusesAre DEF NextStatus
<1>2. CASE status = "connect" BY <1>2, StatusesAre DEF NextStatus
<1>3. CASE status = "ready" BY <1>3, StatusesAre DEF NextStatus
<1>4. CASE status = "close" BY <1>4, StatusesAre DEF NextStatus
<1>5. CASE status = "reconnecting" BY <1>5, StatusesAre DEF NextStatus
<1> QED BY <1>1, <1>2, <1>3, <1>4, <1>5, StatusesAre

\* A process that has just been loaded satisfies the invariant, provided that
\* no job is active.
LEMMA FreshProcess ==
    ASSUME InitProcess(app, initialized, retries, saw, handlers, starters,
                       registered),
           redis \in Statuses, crashes \in Nat,
           job \in [Jobs -> {"none", "waiting", "active", "done"}],
           \A j \in Jobs : job[j] # "active"
    PROVE  IInv
<1> USE QueuesAssumption, RetriesAssumption, StatusesAre
<1>1. /\ app = "down" /\ initialized = FALSE /\ retries = 0
      /\ saw = [status \in Statuses |-> 0]
      /\ handlers = [q \in Queues |-> 0]
      /\ starters = Starting
      /\ registered = [q \in Queues |-> 0]
    BY DEF InitProcess
<1>2. TypeOK
    <2>1. 0 \in 0 .. MaxRetries /\ 0 \in 0 .. 1 OBVIOUS
    <2>2. saw \in [Statuses -> 0 .. MaxRetries] BY <1>1, <2>1
    <2>3. handlers \in [Queues -> 0 .. 1] /\ registered \in [Queues -> 0 .. 1]
        BY <1>1, <2>1
    <2> QED BY <1>1, <2>1, <2>2, <2>3 DEF TypeOK
<1>3. PollsAreCounted BY <1>1 DEF PollsAreCounted
<1>4. Untouched BY <1>1 DEF Untouched
<1> QED BY <1>2, <1>3, <1>4 DEF IInv

LEMMA InitHolds == Init => IInv
<1> SUFFICES ASSUME Init PROVE IInv
    OBVIOUS
<1>1. redis \in Statuses /\ crashes \in Nat BY StatusesAre DEF Init
<1>2. /\ job \in [Jobs -> {"none", "waiting", "active", "done"}]
      /\ \A j \in Jobs : job[j] # "active"
    BY DEF Init
<1>3. InitProcess(app, initialized, retries, saw, handlers, starters, registered)
    BY DEF Init
<1> QED BY <1>1, <1>2, <1>3, FreshProcess

-----------------------------------------------------------------------------
\* What a poll does: it finds the client ready and processes every queue, or
\* it sets the timer and counts the client gone unless it was connecting.
LEMMA PollKeeps ==
    ASSUME IInv, Untouched, app # "listening", retries < MaxRetries,
           initialized', CheckConnection,
           UNCHANGED <<redis, job, crashes>>
    PROVE  IInv'
<1> USE QueuesAssumption, RetriesAssumption, StatusesAre
<1> USE DEF IInv
<1>1. saw' = [saw EXCEPT ![redis] = IF redis = "connecting" THEN @ ELSE @ + 1]
    BY DEF CheckConnection
<1>2. /\ retries \in Nat /\ redis \in Statuses
      /\ saw \in [Statuses -> 0 .. MaxRetries]
      /\ \A status \in Statuses : saw[status] \in Nat
      /\ saw["ready"] = 0 /\ saw["connecting"] = 0
      /\ retries = saw["connect"] + saw["close"] + saw["reconnecting"]
    BY DEF TypeOK, PollsAreCounted, Untouched
<1>3. saw' \in [Statuses -> 0 .. MaxRetries]
    <2>1. saw[redis] + 1 \in 0 .. MaxRetries BY <1>2
    <2>2. saw[redis] \in 0 .. MaxRetries BY <1>2
    <2> QED BY <1>1, <1>2, <2>1, <2>2
<1>4. job' \in [Jobs -> {"none", "waiting", "active", "done"}] /\ crashes' \in Nat
      /\ redis' \in Statuses
    BY DEF TypeOK
<1>5. CASE redis = "ready"
    <2>1. app' = "listening" /\ retries' = retries /\ ProcessQueues
        BY <1>5 DEF CheckConnection
    <2>2. handlers' = [q \in Queues |-> 1]
        BY <2>1 DEF ProcessQueues, Untouched
    <2>3. registered' = [q \in Queues |-> IF q \in Starting THEN 1 ELSE 0]
        BY <2>1 DEF ProcessQueues, Untouched
    <2>4. starters' = {} BY <2>1 DEF ProcessQueues
    <2>5. /\ saw'["ready"] = 1
          /\ \A status \in Statuses \ {"ready"} : saw'[status] = saw[status]
        BY <1>1, <1>2, <1>5
    <2>6. TypeOK'
        <3>1. handlers' \in [Queues -> 0 .. 1] /\ registered' \in [Queues -> 0 .. 1]
            BY <2>2, <2>3
        <3>2. initialized' \in BOOLEAN /\ retries' \in 0 .. MaxRetries
            BY <1>2, <2>1 DEF CheckConnection, TypeOK
        <3> QED BY <1>3, <1>4, <2>1, <2>4, <3>1, <3>2 DEF TypeOK
    <2>7. PollsAreCounted' BY <1>2, <2>1, <2>5 DEF PollsAreCounted
    <2>8. Processed' BY <1>2, <2>1, <2>2, <2>3, <2>4, <2>5 DEF Processed
    <2> QED BY <2>6, <2>7, <2>8
<1>6. CASE redis # "ready"
    <2>1. /\ app' = "timer"
          /\ retries' = IF redis # "connecting" THEN retries + 1 ELSE retries
          /\ UNCHANGED queueVars
        BY <1>6 DEF CheckConnection
    <2>2. UNCHANGED <<handlers, starters, registered>> BY <2>1 DEF queueVars
    <2>3. TypeOK'
        <3>1. retries' \in 0 .. MaxRetries BY <1>2, <2>1
        <3>2. initialized' \in BOOLEAN BY DEF TypeOK
        <3> QED BY <1>3, <1>4, <2>1, <2>2, <3>1, <3>2 DEF TypeOK
    <2>4. PollsAreCounted'
        <3>1. CASE redis = "connecting"
            BY <1>1, <1>2, <2>1, <3>1 DEF PollsAreCounted
        <3>2. CASE redis \in {"connect", "close", "reconnecting"}
            BY <1>1, <1>2, <2>1, <3>2 DEF PollsAreCounted
        <3> QED BY <1>2, <1>6, <3>1, <3>2
    <2>5. Untouched'
        BY <1>1, <1>2, <1>6, <2>1, <2>2 DEF Untouched
    <2> QED BY <2>3, <2>4, <2>5
<1> QED BY <1>5, <1>6
-----------------------------------------------------------------------------
LEMMA InitializeKeeps ==
    ASSUME IInv, Initialize PROVE IInv'
<1>1. Untouched /\ app # "listening" BY DEF IInv, Initialize, Processed
<1>2. retries < MaxRetries
    BY RetriesAssumption DEF IInv, PollsAreCounted, Initialize
<1>3. initialized' /\ CheckConnection /\ UNCHANGED <<redis, job, crashes>>
    BY DEF Initialize
<1> QED BY <1>1, <1>2, <1>3, PollKeeps

\* A poll, or the end of the polling: only the second can leave the queues
\* untouched while the server listens, and by then all polls are used up.
LEMMA IntervalKeeps ==
    ASSUME IInv, Interval PROVE IInv'
<1>1. Untouched /\ app # "listening" BY DEF IInv, Interval, Processed
<1>2. UNCHANGED <<initialized, redis, job, crashes>> BY DEF Interval
<1>3. CASE retries < MaxRetries
    <2>1. CheckConnection BY <1>3 DEF Interval
    <2>2. initialized' BY <1>2 DEF IInv, PollsAreCounted, Interval
    <2> QED BY <1>1, <1>2, <1>3, <2>1, <2>2, PollKeeps
<1>4. CASE ~(retries < MaxRetries)
    <2>1. app' = "listening" /\ UNCHANGED <<retries, saw, queueVars>>
        BY <1>4 DEF Interval
    <2>2. retries = MaxRetries
        BY <1>4, RetriesAssumption DEF IInv, TypeOK
    <2>3. TypeOK' BY <1>2, <2>1 DEF IInv, TypeOK, queueVars
    <2>4. PollsAreCounted' BY <2>1 DEF IInv, PollsAreCounted
    <2>5. Untouched' BY <1>1, <1>2, <2>1, <2>2 DEF Untouched, queueVars
    <2> QED BY <2>3, <2>4, <2>5 DEF IInv
<1> QED BY <1>3, <1>4

\* A crash takes the handlers with it, and no job stays active.
LEMMA CrashKeeps ==
    ASSUME IInv, Crash PROVE IInv'
<1> USE QueuesAssumption, RetriesAssumption, StatusesAre
<1>1. /\ app' = "down" /\ initialized' = FALSE /\ retries' = 0
      /\ saw' = [status \in Statuses |-> 0]
      /\ handlers' = [q \in Queues |-> 0]
      /\ starters' = Starting
      /\ registered' = [q \in Queues |-> 0]
      /\ redis' = "connecting"
    BY DEF Crash, InitProcess
<1>2. /\ job' \in [Jobs -> {"none", "waiting", "active", "done"}]
      /\ \A j \in Jobs : job'[j] # "active"
    BY DEF Crash, IInv, TypeOK
<1>3. TypeOK'
    <2>1. 0 \in 0 .. MaxRetries /\ 0 \in 0 .. 1 OBVIOUS
    <2>2. saw' \in [Statuses -> 0 .. MaxRetries] BY <1>1, <2>1
    <2>3. handlers' \in [Queues -> 0 .. 1] /\ registered' \in [Queues -> 0 .. 1]
        BY <1>1, <2>1
    <2>4. crashes' \in Nat BY DEF Crash, IInv, TypeOK
    <2> QED BY <1>1, <1>2, <2>1, <2>2, <2>3, <2>4 DEF TypeOK
<1>4. PollsAreCounted' BY <1>1 DEF PollsAreCounted
<1>5. Untouched' BY <1>1, <1>2 DEF Untouched
<1> QED BY <1>3, <1>4, <1>5 DEF IInv

\* Only a process that processes its queues makes a job active.
LEMMA RunJobKeeps ==
    ASSUME IInv, NEW j \in Jobs, RunJob(j) PROVE IInv'
<1>1. UNCHANGED <<app, initialized, redis, retries, saw, queueVars, crashes>>
    BY DEF RunJob
<1>2. job' \in [Jobs -> {"none", "waiting", "active", "done"}]
    BY DEF RunJob, IInv, TypeOK
<1>3. Processed
    <2>1. QueueOf[j] \in Queues BY QueuesAssumption
    <2>2. ~Untouched BY <2>1 DEF RunJob, Untouched
    <2> QED BY <2>2 DEF IInv
<1>4. TypeOK' BY <1>1, <1>2 DEF IInv, TypeOK, queueVars
<1>5. PollsAreCounted' BY <1>1 DEF IInv, PollsAreCounted
<1>6. Processed' BY <1>1, <1>3 DEF Processed, queueVars
<1> QED BY <1>4, <1>5, <1>6 DEF IInv

LEMMA NextKeeps == IInv /\ [Next]_vars => IInv'
<1> SUFFICES ASSUME IInv, [Next]_vars PROVE IInv'
    OBVIOUS
<1>1. CASE StartServer
    <2>1. /\ app = "down" /\ app' = "database"
          /\ UNCHANGED <<initialized, redis, retries, saw, handlers, starters,
                         registered, job, crashes>>
        BY <1>1 DEF StartServer, queueVars
    <2>2. TypeOK' BY <2>1 DEF IInv, TypeOK
    <2>3. PollsAreCounted' BY <2>1 DEF IInv, PollsAreCounted
    <2>4. Untouched' BY <2>1 DEF IInv, Untouched, Processed
    <2> QED BY <2>2, <2>3, <2>4 DEF IInv
<1>2. CASE Initialize BY <1>2, InitializeKeeps
<1>3. CASE Interval BY <1>3, IntervalKeeps
<1>4. CASE RedisStep
    <2>1. UNCHANGED <<app, initialized, retries, saw, handlers, starters,
                      registered, job, crashes>>
        BY <1>4 DEF RedisStep, queueVars
    <2>2. redis' \in Statuses
        BY <1>4, NextStatusIsStatus DEF RedisStep, IInv, TypeOK
    <2>3. TypeOK' BY <2>1, <2>2 DEF IInv, TypeOK
    <2>4. PollsAreCounted' BY <2>1 DEF IInv, PollsAreCounted
    <2>5. Untouched' \/ Processed' BY <2>1 DEF IInv, Untouched, Processed
    <2> QED BY <2>3, <2>4, <2>5 DEF IInv
<1>5. ASSUME NEW j \in Jobs, AddJob(j) PROVE IInv'
    <2>1. UNCHANGED <<app, initialized, redis, retries, saw, handlers, starters,
                      registered, crashes>>
        BY <1>5 DEF AddJob, queueVars
    <2>2. job' = [job EXCEPT ![j] = "waiting"] BY <1>5 DEF AddJob
    <2>3. TypeOK' BY <2>1, <2>2 DEF IInv, TypeOK
    <2>4. PollsAreCounted' BY <2>1 DEF IInv, PollsAreCounted
    <2>5. Untouched' \/ Processed'
        BY <2>1, <2>2 DEF IInv, TypeOK, Untouched, Processed
    <2> QED BY <2>3, <2>4, <2>5 DEF IInv
<1>6. ASSUME NEW j \in Jobs, RunJob(j) PROVE IInv'
    BY <1>6, RunJobKeeps
<1>7. CASE Crash BY <1>7, CrashKeeps
<1>8. CASE UNCHANGED vars
    <2>1. UNCHANGED <<app, initialized, redis, retries, saw, handlers, starters,
                      registered, job, crashes>>
        BY <1>8 DEF vars, queueVars
    <2>2. TypeOK' BY <2>1 DEF IInv, TypeOK
    <2>3. PollsAreCounted' BY <2>1 DEF IInv, PollsAreCounted
    <2>4. Untouched' \/ Processed' BY <2>1 DEF IInv, Untouched, Processed
    <2> QED BY <2>2, <2>3, <2>4 DEF IInv
<1> QED BY <1>1, <1>2, <1>3, <1>4, <1>5, <1>6, <1>7, <1>8 DEF Next

-----------------------------------------------------------------------------
\* IInv holds in every state of every start, for any number of restarts.
THEOREM Invariance == Spec => []IInv
BY InitHolds, NextKeeps, PTL DEF Spec

\* The state of the starting process keeps its types; the bounds of TypeOK say
\* that process() and the starters run at most once in a process.
THEOREM TypeCorrect == Spec => []TypeOK
<1>1. IInv => TypeOK BY DEF IInv
<1> QED BY Invariance, <1>1, PTL

\* startQueues answers false only after MaxRetries polls that found the client
\* gone and none that found it ready: while the queues are not processed every
\* counted poll is one of those, and only Interval, at the limit, goes on.
THEOREM GivesUpOnGoneHolds == Spec => []GivesUpOnGone
<1>1. IInv => GivesUpOnGone
    <2> SUFFICES ASSUME IInv, GaveUp
                 PROVE  /\ saw["connect"] + saw["close"] + saw["reconnecting"]
                            = MaxRetries
                        /\ saw["ready"] = 0
        BY DEF GivesUpOnGone
    <2>1. Untouched BY DEF IInv, Processed, GaveUp, Processing
    <2> QED BY <2>1 DEF IInv, PollsAreCounted, Untouched, GaveUp
<1> QED BY Invariance, <1>1, PTL

\* startQueues processes every queue or none, and a job is active only in a
\* process that did, with its database there.
THEOREM AllOrNoneHolds == Spec => []AllOrNone
<1>1. IInv => AllOrNone
    BY DEF IInv, Untouched, Processed, AllOrNone, Processing
<1> QED BY Invariance, <1>1, PTL
=============================================================================
