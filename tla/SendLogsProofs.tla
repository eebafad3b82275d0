--------------------------- MODULE SendLogsProofs ---------------------------
(***************************************************************************)
(* Proofs about QueueService and SendLogs, for every set of queues and     *)
(* requests, every number of attempts and handlers and every number of     *)
(* crashes.                                                                *)
(*                                                                         *)
(* The queue layer first.  None of its properties is inductive: that a     *)
(* callback is called on its own request rests on what ids and jobIds may  *)
(* be, that no outcome is missed on which worker is in the list, and both  *)
(* on the order in which a caller, Redis and Bull go through their states. *)
(* IInv says all of it.                                                    *)
(*                                                                         *)
(* Then the send services.  Their callbacks only watch the queue layer,    *)
(* except that one of them adds a job: a step of LogNext is a step of      *)
(* QueueService or leaves its state alone.  So what is proved of           *)
(* QueueService holds here, and its invariant is what makes the values     *)
(* that a callback was called with still true when its row is inserted,    *)
(* after as many steps of the others as you like.                          *)
(***************************************************************************)
EXTENDS SendLogs, SequenceTheorems, FiniteSetTheorems, TLAPS

-----------------------------------------------------------------------------
(* The queue layer.                                                         *)

\* How far a request is: what its caller has got against what Redis has.
ProgressInv ==
    \A r \in Requests :
        /\ http[r] = "idle" => r \notin orphans /\ job[r] = "none"
        /\ http[r] = "pending" => r \notin orphans /\ job[r] \in {"none", "queued"}
        /\ http[r] = "pending" =>
                event[r] = "none" /\ attemptsMade[r] = 0 /\ r \in workers
        /\ http[r] = "ok" => job[r] # "none"
        /\ http[r] # "ok" => called[r] = <<>>

\* Ids: a counter of the queue gives them, so no two jobs of it share one; a
\* worker knows its own job's id as soon as its caller is answered.
IdInv ==
    /\ \A r \in Requests :
        /\ job[r] = "none" <=> id[r] = 0
        /\ id[r] <= lastId[QueueOf[r]]
        /\ jobId[r] \in {0, id[r]}
        /\ r \in workers /\ http[r] = "ok" => jobId[r] = id[r]
        /\ jobId[r] # 0 => http[r] = "ok"
    /\ \A r, s \in Requests :
        QueueOf[r] = QueueOf[s] /\ id[r] = id[s] /\ id[r] # 0 => r = s

\* Attempts: only a failed job has used them all, and an event that waits for
\* its listener is about the last attempt that ended.
AttemptInv ==
    \A r \in Requests :
        /\ job[r] = "none" => event[r] = "none" /\ attemptsMade[r] = 0
        /\ job[r] # "failed" => attemptsMade[r] < Attempts[QueueOf[r]]
        /\ job[r] = "failed" => attemptsMade[r] = Attempts[QueueOf[r]]
        /\ event[r] = "completed" => job[r] = "completed"
        /\ event[r] = "failed" => job[r] \in {"queued", "active", "failed"}
        /\ event[r] = "failed" => attemptsMade[r] > 0

\* Which workers are in the list, and which of them have lost `trying'.
WorkerInv ==
    /\ WorkersAreOpenJobs
    /\ \A r \in workers \ armed :
        /\ attemptsMade[r] + 1 >= Attempts[QueueOf[r]]
        /\ event[r] # "none" => EventType(r) # "trying"

Pending(r) == IF event[r] = "none" THEN 0 ELSE 1
Outcomes(r) == attemptsMade[r] + (IF job[r] = "completed" THEN 1 ELSE 0)

\* The callbacks called so far against the outcomes there were.
CalledAsDue(r) ==
    /\ Len(called[r]) + Pending(r) <= Outcomes(r)
    /\ Tracked(r) => Len(called[r]) + Pending(r) = Outcomes(r)
    /\ \A i \in 1 .. Len(called[r]) :
        \/ called[r][i] = "trying"
        \/ /\ called[r][i] \in Terminal
           /\ i = Len(called[r])
           /\ Handled(r)
           /\ r \notin workers
           /\ called[r][i] = "success" <=> job[r] = "completed"

CalledInv == \A r \in Requests : CalledAsDue(r)

IInv ==
    /\ TypeOK
    /\ ProgressInv
    /\ IdInv
    /\ AttemptInv
    /\ WorkerInv
    /\ CalledInv

-----------------------------------------------------------------------------
(* Facts used by several steps.                                             *)

\* The worker that processEvents finds is the one of the job's own request,
\* whose caller was answered by the running process.
LEMMA MatchingIsOwn ==
    ASSUME IInv, NEW r \in Requests, NEW w \in Matching(r), event[r] # "none"
    PROVE  w = r /\ r \in workers /\ http[r] = "ok" /\ Tracked(r)
<1>1. w \in workers /\ QueueOf[w] = QueueOf[r] /\ jobId[w] = id[r] /\ w \in Requests
  BY DEF Matching, IInv, TypeOK
<1>2. id[r] # 0
  BY DEF IInv, AttemptInv, IdInv
<1>3. id[w] = id[r] /\ http[w] = "ok"
  BY <1>1, <1>2 DEF IInv, IdInv
<1>4. w = r
  BY <1>1, <1>2, <1>3 DEF IInv, IdInv
<1>5. Tracked(r)
  BY <1>1, <1>3, <1>4 DEF IInv, WorkerInv, WorkersAreOpenJobs
<1> QED  BY <1>1, <1>3, <1>4, <1>5

\* `trying' is not null when processEvents('trying') needs it.
LEMMA TryingIsArmed ==
    ASSUME IInv, NEW r \in Requests, r \in workers, event[r] # "none",
           EventType(r) = "trying"
    PROVE  r \in armed
  BY DEF IInv, WorkerInv

\* The first state has no jobs, no workers and no callbacks: IInv holds in it.
LEMMA InitInv == Init => IInv
<1> SUFFICES ASSUME Init PROVE IInv
  OBVIOUS
<1> USE DEF Init
<1>1. TypeOK
  BY DEF TypeOK, HttpStates, JobStates, Events
<1>2. ProgressInv
  BY DEF ProgressInv
<1>3. IdInv
  BY QueueAssumption DEF IdInv
<1>4. AttemptInv
  BY QueueAssumption, AttemptsAssumption DEF AttemptInv
<1>5. WorkerInv
  BY DEF WorkerInv, WorkersAreOpenJobs, Tracked, Handled
<1>6. CalledInv
  BY DEF CalledInv, CalledAsDue, Pending, Outcomes, Tracked
<1> QED  BY <1>1, <1>2, <1>3, <1>4, <1>5, <1>6 DEF IInv

\* Submitting adds an armed worker that has no jobId and whose job is not
\* there yet.
LEMMA SubmitInv ==
    ASSUME IInv, NEW r \in Requests, Submit(r)
    PROVE  IInv'
<1> USE DEF Submit, IInv, redisVars, processVars, historyVars
<1>1. TypeOK'
  BY QueueAssumption DEF TypeOK, HttpStates, JobStates, Events
<1>2. ProgressInv'
  BY DEF TypeOK, ProgressInv, AttemptInv
<1>3. IdInv'
  BY QueueAssumption DEF TypeOK, ProgressInv, IdInv
<1>4. AttemptInv'
  BY QueueAssumption, AttemptsAssumption DEF TypeOK, ProgressInv, AttemptInv
<1>5. WorkerInv'
  BY DEF TypeOK, ProgressInv, AttemptInv, WorkerInv, WorkersAreOpenJobs, Tracked, Handled, EventType
<1>6. CalledInv'
  BY DEF TypeOK, ProgressInv, AttemptInv, CalledInv, CalledAsDue, Pending, Outcomes, Tracked, Handled, Terminal
<1> QED  BY <1>1, <1>2, <1>3, <1>4, <1>5, <1>6

\* The new id is above every id of the queue, so no two jobs of it share one.
LEMMA RedisAddInv ==
    ASSUME IInv, NEW r \in Requests, RedisAdd(r)
    PROVE  IInv'
<1>0. QueueOf[r] \in Queues /\ lastId[QueueOf[r]] + 1 \in Nat
  BY QueueAssumption DEF IInv, TypeOK
<1> USE DEF RedisAdd, IInv, redisVars, processVars, historyVars
<1>1. TypeOK'
  BY <1>0 DEF TypeOK, JobStates
<1>2. ProgressInv'
  BY DEF TypeOK, ProgressInv
<1>3. IdInv'
  <2>1. \A s \in Requests :
            /\ s # r => id'[s] = id[s] /\ job'[s] = job[s]
            /\ lastId'[QueueOf[s]] = IF QueueOf[s] = QueueOf[r]
                                     THEN lastId[QueueOf[s]] + 1
                                     ELSE lastId[QueueOf[s]]
            /\ QueueOf[s] \in Queues /\ id[s] \in Nat /\ lastId[QueueOf[s]] \in Nat
    BY QueueAssumption DEF TypeOK
  <2>2. id'[r] = lastId[QueueOf[r]] + 1 /\ job'[r] = "queued"
    BY <1>0 DEF TypeOK
  <2>3. \A s \in Requests :
            QueueOf[s] = QueueOf[r] /\ s # r => id'[s] < id'[r]
    BY <2>1, <2>2 DEF IdInv
  <2>4. jobId[r] = 0 /\ http[r] # "ok"
    BY DEF IdInv
  <2> QED  BY <2>1, <2>2, <2>3, <2>4 DEF IdInv
<1>4. AttemptInv'
  BY QueueAssumption, AttemptsAssumption DEF TypeOK, ProgressInv, AttemptInv
<1>5. WorkerInv'
  BY DEF TypeOK, ProgressInv, AttemptInv, WorkerInv, WorkersAreOpenJobs, Tracked, Handled, EventType
<1>6. CalledInv'
  BY DEF TypeOK, ProgressInv, AttemptInv, CalledInv, CalledAsDue, Pending, Outcomes, Tracked, Handled, Terminal
<1> QED  BY <1>1, <1>2, <1>3, <1>4, <1>5, <1>6

\* The answer gives the worker the id of its own job before the job can run.
LEMMA SaveReplyInv ==
    ASSUME IInv, NEW r \in Requests, SaveReply(r)
    PROVE  IInv'
<1> USE DEF SaveReply, IInv, redisVars, processVars, historyVars
<1>1. TypeOK'
  BY QueueAssumption DEF TypeOK, HttpStates, JobStates, Events
<1>2. ProgressInv'
  BY DEF TypeOK, ProgressInv
<1>3. IdInv'
  BY QueueAssumption DEF TypeOK, ProgressInv, IdInv
<1>4. AttemptInv'
  BY QueueAssumption, AttemptsAssumption DEF TypeOK, ProgressInv, AttemptInv
<1>5. WorkerInv'
  BY DEF TypeOK, ProgressInv, AttemptInv, WorkerInv, WorkersAreOpenJobs, Tracked, Handled, EventType
<1>6. CalledInv'
  BY DEF TypeOK, ProgressInv, AttemptInv, CalledInv, CalledAsDue, Pending, Outcomes, Tracked, Handled, Terminal
<1> QED  BY <1>1, <1>2, <1>3, <1>4, <1>5, <1>6

\* A failed save leaves a worker without a jobId, which matches no job.
LEMMA SaveErrorInv ==
    ASSUME IInv, NEW r \in Requests, SaveError(r)
    PROVE  IInv'
<1> USE DEF SaveError, IInv, redisVars, processVars, historyVars
<1>1. TypeOK'
  BY QueueAssumption DEF TypeOK, HttpStates, JobStates, Events
<1>2. ProgressInv'
  BY DEF TypeOK, ProgressInv
<1>3. IdInv'
  BY QueueAssumption DEF TypeOK, ProgressInv, IdInv
<1>4. AttemptInv'
  BY QueueAssumption, AttemptsAssumption DEF TypeOK, ProgressInv, AttemptInv
<1>5. WorkerInv'
  BY DEF TypeOK, ProgressInv, AttemptInv, WorkerInv, WorkersAreOpenJobs, Tracked, Handled, EventType
<1>6. CalledInv'
  BY DEF TypeOK, ProgressInv, AttemptInv, CalledInv, CalledAsDue, Pending, Outcomes, Tracked, Handled, Terminal
<1> QED  BY <1>1, <1>2, <1>3, <1>4, <1>5, <1>6

\* Taking a job off the queue touches neither workers nor callbacks.
LEMMA ActivateInv ==
    ASSUME IInv, NEW r \in Requests, Activate(r)
    PROVE  IInv'
<1> USE DEF Activate, IInv, redisVars, processVars, historyVars
<1>1. TypeOK'
  BY QueueAssumption DEF TypeOK, HttpStates, JobStates, Events
<1>2. ProgressInv'
  BY DEF TypeOK, ProgressInv
<1>3. IdInv'
  BY QueueAssumption DEF TypeOK, ProgressInv, IdInv
<1>4. AttemptInv'
  BY QueueAssumption, AttemptsAssumption DEF TypeOK, ProgressInv, AttemptInv
<1>5. WorkerInv'
  BY DEF TypeOK, ProgressInv, AttemptInv, WorkerInv, WorkersAreOpenJobs, Tracked, Handled, EventType
<1>6. CalledInv'
  BY DEF TypeOK, ProgressInv, AttemptInv, CalledInv, CalledAsDue, Pending, Outcomes, Tracked, Handled, Terminal
<1> QED  BY <1>1, <1>2, <1>3, <1>4, <1>5, <1>6

\* A success is one more outcome, and an event that waits to call it.
LEMMA CompleteInv ==
    ASSUME IInv, NEW r \in Requests, Complete(r)
    PROVE  IInv'
<1> USE DEF Complete, IInv, redisVars, processVars, historyVars
<1>1. TypeOK'
  BY QueueAssumption DEF TypeOK, HttpStates, JobStates, Events
<1>2. ProgressInv'
  BY DEF TypeOK, ProgressInv
<1>3. IdInv'
  BY QueueAssumption DEF TypeOK, ProgressInv, IdInv
<1>4. AttemptInv'
  BY QueueAssumption, AttemptsAssumption DEF TypeOK, ProgressInv, AttemptInv
<1>5. WorkerInv'
  BY DEF TypeOK, ProgressInv, AttemptInv, WorkerInv, WorkersAreOpenJobs, Tracked, Handled, EventType
<1>6. CalledInv'
  BY DEF TypeOK, ProgressInv, AttemptInv, CalledInv, CalledAsDue, Pending, Outcomes, Tracked, Handled, Terminal
<1> QED  BY <1>1, <1>2, <1>3, <1>4, <1>5, <1>6

\* A failure counts the attempt; the job fails for good exactly when that was
\* its last one.
LEMMA FailInv ==
    ASSUME IInv, NEW r \in Requests, Fail(r)
    PROVE  IInv'
<1> USE DEF Fail, IInv, redisVars, processVars, historyVars
<1>0. /\ QueueOf[r] \in Queues
      /\ Attempts[QueueOf[r]] \in Nat
      /\ attemptsMade[r] \in Nat
      /\ attemptsMade[r] < Attempts[QueueOf[r]]
  BY QueueAssumption, AttemptsAssumption DEF TypeOK, AttemptInv
<1>1. TypeOK'
  BY QueueAssumption DEF TypeOK, HttpStates, JobStates, Events
<1>2. ProgressInv'
  BY DEF TypeOK, ProgressInv
<1>3. IdInv'
  BY QueueAssumption DEF TypeOK, ProgressInv, IdInv
<1>4. AttemptInv'
  BY <1>0, QueueAssumption, AttemptsAssumption DEF TypeOK, ProgressInv, AttemptInv
<1>5. WorkerInv'
  BY <1>0 DEF TypeOK, ProgressInv, AttemptInv, WorkerInv, WorkersAreOpenJobs, Tracked, Handled, EventType
<1>6. CalledInv'
  BY <1>0 DEF TypeOK, ProgressInv, AttemptInv, CalledInv, CalledAsDue, Pending, Outcomes, Tracked, Handled, Terminal
<1> QED  BY <1>1, <1>2, <1>3, <1>4, <1>5, <1>6

\* An event nobody matches is one whose request this process never answered.
LEMMA IgnoreInv ==
    ASSUME IInv, NEW r \in Requests, Ignore(r)
    PROVE  IInv'
<1> USE DEF Ignore, IInv, redisVars, processVars, historyVars
<1>0. ~Tracked(r)
  BY DEF IdInv, WorkerInv, WorkersAreOpenJobs, Tracked, Handled, Matching
<1>1. TypeOK'
  BY QueueAssumption DEF TypeOK, HttpStates, JobStates, Events
<1>2. ProgressInv'
  BY DEF TypeOK, ProgressInv
<1>3. IdInv'
  BY QueueAssumption DEF TypeOK, ProgressInv, IdInv
<1>4. AttemptInv'
  BY QueueAssumption, AttemptsAssumption DEF TypeOK, ProgressInv, AttemptInv
<1>5. WorkerInv'
  BY <1>0 DEF TypeOK, ProgressInv, AttemptInv, WorkerInv, WorkersAreOpenJobs, Tracked, Handled, EventType
<1>6. CalledInv'
  BY <1>0 DEF TypeOK, ProgressInv, AttemptInv, CalledInv, CalledAsDue, Pending, Outcomes, Tracked, Handled, Terminal
<1> QED  BY <1>1, <1>2, <1>3, <1>4, <1>5, <1>6

\* `trying' is called on the job's own worker, and the entry is cleared only
\* when the next failure cannot be a `trying'.
LEMMA TryingInv ==
    ASSUME IInv, NEW r \in Requests, NEW w \in Requests, Trying(r, w)
    PROVE  IInv'
<1>1. w = r /\ r \in workers /\ Tracked(r)
  BY MatchingIsOwn DEF Trying
<1>2. r \in armed
  BY <1>1, TryingIsArmed DEF Trying
<1>7. /\ QueueOf[r] \in Queues
      /\ Attempts[QueueOf[r]] \in Nat
      /\ attemptsMade[r] \in Nat
  BY QueueAssumption, AttemptsAssumption DEF IInv, TypeOK
<1>3. /\ event[r] = "failed"
      /\ attemptsMade[r] < Attempts[QueueOf[r]]
      /\ job[r] \in {"queued", "active"}
  BY <1>7 DEF Trying, EventType, IInv, TypeOK, Events, AttemptInv
<1>4. /\ event' = [event EXCEPT ![r] = "none"]
      /\ called' = [called EXCEPT ![r] = Append(@, "trying")]
      /\ armed' = IF ClearsTrying(r, r) THEN armed \ {r} ELSE armed
      /\ UNCHANGED <<redisVars, http, workers, jobId, orphans, crashes>>
  BY <1>1, <1>2 DEF Trying
<1>5. /\ called[r] \in Seq(Callbacks)
      /\ called'[r] = Append(called[r], "trying")
      /\ called'[r] \in Seq(Callbacks)
      /\ \A s \in Requests \ {r} : called'[s] = called[s]
      /\ called' \in [Requests -> Seq(Callbacks)]
  BY <1>4 DEF IInv, TypeOK, Callbacks
<1>6. /\ Len(called'[r]) = Len(called[r]) + 1
      /\ \A i \in 1 .. Len(called[r]) : called'[r][i] = called[r][i]
      /\ called'[r][Len(called[r]) + 1] = "trying"
      /\ Len(called[r]) \in Nat
  BY <1>5
<1> USE DEF IInv, redisVars
<1>8. TypeOK'
  BY <1>4, <1>5 DEF TypeOK, Events
<1>9. ProgressInv'
  BY <1>1, <1>4, <1>5 DEF TypeOK, ProgressInv, Tracked
<1>10. IdInv'
  BY <1>4 DEF IdInv
<1>11. AttemptInv'
  BY <1>4 DEF TypeOK, AttemptInv
<1>12. WorkerInv'
  <2>1. WorkersAreOpenJobs'
    BY <1>1, <1>3, <1>4 DEF TypeOK, WorkerInv, WorkersAreOpenJobs, Tracked, Handled
  <2>2. r \notin armed' => attemptsMade'[r] + 1 >= Attempts[QueueOf[r]]
    BY <1>2, <1>3, <1>4, <1>7 DEF ClearsTrying, AttemptsRest
  <2>3. event'[r] = "none"
    BY <1>4 DEF TypeOK
  <2>4. \A s \in Requests \ {r} :
            /\ event'[s] = event[s] /\ attemptsMade'[s] = attemptsMade[s]
            /\ s \in armed' <=> s \in armed
            /\ EventType(s)' = EventType(s)
    BY <1>4 DEF TypeOK, EventType
  <2> QED  BY <1>4, <2>1, <2>2, <2>3, <2>4 DEF TypeOK, WorkerInv
<1>13. CalledInv'
  <2>1. \A i \in 1 .. Len(called[r]) : called[r][i] = "trying"
    BY <1>3 DEF CalledInv, CalledAsDue, Handled
  <2>2. \A i \in 1 .. Len(called'[r]) : called'[r][i] = "trying"
    BY <1>6, <2>1
  <2>3. /\ Pending(r) = 1 /\ Pending(r)' = 0
        /\ Outcomes(r)' = Outcomes(r) /\ Outcomes(r) \in Nat
    BY <1>3, <1>4, <1>7 DEF TypeOK, Pending, Outcomes
  <2>4. \A s \in Requests \ {r} :
            /\ Pending(s)' = Pending(s) /\ Outcomes(s)' = Outcomes(s)
            /\ Tracked(s)' <=> Tracked(s)
            /\ Handled(s)' <=> Handled(s)
    BY <1>4 DEF TypeOK, Pending, Outcomes, Tracked, Handled
  <2>5. workers' = workers /\ job' = job
    BY <1>4
  <2>6. CalledAsDue(r)'
    BY <1>1, <1>6, <2>2, <2>3 DEF CalledInv, CalledAsDue
  <2>7. ASSUME NEW s \in Requests \ {r} PROVE CalledAsDue(s)'
    <3>1. /\ called'[s] = called[s]
          /\ Pending(s)' = Pending(s) /\ Outcomes(s)' = Outcomes(s)
          /\ Tracked(s)' <=> Tracked(s)
          /\ Handled(s)' <=> Handled(s)
      BY <1>5, <2>4
    <3>2. CalledAsDue(s)
      BY DEF CalledInv
    <3> QED  BY <2>5, <3>1, <3>2 DEF CalledAsDue
  <2> QED  BY <2>6, <2>7 DEF CalledInv
<1> QED  BY <1>8, <1>9, <1>10, <1>11, <1>12, <1>13

\* `success' or `failed' is called on the job's own worker, which leaves the
\* list with it.
LEMMA SettleInv ==
    ASSUME IInv, NEW r \in Requests, NEW w \in Requests, Settle(r, w)
    PROVE  IInv'
<1> DEFINE type == EventType(r)
<1>1. w = r /\ r \in workers /\ Tracked(r)
  BY MatchingIsOwn DEF Settle
<1>2. /\ QueueOf[r] \in Queues
      /\ Attempts[QueueOf[r]] \in Nat
      /\ attemptsMade[r] \in Nat
  BY QueueAssumption, AttemptsAssumption DEF IInv, TypeOK
<1>3. \/ type = "success" /\ event[r] = "completed" /\ job[r] = "completed"
      \/ type = "failed" /\ event[r] = "failed" /\ job[r] = "failed"
  BY <1>2 DEF Settle, EventType, IInv, TypeOK, Events, AttemptInv
<1>4. /\ event' = [event EXCEPT ![r] = "none"]
      /\ called' = [called EXCEPT ![r] = Append(@, type)]
      /\ workers' = workers \ {r}
      /\ UNCHANGED <<redisVars, http, jobId, armed, orphans, crashes>>
  BY <1>1 DEF Settle
<1> HIDE DEF type
<1>5. /\ called[r] \in Seq(Callbacks)
      /\ called'[r] = Append(called[r], type)
      /\ called'[r] \in Seq(Callbacks)
      /\ \A s \in Requests \ {r} : called'[s] = called[s]
      /\ called' \in [Requests -> Seq(Callbacks)]
  BY <1>3, <1>4 DEF IInv, TypeOK, Callbacks
<1>6. /\ Len(called'[r]) = Len(called[r]) + 1
      /\ \A i \in 1 .. Len(called[r]) : called'[r][i] = called[r][i]
      /\ called'[r][Len(called[r]) + 1] = type
      /\ Len(called[r]) \in Nat
  BY <1>3, <1>5 DEF Callbacks
<1> USE DEF IInv, redisVars
<1>7. TypeOK'
  BY <1>4, <1>5 DEF TypeOK, Events
<1>8. ProgressInv'
  BY <1>1, <1>4, <1>5 DEF TypeOK, ProgressInv, Tracked
<1>9. IdInv'
  BY <1>4 DEF IdInv
<1>10. AttemptInv'
  BY <1>4 DEF TypeOK, AttemptInv
<1>11. WorkerInv'
  BY <1>1, <1>3, <1>4 DEF TypeOK, WorkerInv, WorkersAreOpenJobs, Tracked, Handled,
     EventType
<1>12. CalledInv'
  <2>1. \A i \in 1 .. Len(called[r]) : called[r][i] = "trying"
    BY <1>3 DEF CalledInv, CalledAsDue, Handled
  <2>2. \A i \in 1 .. Len(called'[r]) :
            \/ called'[r][i] = "trying"
            \/ i = Len(called'[r]) /\ called'[r][i] = type
    BY <1>6, <2>1
  <2>3. /\ Pending(r) = 1 /\ Pending(r)' = 0
        /\ Outcomes(r)' = Outcomes(r) /\ Outcomes(r) \in Nat
    BY <1>2, <1>3, <1>4 DEF TypeOK, Pending, Outcomes
  <2>4. \A s \in Requests \ {r} :
            /\ Pending(s)' = Pending(s) /\ Outcomes(s)' = Outcomes(s)
            /\ Tracked(s)' <=> Tracked(s)
            /\ Handled(s)' <=> Handled(s)
    BY <1>4 DEF TypeOK, Pending, Outcomes, Tracked, Handled
  <2>5. /\ r \notin workers' /\ workers' \subseteq workers /\ job' = job
        /\ Handled(r)' /\ Tracked(r)
    BY <1>1, <1>3, <1>4 DEF TypeOK, Handled
  <2>6. type \in Terminal /\ (type = "success" <=> job[r] = "completed")
    BY <1>3 DEF Terminal
  <2>7. CalledAsDue(r)'
    BY <1>6, <2>2, <2>3, <2>5, <2>6 DEF CalledInv, CalledAsDue
  <2>8. ASSUME NEW s \in Requests \ {r} PROVE CalledAsDue(s)'
    <3>1. /\ called'[s] = called[s]
          /\ Pending(s)' = Pending(s) /\ Outcomes(s)' = Outcomes(s)
          /\ Tracked(s)' <=> Tracked(s)
          /\ Handled(s)' <=> Handled(s)
      BY <1>5, <2>4
    <3>2. CalledAsDue(s)
      BY DEF CalledInv
    <3> QED  BY <2>5, <3>1, <3>2 DEF CalledAsDue
  <2> QED  BY <2>7, <2>8 DEF CalledInv
<1> QED  BY <1>7, <1>8, <1>9, <1>10, <1>11, <1>12

\* A restart forgets workers, ids and events, and every request becomes one
\* that nobody is tracking.
LEMMA CrashInv ==
    ASSUME IInv, Crash
    PROVE  IInv'
<1> USE DEF Crash, IInv
<1>1. TypeOK'
  BY DEF TypeOK, HttpStates, JobStates, Events
<1>2. ProgressInv'
  BY DEF TypeOK, ProgressInv
<1>3. IdInv'
  BY DEF TypeOK, IdInv
<1>4. AttemptInv'
  BY DEF TypeOK, AttemptInv
<1>5. WorkerInv'
  BY DEF TypeOK, WorkerInv, WorkersAreOpenJobs, Tracked, Handled
<1>6. CalledInv'
  BY DEF TypeOK, CalledInv, CalledAsDue, Pending, Outcomes, Tracked, Handled, Terminal
<1> QED  BY <1>1, <1>2, <1>3, <1>4, <1>5, <1>6

\* Every step of the queue layer, and a stuttering one, keeps IInv.
LEMMA NextInv ==
    ASSUME IInv, [Next]_vars
    PROVE  IInv'
<1>1. CASE UNCHANGED vars
  BY <1>1 DEF vars, IInv, TypeOK, ProgressInv, IdInv, AttemptInv, WorkerInv, CalledInv,
     CalledAsDue, WorkersAreOpenJobs, Tracked, Handled, Pending, Outcomes, EventType
<1>2. ASSUME NEW r \in Requests, Step(r) PROVE IInv'
  <2>1. CASE Dispatch(r)
    BY <2>1, IgnoreInv, TryingInv, SettleInv DEF Dispatch
  <2> QED
    BY <1>2, <2>1, SubmitInv, RedisAddInv, SaveReplyInv, SaveErrorInv,
       ActivateInv, CompleteInv, FailInv DEF Step
<1>3. CASE Crash
  BY <1>3, CrashInv
<1> QED  BY <1>1, <1>2, <1>3 DEF Next

-----------------------------------------------------------------------------
(* The theorems.                                                            *)

\* IInv holds in every state the queue layer can reach.
THEOREM Invariance == Spec => []IInv
<1>1. Init => IInv
  BY InitInv
<1>2. IInv /\ [Next]_vars => IInv'
  BY NextInv
<1> QED  BY <1>1, <1>2, PTL DEF Spec

\* The state of the queue layer has the types the code gives it.
THEOREM TypeCorrect == Spec => []TypeOK
<1>1. IInv => TypeOK
  BY DEF IInv
<1> QED  BY <1>1, Invariance, PTL

\* An outcome is only ever passed to the callbacks of the request it is about.
THEOREM OwnWorkerHolds == Spec => []OwnWorker
<1>1. IInv => OwnWorker
  BY MatchingIsOwn DEF OwnWorker
<1> QED  BY <1>1, Invariance, PTL

\* The callbacks come in the order of their protocol in every state of IInv.
LEMMA Protocol == IInv => CallbackProtocol
<1>1. ASSUME IInv PROVE CallbackProtocol
  <2> SUFFICES ASSUME NEW r \in Requests
               PROVE  /\ \A i \in 1 .. Len(called[r]) :
                            /\ called[r][i] # "TypeError"
                            /\ i < Len(called[r]) => called[r][i] = "trying"
                      /\ Len(called[r]) <= Attempts[QueueOf[r]]
    BY DEF CallbackProtocol
  <2>1. /\ QueueOf[r] \in Queues
        /\ Attempts[QueueOf[r]] \in Nat
        /\ attemptsMade[r] \in Nat
        /\ Len(called[r]) \in Nat
    BY <1>1, QueueAssumption, AttemptsAssumption DEF IInv, TypeOK
  <2>2. Outcomes(r) <= Attempts[QueueOf[r]] /\ Outcomes(r) \in Nat
    BY <1>1, <2>1 DEF IInv, AttemptInv, Outcomes
  <2>3. Len(called[r]) + Pending(r) <= Outcomes(r) /\ Pending(r) \in {0, 1}
    BY <1>1 DEF IInv, CalledInv, CalledAsDue, Pending
  <2>4. \A i \in 1 .. Len(called[r]) :
            /\ called[r][i] # "TypeError"
            /\ i < Len(called[r]) => called[r][i] = "trying"
    BY <1>1, <2>1 DEF IInv, CalledInv, CalledAsDue, Terminal
  <2> QED  BY <2>1, <2>2, <2>3, <2>4
<1> QED  BY <1>1

\* Some `trying', then at most one terminal callback, and never the null entry.
THEOREM CallbackProtocolHolds == Spec => []CallbackProtocol
<1> QED  BY Protocol, Invariance, PTL

\* One callback for each outcome while the answering process runs.
THEOREM EveryOutcomeCalledHolds == Spec => []EveryOutcomeCalled
<1>1. IInv => EveryOutcomeCalled
  BY DEF IInv, CalledInv, CalledAsDue, EveryOutcomeCalled, Pending, Outcomes
<1> QED  BY <1>1, Invariance, PTL

\* QueueService.workers is exactly the open jobs and the unanswered saves.
THEOREM WorkersAreOpenJobsHolds == Spec => []WorkersAreOpenJobs
<1>1. IInv => WorkersAreOpenJobs
  BY DEF IInv, WorkerInv
<1> QED  BY <1>1, Invariance, PTL

\* The callbacks of the running process only, one at a time and none after the
\* terminal one.
THEOREM CallbacksAreTrackedHolds == Spec => CallbacksAreTracked
<1> DEFINE A == \A r \in Requests : called'[r] # called[r] =>
                    /\ Tracked(r)
                    /\ \A i \in 1 .. Len(called[r]) : called[r][i] \notin Terminal
                    /\ \A s \in Requests \ {r} : called'[s] = called[s]
<1>1. ASSUME IInv, NEW r \in Requests, NEW w \in Requests,
             Trying(r, w) \/ Settle(r, w)
      PROVE  A
  <2>1. w = r /\ Tracked(r)
    BY <1>1, MatchingIsOwn DEF Trying, Settle
  <2>2. \A s \in Requests \ {r} : called'[s] = called[s]
    BY <1>1, <2>1 DEF Trying, Settle, IInv, TypeOK
  <2>3. \A i \in 1 .. Len(called[r]) : called[r][i] \notin Terminal
    BY <1>1 DEF Trying, Settle, IInv, CalledInv, CalledAsDue, Handled, Terminal
  <2> QED  BY <2>1, <2>2, <2>3
<1>2. IInv /\ [Next]_vars => [A]_vars
  <2> SUFFICES ASSUME IInv, Next PROVE A
    BY DEF vars
  <2>1. ASSUME NEW r \in Requests, Step(r) PROVE A \/ called' = called
    BY <1>1, <2>1 DEF Step, Submit, RedisAdd, SaveReply, SaveError, Activate,
       Complete, Fail, Dispatch, Ignore, processVars, historyVars
  <2>2. Crash => called' = called
    BY DEF Crash
  <2> QED  BY <2>1, <2>2 DEF Next
<1> QED  BY <1>2, Invariance, PTL DEF Spec, CallbacksAreTracked

-----------------------------------------------------------------------------
(* QueueService implements the safety part of JobOutcome.                    *)

\* Nothing is accepted and nothing told in the first state.
LEMMA InitRefines == Init => Outcome!Init
  BY DEF Init, Outcome!Init, OutcomeOf, ToldOf

\* Adding the job to Redis is what accepts it.
LEMMA RedisAddRefines ==
    ASSUME IInv, NEW r \in Requests, RedisAdd(r)
    PROVE  Outcome!Accept(r)
  BY DEF RedisAdd, IInv, TypeOK, Outcome!Accept, OutcomeOf, ToldOf, historyVars

\* The end of an attempt decides the job, or leaves it open to be tried again.
LEMMA EndRefines ==
    ASSUME IInv, NEW r \in Requests, Complete(r) \/ Fail(r)
    PROVE  [Outcome!Decide(r)]_<<OutcomeOf, ToldOf>>
<1>1. CASE Complete(r)
  BY <1>1 DEF Complete, IInv, TypeOK, Outcome!Decide, OutcomeOf, ToldOf, historyVars
<1>2. CASE Fail(r)
  BY <1>2 DEF Fail, IInv, TypeOK, Outcome!Decide, OutcomeOf, ToldOf, historyVars
<1> QED  BY <1>1, <1>2

\* A `trying' is invisible; `success' and `failed' tell what was decided.
LEMMA DispatchRefines ==
    ASSUME IInv, NEW r \in Requests, NEW w \in Requests,
           Trying(r, w) \/ Settle(r, w)
    PROVE  [Outcome!Tell(r)]_<<OutcomeOf, ToldOf>>
<1> DEFINE n == Len(called[r])
<1>1. w = r /\ r \in workers
  BY MatchingIsOwn DEF Trying, Settle
<1>2. /\ called \in [Requests -> Seq(Callbacks)]
      /\ called[r] \in Seq(Callbacks)
      /\ n \in Nat
  BY DEF IInv, TypeOK
<1>3. ~(n > 0 /\ called[r][n] \in Terminal)
  BY <1>1, <1>2 DEF IInv, CalledInv, CalledAsDue, Terminal
<1>4. OutcomeOf' = OutcomeOf
  BY DEF Trying, Settle, OutcomeOf, redisVars
<1>5. CASE Trying(r, w)
  <2>1. PICK c \in {"trying", "TypeError"} :
            called' = [called EXCEPT ![r] = Append(@, c)]
    BY <1>1, <1>5 DEF Trying
  <2>2. Len(called'[r]) = n + 1 /\ called'[r][n + 1] = c
    BY <1>2, <2>1 DEF Callbacks
  <2>3. \A s \in Requests \ {r} : called'[s] = called[s]
    BY <1>2, <2>1
  <2>4. ToldOf' = ToldOf
    BY <1>2, <1>3, <2>1, <2>2, <2>3 DEF ToldOf, Terminal
  <2> QED  BY <1>4, <2>4
<1>6. CASE Settle(r, w)
  <2> DEFINE type == EventType(r)
  <2>1. called' = [called EXCEPT ![r] = Append(@, type)]
    BY <1>1, <1>6 DEF Settle
  <2>2. \/ type = "success" /\ job[r] = "completed"
        \/ type = "failed" /\ job[r] = "failed"
    <3>1. /\ QueueOf[r] \in Queues
          /\ Attempts[QueueOf[r]] \in Nat
          /\ attemptsMade[r] \in Nat
      BY QueueAssumption, AttemptsAssumption DEF IInv, TypeOK
    <3> QED
      BY <1>6, <3>1 DEF Settle, EventType, IInv, TypeOK, Events, AttemptInv
  <2> HIDE DEF type
  <2>3. Len(called'[r]) = n + 1 /\ called'[r][n + 1] = type
    BY <1>2, <2>1, <2>2 DEF Callbacks
  <2>4. \A s \in Requests \ {r} : called'[s] = called[s]
    BY <1>2, <2>1
  <2>5. ToldOf' = [ToldOf EXCEPT ![r] = type] /\ ToldOf[r] = "none"
    <3>1. ToldOf[r] = "none"
      BY <1>3 DEF ToldOf
    <3>2. ToldOf'[r] = type
      BY <1>2, <2>2, <2>3 DEF ToldOf, Terminal
    <3>3. \A s \in Requests \ {r} : ToldOf'[s] = ToldOf[s]
      BY <2>4 DEF ToldOf
    <3>4. ToldOf' = [s \in Requests |-> ToldOf'[s]]
          /\ ToldOf = [s \in Requests |-> ToldOf[s]]
      BY DEF ToldOf
    <3> QED  BY <3>1, <3>2, <3>3, <3>4
  <2>6. OutcomeOf[r] = job[r]
    BY <2>2 DEF OutcomeOf
  <2> QED  BY <1>4, <2>2, <2>5, <2>6 DEF Outcome!Tell
<1> QED  BY <1>5, <1>6

\* The other steps are invisible to JobOutcome.
LEMMA OthersRefine ==
    ASSUME IInv, NEW r \in Requests,
           Submit(r) \/ SaveReply(r) \/ SaveError(r) \/ Activate(r) \/ Ignore(r)
    PROVE  UNCHANGED <<OutcomeOf, ToldOf>>
  BY DEF Submit, SaveReply, SaveError, Activate, Ignore, IInv, TypeOK,
     OutcomeOf, ToldOf, redisVars, processVars, historyVars

\* An accepted job gets one outcome, which never changes and is told truthfully
\* and at most once: the safety of JobOutcome, for every number of requests,
\* attempts and crashes.
THEOREM ImplementsJobOutcomeSafely == Spec => Outcome!SafeSpec
<1>1. IInv /\ [Next]_vars => [Outcome!Next]_(Outcome!vars)
  <2> SUFFICES ASSUME IInv, [Next]_vars PROVE [Outcome!Next]_(Outcome!vars)
    OBVIOUS
  <2> USE DEF Outcome!vars
  <2>1. ASSUME NEW r \in Requests, Step(r) PROVE [Outcome!Next]_(Outcome!vars)
    <3>1. CASE Dispatch(r)
      BY <2>1, <3>1, DispatchRefines, OthersRefine DEF Dispatch, Outcome!Next
    <3> QED
      BY <2>1, <3>1, RedisAddRefines, EndRefines, OthersRefine DEF Step, Outcome!Next
  <2>2. CASE Crash
    BY <2>2 DEF Crash, IInv, TypeOK, OutcomeOf, ToldOf
  <2>3. CASE UNCHANGED vars
    BY <2>3 DEF vars, OutcomeOf, ToldOf
  <2> QED  BY <2>1, <2>2, <2>3 DEF Next
<1> QED  BY <1>1, InitRefines, Invariance, PTL DEF Spec, Outcome!SafeSpec

-----------------------------------------------------------------------------
(* The send services.                                                       *)

\* What a callback was called with, or a row says, is so.
Says(request, jobid, eventType, made) ==
    /\ request \in Requests
    /\ jobid = id[request]
    /\ job[request] # "none"
    /\ eventType = "success" => job[request] = "completed"
    /\ eventType = "failed" => job[request] = "failed"
    /\ eventType = "trying" => made < Attempts[QueueOf[request]]

IsCallback(c) ==
    /\ c \in [request : {c.request}, eventType : {c.eventType}, jobId : {c.jobId},
              attemptsMade : {c.attemptsMade}, log : {c.log}, stage : {c.stage}]
    /\ c.stage \in {"track", "mail"} => Mails(c)

CallbacksInv ==
    \A c \in callbacks :
        /\ Says(c.request, c.jobId, c.eventType, c.attemptsMade)
        /\ IsCallback(c)

RowsInv ==
    \A row \in BagToSet(sendLogs) :
        Says(row.request, row.jobId, row.eventType, row.attemptsMade)

\* The contingency job of a text is added only when the text has failed.
OnlyFailedIsMailed ==
    \A r \in WantsEmail : http[Contingency[r]] # "idle" => job[r] = "failed"

LogInv == IInv /\ CallbacksInv /\ RowsInv /\ OnlyFailedIsMailed

-----------------------------------------------------------------------------
\* Every step of the send services is a step of the queue layer, or none.
LEMMA StepIsQueueStep == CallbacksInv /\ [LogNext]_allVars => [Next]_vars
<1> SUFFICES ASSUME CallbacksInv, [LogNext]_allVars PROVE [Next]_vars
    OBVIOUS
<1>1. CASE UNCHANGED allVars
    BY <1>1 DEF allVars
<1>2. ASSUME NEW r \in Requests,
             \/ LogSubmit(r) \/ LogSaveError(r) \/ QueueStep(r)
             \/ \E w \in Requests : LogDispatch(r, w)
      PROVE  Next
    BY <1>2 DEF LogSubmit, LogSaveError, QueueStep, LogDispatch, Next, Step, Dispatch
<1>3. ASSUME NEW c \in callbacks, CallbackStep(c) PROVE [Next]_vars
    <2>1. CASE MailText(c)
        <3>1. c.request \in WantsEmail
            BY <2>1 DEF MailText, CallbacksInv, IsCallback, Mails
        <3>2. Contingency[c.request] \in Requests
            BY <3>1, ContingencyAssumption
        <3> QED BY <2>1, <3>2 DEF MailText, Next, Step
    <2> QED BY <1>3, <2>1 DEF CallbackStep, FindRow, InsertRow, TrackEmail
<1>4. CASE LogCrash
    BY <1>4 DEF LogCrash, Next
<1> QED BY <1>1, <1>2, <1>3, <1>4 DEF LogNext

\* A job that is in Redis stays there under its id, and its outcome stays: a
\* step makes nothing untrue that a callback was told.
LEMMA SaysKeeps ==
    ASSUME IInv, [Next]_vars, NEW request, NEW jobid, NEW eventType, NEW made,
           Says(request, jobid, eventType, made)
    PROVE  Says(request, jobid, eventType, made)'
<1>1. ASSUME NEW r \in Requests, Step(r) PROVE Says(request, jobid, eventType, made)'
    <2>1. CASE RedisAdd(r)
        BY <2>1 DEF RedisAdd, Says, IInv, TypeOK
    <2>2. CASE Activate(r)
        BY <2>2 DEF Activate, Says, IInv, TypeOK
    <2>3. CASE Complete(r)
        BY <2>3 DEF Complete, Says, IInv, TypeOK
    <2>4. CASE Fail(r)
        <3>1. job' = [job EXCEPT ![r] = job'[r]] /\ job'[r] \in {"failed", "queued"}
            BY <2>4 DEF Fail, IInv, TypeOK
        <3> QED BY <2>4, <3>1 DEF Fail, Says, IInv, TypeOK
    <2>5. CASE Submit(r) \/ SaveReply(r) \/ SaveError(r) \/ Dispatch(r)
        BY <2>5 DEF Submit, SaveReply, SaveError, Dispatch, Ignore, Trying, Settle,
           Says, redisVars
    <2> QED BY <1>1, <2>1, <2>2, <2>3, <2>4, <2>5 DEF Step
<1>2. CASE Crash
    BY <1>2 DEF Crash, Says, IInv, TypeOK
<1>3. CASE UNCHANGED vars
    BY <1>3 DEF vars, Says
<1> QED BY <1>1, <1>2, <1>3 DEF Next

\* The callbacks and the rows that a step leaves are still true after it.
LEMMA OldOnesKeep ==
    ASSUME LogInv, [LogNext]_allVars
    PROVE  /\ IInv'
           /\ \A c \in callbacks :
                Says(c.request, c.jobId, c.eventType, c.attemptsMade)'
           /\ \A row \in BagToSet(sendLogs) :
                Says(row.request, row.jobId, row.eventType, row.attemptsMade)'
           /\ \A r \in Requests : job[r] = "failed" => job'[r] = "failed"
<1>1. [Next]_vars BY StepIsQueueStep DEF LogInv
<1>2. IInv' BY <1>1, NextInv DEF LogInv
<1>3. ASSUME NEW c \in callbacks
      PROVE  Says(c.request, c.jobId, c.eventType, c.attemptsMade)'
    <2>1. Says(c.request, c.jobId, c.eventType, c.attemptsMade)
        BY DEF LogInv, CallbacksInv
    <2> QED BY <1>1, <2>1, SaysKeeps DEF LogInv
<1>4. ASSUME NEW row \in BagToSet(sendLogs)
      PROVE  Says(row.request, row.jobId, row.eventType, row.attemptsMade)'
    <2>1. Says(row.request, row.jobId, row.eventType, row.attemptsMade)
        BY DEF LogInv, RowsInv
    <2> QED BY <1>1, <2>1, SaysKeeps DEF LogInv
<1>5. ASSUME NEW r \in Requests, job[r] = "failed" PROVE job'[r] = "failed"
    <2>1. PICK n : n = id[r] OBVIOUS
    <2>2. Says(r, n, "failed", 0) BY <1>5, <2>1 DEF Says
    <2>3. Says(r, n, "failed", 0)' BY <1>1, <2>2, SaysKeeps DEF LogInv
    <2> QED BY <2>3 DEF Says
<1> QED BY <1>2, <1>3, <1>4, <1>5

\* What a callback is called with is so when it is called: the classification
\* of the event agrees with Redis, and the event is about the job of w.
LEMMA StartedIsTrue ==
    ASSUME IInv, NEW r \in Requests, NEW w \in Requests, LogDispatch(r, w),
           NEW c, c = Started(r, w)
    PROVE  /\ Says(c.request, c.jobId, c.eventType, c.attemptsMade)
           /\ IsCallback(c)
<1>1. w \in Matching(r) /\ event[r] # "none" BY DEF LogDispatch, Trying, Settle
<1>2. w = r BY <1>1, MatchingIsOwn
<1>3. /\ c = [request |-> r, eventType |-> EventType(r), jobId |-> id[r],
              attemptsMade |-> attemptsMade[r], log |-> NoRow, stage |-> c.stage]
      /\ c.stage \in {"find", "insert"}
    BY <1>2 DEF Started
<1>4. job[r] # "none" BY <1>1 DEF IInv, AttemptInv
<1>5. /\ QueueOf[r] \in Queues /\ Attempts[QueueOf[r]] \in Nat
      /\ attemptsMade[r] \in Nat /\ event[r] \in {"completed", "failed"}
    BY <1>1, QueueAssumption, AttemptsAssumption DEF IInv, TypeOK, Events
<1>6. /\ EventType(r) = "success" => job[r] = "completed"
      /\ EventType(r) = "failed" => job[r] = "failed"
      /\ EventType(r) = "trying" => attemptsMade[r] < Attempts[QueueOf[r]]
    BY <1>5 DEF EventType, IInv, AttemptInv
<1>7. IsCallback(c) BY <1>3 DEF IsCallback
<1> QED BY <1>3, <1>4, <1>6, <1>7 DEF Says

\* The row of a callback says what the callback was told; the attempt that is
\* not stored is 0.
LEMMA RowIsTrue ==
    ASSUME IInv, NEW c,
           Says(c.request, c.jobId, c.eventType, c.attemptsMade)
    PROVE  Says(Row(c).request, Row(c).jobId, Row(c).eventType, Row(c).attemptsMade)
<1>1. /\ Row(c).request = c.request /\ Row(c).jobId = c.jobId
      /\ Row(c).eventType = c.eventType
      /\ Row(c).attemptsMade \in {c.attemptsMade, 0}
    BY DEF Row
<1>2. Attempts[QueueOf[c.request]] \in Nat \ {0}
    BY QueueAssumption, AttemptsAssumption DEF Says
<1> QED BY <1>1, <1>2 DEF Says

-----------------------------------------------------------------------------
LEMMA LogInitInv == LogInit => LogInv
<1> SUFFICES ASSUME LogInit PROVE LogInv
    OBVIOUS
<1>1. IInv BY InitInv DEF LogInit
<1>2. CallbacksInv BY DEF LogInit, CallbacksInv
<1>3. RowsInv BY DEF LogInit, RowsInv, BagToSet, SetToBag, EmptyBag
<1>4. OnlyFailedIsMailed
    BY ContingencyAssumption DEF LogInit, Init, OnlyFailedIsMailed
<1> QED BY <1>1, <1>2, <1>3, <1>4 DEF LogInv

\* A step of a callback leaves at most one, which was told the same and has
\* got to the e-mail only if it is to send one.
LEMMA CallbackStepMakes ==
    ASSUME LogInv, NEW d \in callbacks, CallbackStep(d),
           NEW c \in callbacks', c \notin callbacks
    PROVE  /\ c.request = d.request /\ c.jobId = d.jobId
           /\ c.eventType = d.eventType /\ c.attemptsMade = d.attemptsMade
           /\ IsCallback(c)
<1>1. IsCallback(d) BY DEF LogInv, CallbacksInv
<1>2. PICK stage, row :
            /\ c = [request |-> d.request, eventType |-> d.eventType,
                    jobId |-> d.jobId, attemptsMade |-> d.attemptsMade,
                    log |-> row, stage |-> stage]
            /\ stage \in {"track", "mail"} => Mails(d)
    <2>1. CASE FindRow(d)
        <3>1. \/ c \in AfterRow(d, NoRow)
              \/ c = [d EXCEPT !.stage = "insert"]
            BY <2>1 DEF FindRow
        <3> QED BY <1>1, <3>1 DEF AfterRow, IsCallback
    <2>2. CASE InsertRow(d)
        <3>1. c \in AfterRow(d, Row(d)) BY <2>2 DEF InsertRow
        <3> QED BY <1>1, <3>1 DEF AfterRow, IsCallback
    <2>3. CASE TrackEmail(d)
        <3>1. c = [d EXCEPT !.stage = "mail"] /\ d.stage = "track"
            BY <2>3 DEF TrackEmail
        <3> QED BY <1>1, <3>1 DEF IsCallback
    <2>4. CASE MailText(d)
        BY <2>4 DEF MailText
    <2> QED BY <2>1, <2>2, <2>3, <2>4 DEF CallbackStep
<1>3. /\ c.request = d.request /\ c.jobId = d.jobId /\ c.stage = stage
      /\ c.eventType = d.eventType /\ c.attemptsMade = d.attemptsMade
    BY <1>2
<1>4. IsCallback(c) BY <1>2, <1>3 DEF IsCallback, Mails
<1> QED BY <1>3, <1>4

\* Which callbacks there are after a step: those there were, the one that was
\* just called, or what a step of one makes of it.
LEMMA CallbacksKeep == LogInv /\ [LogNext]_allVars => CallbacksInv'
<1> SUFFICES ASSUME LogInv, [LogNext]_allVars, NEW c \in callbacks'
             PROVE  /\ Says(c.request, c.jobId, c.eventType, c.attemptsMade)'
                    /\ IsCallback(c)
    BY DEF CallbacksInv, IsCallback, Mails
<1>1. CASE c \in callbacks
    BY <1>1, OldOnesKeep DEF LogInv, CallbacksInv
<1>2. ASSUME NEW r \in Requests, NEW w \in Requests, LogDispatch(r, w),
             c \notin callbacks
      PROVE  /\ Says(c.request, c.jobId, c.eventType, c.attemptsMade)'
             /\ IsCallback(c)
    <2>1. c = Started(r, w) BY <1>2 DEF LogDispatch
    <2>2. /\ Says(c.request, c.jobId, c.eventType, c.attemptsMade)
          /\ IsCallback(c)
        BY <1>2, <2>1, StartedIsTrue DEF LogInv
    <2>3. [Next]_vars BY StepIsQueueStep DEF LogInv
    <2> QED BY <2>2, <2>3, SaysKeeps DEF LogInv
<1>3. ASSUME NEW d \in callbacks, CallbackStep(d), c \notin callbacks
      PROVE  /\ Says(c.request, c.jobId, c.eventType, c.attemptsMade)'
             /\ IsCallback(c)
    BY <1>3, CallbackStepMakes, OldOnesKeep
<1> QED BY <1>1, <1>2, <1>3
    DEF LogNext, LogSubmit, LogSaveError, QueueStep, LogCrash, logVars, allVars

\* The row that is inserted says what its callback was told.
LEMMA RowsKeep == LogInv /\ [LogNext]_allVars => RowsInv'
<1> SUFFICES ASSUME LogInv, [LogNext]_allVars, NEW row \in BagToSet(sendLogs)'
             PROVE  Says(row.request, row.jobId, row.eventType, row.attemptsMade)'
    BY DEF RowsInv
<1>1. CASE row \in BagToSet(sendLogs)
    BY <1>1, OldOnesKeep
<1>2. ASSUME NEW d \in callbacks, InsertRow(d), row \notin BagToSet(sendLogs)
      PROVE  Says(row.request, row.jobId, row.eventType, row.attemptsMade)'
    <2>1. row = Row(d) BY <1>2 DEF InsertRow, BagToSet, SetToBag, (+)
    <2>2. Says(row.request, row.jobId, row.eventType, row.attemptsMade)
        BY <2>1, RowIsTrue DEF LogInv, CallbacksInv
    <2>3. [Next]_vars BY StepIsQueueStep DEF LogInv
    <2> QED BY <2>2, <2>3, SaysKeeps DEF LogInv
<1>3. CASE UNCHANGED sendLogs
    BY <1>3, <1>1 DEF BagToSet
<1>4. \/ UNCHANGED sendLogs
      \/ \E d \in callbacks : InsertRow(d)
    BY DEF LogNext, LogSubmit, LogSaveError, QueueStep, LogDispatch, CallbackStep,
       FindRow, TrackEmail, MailText, LogCrash, logVars, allVars
<1> QED BY <1>1, <1>2, <1>3, <1>4

\* Only the last step of a callback submits a contingency job: that of its own
\* text, which has failed.
LEMMA OnlyFailedKeeps == LogInv /\ [LogNext]_allVars => OnlyFailedIsMailed'
<1> SUFFICES ASSUME LogInv, [LogNext]_allVars, NEW t \in WantsEmail,
                    http'[Contingency[t]] # "idle"
             PROVE  job'[t] = "failed"
    BY DEF OnlyFailedIsMailed
<1> DEFINE mail == Contingency[t]
<1>1. t \in Requests /\ mail \in Requests /\ Kind[mail] = "sendContingency"
    BY ContingencyAssumption
<1>2. CASE http[mail] # "idle"
    BY <1>1, <1>2, OldOnesKeep DEF LogInv, OnlyFailedIsMailed
<1>3. ASSUME NEW d \in callbacks, MailText(d), http[mail] = "idle"
      PROVE  job'[t] = "failed"
    <2>1. IsCallback(d) /\ d.stage = "mail" /\ Submit(Contingency[d.request])
        BY <1>3 DEF MailText, LogInv, CallbacksInv
    <2>2. d.request \in WantsEmail /\ d.eventType = "failed"
        BY <2>1 DEF IsCallback, Mails
    <2>3. job[d.request] = "failed"
        BY <2>2 DEF LogInv, CallbacksInv, Says
    <2>4. d.request = t
        BY <1>1, <1>3, <2>1, <2>2, ContingencyAssumption
        DEF Submit, LogInv, IInv, TypeOK
    <2> QED BY <1>1, <2>3, <2>4, OldOnesKeep
<1>4. CASE http'[mail] = http[mail]
    BY <1>2, <1>4
<1>5. \/ http'[mail] = http[mail] \/ http[mail] # "idle"
      \/ \E d \in callbacks : MailText(d)
    <2>1. ASSUME NEW r \in Requests, LogSubmit(r) PROVE http'[mail] = http[mail]
        BY <1>1, <2>1 DEF LogSubmit, Submit, LogInv, IInv, TypeOK
    <2>2. ASSUME NEW r \in Requests,
                 LogSaveError(r) \/ QueueStep(r) \/ \E w \in Requests : LogDispatch(r, w)
          PROVE  http'[mail] = http[mail] \/ http[mail] # "idle"
        BY <1>1, <2>2 DEF LogSaveError, SaveError, QueueStep, RedisAdd, SaveReply,
           Activate, Complete, Fail, Ignore, LogDispatch, Trying, Settle, processVars,
           LogInv, IInv, TypeOK
    <2>3. CASE LogCrash
        BY <1>1, <2>3 DEF LogCrash, Crash
    <2>4. ASSUME NEW d \in callbacks, FindRow(d) \/ InsertRow(d) \/ TrackEmail(d)
          PROVE  http' = http
        BY <2>4 DEF FindRow, InsertRow, TrackEmail, vars
    <2> QED BY <2>1, <2>2, <2>3, <2>4 DEF LogNext, CallbackStep, allVars, vars
<1> QED BY <1>2, <1>3, <1>4, <1>5

-----------------------------------------------------------------------------
\* LogInv holds in every state of the send services.
THEOREM LogInvariance == LogSpec => []LogInv
<1>1. LogInv /\ [LogNext]_allVars => LogInv'
    BY OldOnesKeep, CallbacksKeep, RowsKeep, OnlyFailedKeeps DEF LogInv
<1> QED BY <1>1, LogInitInv, PTL DEF LogSpec

\* So the send services keep all that is proved of QueueService.
THEOREM ImplementsQueue == LogSpec => Spec
<1>1. LogInit => Init
    BY DEF LogInit
<1>2. LogInv /\ [LogNext]_allVars => [Next]_vars
    BY StepIsQueueStep DEF LogInv
<1> QED BY <1>1, <1>2, LogInvariance, PTL DEF LogSpec, Spec

\* No row is untrue, however late it is inserted (processSuccess, processFailed).
THEOREM RowsAreTrueHolds == LogSpec => []RowsAreTrue
<1>1. LogInv => RowsAreTrue
    BY DEF LogInv, RowsInv, Says, RowsAreTrue
<1> QED BY <1>1, LogInvariance, PTL

\* Nobody gets a contingency e-mail for a text that may still be sent.
THEOREM OnlyFailedIsMailedHolds == LogSpec => []OnlyFailedIsMailed
<1>1. LogInv => OnlyFailedIsMailed
    BY DEF LogInv
<1> QED BY <1>1, LogInvariance, PTL

-----------------------------------------------------------------------------
(* What becomes of each call of a callback: its row, and the mail after it.  *)

\* Which of the calls of its request's callbacks c is: the failed attempts come
\* one by one, the success after them.
Call(c) == IF c.eventType = "success" THEN c.attemptsMade + 1 ELSE c.attemptsMade

\* The row that the k-th call of a callback of r writes.
RowOf(r, k) ==
    [request |-> r, jobId |-> id[r], eventType |-> called[r][k],
     attemptsMade |-> IF called[r][k] = "success" THEN k - 1
                      ELSE IF StoresAttempt(r) THEN k ELSE 0]

Table == BagToSet(sendLogs)
Mailed == BagToSet(emailSent)
EmailRow(c) == [jobId |-> c.jobId, sendLog |-> Row(c)]

\* The row of c is still to be written.
Logs(c) == c.stage \in {"find", "insert"}

\* The attempts that a callback `trying' was called for were made, and were not
\* the last one the queue gives; `failed' is called for that one.
TriesInv ==
    \A r \in Requests : \A k \in 1 .. Len(called[r]) :
        /\ called[r][k] = "trying" => k <= attemptsMade[r] /\ k < Attempts[QueueOf[r]]
        /\ called[r][k] = "failed" => k >= Attempts[QueueOf[r]]

\* A running callback is one call of its request's callbacks, and a call runs once.
CallsInv ==
    /\ \A c \in callbacks :
        /\ c.request \in Logged /\ Tracked(c.request)
        /\ c.attemptsMade \in Nat
        /\ c.stage \in {"find", "insert", "track", "mail"}
        /\ c.stage = "find" => c.eventType # "success"
        /\ Call(c) \in 1 .. Len(called[c.request])
        /\ called[c.request][Call(c)] = c.eventType
    /\ \A c, d \in callbacks : c.request = d.request /\ Call(c) = Call(d) => c = d

\* A row is the one of a call, and there once; a callback has its row behind it or
\* before it; and while the process runs, a call whose row can be told from those
\* of other queues has its row or a callback that will write it.
TableInv ==
    /\ \A row \in Table :
        /\ sendLogs[row] = 1
        /\ row.request \in Logged
        /\ \E k \in 1 .. Len(called[row.request]) : row = RowOf(row.request, k)
    /\ \A c \in callbacks : Logs(c) <=> Row(c) \notin Table
    /\ \A r \in Logged : \A k \in 1 .. Len(called[r]) :
        Tracked(r) /\ (called[r][k] \in Terminal \/ StoresAttempt(r)) =>
            \/ RowOf(r, k) \in Table
            \/ \E c \in callbacks : c.request = r /\ Call(c) = k

\* The EmailSent rows are those of the failed rows of texts, each once; the e-mail
\* is added behind its row.
EmailsInv ==
    /\ \A c \in callbacks :
        ~Logs(c) => c.log = Row(c) /\ (c.stage = "mail" <=> EmailRow(c) \in Mailed)
    /\ \A e \in Mailed :
        /\ emailSent[e] = 1
        /\ e.sendLog \in Table
        /\ e.sendLog.request \in WantsEmail /\ e.sendLog.eventType = "failed"
        /\ e = [jobId |-> e.sendLog.jobId, sendLog |-> e.sendLog]
    /\ \A r \in WantsEmail :
        http[Contingency[r]] # "idle" => \E e \in Mailed : e.sendLog.request = r

\* What the call of a callback adds, and to whom.
LEMMA DispatchCalls ==
    ASSUME IInv, NEW r \in Requests, NEW w \in Requests, Trying(r, w) \/ Settle(r, w)
    PROVE  /\ w = r /\ Tracked(r)
           /\ called' = [called EXCEPT ![r] = Append(@, EventType(r))]
           /\ Len(called[r]) + 1 = IF EventType(r) = "success" THEN attemptsMade[r] + 1
                                   ELSE attemptsMade[r]
           /\ EventType(r) = "trying" => attemptsMade[r] < Attempts[QueueOf[r]]
           /\ EventType(r) = "failed" => attemptsMade[r] >= Attempts[QueueOf[r]]
           /\ EventType(r) \in Callbacks
           /\ \A k \in 1 .. Len(called[r]) : called[r][k] = "trying"
           /\ UNCHANGED <<id, job, attemptsMade, http, orphans>>
<1>1. w \in Matching(r) /\ event[r] # "none" BY DEF Trying, Settle
<1>2. w = r /\ r \in workers /\ Tracked(r) BY <1>1, MatchingIsOwn
<1>3. called' = [called EXCEPT ![r] = Append(@, EventType(r))]
    <2>1. CASE Trying(r, w) BY <1>2, <2>1, TryingIsArmed DEF Trying
    <2>2. CASE Settle(r, w) BY <1>2, <2>2 DEF Settle
    <2> QED BY <2>1, <2>2
<1>4. /\ QueueOf[r] \in Queues /\ Attempts[QueueOf[r]] \in Nat
      /\ attemptsMade[r] \in Nat /\ event[r] \in {"completed", "failed"}
      /\ called[r] \in Seq(Callbacks)
    BY <1>1, QueueAssumption, AttemptsAssumption DEF IInv, TypeOK, Events
<1>5. Len(called[r]) \in Nat BY <1>4, LenProperties
<1>6. /\ Len(called[r]) + 1 = Outcomes(r)
      /\ \A k \in 1 .. Len(called[r]) : called[r][k] = "trying"
    BY <1>1, <1>2 DEF IInv, CalledInv, CalledAsDue, Pending
<1>7. /\ event[r] = "completed" => EventType(r) = "success" /\ job[r] = "completed"
      /\ event[r] = "failed" => EventType(r) \in {"trying", "failed"}
                                /\ job[r] # "completed"
      /\ EventType(r) = "trying" => attemptsMade[r] < Attempts[QueueOf[r]]
      /\ EventType(r) = "failed" => attemptsMade[r] >= Attempts[QueueOf[r]]
    BY <1>4 DEF EventType, IInv, AttemptInv
<1>8. Len(called[r]) + 1 = IF EventType(r) = "success" THEN attemptsMade[r] + 1
                           ELSE attemptsMade[r]
    BY <1>4, <1>6, <1>7 DEF Outcomes
<1>9. UNCHANGED <<id, job, attemptsMade, http, orphans>>
    BY DEF Trying, Settle, redisVars
<1>10. EventType(r) \in Callbacks BY <1>4, <1>7 DEF Callbacks
<1> QED BY <1>2, <1>3, <1>6, <1>7, <1>8, <1>9, <1>10

\* A step calls one callback more or none, and changes no id and no attempt but
\* to count them on.
LEMMA CalledGrows ==
    ASSUME IInv, [Next]_vars
    PROVE  /\ \/ called' = called
              \/ \E r, w \in Requests : Trying(r, w) \/ Settle(r, w)
           /\ \A r \in Requests :
                /\ attemptsMade'[r] \in {attemptsMade[r], attemptsMade[r] + 1}
                /\ job[r] # "none" => id'[r] = id[r]
                /\ http[r] = "ok" => http'[r] = "ok"
<1>1. ASSUME NEW r \in Requests, Step(r)
      PROVE  /\ \/ called' = called
                \/ \E w \in Requests : Trying(r, w) \/ Settle(r, w)
             /\ \A s \in Requests :
                /\ attemptsMade'[s] \in {attemptsMade[s], attemptsMade[s] + 1}
                /\ job[s] # "none" => id'[s] = id[s]
                /\ http[s] = "ok" => http'[s] = "ok"
    <2>1. CASE Submit(r) BY <2>1 DEF Submit, redisVars, historyVars, IInv, TypeOK
    <2>2. CASE RedisAdd(r)
        BY <2>2 DEF RedisAdd, processVars, historyVars, IInv, TypeOK
    <2>3. CASE SaveReply(r) \/ SaveError(r)
        BY <2>3 DEF SaveReply, SaveError, redisVars, historyVars, IInv, TypeOK
    <2>4. CASE Activate(r) \/ Complete(r) \/ Ignore(r)
        BY <2>4 DEF Activate, Complete, Ignore, redisVars, processVars, historyVars
    <2>5. CASE Fail(r) BY <2>5 DEF Fail, historyVars, IInv, TypeOK
    <2>6. ASSUME NEW w \in Requests, Trying(r, w) \/ Settle(r, w)
          PROVE  UNCHANGED <<attemptsMade, id, http>>
        BY <2>6 DEF Trying, Settle, redisVars
    <2> QED BY <1>1, <2>1, <2>2, <2>3, <2>4, <2>5, <2>6 DEF Step, Dispatch
<1>2. CASE Crash BY <1>2 DEF Crash, IInv, TypeOK
<1>3. CASE UNCHANGED vars BY <1>3 DEF vars
<1> QED BY <1>1, <1>2, <1>3 DEF Next

\* What was called stays, and so does the row that the call writes.
LEMMA RowsStay ==
    ASSUME IInv, [Next]_vars, NEW r \in Requests, NEW k \in 1 .. Len(called[r])
    PROVE  /\ k \in 1 .. Len(called'[r]) /\ called'[r][k] = called[r][k]
           /\ RowOf(r, k)' = RowOf(r, k)
<1>1. called[r] \in Seq(Callbacks) /\ Len(called[r]) \in Nat
    BY LenProperties DEF IInv, TypeOK
<1>2. called[r] # <<>> BY <1>1
<1>3. job[r] # "none" BY <1>2 DEF IInv, ProgressInv
<1>4. id'[r] = id[r] BY <1>3, CalledGrows
<1>5. k \in 1 .. Len(called'[r]) /\ called'[r][k] = called[r][k]
    <2>1. CASE called' = called BY <2>1
    <2>2. ASSUME NEW s \in Requests, NEW w \in Requests, Trying(s, w) \/ Settle(s, w)
          PROVE  k \in 1 .. Len(called'[r]) /\ called'[r][k] = called[r][k]
        <3>1. called' = [called EXCEPT ![s] = Append(@, EventType(s))]
              /\ EventType(s) \in Callbacks
            BY <2>2, DispatchCalls
        <3>2. CASE r # s BY <3>1, <3>2 DEF IInv, TypeOK
        <3>3. CASE r = s
            <4>1. called'[r] = Append(called[r], EventType(r))
                BY <3>1, <3>3 DEF IInv, TypeOK
            <4> QED BY <1>1, <3>1, <3>3, <4>1, AppendProperties
        <3> QED BY <3>2, <3>3
    <2> QED BY <2>1, <2>2, CalledGrows
<1> QED BY <1>4, <1>5 DEF RowOf

LEMMA TriesKeep == IInv /\ TriesInv /\ [Next]_vars => TriesInv'
<1> SUFFICES ASSUME IInv, TriesInv, [Next]_vars,
                    NEW r \in Requests, NEW k \in 1 .. Len(called'[r])
             PROVE  /\ called'[r][k] = "trying" =>
                            k <= attemptsMade'[r] /\ k < Attempts[QueueOf[r]]
                    /\ called'[r][k] = "failed" => k >= Attempts[QueueOf[r]]
    BY DEF TriesInv
<1>1. /\ called[r] \in Seq(Callbacks) /\ Len(called[r]) \in Nat
      /\ attemptsMade[r] \in Nat /\ Attempts[QueueOf[r]] \in Nat
      /\ attemptsMade'[r] \in {attemptsMade[r], attemptsMade[r] + 1}
    BY LenProperties, QueueAssumption, AttemptsAssumption, CalledGrows
    DEF IInv, TypeOK
<1>2. CASE k \in 1 .. Len(called[r])
    <2>1. called'[r][k] = called[r][k] BY <1>2, RowsStay
    <2>2. /\ called[r][k] = "trying" =>
                k <= attemptsMade[r] /\ k < Attempts[QueueOf[r]]
          /\ called[r][k] = "failed" => k >= Attempts[QueueOf[r]]
        BY <1>2 DEF TriesInv
    <2> QED BY <1>1, <2>1, <2>2
<1>3. CASE k \notin 1 .. Len(called[r])
    <2>1. PICK s \in Requests, w \in Requests : Trying(s, w) \/ Settle(s, w)
        BY <1>3, CalledGrows
    <2>2. /\ called' = [called EXCEPT ![s] = Append(@, EventType(s))]
          /\ Len(called[s]) + 1 = IF EventType(s) = "success" THEN attemptsMade[s] + 1
                                  ELSE attemptsMade[s]
          /\ EventType(s) = "trying" => attemptsMade[s] < Attempts[QueueOf[s]]
          /\ EventType(s) = "failed" => attemptsMade[s] >= Attempts[QueueOf[s]]
          /\ EventType(s) \in Callbacks /\ UNCHANGED attemptsMade
        BY <2>1, DispatchCalls
    <2>3. r = s BY <1>3, <2>2 DEF IInv, TypeOK
    <2>4. called'[r] = Append(called[r], EventType(r)) BY <2>2, <2>3 DEF IInv, TypeOK
    <2>5. Len(called'[r]) = Len(called[r]) + 1
          /\ called'[r][Len(called[r]) + 1] = EventType(r)
        BY <1>1, <2>2, <2>3, <2>4, AppendProperties
    <2>6. k = Len(called[r]) + 1 BY <1>1, <1>3, <2>5
    <2> QED BY <1>1, <2>2, <2>3, <2>5, <2>6
<1> QED BY <1>2, <1>3

\* The rows of two calls of a request differ.
LEMMA RowOfInjective ==
    ASSUME IInv, TriesInv, NEW r \in Logged, NEW j \in 1 .. Len(called[r]),
           NEW k \in 1 .. Len(called[r]), RowOf(r, j) = RowOf(r, k)
    PROVE  j = k
<1>1. r \in Requests /\ called[r] \in Seq(Callbacks) /\ Len(called[r]) \in Nat
    BY LenProperties DEF Logged, IInv, TypeOK
<1>2. /\ called[r][j] = called[r][k]
      /\ StoresAttempt(r) /\ called[r][j] = "trying" => j = k
    BY DEF RowOf
<1>3. CASE called[r][j] # "trying"
    <2>1. j = Len(called[r]) /\ k = Len(called[r])
        BY <1>1, <1>2, <1>3 DEF IInv, CalledInv, CalledAsDue
    <2> QED BY <2>1
<1>4. CASE called[r][j] = "trying" /\ ~StoresAttempt(r)
    <2>1. /\ j < Attempts[QueueOf[r]] /\ k < Attempts[QueueOf[r]]
          /\ Attempts[QueueOf[r]] \in Nat /\ Attempts[QueueOf[r]] <= 2
        BY <1>1, <1>2, <1>4, QueueAssumption, AttemptsAssumption,
           StoredAttemptsAssumption DEF TriesInv
    <2> QED BY <1>1, <2>1
<1> QED BY <1>2, <1>3, <1>4

EntryInv == LogInv /\ TriesInv /\ CallsInv /\ TableInv /\ EmailsInv

\* What a callback is about, when the state is as EntryInv says.
LEMMA RowIsOf ==
    ASSUME EntryInv, NEW c \in callbacks
    PROVE  /\ c.request \in Requests /\ c.request \in Logged
           /\ Call(c) \in 1 .. Len(called[c.request])
           /\ Row(c) = RowOf(c.request, Call(c))
           /\ Row(c).request = c.request /\ Row(c).jobId = c.jobId
           /\ Row(c).eventType = c.eventType
<1>1. /\ c.request \in Logged /\ c.request \in Requests
      /\ Call(c) \in 1 .. Len(called[c.request])
      /\ called[c.request][Call(c)] = c.eventType /\ c.attemptsMade \in Nat
    BY DEF EntryInv, CallsInv, Logged
<1>2. c.jobId = id[c.request] BY DEF EntryInv, LogInv, CallbacksInv, Says
<1>3. Row(c) = RowOf(c.request, Call(c)) BY <1>1, <1>2 DEF Row, RowOf, Call
<1> QED BY <1>1, <1>3 DEF Row

\* Two callbacks write different rows.
LEMMA RowsDiffer ==
    ASSUME EntryInv, NEW c \in callbacks, NEW d \in callbacks, Row(c) = Row(d)
    PROVE  c = d
<1>1. c.request = d.request BY RowIsOf
<1>2. /\ c.request \in Logged /\ Call(c) \in 1 .. Len(called[c.request])
      /\ Call(d) \in 1 .. Len(called[c.request])
      /\ RowOf(c.request, Call(c)) = RowOf(c.request, Call(d))
    BY <1>1, RowIsOf
<1>3. PICK j, k : j = Call(c) /\ k = Call(d) OBVIOUS
<1>4. j = k BY <1>2, <1>3, RowOfInjective DEF EntryInv, LogInv
<1> QED BY <1>1, <1>3, <1>4 DEF EntryInv, CallsInv

\* The query before a row finds no other call's row, when the row that is looked
\* for stores its attempt or is about the job's end.
LEMMA FindsNoOther ==
    ASSUME EntryInv, NEW c \in callbacks, c.stage = "find",
           c.eventType = "failed" \/ StoresAttempt(c.request)
    PROVE  ~HasRow(c)
<1> SUFFICES ASSUME NEW row \in Table, row.jobId = c.jobId,
                    row.attemptsMade = c.attemptsMade, row.eventType = c.eventType
             PROVE  FALSE
    BY DEF HasRow, Table
<1> DEFINE r == c.request
           s == row.request
<1>1. /\ r \in Logged /\ r \in Requests /\ c.eventType # "success"
      /\ c.attemptsMade = Call(c) /\ Call(c) \in 1 .. Len(called[r])
      /\ Row(c) = RowOf(r, Call(c)) /\ Row(c) \notin Table
      /\ Len(called[r]) \in Nat
    <2>1. called[r] \in Seq(Callbacks) BY RowIsOf DEF EntryInv, LogInv, IInv, TypeOK
    <2> QED BY <2>1, RowIsOf, LenProperties DEF EntryInv, CallsInv, TableInv, Logs, Call
<1>2. /\ s \in Logged /\ s \in Requests /\ row.jobId = id[s] /\ job[s] # "none"
      /\ \E k \in 1 .. Len(called[s]) : row = RowOf(s, k)
    BY DEF EntryInv, LogInv, RowsInv, Says, TableInv, Table, Logged
<1>3. PICK k \in 1 .. Len(called[s]) : row = RowOf(s, k) BY <1>2
<1>4. c.jobId = id[r] BY DEF EntryInv, LogInv, CallbacksInv, Says
<1>5. id[s] = id[r] /\ id[s] # 0
    BY <1>2, <1>4 DEF EntryInv, LogInv, IInv, IdInv
<1>6. /\ called[s][k] = c.eventType
      /\ row.attemptsMade = IF StoresAttempt(s) THEN k ELSE 0
    BY <1>1, <1>3 DEF RowOf
<1>7. StoresAttempt(s) /\ k = Call(c) BY <1>1, <1>6
<1>8. CASE StoresAttempt(r)
    <2>1. QueueOf[r] = QueueOf[s]
        BY <1>1, <1>2, <1>7, <1>8, StoredAttemptsAssumption
    <2>2. r = s BY <1>1, <1>2, <1>5, <2>1 DEF EntryInv, LogInv, IInv, IdInv
    <2> QED BY <1>1, <1>3, <1>7, <2>2
<1>9. CASE ~StoresAttempt(r)
    <2>1. c.eventType = "failed" BY <1>9
    <2>2. k >= Attempts[QueueOf[s]] BY <1>2, <1>6, <2>1 DEF EntryInv, TriesInv
    <2>3. /\ Attempts[QueueOf[s]] > 2 /\ Attempts[QueueOf[r]] <= 2
          /\ Attempts[QueueOf[s]] \in Nat /\ Attempts[QueueOf[r]] \in Nat
        BY <1>1, <1>2, <1>7, <1>9, StoredAttemptsAssumption, QueueAssumption,
           AttemptsAssumption
    <2>4. called[r][Len(called[r])] # "trying" /\ Call(c) = Len(called[r])
        <3>1. called[r][Call(c)] = "failed" BY <2>1 DEF EntryInv, CallsInv
        <3> QED BY <1>1, <3>1 DEF EntryInv, LogInv, IInv, CalledInv, CalledAsDue
    <2>5. Len(called[r]) <= Attempts[QueueOf[r]]
        BY <1>1, Protocol DEF EntryInv, LogInv, CallbackProtocol
    <2> QED BY <1>1, <1>7, <2>2, <2>3, <2>4, <2>5
<1> QED BY <1>8, <1>9

\* A step that calls no callback and leaves the process alive changes none of the
\* rows that calls write, nor who is tracked among those that were called.
LEMMA CalmKeeps ==
    ASSUME EntryInv, [Next]_vars, called' = called, orphans' = orphans
    PROVE  /\ \A r \in Requests : \A k \in 1 .. Len(called[r]) :
                RowOf(r, k)' = RowOf(r, k) /\ (Tracked(r)' <=> Tracked(r))
           /\ \A r \in Requests : Tracked(r) => Tracked(r)'
<1>1. \A r \in Requests : Tracked(r) => Tracked(r)'
    BY CalledGrows DEF EntryInv, LogInv, Tracked
<1>2. ASSUME NEW r \in Requests, NEW k \in 1 .. Len(called[r])
      PROVE  RowOf(r, k)' = RowOf(r, k) /\ (Tracked(r)' <=> Tracked(r))
    <2>1. RowOf(r, k)' = RowOf(r, k) BY RowsStay DEF EntryInv, LogInv
    <2>2. called[r] # <<>> OBVIOUS
    <2>3. http[r] = "ok" BY <2>2 DEF EntryInv, LogInv, IInv, ProgressInv
    <2>4. http'[r] = "ok" BY <2>3, CalledGrows DEF EntryInv, LogInv
    <2> QED BY <2>1, <2>3, <2>4 DEF Tracked
<1> QED BY <1>1, <1>2

\* Rows that are there stay rows of calls.
LEMMA TableKeeps ==
    ASSUME EntryInv, [Next]_vars, NEW row \in Table
    PROVE  /\ row.request \in Logged
           /\ \E k \in 1 .. Len(called'[row.request]) : row = RowOf(row.request, k)'
<1>1. PICK k \in 1 .. Len(called[row.request]) : row = RowOf(row.request, k)
    BY DEF EntryInv, TableInv
<1>2. row.request \in Logged /\ row.request \in Requests
    BY DEF EntryInv, TableInv, Logged
<1>3. k \in 1 .. Len(called'[row.request]) /\ RowOf(row.request, k)' = RowOf(row.request, k)
    BY <1>2, RowsStay DEF EntryInv, LogInv
<1> QED BY <1>1, <1>2, <1>3

\* The queue's own steps.
LEMMA QuietKeeps ==
    ASSUME EntryInv, [Next]_vars, called' = called, orphans' = orphans,
           UNCHANGED logVars,
           \A r \in WantsEmail :
                http'[Contingency[r]] # "idle" => http[Contingency[r]] # "idle"
    PROVE  CallsInv' /\ TableInv' /\ EmailsInv'
<1>1. UNCHANGED <<callbacks, sendLogs, emailSent>> BY DEF logVars
<1>2. Table' = Table /\ Mailed' = Mailed BY <1>1 DEF Table, Mailed, BagToSet
<1>3. \A c \in callbacks : c.request \in Requests BY RowIsOf
<1>4. CallsInv'
    BY <1>1, <1>3, CalmKeeps DEF EntryInv, CallsInv
<1>5. TableInv'
    <2>1. \A row \in Table : /\ row.request \in Logged
                             /\ \E k \in 1 .. Len(called'[row.request]) :
                                    row = RowOf(row.request, k)'
        BY TableKeeps
    <2>2. ASSUME NEW r \in Logged, NEW k \in 1 .. Len(called'[r]), Tracked(r)',
                 called'[r][k] \in Terminal \/ StoresAttempt(r)
          PROVE  \/ RowOf(r, k)' \in Table
                 \/ \E c \in callbacks : c.request = r /\ Call(c) = k
        <3>1. r \in Requests /\ k \in 1 .. Len(called[r]) BY DEF Logged
        <3>2. RowOf(r, k)' = RowOf(r, k) /\ Tracked(r) BY <2>2, <3>1, CalmKeeps
        <3> QED BY <2>2, <3>1, <3>2 DEF EntryInv, TableInv
    <2> QED BY <1>1, <1>2, <2>1, <2>2 DEF EntryInv, TableInv
<1>6. EmailsInv' BY <1>1, <1>2 DEF EntryInv, EmailsInv
<1> QED BY <1>4, <1>5, <1>6

\* The process dies: its callbacks are gone, and nobody is tracked.
LEMMA CrashKeeps ==
    ASSUME EntryInv, LogCrash PROVE CallsInv' /\ TableInv' /\ EmailsInv'
<1>1. [Next]_vars BY DEF LogCrash, Next
<1>2. callbacks' = {} /\ UNCHANGED <<sendLogs, emailSent>> BY DEF LogCrash
<1>3. Table' = Table /\ Mailed' = Mailed BY <1>2 DEF Table, Mailed, BagToSet
<1>4. CallsInv' BY <1>2 DEF CallsInv
<1>5. \A row \in Table : /\ row.request \in Logged
                         /\ \E k \in 1 .. Len(called'[row.request]) :
                                row = RowOf(row.request, k)'
    BY <1>1, TableKeeps
<1>6. \A r \in Requests : ~Tracked(r)'
    BY DEF LogCrash, Crash, Tracked
<1>7. TableInv' BY <1>2, <1>3, <1>5, <1>6 DEF EntryInv, TableInv, Logged
<1>8. \A r \in WantsEmail :
            http'[Contingency[r]] # "idle" => http[Contingency[r]] # "idle"
    BY ContingencyAssumption DEF LogCrash, Crash
<1>9. EmailsInv' BY <1>2, <1>3, <1>8 DEF EntryInv, EmailsInv
<1> QED BY <1>4, <1>7, <1>9

\* A callback is called: no row is its own yet.
LEMMA DispatchKeeps ==
    ASSUME EntryInv, NEW r \in Requests, NEW w \in Requests, LogDispatch(r, w)
    PROVE  CallsInv' /\ TableInv' /\ EmailsInv'
<1> DEFINE c0 == Started(r, w)
<1>0. PICK n : n = Len(called[r]) + 1 OBVIOUS
<1>1. Trying(r, w) \/ Settle(r, w) BY DEF LogDispatch
<1>2. [Next]_vars BY <1>1 DEF Next, Step, Dispatch
<1>3. /\ w = r /\ Tracked(r)
      /\ called' = [called EXCEPT ![r] = Append(@, EventType(r))]
      /\ n = IF EventType(r) = "success" THEN attemptsMade[r] + 1 ELSE attemptsMade[r]
      /\ EventType(r) = "trying" => attemptsMade[r] < Attempts[QueueOf[r]]
      /\ EventType(r) \in Callbacks
      /\ \A k \in 1 .. Len(called[r]) : called[r][k] = "trying"
      /\ UNCHANGED <<id, job, attemptsMade, http, orphans>>
    BY <1>0, <1>1, DispatchCalls DEF EntryInv, LogInv
<1>4. /\ called[r] \in Seq(Callbacks) /\ Len(called[r]) \in Nat
      /\ attemptsMade[r] \in Nat /\ r \in DOMAIN called
    BY LenProperties DEF EntryInv, LogInv, IInv, TypeOK
<1>5. called'[r] = Append(called[r], EventType(r)) BY <1>3, <1>4
<1>6. /\ Len(called'[r]) = n /\ called'[r][n] = EventType(r)
      /\ \A k \in 1 .. Len(called'[r]) : k \in 1 .. Len(called[r]) \/ k = n
      /\ \A s \in Requests : s # r => called'[s] = called[s]
    <2>1. Len(called'[r]) = n /\ called'[r][n] = EventType(r)
        BY <1>0, <1>3, <1>4, <1>5, AppendProperties
    <2>2. \A k \in 1 .. n : k \in 1 .. Len(called[r]) \/ k = n BY <1>0, <1>4
    <2> QED BY <1>3, <2>1, <2>2
<1>7. /\ c0.request = r /\ c0.eventType = EventType(r) /\ c0.jobId = id[r]
      /\ c0.attemptsMade = attemptsMade[r] /\ c0.stage \in {"find", "insert"}
      /\ c0.stage = "find" => c0.eventType # "success"
    BY <1>3 DEF Started
<1>8. Call(c0) = n BY <1>3, <1>7 DEF Call
<1>9. /\ callbacks' \in {callbacks, callbacks \cup {c0}}
      /\ r \in Logged => callbacks' = callbacks \cup {c0}
      /\ r \notin Logged => callbacks' = callbacks
      /\ UNCHANGED <<sendLogs, emailSent>>
    BY <1>3 DEF LogDispatch
<1>10. Table' = Table /\ Mailed' = Mailed BY <1>9 DEF Table, Mailed, BagToSet
<1> HIDE DEF c0
<1>11. \A s \in Requests : Tracked(s)' <=> Tracked(s) BY <1>3 DEF Tracked
<1>12. ASSUME NEW c \in callbacks
       PROVE  /\ c.request \in Logged /\ c.request \in Requests
              /\ Call(c) \in 1 .. Len(called[c.request])
              /\ Call(c) \in 1 .. Len(called'[c.request])
              /\ called'[c.request][Call(c)] = c.eventType
              /\ Tracked(c.request)'
    <2>1. /\ c.request \in Requests /\ c.request \in Logged
          /\ Call(c) \in 1 .. Len(called[c.request])
        BY RowIsOf
    <2>2. PICK s, k : s = c.request /\ k = Call(c) OBVIOUS
    <2>3. k \in 1 .. Len(called'[s]) /\ called'[s][k] = called[s][k]
        BY <1>2, <2>1, <2>2, RowsStay DEF EntryInv, LogInv
    <2> QED BY <1>11, <2>1, <2>2, <2>3 DEF EntryInv, CallsInv
<1>13. CallsInv'
    <2>1. ASSUME NEW c \in callbacks'
          PROVE  /\ c.request \in Logged /\ Tracked(c.request)'
                 /\ c.attemptsMade \in Nat
                 /\ c.stage \in {"find", "insert", "track", "mail"}
                 /\ c.stage = "find" => c.eventType # "success"
                 /\ Call(c) \in 1 .. Len(called'[c.request])
                 /\ called'[c.request][Call(c)] = c.eventType
        <3>1. CASE c \in callbacks BY <1>12, <3>1 DEF EntryInv, CallsInv
        <3>2. CASE c \notin callbacks
            <4>1. c = c0 /\ r \in Logged BY <1>9, <3>2
            <4>2. n \in 1 .. Len(called'[r]) BY <1>0, <1>4, <1>6
            <4> QED BY <1>3, <1>4, <1>6, <1>7, <1>8, <1>11, <4>1, <4>2
        <3> QED BY <3>1, <3>2
    <2>2. ASSUME NEW c \in callbacks, c.request = r PROVE Call(c) # n
        BY <1>0, <1>4, <1>12, <2>2
    <2>3. ASSUME NEW c \in callbacks', NEW d \in callbacks',
                 c.request = d.request, Call(c) = Call(d)
          PROVE  c = d
        BY <1>7, <1>8, <1>9, <2>2, <2>3 DEF EntryInv, CallsInv
    <2> QED BY <2>1, <2>3 DEF CallsInv
<1>14. ASSUME r \in Logged PROVE Row(c0) \notin Table /\ Row(c0) = RowOf(r, n)'
    <2>1. /\ Row(c0).request = r /\ Row(c0).eventType = EventType(r)
          /\ Row(c0).attemptsMade = IF EventType(r) = "success" THEN n - 1
                                    ELSE IF StoresAttempt(r) THEN n ELSE 0
          /\ Row(c0) = RowOf(r, n)'
        <3> DEFINE made == IF EventType(r) = "success" THEN n - 1
                           ELSE IF StoresAttempt(r) THEN n ELSE 0
        <3>1. attemptsMade[r] = IF EventType(r) = "success" THEN n - 1 ELSE n
            BY <1>0, <1>3, <1>4
        <3>2. /\ (IF c0.eventType = "success" \/ StoresAttempt(c0.request)
                  THEN c0.attemptsMade ELSE 0) = made
              /\ (IF called'[r][n] = "success" THEN n - 1
                  ELSE IF StoresAttempt(r) THEN n ELSE 0) = made
            BY <1>6, <1>7, <3>1
        <3> HIDE DEF made
        <3>3. Row(c0) = [request |-> r, jobId |-> id[r], eventType |-> EventType(r),
                         attemptsMade |-> made]
            BY <1>7, <3>2 DEF Row
        <3>4. RowOf(r, n)' = [request |-> r, jobId |-> id[r],
                              eventType |-> EventType(r), attemptsMade |-> made]
            BY <1>3, <1>6, <3>2 DEF RowOf
        <3> QED BY <3>3, <3>4 DEF made
    <2>2. ASSUME Row(c0) \in Table PROVE FALSE
        <3>1. PICK k \in 1 .. Len(called[r]) : Row(c0) = RowOf(r, k)
            BY <2>1, <2>2 DEF EntryInv, TableInv
        <3>2. called[r][k] = "trying" BY <1>3
        <3>3. /\ EventType(r) = "trying"
              /\ (IF StoresAttempt(r) THEN n ELSE 0) = (IF StoresAttempt(r) THEN k ELSE 0)
            BY <2>1, <3>1, <3>2 DEF RowOf
        <3>4. CASE StoresAttempt(r) BY <1>0, <1>4, <3>3, <3>4
        <3>5. CASE ~StoresAttempt(r)
            <4>1. /\ n < Attempts[QueueOf[r]] /\ Attempts[QueueOf[r]] <= 2
                  /\ Attempts[QueueOf[r]] \in Nat
                BY <1>3, <1>14, <3>3, <3>5, StoredAttemptsAssumption,
                   QueueAssumption, AttemptsAssumption
            <4> QED BY <1>0, <1>4, <4>1
        <3> QED BY <3>4, <3>5
    <2> QED BY <2>1, <2>2
<1>15. TableInv'
    <2>1. \A row \in Table : /\ row.request \in Logged
                             /\ \E k \in 1 .. Len(called'[row.request]) :
                                    row = RowOf(row.request, k)'
        BY <1>2, TableKeeps
    <2>2. \A c \in callbacks' : Logs(c) <=> Row(c) \notin Table
        BY <1>7, <1>9, <1>14 DEF EntryInv, TableInv, Logs
    <2>3. ASSUME NEW s \in Logged, NEW k \in 1 .. Len(called'[s]), Tracked(s)',
                 called'[s][k] \in Terminal \/ StoresAttempt(s)
          PROVE  \/ RowOf(s, k)' \in Table
                 \/ \E c \in callbacks' : c.request = s /\ Call(c) = k
        <3>1. s \in Requests BY DEF Logged
        <3>2. CASE k \in 1 .. Len(called[s])
            <4>1. called'[s][k] = called[s][k] /\ RowOf(s, k)' = RowOf(s, k)
                BY <1>2, <3>1, <3>2, RowsStay DEF EntryInv, LogInv
            <4>2. Tracked(s) BY <1>11, <2>3, <3>1
            <4>3. \/ RowOf(s, k) \in Table
                  \/ \E c \in callbacks : c.request = s /\ Call(c) = k
                BY <2>3, <3>2, <4>1, <4>2 DEF EntryInv, TableInv
            <4> QED BY <1>9, <4>1, <4>3
        <3>3. CASE k \notin 1 .. Len(called[s])
            <4>1. s = r BY <1>6, <3>1, <3>3
            <4>2. k = n BY <1>6, <3>3, <4>1
            <4>3. c0 \in callbacks' BY <1>9, <4>1
            <4> QED BY <1>7, <1>8, <4>1, <4>2, <4>3
        <3> QED BY <3>2, <3>3
    <2> QED BY <1>9, <1>10, <2>1, <2>2, <2>3 DEF EntryInv, TableInv
<1>16. EmailsInv'
    BY <1>3, <1>7, <1>9, <1>10 DEF EntryInv, EmailsInv, Logs
<1> QED BY <1>13, <1>15, <1>16

\* A callback goes on, as another entry of callbacks or as none.
LEMMA CallsGoOn ==
    ASSUME EntryInv, NEW c \in callbacks, NEW d,
           /\ d.request = c.request /\ d.jobId = c.jobId
           /\ d.eventType = c.eventType /\ d.attemptsMade = c.attemptsMade
           /\ d.stage \in {"insert", "track", "mail"},
           callbacks' \subseteq (callbacks \ {c}) \cup {d},
           called' = called, orphans' = orphans, [Next]_vars
    PROVE  CallsInv' /\ Row(d) = Row(c) /\ Call(d) = Call(c)
<1>1. Row(d) = Row(c) /\ Call(d) = Call(c) BY DEF Row, Call
<1>2. \A e \in callbacks : e.request \in Requests /\ (Tracked(e.request) => Tracked(e.request)')
    BY RowIsOf, CalmKeeps
<1>3. ASSUME NEW e \in callbacks'
      PROVE  /\ e.request \in Logged /\ Tracked(e.request)'
             /\ e.attemptsMade \in Nat
             /\ e.stage \in {"find", "insert", "track", "mail"}
             /\ e.stage = "find" => e.eventType # "success"
             /\ Call(e) \in 1 .. Len(called'[e.request])
             /\ called'[e.request][Call(e)] = e.eventType
    <2>1. CASE e \in callbacks BY <1>2, <2>1 DEF EntryInv, CallsInv
    <2>2. CASE e = d BY <1>1, <1>2, <2>2 DEF EntryInv, CallsInv
    <2> QED BY <2>1, <2>2
<1>4. ASSUME NEW e \in callbacks', NEW f \in callbacks',
             e.request = f.request, Call(e) = Call(f)
      PROVE  e = f
    <2>1. CASE e = d BY <1>1, <1>4, <2>1 DEF EntryInv, CallsInv
    <2>2. CASE f = d BY <1>1, <1>4, <2>2 DEF EntryInv, CallsInv
    <2>3. CASE e # d /\ f # d BY <1>4, <2>3 DEF EntryInv, CallsInv
    <2> QED BY <2>1, <2>2, <2>3
<1>5. CallsInv' BY <1>3, <1>4 DEF CallsInv
<1> QED BY <1>1, <1>5

\* The table and the mails of a step that leaves vars alone.
LEMMA FindKeeps ==
    ASSUME EntryInv, NEW c \in callbacks, FindRow(c)
    PROVE  CallsInv' /\ TableInv' /\ EmailsInv'
<1> DEFINE d == [c EXCEPT !.stage = "insert"]
<1>1. /\ c.stage = "find" /\ UNCHANGED <<sendLogs, emailSent>>
      /\ UNCHANGED <<called, orphans, http, id>> /\ [Next]_vars
    BY DEF FindRow, vars
<1>2. Table' = Table /\ Mailed' = Mailed BY <1>1 DEF Table, Mailed, BagToSet
<1>3. IsCallback(c) BY DEF EntryInv, LogInv, CallbacksInv
<1>4. /\ d.request = c.request /\ d.jobId = c.jobId /\ d.eventType = c.eventType
      /\ d.attemptsMade = c.attemptsMade /\ d.stage = "insert"
    BY <1>3 DEF IsCallback
<1> HIDE DEF d
<1>5. /\ HasRow(c) => c.eventType # "failed" /\ ~StoresAttempt(c.request)
      /\ HasRow(c) => callbacks' = callbacks \ {c}
      /\ ~HasRow(c) => callbacks' = (callbacks \ {c}) \cup {d}
    <2>1. HasRow(c) => c.eventType # "failed" /\ ~StoresAttempt(c.request)
        BY <1>1, FindsNoOther
    <2> QED BY <2>1 DEF FindRow, AfterRow, Mails, d
<1>6. CallsInv' /\ Row(d) = Row(c) /\ Call(d) = Call(c)
    <2>1. callbacks' \subseteq (callbacks \ {c}) \cup {d} BY <1>5
    <2> QED BY <1>1, <1>4, <2>1, CallsGoOn
<1>7. TableInv'
    <2>1. \A row \in Table : /\ row.request \in Logged
                             /\ \E k \in 1 .. Len(called'[row.request]) :
                                    row = RowOf(row.request, k)'
        BY <1>1, TableKeeps
    <2>2. \A e \in callbacks' : Logs(e) <=> Row(e) \notin Table
        BY <1>1, <1>4, <1>5, <1>6 DEF EntryInv, TableInv, Logs
    <2>3. ASSUME NEW r \in Logged, NEW k \in 1 .. Len(called'[r]), Tracked(r)',
                 called'[r][k] \in Terminal \/ StoresAttempt(r)
          PROVE  \/ RowOf(r, k)' \in Table
                 \/ \E e \in callbacks' : e.request = r /\ Call(e) = k
        <3>1. r \in Requests /\ k \in 1 .. Len(called[r]) BY <1>1 DEF Logged
        <3>2. RowOf(r, k)' = RowOf(r, k) /\ Tracked(r) BY <1>1, <2>3, <3>1, CalmKeeps
        <3>3. \/ RowOf(r, k) \in Table
              \/ \E e \in callbacks : e.request = r /\ Call(e) = k
            BY <1>1, <2>3, <3>1, <3>2 DEF EntryInv, TableInv
        <3>4. ASSUME c.request = r, Call(c) = k
              PROVE  \E e \in callbacks' : e.request = r /\ Call(e) = k
            <4>1. called[r][k] = c.eventType BY <3>4 DEF EntryInv, CallsInv
            <4>2. c.eventType # "success" BY <1>1 DEF EntryInv, CallsInv
            <4>3. ~HasRow(c) BY <1>1, <1>5, <2>3, <3>4, <4>1, <4>2 DEF Terminal
            <4> QED BY <1>4, <1>5, <1>6, <3>4, <4>3
        <3> QED BY <1>5, <3>2, <3>3, <3>4
    <2> QED BY <1>1, <1>2, <2>1, <2>2, <2>3 DEF EntryInv, TableInv
<1>8. EmailsInv' BY <1>1, <1>2, <1>4, <1>5 DEF EntryInv, EmailsInv, Logs
<1> QED BY <1>6, <1>7, <1>8

\* The row is inserted: it was not there, and it is no other callback's.
LEMMA InsertKeeps ==
    ASSUME EntryInv, NEW c \in callbacks, InsertRow(c)
    PROVE  CallsInv' /\ TableInv' /\ EmailsInv'
<1> DEFINE d == [c EXCEPT !.stage = "track", !.log = Row(c)]
<1>1. /\ c.stage = "insert" /\ UNCHANGED emailSent
      /\ UNCHANGED <<called, orphans, http, id>> /\ [Next]_vars
      /\ sendLogs' = sendLogs (+) SetToBag({Row(c)})
    BY DEF InsertRow, vars
<1>2. /\ Table' = Table \cup {Row(c)} /\ Mailed' = Mailed
      /\ Row(c) \notin Table
      /\ \A row \in Table' : sendLogs'[row] = 1
    <2>1. Row(c) \notin Table BY <1>1 DEF EntryInv, TableInv, Logs
    <2>2. \A row \in Table : sendLogs[row] = 1 BY DEF EntryInv, TableInv
    <2>3. PICK new : new = Row(c) OBVIOUS
    <2>4. /\ Table' = Table \cup {new}
          /\ new \notin Table => sendLogs'[new] = 1
          /\ \A row \in Table : row # new /\ sendLogs[row] = 1 => sendLogs'[row] = 1
        <3> DEFINE more == sendLogs (+) SetToBag({new})
        <3>1. /\ BagToSet(more) = BagToSet(sendLogs) \cup {new}
              /\ new \notin BagToSet(sendLogs) => more[new] = 1
              /\ \A row \in BagToSet(sendLogs) :
                    row # new /\ sendLogs[row] = 1 => more[row] = 1
            BY DEF BagToSet, SetToBag, (+)
        <3>2. sendLogs' = more BY <1>1, <2>3
        <3> HIDE DEF more
        <3> QED BY <3>1, <3>2 DEF Table
    <2>5. Mailed' = Mailed BY <1>1 DEF Mailed, BagToSet
    <2> QED BY <2>1, <2>2, <2>3, <2>4, <2>5
<1>3. IsCallback(c) BY DEF EntryInv, LogInv, CallbacksInv
<1>4. /\ d.request = c.request /\ d.jobId = c.jobId /\ d.eventType = c.eventType
      /\ d.attemptsMade = c.attemptsMade /\ d.stage = "track" /\ d.log = Row(c)
    BY <1>3 DEF IsCallback
<1> HIDE DEF d
<1>5. callbacks' \in {callbacks \ {c}, (callbacks \ {c}) \cup {d}}
    BY DEF InsertRow, AfterRow, d
<1>6. CallsInv' /\ Row(d) = Row(c) /\ Call(d) = Call(c)
    <2>1. callbacks' \subseteq (callbacks \ {c}) \cup {d} BY <1>5
    <2> QED BY <1>1, <1>4, <2>1, CallsGoOn
<1>7. TableInv'
    <2>1. ASSUME NEW row \in Table'
          PROVE  /\ row.request \in Logged
                 /\ \E k \in 1 .. Len(called'[row.request]) :
                        row = RowOf(row.request, k)'
        <3>1. CASE row \in Table BY <1>1, <3>1, TableKeeps
        <3>2. CASE row = Row(c)
            <4>1. /\ row.request \in Logged /\ Call(c) \in 1 .. Len(called[row.request])
                  /\ row = RowOf(row.request, Call(c))
                BY <3>2, RowIsOf
            <4>2. row = RowOf(row.request, Call(c))'
                BY <1>1, <4>1 DEF RowOf
            <4> QED BY <1>1, <4>1, <4>2
        <3> QED BY <1>2, <3>1, <3>2
    <2>2. ASSUME NEW e \in callbacks' PROVE Logs(e) <=> Row(e) \notin Table'
        <3>1. CASE e = d BY <1>2, <1>4, <1>6, <3>1 DEF Logs
        <3>2. CASE e # d
            <4>1. e \in callbacks /\ e # c BY <1>5, <3>2
            <4>2. Row(e) # Row(c) BY <4>1, RowsDiffer
            <4> QED BY <1>2, <4>1, <4>2 DEF EntryInv, TableInv
        <3> QED BY <3>1, <3>2
    <2>3. ASSUME NEW r \in Logged, NEW k \in 1 .. Len(called'[r]), Tracked(r)',
                 called'[r][k] \in Terminal \/ StoresAttempt(r)
          PROVE  \/ RowOf(r, k)' \in Table'
                 \/ \E e \in callbacks' : e.request = r /\ Call(e) = k
        <3>1. r \in Requests /\ k \in 1 .. Len(called[r]) BY <1>1 DEF Logged
        <3>2. RowOf(r, k)' = RowOf(r, k) /\ Tracked(r) BY <1>1, <2>3, <3>1, CalmKeeps
        <3>3. \/ RowOf(r, k) \in Table
              \/ \E e \in callbacks : e.request = r /\ Call(e) = k
            BY <1>1, <2>3, <3>1, <3>2 DEF EntryInv, TableInv
        <3>4. ASSUME c.request = r, Call(c) = k PROVE RowOf(r, k) \in Table'
            BY <1>2, <3>4, RowIsOf
        <3> QED BY <1>2, <1>5, <3>2, <3>3, <3>4
    <2> QED BY <1>2, <2>1, <2>2, <2>3 DEF TableInv
<1>8. EmailsInv'
    <2>1. ASSUME NEW e \in callbacks', ~Logs(e)
          PROVE  e.log = Row(e) /\ (e.stage = "mail" <=> EmailRow(e) \in Mailed)
        <3>1. CASE e = d
            <4>1. EmailRow(d).sendLog \notin Table BY <1>2, <1>6 DEF EmailRow
            <4>2. EmailRow(d) \notin Mailed BY <4>1 DEF EntryInv, EmailsInv
            <4> QED BY <1>4, <1>6, <3>1, <4>2
        <3>2. CASE e # d BY <1>5, <2>1, <3>2 DEF EntryInv, EmailsInv
        <3> QED BY <3>1, <3>2
    <2> QED BY <1>1, <1>2, <2>1 DEF EntryInv, EmailsInv
<1> QED BY <1>6, <1>7, <1>8

\* The EmailSent row of a failed text is created: it was not there.
LEMMA TrackKeeps ==
    ASSUME EntryInv, NEW c \in callbacks, TrackEmail(c)
    PROVE  CallsInv' /\ TableInv' /\ EmailsInv'
<1> DEFINE d == [c EXCEPT !.stage = "mail"]
           e0 == EmailRow(c)
<1>1. /\ c.stage = "track" /\ UNCHANGED sendLogs
      /\ UNCHANGED <<called, orphans, http, id>> /\ [Next]_vars
      /\ callbacks' = (callbacks \ {c}) \cup {d}
    BY DEF TrackEmail, vars
<1>2. /\ c.log = Row(c) /\ Row(c) \in Table /\ e0 \notin Mailed
      /\ IsCallback(c) /\ Mails(c)
    BY <1>1 DEF EntryInv, LogInv, CallbacksInv, IsCallback, TableInv, EmailsInv, Logs
<1>3. emailSent' = emailSent (+) SetToBag({e0}) BY <1>2 DEF TrackEmail, EmailRow
<1>4. /\ d.request = c.request /\ d.jobId = c.jobId /\ d.eventType = c.eventType
      /\ d.attemptsMade = c.attemptsMade /\ d.stage = "mail" /\ d.log = Row(c)
    BY <1>2 DEF IsCallback
<1>5. /\ e0.sendLog = Row(c) /\ e0.jobId = c.jobId
      /\ e0 = [jobId |-> c.jobId, sendLog |-> Row(c)]
    BY DEF EmailRow
<1> HIDE DEF d, e0
<1>6. /\ Mailed' = Mailed \cup {e0} /\ Table' = Table
      /\ \A e \in Mailed' : emailSent'[e] = 1
    <2>1. \A e \in Mailed : emailSent[e] = 1 BY DEF EntryInv, EmailsInv
    <2>2. PICK new : new = e0 OBVIOUS
    <2>3. /\ Mailed' = Mailed \cup {new}
          /\ new \notin Mailed => emailSent'[new] = 1
          /\ \A e \in Mailed : e # new /\ emailSent[e] = 1 => emailSent'[e] = 1
        <3> DEFINE more == emailSent (+) SetToBag({new})
        <3>1. /\ BagToSet(more) = BagToSet(emailSent) \cup {new}
              /\ new \notin BagToSet(emailSent) => more[new] = 1
              /\ \A e \in BagToSet(emailSent) :
                    e # new /\ emailSent[e] = 1 => more[e] = 1
            BY DEF BagToSet, SetToBag, (+)
        <3>2. emailSent' = more BY <1>3, <2>2
        <3> HIDE DEF more
        <3> QED BY <3>1, <3>2 DEF Mailed
    <2>4. Table' = Table BY <1>1 DEF Table, BagToSet
    <2> QED BY <1>2, <2>1, <2>2, <2>3, <2>4
<1>7. CallsInv' /\ Row(d) = Row(c) /\ Call(d) = Call(c)
    <2>1. callbacks' \subseteq (callbacks \ {c}) \cup {d} BY <1>1
    <2> QED BY <1>1, <1>4, <2>1, CallsGoOn
<1>8. TableInv'
    <2>1. \A row \in Table : /\ row.request \in Logged
                             /\ \E k \in 1 .. Len(called'[row.request]) :
                                    row = RowOf(row.request, k)'
        BY <1>1, TableKeeps
    <2>2. \A e \in callbacks' : Logs(e) <=> Row(e) \notin Table
        BY <1>1, <1>2, <1>4, <1>7 DEF EntryInv, TableInv, Logs
    <2>3. ASSUME NEW r \in Logged, NEW k \in 1 .. Len(called'[r]), Tracked(r)',
                 called'[r][k] \in Terminal \/ StoresAttempt(r)
          PROVE  \/ RowOf(r, k)' \in Table
                 \/ \E e \in callbacks' : e.request = r /\ Call(e) = k
        <3>1. r \in Requests /\ k \in 1 .. Len(called[r]) BY <1>1 DEF Logged
        <3>2. RowOf(r, k)' = RowOf(r, k) /\ Tracked(r) BY <1>1, <2>3, <3>1, CalmKeeps
        <3>3. \/ RowOf(r, k) \in Table
              \/ \E e \in callbacks : e.request = r /\ Call(e) = k
            BY <1>1, <2>3, <3>1, <3>2 DEF EntryInv, TableInv
        <3> QED BY <1>1, <1>4, <1>7, <3>2, <3>3
    <2> QED BY <1>1, <1>6, <2>1, <2>2, <2>3 DEF EntryInv, TableInv
<1>9. EmailsInv'
    <2>1. ASSUME NEW e \in callbacks', ~Logs(e)
          PROVE  e.log = Row(e) /\ (e.stage = "mail" <=> EmailRow(e) \in Mailed')
        <3>1. CASE e = d
            <4>1. EmailRow(d) = e0 BY <1>4, <1>5, <1>7 DEF EmailRow
            <4> QED BY <1>4, <1>6, <1>7, <3>1, <4>1
        <3>2. CASE e # d
            <4>1. e \in callbacks /\ e # c BY <1>1, <3>2
            <4>2. Row(e) # Row(c) BY <4>1, RowsDiffer
            <4>3. EmailRow(e) # e0 BY <1>5, <4>2 DEF EmailRow
            <4> QED BY <1>6, <2>1, <4>1, <4>3 DEF EntryInv, EmailsInv
        <3> QED BY <3>1, <3>2
    <2>2. /\ e0.sendLog \in Table
          /\ e0.sendLog.request \in WantsEmail /\ e0.sendLog.eventType = "failed"
          /\ e0 = [jobId |-> e0.sendLog.jobId, sendLog |-> e0.sendLog]
        BY <1>2, <1>5, RowIsOf DEF Mails
    <2> QED BY <1>1, <1>6, <2>1, <2>2 DEF EntryInv, EmailsInv
<1> QED BY <1>7, <1>8, <1>9

\* The e-mail is added, and the callback ends.
LEMMA MailKeeps ==
    ASSUME EntryInv, NEW c \in callbacks, MailText(c)
    PROVE  CallsInv' /\ TableInv' /\ EmailsInv'
<1>1. IsCallback(c) /\ c.stage = "mail" BY DEF MailText, EntryInv, LogInv, CallbacksInv
<1>2. c.request \in WantsEmail BY <1>1 DEF IsCallback, Mails
<1>3. /\ Contingency[c.request] \in Requests /\ Submit(Contingency[c.request])
    BY <1>2, ContingencyAssumption DEF MailText
<1>4. /\ [Next]_vars /\ UNCHANGED <<called, orphans, id>>
      /\ http' = [http EXCEPT ![Contingency[c.request]] = "pending"]
      /\ UNCHANGED <<sendLogs, emailSent>> /\ callbacks' = callbacks \ {c}
    BY <1>3 DEF MailText, Next, Step, Submit, redisVars, historyVars
<1>5. Table' = Table /\ Mailed' = Mailed BY <1>4 DEF Table, Mailed, BagToSet
<1>6. Row(c) \in Table /\ EmailRow(c) \in Mailed
    BY <1>1 DEF EntryInv, TableInv, EmailsInv, Logs
<1>7. CallsInv'
    <2>1. \A e \in callbacks : e.request \in Requests /\ (Tracked(e.request) => Tracked(e.request)')
        BY <1>4, RowIsOf, CalmKeeps
    <2> QED BY <1>4, <2>1 DEF EntryInv, CallsInv
<1>8. TableInv'
    <2>1. \A row \in Table : /\ row.request \in Logged
                             /\ \E k \in 1 .. Len(called'[row.request]) :
                                    row = RowOf(row.request, k)'
        BY <1>4, TableKeeps
    <2>2. ASSUME NEW r \in Logged, NEW k \in 1 .. Len(called'[r]), Tracked(r)',
                 called'[r][k] \in Terminal \/ StoresAttempt(r)
          PROVE  \/ RowOf(r, k)' \in Table
                 \/ \E e \in callbacks' : e.request = r /\ Call(e) = k
        <3>1. r \in Requests /\ k \in 1 .. Len(called[r]) BY <1>4 DEF Logged
        <3>2. RowOf(r, k)' = RowOf(r, k) /\ Tracked(r) BY <1>4, <2>2, <3>1, CalmKeeps
        <3>3. \/ RowOf(r, k) \in Table
              \/ \E e \in callbacks : e.request = r /\ Call(e) = k
            BY <1>4, <2>2, <3>1, <3>2 DEF EntryInv, TableInv
        <3>4. ASSUME c.request = r, Call(c) = k PROVE RowOf(r, k) \in Table
            BY <1>6, <3>4, RowIsOf
        <3> QED BY <1>4, <3>2, <3>3, <3>4
    <2> QED BY <1>4, <1>5, <2>1, <2>2 DEF EntryInv, TableInv
<1>9. EmailsInv'
    <2>1. ASSUME NEW r \in WantsEmail, http'[Contingency[r]] # "idle"
          PROVE  \E e \in Mailed : e.sendLog.request = r
        <3>1. CASE http[Contingency[r]] # "idle" BY <3>1 DEF EntryInv, EmailsInv
        <3>2. CASE http[Contingency[r]] = "idle"
            <4>1. Contingency[r] = Contingency[c.request] BY <1>4, <2>1, <3>2
            <4>2. r = c.request BY <1>2, <4>1, ContingencyAssumption
            <4>3. EmailRow(c).sendLog.request = r BY <4>2, RowIsOf DEF EmailRow
            <4> QED BY <1>6, <4>3
        <3> QED BY <3>1, <3>2
    <2> QED BY <1>4, <1>5, <2>1 DEF EntryInv, EmailsInv
<1> QED BY <1>7, <1>8, <1>9

LEMMA EntryInitInv == LogInit => EntryInv
<1> SUFFICES ASSUME LogInit PROVE EntryInv
    OBVIOUS
<1>1. LogInv BY LogInitInv
<1>2. /\ callbacks = {} /\ called = [r \in Requests |-> <<>>]
      /\ http = [r \in Requests |-> "idle"]
      /\ sendLogs = EmptyBag /\ emailSent = EmptyBag
    BY DEF LogInit, Init
<1>3. Table = {} /\ Mailed = {}
    BY <1>2 DEF Table, Mailed, BagToSet, SetToBag, EmptyBag
<1>4. \A r \in Requests : called[r] = <<>> /\ 1 .. Len(called[r]) = {}
    BY <1>2
<1>5. TriesInv BY <1>4 DEF TriesInv
<1>6. CallsInv BY <1>2 DEF CallsInv
<1>7. TableInv BY <1>2, <1>3, <1>4 DEF TableInv, Logged
<1>8. EmailsInv BY <1>2, <1>3, ContingencyAssumption DEF EmailsInv
<1> QED BY <1>1, <1>5, <1>6, <1>7, <1>8 DEF EntryInv

\* Every row is the one of one call, and a call that can be told from those of the
\* other queues gets its row as long as the process lives: EntryInv holds in every
\* state of the send services.
THEOREM EntryInvariance == LogSpec => []EntryInv
<1>1. EntryInv /\ [LogNext]_allVars => EntryInv'
    <2> SUFFICES ASSUME EntryInv, [LogNext]_allVars PROVE EntryInv'
        OBVIOUS
    <2>1. [Next]_vars BY StepIsQueueStep DEF EntryInv, LogInv
    <2>2. LogInv'
        BY OldOnesKeep, CallbacksKeep, RowsKeep, OnlyFailedKeeps DEF EntryInv, LogInv
    <2>3. TriesInv' BY <2>1, TriesKeep DEF EntryInv, LogInv
    <2>4. ASSUME NEW r \in Requests, LogSubmit(r) \/ LogSaveError(r) \/ QueueStep(r)
          PROVE  CallsInv' /\ TableInv' /\ EmailsInv'
        <3>1. /\ UNCHANGED logVars /\ called' = called /\ orphans' = orphans
            BY <2>4 DEF LogSubmit, Submit, LogSaveError, SaveError, QueueStep, RedisAdd,
               SaveReply, Activate, Complete, Fail, Ignore, historyVars
        <3>2. ASSUME NEW t \in WantsEmail, http'[Contingency[t]] # "idle"
              PROVE  http[Contingency[t]] # "idle"
            <4>1. Contingency[t] \in Requests /\ Kind[Contingency[t]] = "sendContingency"
                BY ContingencyAssumption
            <4>2. CASE LogSubmit(r)
                BY <3>2, <4>1, <4>2 DEF LogSubmit, Submit
            <4>3. CASE LogSaveError(r) \/ QueueStep(r)
                BY <3>2, <4>1, <4>3 DEF LogSaveError, SaveError, QueueStep, RedisAdd,
                   SaveReply, Activate, Complete, Fail, Ignore, processVars,
                   EntryInv, LogInv, IInv, TypeOK
            <4> QED BY <2>4, <4>2, <4>3
        <3> QED BY <2>1, <3>1, <3>2, QuietKeeps
    <2>5. ASSUME NEW r \in Requests, NEW w \in Requests, LogDispatch(r, w)
          PROVE  CallsInv' /\ TableInv' /\ EmailsInv'
        BY <2>5, DispatchKeeps
    <2>6. ASSUME NEW c \in callbacks, CallbackStep(c)
          PROVE  CallsInv' /\ TableInv' /\ EmailsInv'
        BY <2>6, FindKeeps, InsertKeeps, TrackKeeps, MailKeeps DEF CallbackStep
    <2>7. ASSUME LogCrash PROVE CallsInv' /\ TableInv' /\ EmailsInv'
        BY <2>7, CrashKeeps
    <2>8. ASSUME UNCHANGED allVars PROVE CallsInv' /\ TableInv' /\ EmailsInv'
        <3>1. UNCHANGED logVars /\ called' = called /\ orphans' = orphans /\ http' = http
            BY <2>8 DEF allVars, vars
        <3> QED BY <2>1, <3>1, QuietKeeps
    <2>9. CallsInv' /\ TableInv' /\ EmailsInv'
        BY <2>4, <2>5, <2>6, <2>7, <2>8 DEF LogNext
    <2> QED BY <2>2, <2>3, <2>9 DEF EntryInv
<1> QED BY <1>1, EntryInitInv, PTL DEF LogSpec

\* The rows of a request that say how it ended: at most the one of its last call.
LEMMA EndRows ==
    ASSUME EntryInv, NEW r \in Requests, NEW row \in Table, row.request = r,
           row.eventType \in Terminal
    PROVE  row = RowOf(r, Len(called[r])) /\ called[r][Len(called[r])] = row.eventType
           /\ Len(called[r]) \in 1 .. Len(called[r])
<1>1. PICK k \in 1 .. Len(called[r]) : row = RowOf(r, k) BY DEF EntryInv, TableInv
<1>2. called[r][k] = row.eventType BY <1>1 DEF RowOf
<1>3. k = Len(called[r])
    BY <1>2 DEF EntryInv, LogInv, IInv, CalledInv, CalledAsDue, Terminal
<1> QED BY <1>1, <1>2, <1>3

\* The reports count rows: however finding and inserting interleave, a request has
\* one row at most that says how it ended, and no row twice (processSuccess,
\* processFailed, processLog).
THEOREM OneRowPerOutcomeHolds == LogSpec => []OneRowPerOutcome
<1>1. ASSUME EntryInv PROVE OneRowPerOutcome
    <2>1. \A row \in BagToSet(sendLogs) : sendLogs[row] = 1
        BY <1>1 DEF EntryInv, TableInv, Table
    <2>2. ASSUME NEW r \in Requests
          PROVE  Cardinality(RowsOf(r, "success") \cup RowsOf(r, "failed")) <= 1
        <3> DEFINE ends == RowsOf(r, "success") \cup RowsOf(r, "failed")
        <3>1. \A row \in ends : row = RowOf(r, Len(called[r]))
            BY <1>1, EndRows DEF RowsOf, Table, Terminal
        <3>2. PICK end : end = RowOf(r, Len(called[r])) OBVIOUS
        <3>2a. ends = {} \/ ends = {end} BY <3>1, <3>2
        <3> HIDE DEF ends
        <3>3. Cardinality(ends) <= 1
            BY <3>2a, FS_EmptySet, FS_Singleton
        <3> QED BY <3>3 DEF ends
    <2> QED BY <2>1, <2>2 DEF OneRowPerOutcome
<1> QED BY <1>1, EntryInvariance, PTL

\* While the process that answered a request lives and none of its callbacks runs,
\* the end of its job is in the table, and of a Maxbot job every failed attempt, in
\* spite of equal ids in the other queues (findOne before the row).
THEOREM OutcomeIsLoggedHolds == LogSpec => []OutcomeIsLogged
<1>1. ASSUME EntryInv PROVE OutcomeIsLogged
    <2> SUFFICES ASSUME NEW r \in Logged, Tracked(r), Idle(r)
                 PROVE  /\ Handled(r) => RowsOf(r, "success") \cup RowsOf(r, "failed") # {}
                        /\ StoresAttempt(r) =>
                                Cardinality(RowsOf(r, "trying"))
                                    = Cardinality({i \in 1 .. Len(called[r]) :
                                                    called[r][i] = "trying"})
        BY DEF OutcomeIsLogged
    <2> DEFINE n == Len(called[r])
    <2>1. /\ r \in Requests /\ called[r] \in Seq(Callbacks) /\ n \in Nat
          /\ attemptsMade[r] \in Nat /\ Attempts[QueueOf[r]] \in Nat \ {0}
        BY <1>1, LenProperties, QueueAssumption, AttemptsAssumption
        DEF Logged, EntryInv, LogInv, IInv, TypeOK
    <2>2. ASSUME NEW k \in 1 .. n, called[r][k] \in Terminal \/ StoresAttempt(r)
          PROVE  RowOf(r, k) \in Table
        BY <1>1, <2>2 DEF EntryInv, TableInv, Idle
    <2>3. ASSUME Handled(r)
          PROVE  RowsOf(r, "success") \cup RowsOf(r, "failed") # {}
        <3>1. n = Outcomes(r) /\ job[r] \in {"completed", "failed"}
            <4>1. n + Pending(r) = Outcomes(r)
                BY <1>1, <2>1 DEF EntryInv, LogInv, IInv, CalledInv, CalledAsDue
            <4>2. Pending(r) = 0 BY <2>3 DEF Pending, Handled
            <4> QED BY <2>1, <2>3, <4>1, <4>2 DEF Handled
        <3>2. /\ job[r] = "completed" => n = attemptsMade[r] + 1
              /\ job[r] = "failed" => n = attemptsMade[r]
                                      /\ attemptsMade[r] = Attempts[QueueOf[r]]
            BY <1>1, <2>1, <3>1 DEF Outcomes, EntryInv, LogInv, IInv, AttemptInv
        <3>3. n \in 1 .. n BY <2>1, <3>1, <3>2
        <3>4. called[r][n] # "trying"
            BY <1>1, <2>1, <3>1, <3>2, <3>3 DEF EntryInv, TriesInv
        <3>5. called[r][n] \in Terminal
            BY <1>1, <2>1, <3>3, <3>4 DEF EntryInv, LogInv, IInv, CalledInv, CalledAsDue
        <3>6. RowOf(r, n) \in Table BY <2>2, <3>3, <3>5
        <3>7. RowOf(r, n).request = r /\ RowOf(r, n).eventType \in {"success", "failed"}
            BY <3>5 DEF RowOf, Terminal
        <3> QED BY <3>6, <3>7 DEF RowsOf, Table
    <2>4. ASSUME StoresAttempt(r)
          PROVE  Cardinality(RowsOf(r, "trying"))
                    = Cardinality({i \in 1 .. Len(called[r]) : called[r][i] = "trying"})
        <3> DEFINE tries == {i \in 1 .. n : called[r][i] = "trying"}
                   rows == RowsOf(r, "trying")
                   write == [i \in tries |-> RowOf(r, i)]
        <3>1. \A i \in tries : RowOf(r, i) \in rows
            <4>1. \A i \in tries : RowOf(r, i) \in Table BY <2>2, <2>4
            <4>2. \A i \in tries : RowOf(r, i).request = r
                                   /\ RowOf(r, i).eventType = "trying"
                BY DEF RowOf
            <4> QED BY <4>1, <4>2 DEF RowsOf, Table
        <3>2. ASSUME NEW row \in rows PROVE \E i \in tries : row = RowOf(r, i)
            <4>1. row \in Table /\ row.request = r /\ row.eventType = "trying"
                BY DEF RowsOf, Table
            <4>2. PICK k \in 1 .. n : row = RowOf(r, k)
                BY <1>1, <4>1 DEF EntryInv, TableInv
            <4>3. called[r][k] = "trying" BY <4>1, <4>2 DEF RowOf
            <4> QED BY <4>2, <4>3
        <3>3. ASSUME NEW i \in tries, NEW j \in tries, RowOf(r, i) = RowOf(r, j)
              PROVE  i = j
            BY <1>1, <3>3, RowOfInjective DEF EntryInv, LogInv
        <3>4. IsFiniteSet(tries)
            <4>1. IsFiniteSet(1 .. n)
                <5> HIDE DEF n
                <5>1. 1 \in Int /\ n \in Int BY <2>1
                <5> QED BY <5>1, FS_Interval
            <4>2. tries \in SUBSET (1 .. n) OBVIOUS
            <4> HIDE DEF tries
            <4> QED BY <4>1, <4>2, FS_Subset
        <3> HIDE DEF tries, rows
        <3>5. write \in Bijection(tries, rows)
            BY <3>1, <3>2, <3>3 DEF Bijection, Injection, Surjection, IsInjective
        <3>6. ExistsBijection(tries, rows) BY <3>5 DEF ExistsBijection
        <3>7. Cardinality(rows) = Cardinality(tries) BY <3>4, <3>6, FS_Bijection
        <3> QED BY <3>7 DEF tries, rows
    <2> QED BY <2>3, <2>4
<1> QED BY <1>1, EntryInvariance, PTL

\* The contingency e-mail is added for a text that has failed for good, once its
\* EmailSent row exists, and that row leads to the one row that says so
\* (SendService.sendMaxbotText, SendEmailService.sendContingency).
THEOREM ContingencyOnlyForFailedHolds == LogSpec => []ContingencyOnlyForFailed
<1>1. ASSUME EntryInv PROVE ContingencyOnlyForFailed
    <2> SUFFICES ASSUME NEW r \in WantsEmail
                 PROVE  LET sent == {e \in BagToSet(emailSent) :
                                        e.sendLog \in RowsOf(r, "failed")}
                        IN  /\ http[Contingency[r]] # "idle" =>
                                    job[r] = "failed" /\ Cardinality(sent) = 1
                            /\ \A e \in sent : emailSent[e] = 1
        BY DEF ContingencyOnlyForFailed
    <2> DEFINE sent == {e \in BagToSet(emailSent) : e.sendLog \in RowsOf(r, "failed")}
               end == RowOf(r, Len(called[r]))
    <2>1. r \in Requests BY ContingencyAssumption
    <2>2. \A e \in sent : emailSent[e] = 1 BY <1>1 DEF EntryInv, EmailsInv, Mailed
    <2>3. ASSUME http[Contingency[r]] # "idle"
          PROVE  job[r] = "failed" /\ Cardinality(sent) = 1
        <3>1. job[r] = "failed"
            BY <1>1, <2>3 DEF EntryInv, LogInv, OnlyFailedIsMailed
        <3>2. PICK e \in Mailed : e.sendLog.request = r
            BY <1>1, <2>3 DEF EntryInv, EmailsInv
        <3>3. e \in sent
            BY <1>1, <3>2 DEF EntryInv, EmailsInv, Mailed, Table, RowsOf
        <3>4. ASSUME NEW f \in sent PROVE f = [jobId |-> end.jobId, sendLog |-> end]
            <4>1. /\ f.sendLog \in Table /\ f.sendLog.request = r
                  /\ f.sendLog.eventType \in Terminal
                BY DEF RowsOf, Table, Terminal
            <4>2. f.sendLog = end BY <1>1, <2>1, <4>1, EndRows
            <4>3. f = [jobId |-> f.sendLog.jobId, sendLog |-> f.sendLog]
                BY <1>1 DEF EntryInv, EmailsInv, Mailed
            <4> QED BY <4>2, <4>3
        <3>5. sent = {e} BY <3>3, <3>4
        <3> HIDE DEF sent
        <3>6. Cardinality(sent) = 1 BY <3>5, FS_Singleton
        <3> QED BY <3>1, <3>6
    <2> QED BY <2>2, <2>3
<1> QED BY <1>1, EntryInvariance, PTL
=============================================================================
