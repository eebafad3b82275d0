--------------------------- MODULE DeliveryProofs ---------------------------
(***************************************************************************)
(* Proofs about Delivery, for any jobs, methods and number of crashes.     *)
(*                                                                         *)
(* That a completed job was received is not inductive: it rests on what the *)
(* runs know.  A run that has come to success (the newest of its job or one *)
(* that Bull has given up) has put a message before the recipient, and      *)
(* nothing takes it back.  How many copies there are is counted against the  *)
(* starts of the handler (below).                                           *)
(***************************************************************************)
EXTENDS Delivery, FiniteSetTheorems, TLAPS

\* A job that waits or runs has a method and attempts left; a job without a
\* method has made none.
JobInv(r) ==
    /\ job[r] = "none" => method[r] = "none"
    /\ method[r] = "none" => attemptsMade[r] = 0 /\ job[r] = "none"
    /\ job[r] \in {"queued", "active"} => attemptsMade[r] < Attempts(r)

\* Runs are those of jobs that were added, and success is the provider's word.
RunInv(run) ==
    /\ job[run.request] # "none"
    /\ run.stage = "success" => received[run.request] # <<>>

IInv ==
    /\ TypeOK
    /\ \A r \in Requests : JobInv(r)
    /\ \A run \in running : RunInv(run)
    /\ CompletedWasReceived

-----------------------------------------------------------------------------
\* Every method adds a job with two or three attempts.
LEMMA AttemptsAre ==
    ASSUME NEW m \in Methods
    PROVE  m # "none" /\ JobOf[m].attempts \in {2, 3}
<1>1. m \in {"sendMaxbotText", "sendMaxbotImage", "sendScheduledText",
             "sendGeneral", "sendGeneralSg", "sendContingency"}
    BY MethodsAssumption DEF JobOf
<1> QED BY <1>1 DEF JobOf, Job

LEMMA InitHolds == Init => IInv
<1> SUFFICES ASSUME Init PROVE IInv
    OBVIOUS
<1>1. TypeOK BY DEF Init, TypeOK
<1>2. \A r \in Requests : JobInv(r) BY DEF Init, JobInv
<1> QED BY <1>1, <1>2 DEF Init, IInv, CompletedWasReceived

\* A step that leaves the jobs alone, takes no message back and lets no run
\* come to success without one keeps the invariant.
LEMMA RunsKeep ==
    ASSUME IInv, UNCHANGED <<redisVars, crashes>>,
           started' \in [Requests -> Nat],
           running' \subseteq [request : Requests, nth : Nat, stage : Stages],
           wire' \subseteq [request : Requests, nth : Nat, content : Contents],
           received' \in [Requests -> Seq(Contents)],
           \A r \in Requests : received[r] # <<>> => received'[r] # <<>>,
           \A run \in running' :
                /\ job[run.request] # "none"
                /\ run.stage = "success" => received'[run.request] # <<>>
    PROVE  IInv'
<1>1. TypeOK' BY DEF IInv, TypeOK, redisVars, Attempts
<1>2. \A r \in Requests : JobInv(r)' BY DEF IInv, JobInv, redisVars, Attempts
<1>3. \A run \in running' : RunInv(run)' BY DEF RunInv, redisVars
<1>4. CompletedWasReceived'
    BY DEF IInv, CompletedWasReceived, redisVars, Provider
<1> QED BY <1>1, <1>2, <1>3, <1>4 DEF IInv

LEMMA AddKeeps == ASSUME NEW r \in Requests PROVE IInv /\ Add(r) => IInv'
<1> SUFFICES ASSUME IInv, Add(r) PROVE IInv'
    OBVIOUS
<1>1. PICK m \in Methods : method' = [method EXCEPT ![r] = m]
    BY DEF Add
<1>2. /\ job[r] = "none" /\ job' = [job EXCEPT ![r] = "queued"]
      /\ UNCHANGED <<attemptsMade, started, running, wire, received, crashes>>
    BY DEF Add
<1>3. attemptsMade[r] = 0 /\ attemptsMade[r] < JobOf[m].attempts /\ m # "none"
    BY <1>2, AttemptsAre DEF IInv, JobInv
<1>4. /\ method'[r] = m /\ job'[r] = "queued"
      /\ \A t \in Requests : t # r => method'[t] = method[t] /\ job'[t] = job[t]
    BY <1>1, <1>2 DEF IInv, TypeOK
<1>5. TypeOK'
    <2>1. \A t \in Requests :
            attemptsMade'[t] <= (IF method'[t] = "none" THEN 0 ELSE Attempts(t)')
        <3>1. attemptsMade'[r] <= Attempts(r)'
            BY <1>2, <1>3, <1>4, AttemptsAre DEF Attempts
        <3>2. ASSUME NEW t \in Requests, t # r
              PROVE  attemptsMade'[t] <= (IF method'[t] = "none" THEN 0 ELSE Attempts(t)')
            BY <1>2, <1>4, <3>2 DEF IInv, TypeOK, Attempts
        <3> QED BY <1>3, <1>4, <3>1, <3>2
    <2> QED BY <1>1, <1>2, <2>1 DEF IInv, TypeOK
<1>6. \A t \in Requests : JobInv(t)'
    BY <1>2, <1>3, <1>4 DEF IInv, JobInv, Attempts
<1>7. \A run \in running' : RunInv(run)'
    BY <1>2, <1>4 DEF IInv, TypeOK, RunInv
<1>8. CompletedWasReceived'
    BY <1>2, <1>4 DEF IInv, CompletedWasReceived, Provider
<1> QED BY <1>5, <1>6, <1>7, <1>8 DEF IInv

LEMMA StartRunKeeps == ASSUME NEW r \in Requests PROVE IInv /\ StartRun(r) => IInv'
<1> SUFFICES ASSUME IInv, StartRun(r) PROVE IInv'
    OBVIOUS
<1>0. PICK new : new = [request |-> r, nth |-> started'[r], stage |-> FirstStage(r)]
    OBVIOUS
<1>1. /\ job[r] = "queued" /\ job' = [job EXCEPT ![r] = "active"]
      /\ started' = [started EXCEPT ![r] = @ + 1]
      /\ running' = running \cup {new}
      /\ UNCHANGED <<method, attemptsMade, wire, received, crashes>>
    BY <1>0 DEF StartRun
<1>2. FirstStage(r) \in {"status", "call"} BY DEF FirstStage
<1>3. started' \in [Requests -> Nat] BY <1>1 DEF IInv, TypeOK
<1>4. new \in [request : Requests, nth : Nat, stage : Stages]
    BY <1>0, <1>2, <1>3 DEF Stages
<1>5. /\ job' \in [Requests -> {"none", "queued", "active", "completed", "failed"}]
      /\ job'[r] = "active" /\ \A t \in Requests : t # r => job'[t] = job[t]
    BY <1>1 DEF IInv, TypeOK
<1>6. TypeOK' BY <1>1, <1>3, <1>4, <1>5 DEF IInv, TypeOK, Attempts
<1>7. \A t \in Requests : JobInv(t)'
    BY <1>1, <1>5 DEF IInv, JobInv, Attempts
<1>8. \A run \in running' : RunInv(run)'
    <2>1. RunInv(new)' BY <1>0, <1>2, <1>5 DEF RunInv
    <2>2. ASSUME NEW run \in running PROVE RunInv(run)'
        <3>1. run.request \in Requests /\ RunInv(run) BY DEF IInv, TypeOK
        <3>2. job'[run.request] # "none" BY <1>5, <3>1 DEF RunInv
        <3> QED BY <1>1, <3>1, <3>2 DEF RunInv
    <2> QED BY <1>1, <2>1, <2>2
<1>9. CompletedWasReceived'
    BY <1>1, <1>5 DEF IInv, CompletedWasReceived, Provider
<1> QED BY <1>6, <1>7, <1>8, <1>9 DEF IInv

\* A run that goes on is a run of the same job.
LEMMA AtIs ==
    ASSUME IInv, NEW run \in running, NEW stage \in Stages
    PROVE  /\ At(run, stage) \in [request : Requests, nth : Nat, stage : Stages]
           /\ At(run, stage).request = run.request /\ At(run, stage).stage = stage
<1>1. run \in [request : Requests, nth : Nat, stage : Stages]
    BY DEF IInv, TypeOK
<1> QED BY <1>1 DEF At

\* CheckStatus, Call and GiveUp: the run goes on, but not to success.
LEMMA GoOnKeeps ==
    ASSUME IInv, NEW run \in running, NEW stage \in Stages \ {"success"},
           running' = (running \ {run}) \cup {At(run, stage)},
           wire' \subseteq [request : Requests, nth : Nat, content : Contents],
           UNCHANGED <<redisVars, started, received, crashes>>
    PROVE  IInv'
<1>1. /\ At(run, stage) \in [request : Requests, nth : Nat, stage : Stages]
      /\ At(run, stage).request = run.request /\ At(run, stage).stage = stage
    BY AtIs
<1>2. running' \subseteq [request : Requests, nth : Nat, stage : Stages]
    BY <1>1 DEF IInv, TypeOK
<1>3. \A x \in running' :
        job[x.request] # "none" /\ (x.stage = "success" => received[x.request] # <<>>)
    BY <1>1 DEF IInv, RunInv
<1>4. received \in [Requests -> Seq(Contents)] /\ started \in [Requests -> Nat]
    BY DEF IInv, TypeOK
<1> QED BY <1>2, <1>3, <1>4, RunsKeep

LEMMA CallKeeps == ASSUME NEW run \in running PROVE IInv /\ Call(run) => IInv'
<1> SUFFICES ASSUME IInv, Call(run) PROVE IInv'
    OBVIOUS
<1>1. run \in [request : Requests, nth : Nat, stage : Stages]
    BY DEF IInv, TypeOK
<1>2. Payload(run.request) \in Contents BY DEF Payload, Contents
<1>3. wire' \subseteq [request : Requests, nth : Nat, content : Contents]
    BY <1>1, <1>2 DEF Call, IInv, TypeOK
<1>4. "wait" \in Stages \ {"success"} BY DEF Stages
<1> QED BY <1>3, <1>4, GoOnKeeps DEF Call

LEMMA AnswerKeeps ==
    ASSUME NEW call \in wire, NEW stage \in {"success", "error"}, IInv,
           Answer(call, stage), wire' = wire \ {call},
           UNCHANGED <<redisVars, started, crashes>>,
           received' \in [Requests -> Seq(Contents)],
           \A r \in Requests : received[r] # <<>> => received'[r] # <<>>,
           stage = "success" => received'[call.request] # <<>>
    PROVE  IInv'
<1>1. started' \in [Requests -> Nat]
      /\ wire' \subseteq [request : Requests, nth : Nat, content : Contents]
    BY DEF IInv, TypeOK
<1>2. \A run \in Waiting(call) :
        /\ run \in running /\ run.request = call.request
        /\ At(run, stage) \in [request : Requests, nth : Nat, stage : Stages]
        /\ At(run, stage).request = run.request /\ At(run, stage).stage = stage
    BY AtIs DEF Waiting, Stages
<1>3. \A run \in running' :
        \/ run \in running
        \/ \E x \in Waiting(call) : run = At(x, stage)
    BY DEF Answer
<1>4. \A run \in running' :
        /\ run \in [request : Requests, nth : Nat, stage : Stages]
        /\ job[run.request] # "none"
        /\ run.stage = "success" => received'[run.request] # <<>>
    BY <1>2, <1>3 DEF IInv, TypeOK, RunInv
<1> QED BY <1>1, <1>4, RunsKeep

LEMMA CarryKeeps == ASSUME NEW call \in wire PROVE IInv /\ Carry(call) => IInv'
<1> SUFFICES ASSUME IInv, Carry(call) PROVE IInv'
    OBVIOUS
<1>1. call.request \in Requests /\ call.content \in Contents
    BY DEF IInv, TypeOK
<1>2. received' = [received EXCEPT ![call.request] = Append(@, call.content)]
    BY DEF Carry
<1>3. received \in [Requests -> Seq(Contents)] BY DEF IInv, TypeOK
<1>4. /\ received' \in [Requests -> Seq(Contents)]
      /\ received'[call.request] # <<>>
      /\ \A r \in Requests : received[r] # <<>> => received'[r] # <<>>
    BY <1>1, <1>2, <1>3
<1> QED BY <1>4, AnswerKeeps DEF Carry

LEMMA RefuseKeeps == ASSUME NEW call \in wire PROVE IInv /\ Refuse(call) => IInv'
<1> SUFFICES ASSUME IInv, Refuse(call) PROVE IInv'
    OBVIOUS
<1>1. received' = received /\ received \in [Requests -> Seq(Contents)]
    BY DEF Refuse, IInv, TypeOK
<1> QED BY <1>1, AnswerKeeps DEF Refuse

\* The job of a current run ends its attempt.
LEMMA EndsKeep ==
    ASSUME IInv, NEW r \in Requests, job[r] = "active",
           \/ Complete(r) /\ (Provider(r) # "smtp" => received[r] # <<>>)
           \/ Fail(r),
           running' \subseteq running, UNCHANGED <<started, wire, received, crashes>>
    PROVE  IInv'
<1>1. /\ method' = method
      /\ attemptsMade' \in [Requests -> Nat]
      /\ job' \in [Requests -> {"none", "queued", "active", "completed", "failed"}]
      /\ \A t \in Requests : t # r =>
            job'[t] = job[t] /\ attemptsMade'[t] = attemptsMade[t]
    <2>1. attemptsMade[r] + 1 \in Nat BY DEF IInv, TypeOK
    <2>2. CASE Complete(r) BY <2>2 DEF Complete, IInv, TypeOK
    <2>3. CASE Fail(r) BY <2>1, <2>3 DEF Fail, IInv, TypeOK
    <2> QED BY <2>2, <2>3
<1>2. method[r] # "none" /\ attemptsMade[r] < Attempts(r)
    BY DEF IInv, JobInv
<1>3. Attempts(r) \in Nat
    <2>1. method[r] \in Methods BY <1>2 DEF IInv, TypeOK
    <2> QED BY <2>1, AttemptsAre DEF Attempts
<1>4. /\ job'[r] # "none" /\ attemptsMade'[r] <= Attempts(r)
      /\ job'[r] \in {"queued", "active"} => attemptsMade'[r] < Attempts(r)
      /\ job'[r] = "completed" => Provider(r) = "smtp" \/ received[r] # <<>>
    <2>1. CASE Complete(r) /\ (Provider(r) # "smtp" => received[r] # <<>>)
        BY <1>2, <1>3, <2>1 DEF Complete, IInv, TypeOK
    <2>2. CASE Fail(r)
        BY <1>2, <1>3, <2>2 DEF Fail, IInv, TypeOK
    <2> QED BY <2>1, <2>2
<1>5. Attempts(r)' = Attempts(r) /\ Provider(r)' = Provider(r)
    BY <1>1 DEF Attempts, Provider
<1>6. TypeOK'
    <2>1. \A t \in Requests :
            attemptsMade'[t] <= (IF method'[t] = "none" THEN 0 ELSE Attempts(t)')
        BY <1>1, <1>2, <1>4, <1>5 DEF IInv, TypeOK, Attempts
    <2> QED BY <1>1, <2>1 DEF IInv, TypeOK
<1>7. \A t \in Requests : JobInv(t)'
    <2>1. JobInv(r)' BY <1>1, <1>2, <1>4, <1>5 DEF JobInv
    <2>2. ASSUME NEW t \in Requests, t # r PROVE JobInv(t)'
        BY <1>1, <2>2 DEF IInv, JobInv, Attempts
    <2> QED BY <2>1, <2>2
<1>8. \A run \in running' : RunInv(run)'
    BY <1>1, <1>4 DEF IInv, TypeOK, RunInv
<1>9. CompletedWasReceived'
    BY <1>1, <1>4, <1>5 DEF IInv, CompletedWasReceived, Provider
<1> QED BY <1>6, <1>7, <1>8, <1>9 DEF IInv

LEMMA EndRunKeeps == ASSUME NEW run \in running PROVE IInv /\ EndRun(run) => IInv'
<1> SUFFICES ASSUME IInv, EndRun(run) PROVE IInv'
    OBVIOUS
<1>1. run.request \in Requests BY DEF IInv, TypeOK
<1>2. CASE ~Current(run)
    <2>1. /\ running' = running \ {run}
          /\ UNCHANGED <<redisVars, started, wire, received, crashes>>
        BY <1>2 DEF EndRun
    <2>2. \A x \in running' :
            /\ job[x.request] # "none"
            /\ x.stage = "success" => received[x.request] # <<>>
        BY <2>1 DEF IInv, RunInv
    <2>3. /\ started \in [Requests -> Nat] /\ received \in [Requests -> Seq(Contents)]
          /\ running \subseteq [request : Requests, nth : Nat, stage : Stages]
          /\ wire \subseteq [request : Requests, nth : Nat, content : Contents]
        BY DEF IInv, TypeOK
    <2> QED BY <2>1, <2>2, <2>3, RunsKeep
<1>3. CASE Current(run)
    <2>1. job[run.request] = "active" BY <1>3 DEF Current
    <2>2. /\ running' \subseteq running
          /\ UNCHANGED <<started, wire, received, crashes>>
        BY DEF EndRun
    <2>3. \/ /\ Complete(run.request)
             /\ Provider(run.request) # "smtp" => received[run.request] # <<>>
          \/ Fail(run.request)
        BY <1>3 DEF EndRun, Swallows, IInv, RunInv
    <2> QED BY <1>1, <2>1, <2>2, <2>3, EndsKeep
<1> QED BY <1>2, <1>3

LEMMA TimeOutKeeps == ASSUME NEW run \in running PROVE IInv /\ TimeOut(run) => IInv'
<1> SUFFICES ASSUME IInv, TimeOut(run) PROVE IInv'
    OBVIOUS
<1>1. run.request \in Requests BY DEF IInv, TypeOK
<1>2. /\ job[run.request] = "active" /\ Fail(run.request)
      /\ UNCHANGED <<started, running, wire, received, crashes>>
    BY DEF TimeOut, Current
<1> QED BY <1>1, <1>2, EndsKeep

LEMMA RunStepKeeps == ASSUME NEW run \in running PROVE IInv /\ RunStep(run) => IInv'
<1> SUFFICES ASSUME IInv, RunStep(run) PROVE IInv'
    OBVIOUS
<1>1. wire \subseteq [request : Requests, nth : Nat, content : Contents]
    BY DEF IInv, TypeOK
<1>2. {"call", "error"} \subseteq Stages \ {"success"} BY DEF Stages
<1>3. CASE CheckStatus(run) BY <1>1, <1>2, <1>3, GoOnKeeps DEF CheckStatus
<1>4. CASE GiveUp(run) BY <1>1, <1>2, <1>4, GoOnKeeps DEF GiveUp
<1> QED BY <1>3, <1>4, CallKeeps, EndRunKeeps, TimeOutKeeps DEF RunStep

LEMMA CrashKeeps == IInv /\ Crash => IInv'
<1> SUFFICES ASSUME IInv, Crash PROVE IInv'
    OBVIOUS
<1>1. \A r \in Requests :
        /\ job[r] = "active" => job'[r] = "queued"
        /\ job[r] # "active" => job'[r] = job[r]
    BY DEF Crash
<1>2. TypeOK'
    <2>1. job' \in [Requests -> {"none", "queued", "active", "completed", "failed"}]
        BY DEF Crash, IInv, TypeOK
    <2>2. crashes' \in Nat BY DEF Crash, IInv, TypeOK
    <2> QED BY <2>1, <2>2 DEF Crash, IInv, TypeOK, Attempts
<1>3. \A r \in Requests : JobInv(r)'
    BY <1>1 DEF Crash, IInv, JobInv, Attempts
<1>4. CompletedWasReceived'
    BY <1>1 DEF Crash, IInv, CompletedWasReceived, Provider
<1> QED BY <1>2, <1>3, <1>4 DEF Crash, IInv

LEMMA NextKeeps == IInv /\ [Next]_vars => IInv'
<1> SUFFICES ASSUME IInv, [Next]_vars PROVE IInv'
    OBVIOUS
<1>1. CASE \E r \in Requests : Add(r) \/ StartRun(r)
    BY <1>1, AddKeeps, StartRunKeeps
<1>2. CASE \E run \in running : RunStep(run) BY <1>2, RunStepKeeps
<1>3. CASE \E call \in wire : Carry(call) \/ Refuse(call)
    BY <1>3, CarryKeeps, RefuseKeeps
<1>4. CASE Crash BY <1>4, CrashKeeps
<1>5. CASE UNCHANGED vars
    <2>1. UNCHANGED <<redisVars, crashes>> /\ UNCHANGED <<started, running, wire, received>>
        BY <1>5 DEF vars, redisVars
    <2>2. \A run \in running :
            /\ job[run.request] # "none"
            /\ run.stage = "success" => received[run.request] # <<>>
        BY DEF IInv, RunInv
    <2> QED BY <2>1, <2>2, RunsKeep DEF IInv, TypeOK
<1> QED BY <1>1, <1>2, <1>3, <1>4, <1>5 DEF Next

-----------------------------------------------------------------------------
\* IInv holds in every reachable state, for any jobs and crashes.
THEOREM Invariance == Spec => []IInv
<1> QED BY InitHolds, NextKeeps, PTL DEF Spec

\* The types, and that no job makes more attempts than its queue gives it.
THEOREM TypeCorrect == Spec => []TypeOK
<1>1. IInv => TypeOK BY DEF IInv
<1> QED BY Invariance, <1>1, PTL

\* A completed job has reached the recipient, unless the handler is that of
\* SMTP, which swallows its errors (createTransporterSMTP): whatever answers
\* are late, whatever attempts overlap and however often the process dies.
THEOREM CompletedWasReceivedHolds == Spec => []CompletedWasReceived
<1>1. IInv => CompletedWasReceived BY DEF IInv
<1> QED BY Invariance, <1>1, PTL

-----------------------------------------------------------------------------
(* CopiesAreBounded counts copies against attempts, which no step compares.   *)
(* Between them are the starts of the handler: each is paid for by an attempt, *)
(* a restart or the job's end, and each pays for one call.                   *)

\* The calls that are on their way to the recipient, and the runs that have
\* still to make theirs.
OnWire(r) == {call \in wire : call.request = r}
ToCall(r) == {run \in running : run.request = r /\ run.stage \in {"status", "call"}}

StartsInv(r) ==
    started[r] <= attemptsMade[r] + crashes
                    + (IF job[r] \in {"active", "completed"} THEN 1 ELSE 0)

CallsInv(r) ==
    /\ IsFiniteSet(OnWire(r)) /\ IsFiniteSet(ToCall(r))
    /\ Len(received[r]) + Cardinality(OnWire(r)) + Cardinality(ToCall(r)) <= started[r]

CopiesInv == \A r \in Requests : StartsInv(r) /\ CallsInv(r)

LEMMA CountsAre ==
    ASSUME IInv, CopiesInv, NEW r \in Requests
    PROVE  /\ started[r] \in Nat /\ attemptsMade[r] \in Nat /\ crashes \in Nat
           /\ Len(received[r]) \in Nat
           /\ IsFiniteSet(OnWire(r)) /\ Cardinality(OnWire(r)) \in Nat
           /\ IsFiniteSet(ToCall(r)) /\ Cardinality(ToCall(r)) \in Nat
<1>1. received[r] \in Seq(Contents) /\ started[r] \in Nat /\ attemptsMade[r] \in Nat
      /\ crashes \in Nat
    BY DEF IInv, TypeOK
<1>2. IsFiniteSet(OnWire(r)) /\ IsFiniteSet(ToCall(r)) BY DEF CopiesInv, CallsInv
<1> QED BY <1>1, <1>2, FS_CardinalityType

\* One element more counts one more, or was there.
LEMMA OneMore ==
    ASSUME NEW S, IsFiniteSet(S), NEW x
    PROVE  /\ IsFiniteSet(S \cup {x}) /\ Cardinality(S \cup {x}) \in Nat
           /\ Cardinality(S \cup {x}) <= Cardinality(S) + 1
<1>1. IsFiniteSet(S \cup {x}) BY FS_AddElement
<1>2. Cardinality(S) \in Nat /\ Cardinality(S \cup {x}) \in Nat
    BY <1>1, FS_CardinalityType
<1>3. CASE x \in S
    <2>1. S \cup {x} = S BY <1>3
    <2>2. Cardinality(S \cup {x}) = Cardinality(S) BY <2>1
    <2>3. Cardinality(S) <= Cardinality(S) + 1 BY <1>2
    <2> QED BY <1>1, <1>2, <2>2, <2>3
<1>4. CASE x \notin S
    <2>1. Cardinality(S \cup {x}) = Cardinality(S) + 1 BY <1>4, FS_AddElement
    <2> QED BY <1>1, <1>2, <2>1
<1> QED BY <1>3, <1>4

LEMMA CopiesInit == Init => CopiesInv
<1> SUFFICES ASSUME Init, NEW r \in Requests PROVE StartsInv(r) /\ CallsInv(r)
    BY DEF CopiesInv
<1>1. OnWire(r) = {} /\ ToCall(r) = {} BY DEF Init, OnWire, ToCall
<1>2. CallsInv(r) BY <1>1, FS_EmptySet DEF Init, CallsInv
<1>3. StartsInv(r) BY DEF Init, StartsInv
<1> QED BY <1>2, <1>3

\* A step that starts nothing and sends nothing.
LEMMA QuietKeeps ==
    ASSUME IInv, CopiesInv, UNCHANGED <<started, received>>,
           NEW r \in Requests, OnWire(r)' \subseteq OnWire(r),
           ToCall(r)' \subseteq ToCall(r)
    PROVE  CallsInv(r)'
<1>1. /\ IsFiniteSet(OnWire(r)') /\ Cardinality(OnWire(r)') <= Cardinality(OnWire(r))
      /\ IsFiniteSet(ToCall(r)') /\ Cardinality(ToCall(r)') <= Cardinality(ToCall(r))
      /\ Cardinality(OnWire(r)') \in Nat /\ Cardinality(ToCall(r)') \in Nat
    BY CountsAre, FS_Subset, FS_CardinalityType
<1> QED BY <1>1, CountsAre DEF CopiesInv, CallsInv

LEMMA CopiesStart ==
    ASSUME IInv, CopiesInv, NEW j \in Requests, StartRun(j), NEW r \in Requests
    PROVE  StartsInv(r)' /\ CallsInv(r)'
<1>1. PICK new : new = [request |-> j, nth |-> started'[j], stage |-> FirstStage(j)]
    OBVIOUS
<1>2. /\ started' = [started EXCEPT ![j] = @ + 1] /\ running' = running \cup {new}
      /\ job[j] = "queued" /\ job' = [job EXCEPT ![j] = "active"]
      /\ UNCHANGED <<attemptsMade, wire, received, crashes>>
    BY <1>1 DEF StartRun
<1>3. OnWire(r)' = OnWire(r) BY <1>2 DEF OnWire
<1>4. CASE r = j
    <2>1. started'[r] = started[r] + 1 /\ job'[r] = "active"
        BY <1>2, <1>4 DEF IInv, TypeOK
    <2>2. ToCall(r)' \subseteq ToCall(r) \cup {new} BY <1>2 DEF ToCall
    <2>3. /\ IsFiniteSet(ToCall(r) \cup {new})
          /\ Cardinality(ToCall(r) \cup {new}) <= Cardinality(ToCall(r)) + 1
          /\ Cardinality(ToCall(r) \cup {new}) \in Nat
        BY CountsAre, OneMore
    <2>4. /\ IsFiniteSet(ToCall(r)') /\ Cardinality(ToCall(r)') \in Nat
          /\ Cardinality(ToCall(r)') <= Cardinality(ToCall(r)) + 1
        BY <2>2, <2>3, CountsAre, FS_Subset, FS_CardinalityType
    <2>5. CallsInv(r)' BY <1>2, <1>3, <2>1, <2>4, CountsAre DEF CopiesInv, CallsInv
    <2>6. StartsInv(r)' BY <1>2, <1>4, <2>1, CountsAre DEF CopiesInv, StartsInv
    <2> QED BY <2>5, <2>6
<1>5. CASE r # j
    <2>1. started'[r] = started[r] /\ job'[r] = job[r]
        BY <1>2, <1>5 DEF IInv, TypeOK
    <2>2. ToCall(r)' = ToCall(r) BY <1>1, <1>2, <1>5 DEF ToCall
    <2> QED BY <1>2, <1>3, <2>1, <2>2 DEF CopiesInv, CallsInv, StartsInv
<1> QED BY <1>4, <1>5

\* A run that makes its call has it no longer to make.
LEMMA CopiesCall ==
    ASSUME IInv, CopiesInv, NEW run \in running, Call(run), NEW r \in Requests
    PROVE  CallsInv(r)'
<1>1. run \in [request : Requests, nth : Nat, stage : Stages] BY DEF IInv, TypeOK
<1>2. PICK call : call = [request |-> run.request, nth |-> run.nth,
                          content |-> Payload(run.request)]
    OBVIOUS
<1>3. /\ run.stage = "call" /\ running' = (running \ {run}) \cup {At(run, "wait")}
      /\ wire' = wire \cup {call} /\ UNCHANGED <<started, received>>
    BY <1>2 DEF Call
<1>4. At(run, "wait").stage = "wait" BY <1>1 DEF At
<1>5. CASE r = run.request
    <2>1. /\ OnWire(r)' = OnWire(r) \cup {call}
          /\ ToCall(r)' = ToCall(r) \ {run} /\ run \in ToCall(r)
        BY <1>2, <1>3, <1>4, <1>5 DEF OnWire, ToCall
    <2>2. /\ IsFiniteSet(OnWire(r)') /\ Cardinality(OnWire(r)') \in Nat
          /\ Cardinality(OnWire(r)') <= Cardinality(OnWire(r)) + 1
        <3>1. /\ IsFiniteSet(OnWire(r) \cup {call})
              /\ Cardinality(OnWire(r) \cup {call}) \in Nat
              /\ Cardinality(OnWire(r) \cup {call}) <= Cardinality(OnWire(r)) + 1
            BY CountsAre, OneMore
        <3> QED BY <2>1, <3>1
    <2>3. /\ IsFiniteSet(ToCall(r)') /\ Cardinality(ToCall(r)') \in Nat
          /\ Cardinality(ToCall(r)') = Cardinality(ToCall(r)) - 1
        <3>1. IsFiniteSet(ToCall(r)) /\ Cardinality(ToCall(r)) \in Nat BY CountsAre
        <3>2. /\ IsFiniteSet(ToCall(r) \ {run})
              /\ Cardinality(ToCall(r) \ {run}) = Cardinality(ToCall(r)) - 1
            BY <2>1, <3>1, FS_RemoveElement
        <3>3. Cardinality(ToCall(r) \ {run}) \in Nat BY <3>2, FS_CardinalityType
        <3> QED BY <2>1, <3>2, <3>3
    <2>4. received'[r] = received[r] /\ started'[r] = started[r] BY <1>3
    <2>5. /\ Len(received[r]) + Cardinality(OnWire(r)) + Cardinality(ToCall(r)) <= started[r]
          /\ started[r] \in Nat /\ Len(received[r]) \in Nat
          /\ Cardinality(OnWire(r)) \in Nat /\ Cardinality(ToCall(r)) \in Nat
        BY CountsAre DEF CopiesInv, CallsInv
    <2>6. Len(received'[r]) + Cardinality(OnWire(r)') + Cardinality(ToCall(r)') <= started'[r]
        BY <2>2, <2>3, <2>4, <2>5, SMTT(30)
    <2> QED BY <2>2, <2>3, <2>6 DEF CallsInv
<1>6. CASE r # run.request
    <2>1. OnWire(r)' = OnWire(r) /\ ToCall(r)' \subseteq ToCall(r)
        BY <1>2, <1>3, <1>4, <1>6 DEF OnWire, ToCall
    <2> QED BY <1>3, <2>1, QuietKeeps
<1> QED BY <1>5, <1>6

\* A run that goes on to another stage has at most the call to make it had.
LEMMA CopiesStatus ==
    ASSUME IInv, CopiesInv, NEW run \in running, CheckStatus(run), NEW r \in Requests
    PROVE  CallsInv(r)'
<1>1. run \in [request : Requests, nth : Nat, stage : Stages] BY DEF IInv, TypeOK
<1>2. PICK new : /\ running' = (running \ {run}) \cup {new}
                 /\ new.request = run.request
    <2>1. PICK next \in {"call", "error"} :
            running' = (running \ {run}) \cup {At(run, next)}
        BY DEF CheckStatus
    <2>2. At(run, next).request = run.request BY <1>1, <2>1 DEF At
    <2> QED BY <2>1, <2>2
<1>3. run.stage = "status" /\ UNCHANGED <<wire, started, received>> BY DEF CheckStatus
<1>4. OnWire(r)' = OnWire(r) BY <1>3 DEF OnWire
<1>5. CASE r = run.request
    <2>1. ToCall(r)' \subseteq (ToCall(r) \ {run}) \cup {new} /\ run \in ToCall(r)
        BY <1>2, <1>3, <1>5 DEF ToCall
    <2>2. /\ IsFiniteSet(ToCall(r) \ {run})
          /\ Cardinality(ToCall(r) \ {run}) = Cardinality(ToCall(r)) - 1
        BY <2>1, CountsAre, FS_RemoveElement
    <2>3. /\ IsFiniteSet((ToCall(r) \ {run}) \cup {new})
          /\ Cardinality((ToCall(r) \ {run}) \cup {new}) <= Cardinality(ToCall(r))
          /\ Cardinality((ToCall(r) \ {run}) \cup {new}) \in Nat
        <3>1. /\ IsFiniteSet((ToCall(r) \ {run}) \cup {new})
              /\ Cardinality((ToCall(r) \ {run}) \cup {new}) \in Nat
              /\ Cardinality((ToCall(r) \ {run}) \cup {new})
                    <= Cardinality(ToCall(r) \ {run}) + 1
            BY <2>2, OneMore
        <3> QED BY <2>2, <3>1, CountsAre
    <2>4. /\ IsFiniteSet(ToCall(r)') /\ Cardinality(ToCall(r)') \in Nat
          /\ Cardinality(ToCall(r)') <= Cardinality(ToCall(r))
        BY <2>1, <2>3, CountsAre, FS_Subset, FS_CardinalityType
    <2> QED BY <1>3, <1>4, <2>4, CountsAre DEF CopiesInv, CallsInv
<1>6. CASE r # run.request
    <2>1. ToCall(r)' \subseteq ToCall(r) BY <1>2, <1>6 DEF ToCall
    <2> QED BY <1>3, <1>4, <2>1, QuietKeeps
<1> QED BY <1>5, <1>6

\* An answer gives nobody a call to make.
LEMMA AnswerCalls ==
    ASSUME IInv, NEW call \in wire, NEW stage \in {"success", "error"},
           Answer(call, stage), NEW r \in Requests
    PROVE  ToCall(r)' \subseteq ToCall(r)
<1>1. \A run \in Waiting(call) : At(run, stage).stage = stage
    BY AtIs DEF Waiting, Stages
<1> QED BY <1>1 DEF Answer, ToCall

\* A call that is carried out leaves the wire.
LEMMA CopiesCarry ==
    ASSUME IInv, CopiesInv, NEW call \in wire, Carry(call), NEW r \in Requests
    PROVE  CallsInv(r)'
<1>1. call.request \in Requests /\ call.content \in Contents BY DEF IInv, TypeOK
<1>2. /\ wire' = wire \ {call} /\ UNCHANGED started
      /\ received' = [received EXCEPT ![call.request] = Append(@, call.content)]
    BY DEF Carry
<1>3. ToCall(r)' \subseteq ToCall(r) BY AnswerCalls DEF Carry
<1>4. CASE r = call.request
    <2>1. OnWire(r)' = OnWire(r) \ {call} /\ call \in OnWire(r)
        BY <1>2, <1>4 DEF OnWire
    <2>2. /\ IsFiniteSet(OnWire(r)') /\ Cardinality(OnWire(r)') \in Nat
          /\ Cardinality(OnWire(r)') = Cardinality(OnWire(r)) - 1
        BY <2>1, CountsAre, FS_RemoveElement, FS_CardinalityType
    <2>3. /\ IsFiniteSet(ToCall(r)') /\ Cardinality(ToCall(r)') \in Nat
          /\ Cardinality(ToCall(r)') <= Cardinality(ToCall(r))
        BY <1>3, CountsAre, FS_Subset, FS_CardinalityType
    <2>4. Len(received'[r]) = Len(received[r]) + 1
        <3>1. received \in [Requests -> Seq(Contents)] BY DEF IInv, TypeOK
        <3> QED BY <1>1, <1>2, <1>4, <3>1
    <2>5. /\ Len(received[r]) + Cardinality(OnWire(r)) + Cardinality(ToCall(r)) <= started[r]
          /\ started[r] \in Nat /\ Len(received[r]) \in Nat
          /\ Cardinality(OnWire(r)) \in Nat /\ Cardinality(ToCall(r)) \in Nat
        BY CountsAre DEF CopiesInv, CallsInv
    <2>6. Len(received'[r]) + Cardinality(OnWire(r)') + Cardinality(ToCall(r)') <= started'[r]
        BY <1>2, <2>2, <2>3, <2>4, <2>5, SMTT(30)
    <2> QED BY <2>2, <2>3, <2>6 DEF CallsInv
<1>5. CASE r # call.request
    <2>1. received'[r] = received[r] /\ OnWire(r)' = OnWire(r)
        BY <1>1, <1>2, <1>5 DEF OnWire, IInv, TypeOK
    <2>2. /\ IsFiniteSet(ToCall(r)') /\ Cardinality(ToCall(r)') \in Nat
          /\ Cardinality(ToCall(r)') <= Cardinality(ToCall(r))
        BY <1>3, CountsAre, FS_Subset, FS_CardinalityType
    <2>3. /\ CallsInv(r) /\ started'[r] = started[r]
          /\ IsFiniteSet(OnWire(r)')
          /\ Cardinality(OnWire(r)') = Cardinality(OnWire(r))
        BY <1>2, <2>1, CountsAre DEF CopiesInv
    <2> QED BY <2>1, <2>2, <2>3, CountsAre DEF CallsInv
<1> QED BY <1>4, <1>5

\* The steps that start nothing and send nothing make no new calls.
LEMMA CallsStep ==
    ASSUME IInv, CopiesInv, Next, NEW r \in Requests
    PROVE  CallsInv(r)'
<1>1. CASE \E t \in Requests : Add(t)
    <2>1. UNCHANGED <<started, running, wire, received>> BY <1>1 DEF Add
    <2> QED BY <2>1, QuietKeeps DEF OnWire, ToCall
<1>2. CASE \E t \in Requests : StartRun(t) BY <1>2, CopiesStart
<1>3. ASSUME NEW run \in running, RunStep(run) PROVE CallsInv(r)'
    <2>1. CASE CheckStatus(run) BY <2>1, CopiesStatus
    <2>2. CASE Call(run) BY <2>2, CopiesCall
    <2>3. CASE GiveUp(run)
        <3>1. At(run, "error").stage = "error" BY AtIs DEF Stages
        <3>2. /\ running' = (running \ {run}) \cup {At(run, "error")}
              /\ UNCHANGED <<started, wire, received>>
            BY <2>3 DEF GiveUp
        <3>3. OnWire(r)' = OnWire(r) /\ ToCall(r)' \subseteq ToCall(r)
            BY <3>1, <3>2 DEF OnWire, ToCall
        <3> QED BY <3>2, <3>3, QuietKeeps
    <2>4. CASE EndRun(run) \/ TimeOut(run)
        <3>1. running' \subseteq running /\ UNCHANGED <<started, wire, received>>
            BY <2>4 DEF EndRun, TimeOut
        <3>2. OnWire(r)' = OnWire(r) /\ ToCall(r)' \subseteq ToCall(r)
            BY <3>1 DEF OnWire, ToCall
        <3> QED BY <3>1, <3>2, QuietKeeps
    <2> QED BY <1>3, <2>1, <2>2, <2>3, <2>4 DEF RunStep
<1>4. ASSUME NEW call \in wire, Carry(call) \/ Refuse(call) PROVE CallsInv(r)'
    <2>1. CASE Carry(call) BY <2>1, CopiesCarry
    <2>2. CASE Refuse(call)
        <3>1. ToCall(r)' \subseteq ToCall(r) BY <2>2, AnswerCalls DEF Refuse
        <3>2. OnWire(r)' \subseteq OnWire(r) /\ UNCHANGED <<started, received>>
            BY <2>2 DEF Refuse, OnWire
        <3> QED BY <3>1, <3>2, QuietKeeps
    <2> QED BY <1>4, <2>1, <2>2
<1>5. CASE Crash
    <2>1. UNCHANGED <<started, wire, received>> /\ running' = {} BY <1>5 DEF Crash
    <2>2. OnWire(r)' \subseteq OnWire(r) /\ ToCall(r)' \subseteq ToCall(r)
        BY <2>1 DEF OnWire, ToCall
    <2> QED BY <2>1, <2>2, QuietKeeps
<1> QED BY <1>1, <1>2, <1>3, <1>4, <1>5 DEF Next

\* An attempt that ends is counted, or its job is completed.
LEMMA EndsCount ==
    ASSUME IInv, CopiesInv, NEW j \in Requests, job[j] = "active",
           Complete(j) \/ Fail(j), UNCHANGED <<started, crashes>>,
           NEW r \in Requests
    PROVE  StartsInv(r)'
<1>1. /\ job \in [Requests -> {"none", "queued", "active", "completed", "failed"}]
      /\ attemptsMade \in [Requests -> Nat] /\ started[r] \in Nat /\ crashes \in Nat
    BY DEF IInv, TypeOK
<1>2. StartsInv(r) BY DEF CopiesInv
<1>3. CASE Complete(j)
    <2>1. /\ attemptsMade' = attemptsMade
          /\ job'[r] = IF r = j THEN "completed" ELSE job[r]
        BY <1>1, <1>3 DEF Complete
    <2> QED BY <1>1, <1>2, <2>1 DEF StartsInv
<1>4. CASE Fail(j)
    <2>1. /\ attemptsMade'[r] = IF r = j THEN attemptsMade[r] + 1 ELSE attemptsMade[r]
          /\ r # j => job'[r] = job[r]
        BY <1>1, <1>4 DEF Fail
    <2>2. CASE r = j BY <1>1, <1>2, <2>1, <2>2 DEF StartsInv
    <2>3. CASE r # j BY <1>1, <1>2, <2>1, <2>3 DEF StartsInv
    <2> QED BY <2>2, <2>3
<1> QED BY <1>3, <1>4

LEMMA StartsStep ==
    ASSUME IInv, CopiesInv, Next, NEW r \in Requests
    PROVE  StartsInv(r)'
<1>1. /\ job \in [Requests -> {"none", "queued", "active", "completed", "failed"}]
      /\ attemptsMade[r] \in Nat /\ started[r] \in Nat /\ crashes \in Nat
      /\ \A run \in running : run.request \in Requests
    BY DEF IInv, TypeOK
<1>2. StartsInv(r) BY DEF CopiesInv
<1>3. ASSUME NEW t \in Requests, Add(t) PROVE StartsInv(r)'
    <2>1. /\ UNCHANGED <<attemptsMade, started, crashes>>
          /\ job[t] = "none" /\ job' = [job EXCEPT ![t] = "queued"]
        BY <1>3 DEF Add
    <2>2. job[r] \notin {"active", "completed"} \/ job'[r] = job[r]
        BY <1>1, <2>1
    <2> QED BY <1>1, <1>2, <2>1, <2>2 DEF StartsInv
<1>4. CASE \E t \in Requests : StartRun(t) BY <1>4, CopiesStart
<1>5. ASSUME NEW run \in running, RunStep(run) PROVE StartsInv(r)'
    <2>1. CASE UNCHANGED <<redisVars, started, crashes>>
        BY <1>2, <2>1 DEF StartsInv, redisVars
    <2>2. CASE EndRun(run) /\ Current(run)
        BY <1>1, <2>2, EndsCount DEF EndRun, Current
    <2>3. CASE TimeOut(run) BY <1>1, <2>3, EndsCount DEF TimeOut, Current
    <2> QED BY <1>5, <2>1, <2>2, <2>3 DEF RunStep, CheckStatus, Call, GiveUp, EndRun
<1>6. CASE \E call \in wire : Carry(call) \/ Refuse(call)
    <2>1. UNCHANGED <<redisVars, started, crashes>> BY <1>6 DEF Carry, Refuse
    <2> QED BY <1>2, <2>1 DEF StartsInv, redisVars
<1>7. CASE Crash
    <2>1. /\ UNCHANGED <<attemptsMade, started>> /\ crashes' = crashes + 1
          /\ job'[r] = IF job[r] = "active" THEN "queued" ELSE job[r]
        BY <1>7 DEF Crash
    <2> QED BY <1>1, <1>2, <2>1 DEF StartsInv
<1> QED BY <1>3, <1>4, <1>5, <1>6, <1>7 DEF Next

LEMMA CopiesKeep == IInv /\ CopiesInv /\ [Next]_vars => CopiesInv'
<1> SUFFICES ASSUME IInv, CopiesInv, [Next]_vars PROVE CopiesInv'
    OBVIOUS
<1>1. CASE Next BY <1>1, CallsStep, StartsStep DEF CopiesInv
<1>2. CASE UNCHANGED vars
    BY <1>2 DEF vars, CopiesInv, StartsInv, CallsInv, OnWire, ToCall
<1> QED BY <1>1, <1>2

\* The recipient gets no more copies than there were attempts and restarts,
\* however the calls of a given up attempt, of the next one and of a process
\* that died overlap at the provider.
THEOREM CopiesAreBoundedHolds == Spec => []CopiesAreBounded
<1>1. IInv /\ CopiesInv => CopiesAreBounded
    <2> SUFFICES ASSUME IInv, CopiesInv, NEW r \in Requests
                 PROVE  Len(received[r]) + Cardinality(OnWire(r))
                            <= attemptsMade[r] + crashes
                                + (IF job[r] \in {"active", "completed"} THEN 1 ELSE 0)
        BY DEF CopiesAreBounded, OnWire
    <2>1. StartsInv(r) /\ CallsInv(r) BY DEF CopiesInv
    <2> QED BY <2>1, CountsAre DEF StartsInv, CallsInv
<1> QED BY Invariance, CopiesInit, CopiesKeep, <1>1, PTL DEF Spec
=============================================================================
