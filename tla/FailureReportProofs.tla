------------------------- MODULE FailureReportProofs -------------------------
(***************************************************************************)
(* Proofs about FailureReport, for any messages, nights and crashes.       *)
(*                                                                         *)
(* That a night is mailed at most once for each attempt and each restart   *)
(* counts mails against attempts, which no step compares.  Between them are *)
(* the handler runs: each start of a handler is paid for by an attempt, a   *)
(* restart or the job's end, and each run mails once, under its number.     *)
(* What a mail says was read when its handler began: ReportInv says that it *)
(* was so then, and that what has come since takes nothing back.  The table *)
(* of the failures is proved by induction on its list.                      *)
(***************************************************************************)
EXTENDS FailureReport, ListProofs

NightMails(j) == {mail \in mails : mail.job = j}

\* Attempts are left to a job that has not ended, and every start of a handler
\* is accounted for.
JobInv(j) ==
    /\ job[j] \in {"none", "delayed", "waiting", "active", "retry"} =>
            attemptsMade[j] < Attempts
    /\ attemptsMade[j] <= started[j]
    /\ started[j] <= attemptsMade[j] + crashes
            + (IF job[j] \in {"active", "completed"} THEN 1 ELSE 0)

\* A night's mails have numbers of its runs, each its own.
MailsInv(j) ==
    /\ \A mail \in NightMails(j) : mail.nth \in 1 .. started[j]
    /\ \A m, n \in NightMails(j) : m.nth = n.nth => m = n

\* A run has a number of its own, under which it has mailed only if it is done.
RunsInv ==
    /\ \A run \in runs : run.nth \in 1 .. started[run.job]
    /\ \A run, other \in runs :
            run.job = other.job /\ run.nth = other.nth => run = other
    /\ \A run \in runs : run.stage # "done" =>
            \A mail \in NightMails(run.job) : mail.nth # run.nth

IInv ==
    /\ TypeOK
    /\ now.late => now.day \in Nights
    /\ \A j \in Nights : JobInv(j) /\ MailsInv(j)
    /\ RunsInv

-----------------------------------------------------------------------------
LEMMA NightsAre == Nights \subseteq Nat \ {0} /\ Days \subseteq Nat \ {0}
                    /\ Nights \subseteq Days
BY NightAssumption DEF Nights, Days

LEMMA InitHolds == Init => IInv
<1> SUFFICES ASSUME Init PROVE IInv
    OBVIOUS
<1>1. TypeOK
    <2>1. 1 \in Days /\ 0 \in 0 .. MaxCrashes /\ 0 \in 0 .. Attempts
        BY NightAssumption, CrashesAssumption DEF Days, Attempts
    <2>2. now \in [day : Days, late : BOOLEAN] BY <2>1 DEF Init
    <2>3. /\ attemptsMade \in [Nights -> 0 .. Attempts] /\ started \in [Nights -> Nat]
          /\ sent \in Seq([send : Sends, day : Days]) /\ crashes \in 0 .. MaxCrashes
        BY <2>1 DEF Init
    <2>4. /\ job \in [Nights -> {"none", "delayed", "waiting", "active", "retry",
                                 "completed", "failed"}]
          /\ \A j \in Nights : job[j] = "none"
        BY DEF Init
    <2>5. rows = {} /\ runs = {} /\ up = FALSE BY DEF Init
    <2> QED BY <2>2, <2>3, <2>4, <2>5 DEF TypeOK
<1>2. \A j \in Nights : JobInv(j) BY DEF Init, JobInv, Attempts
<1>3. \A j \in Nights : MailsInv(j) BY DEF Init, MailsInv, NightMails
<1>4. RunsInv BY DEF Init, RunsInv
<1> QED BY <1>1, <1>2, <1>3, <1>4 DEF Init, IInv

\* Adding the repetition delays jobs that were nowhere.
LEMMA RepetitionIs ==
    ASSUME NEW old \in [Nights -> {"none", "delayed", "waiting", "active", "retry",
                                   "completed", "failed"}]
    PROVE  /\ WithRepetition(old) \in
                [Nights -> {"none", "delayed", "waiting", "active", "retry",
                            "completed", "failed"}]
           /\ \A j \in Nights :
                WithRepetition(old)[j] # old[j] =>
                    old[j] = "none" /\ WithRepetition(old)[j] = "delayed"
<1> DEFINE day == IF now.late THEN now.day + 1 ELSE now.day
<1>1. WithRepetition(old) = IF day \in Nights /\ old[day] = "none"
                            THEN [old EXCEPT ![day] = "delayed"] ELSE old
    BY DEF WithRepetition
<1> HIDE DEF day
<1>2. CASE day \in Nights /\ old[day] = "none"
    <2>1. WithRepetition(old) = [old EXCEPT ![day] = "delayed"] BY <1>1, <1>2
    <2> QED BY <1>2, <2>1
<1>3. CASE ~(day \in Nights /\ old[day] = "none")
    <2>1. WithRepetition(old) = old BY <1>1, <1>3
    <2> QED BY <2>1
<1> QED BY <1>2, <1>3

\* A step that leaves the jobs, the runs and the mails of the nights alone.
LEMMA WorldKeeps ==
    ASSUME IInv, UNCHANGED <<redisVars, started, runs>>,
           TypeOK', now'.late => now'.day \in Nights, crashes' = crashes,
           \A j \in Nights : NightMails(j)' = NightMails(j)
    PROVE  IInv'
<1>1. \A j \in Nights : JobInv(j)' BY DEF IInv, JobInv, redisVars
<1>2. \A j \in Nights : MailsInv(j)' BY DEF IInv, MailsInv
<1>3. \A run \in runs : run.job \in Nights BY DEF IInv, TypeOK
<1>4. RunsInv' BY <1>3 DEF IInv, RunsInv
<1> QED BY <1>1, <1>2, <1>4 DEF IInv

LEMMA BeLateKeeps == IInv /\ BeLate => IInv'
<1> SUFFICES ASSUME IInv, BeLate PROVE IInv'
    OBVIOUS
<1>1. /\ now \in [day : Days, late : BOOLEAN] /\ now.day \in Nights
      /\ now' = [now EXCEPT !.late = TRUE]
    BY DEF IInv, TypeOK, BeLate
<1>2. now' \in [day : Days, late : BOOLEAN] /\ now'.day = now.day BY <1>1
<1>3. TypeOK' BY <1>2 DEF IInv, TypeOK, BeLate, tableVars, redisVars
<1> QED BY <1>1, <1>2, <1>3, WorldKeeps DEF BeLate, NightMails

LEMMA MidnightKeeps == IInv /\ Midnight => IInv'
<1> SUFFICES ASSUME IInv, Midnight PROVE IInv'
    OBVIOUS
<1>1. now.day + 1 \in Days
    BY NightAssumption DEF IInv, Midnight, Nights, Days
<1>2. now' \in [day : Days, late : BOOLEAN] /\ now'.late = FALSE
    BY <1>1 DEF Midnight
<1>3. TypeOK' BY <1>2 DEF IInv, TypeOK, Midnight, tableVars, redisVars
<1> QED BY <1>2, <1>3, WorldKeeps DEF Midnight, NightMails

LEMMA RequestKeeps == ASSUME NEW s \in Sends PROVE IInv /\ Request(s) => IInv'
<1> SUFFICES ASSUME IInv, Request(s) PROVE IInv'
    OBVIOUS
<1> DEFINE entry == [send |-> s, day |-> now.day]
<1>1. sent \in Seq([send : Sends, day : Days]) /\ entry \in [send : Sends, day : Days]
    BY DEF IInv, TypeOK
<1> HIDE DEF entry
<1>2. sent' = Append(sent, entry) BY DEF Request, entry
<1>3. /\ sent' \in Seq([send : Sends, day : Days])
      /\ \A i \in DOMAIN sent : i \in DOMAIN sent' /\ sent'[i] = sent[i]
    BY <1>1, <1>2
<1>4. Range(sent) \subseteq Range(sent)' BY <1>3 DEF Range
<1>5. TypeOK' BY <1>3, <1>4 DEF IInv, TypeOK, Request, world, redisVars
<1> QED BY <1>5, WorldKeeps DEF Request, world, NightMails, IInv

LEMMA RecordKeeps ==
    ASSUME NEW s \in Sends, NEW type \in {"failed", "success"}
    PROVE  IInv /\ Record(s, type) => IInv'
<1> SUFFICES ASSUME IInv, Record(s, type) PROVE IInv'
    OBVIOUS
<1> DEFINE row == [send |-> s, eventType |-> type,
                   inTime |-> now.day = Scheduled(s) /\ ~now.late]
<1>1. row.send = s /\ row.eventType = type OBVIOUS
<1>2. rows' = rows \cup {row} /\ sent' = sent BY DEF Record
<1> HIDE DEF row
<1>3. \A x \in rows' :
        /\ \E entry \in Range(sent)' : entry.send = x.send
        /\ x.eventType \in {"failed", "success"}
    BY <1>1, <1>2 DEF Record, IInv, TypeOK
<1>4. TypeOK' BY <1>2, <1>3 DEF IInv, TypeOK, Record, world, redisVars
<1> QED BY <1>4, WorldKeeps DEF Record, world, NightMails, IInv

LEMMA AskReportKeeps == ASSUME NEW date \in Nights PROVE IInv /\ AskReport(date) => IInv'
<1> SUFFICES ASSUME IInv, AskReport(date) PROVE IInv'
    OBVIOUS
<1>1. TypeOK' BY DEF IInv, TypeOK, AskReport, world, tableVars, redisVars
<1> QED BY <1>1, WorldKeeps DEF AskReport, world, NightMails, IInv

\* The report that was asked for is mailed as that of no night.
LEMMA MailAskedKeeps == IInv /\ MailAsked => IInv'
<1> SUFFICES ASSUME IInv, MailAsked PROVE IInv'
    OBVIOUS
<1>1. TypeOK' BY DEF IInv, TypeOK, MailAsked, world, tableVars, redisVars
<1>2. \A j \in Nights : NightMails(j)' = NightMails(j)
    <2>1. \A mail \in mails' : mail \in mails \/ mail.job = 0 BY DEF MailAsked
    <2>2. mails \subseteq mails' BY DEF MailAsked
    <2> QED BY <2>1, <2>2, NightsAre DEF NightMails
<1> QED BY <1>1, <1>2, WorldKeeps DEF MailAsked, world, IInv

\* A step that moves jobs and counts their attempts.
LEMMA JobsKeep ==
    ASSUME IInv, TypeOK', \A j \in Nights : JobInv(j)',
           runs' \subseteq runs, UNCHANGED <<now, started, mails>>
    PROVE  IInv'
<1>1. \A j \in Nights : MailsInv(j)' BY DEF IInv, MailsInv, NightMails
<1>2. RunsInv' BY DEF IInv, RunsInv, NightMails
<1> QED BY <1>1, <1>2 DEF IInv

LEMMA BootKeeps == IInv /\ Boot => IInv'
<1> SUFFICES ASSUME IInv, Boot PROVE IInv'
    OBVIOUS
<1>1. /\ job' \in [Nights -> {"none", "delayed", "waiting", "active", "retry",
                              "completed", "failed"}]
      /\ \A j \in Nights :
            job'[j] # job[j] => job[j] = "none" /\ job'[j] = "delayed"
    <2>1. /\ job \in [Nights -> {"none", "delayed", "waiting", "active", "retry",
                                 "completed", "failed"}]
          /\ job' = WithRepetition(job)
        BY DEF Boot, IInv, TypeOK
    <2> QED BY <2>1, RepetitionIs
<1>2. TypeOK' BY <1>1 DEF Boot, IInv, TypeOK, tableVars
<1>3. \A j \in Nights : JobInv(j)' BY <1>1 DEF Boot, IInv, JobInv
<1> QED BY <1>2, <1>3, JobsKeep DEF Boot

\* A crash pays for the starts that it cut short.
LEMMA CrashKeeps == IInv /\ Crash => IInv'
<1> SUFFICES ASSUME IInv, Crash PROVE IInv'
    OBVIOUS
<1>1. /\ job' \in [Nights -> {"none", "delayed", "waiting", "active", "retry",
                              "completed", "failed"}]
      /\ \A j \in Nights : IF job[j] = "active" THEN job'[j] = "waiting"
                           ELSE job'[j] = job[j]
    BY DEF Crash, IInv, TypeOK
<1>2. crashes' = crashes + 1 /\ crashes' \in 0 .. MaxCrashes /\ crashes \in Nat
    BY CrashesAssumption DEF Crash, IInv, TypeOK
<1>3. TypeOK' BY <1>1, <1>2 DEF Crash, IInv, TypeOK, tableVars
<1>4. ASSUME NEW j \in Nights PROVE JobInv(j)'
    <2>1. attemptsMade[j] \in Nat /\ started[j] \in Nat /\ JobInv(j)
        BY DEF IInv, TypeOK, Attempts
    <2>2. UNCHANGED <<attemptsMade, started>> BY DEF Crash
    <2> QED BY <1>1, <1>2, <2>1, <2>2, SMTT(30) DEF JobInv
<1> QED BY <1>3, <1>4, JobsKeep DEF Crash

\* The end of a current run's attempt: Fail pays with an attempt, and Complete
\* keeps what the active job had.
LEMMA EndsKeep ==
    ASSUME IInv, NEW j \in Nights, job[j] = "active", Complete(j) \/ Fail(j),
           runs' \subseteq runs, UNCHANGED <<world, tableVars, asked, started, mails>>
    PROVE  IInv'
<1>0. /\ attemptsMade[j] \in Nat /\ started[j] \in Nat /\ JobInv(j)
      /\ crashes \in Nat /\ started[j] > attemptsMade[j] /\ attemptsMade[j] < Attempts
    BY CrashesAssumption DEF IInv, TypeOK, JobInv, Attempts
<1>1. /\ job' \in [Nights -> {"none", "delayed", "waiting", "active", "retry",
                              "completed", "failed"}]
      /\ attemptsMade' \in [Nights -> 0 .. Attempts]
      /\ \A i \in Nights : i # j =>
            job'[i] = job[i] /\ attemptsMade'[i] = attemptsMade[i]
    <2>1. CASE Complete(j) BY <2>1 DEF Complete, IInv, TypeOK
    <2>2. CASE Fail(j)
        <3>1. attemptsMade[j] + 1 \in 0 .. Attempts BY <1>0 DEF Attempts
        <3> QED BY <2>2, <3>1 DEF Fail, IInv, TypeOK
    <2> QED BY <2>1, <2>2
<1>2. \/ job'[j] = "completed" /\ attemptsMade'[j] = attemptsMade[j]
      \/ /\ attemptsMade'[j] = attemptsMade[j] + 1
         /\ job'[j] = IF attemptsMade[j] + 1 >= Attempts THEN "failed" ELSE "retry"
    BY DEF Complete, Fail, IInv, TypeOK
<1>3. TypeOK'
    <2>1. /\ job'[j] = "retry" => attemptsMade'[j] \in 1 .. Attempts - 1
          /\ job'[j] = "failed" => attemptsMade'[j] = Attempts
          /\ job'[j] # "active"
        BY <1>0, <1>2 DEF Attempts
    <2>2. \A i \in Nights :
            /\ job'[i] = "retry" => attemptsMade'[i] \in 1 .. Attempts - 1
            /\ job'[i] = "failed" => attemptsMade'[i] = Attempts
            /\ job'[i] = "active" => started'[i] > attemptsMade'[i]
        BY <1>1, <2>1 DEF IInv, TypeOK
    <2> QED BY <1>1, <2>2 DEF IInv, TypeOK, world, tableVars
<1>4. JobInv(j)' BY <1>0, <1>2 DEF JobInv, world, Attempts
<1>5. ASSUME NEW i \in Nights, i # j PROVE JobInv(i)'
    BY <1>1, <1>5 DEF IInv, JobInv, world
<1> QED BY <1>3, <1>4, <1>5, JobsKeep DEF world

LEMMA EndRunKeeps == ASSUME NEW run \in runs PROVE IInv /\ EndRun(run) => IInv'
<1> SUFFICES ASSUME IInv, EndRun(run) PROVE IInv'
    OBVIOUS
<1>1. runs' \subseteq runs /\ UNCHANGED <<world, tableVars, asked, started, mails>>
    BY DEF EndRun
<1>2. CASE ~Current(run)
    <2>1. UNCHANGED redisVars BY <1>2 DEF EndRun
    <2>2. TypeOK' BY <1>1, <2>1 DEF IInv, TypeOK, world, tableVars, redisVars
    <2>3. \A j \in Nights : JobInv(j)'
        BY <1>1, <2>1 DEF IInv, JobInv, redisVars, world
    <2> QED BY <1>1, <2>2, <2>3, JobsKeep DEF world
<1>3. CASE Current(run)
    <2>1. run.job \in Nights /\ job[run.job] = "active"
        BY <1>3 DEF Current, IInv, TypeOK
    <2>2. Complete(run.job) \/ Fail(run.job) BY <1>3 DEF EndRun
    <2> QED BY <1>1, <2>1, <2>2, EndsKeep
<1> QED BY <1>2, <1>3

LEMMA TimeOutKeeps == ASSUME NEW run \in runs PROVE IInv /\ TimeOut(run) => IInv'
<1> SUFFICES ASSUME IInv, TimeOut(run) PROVE IInv'
    OBVIOUS
<1>1. run.job \in Nights /\ job[run.job] = "active" /\ Fail(run.job)
    BY DEF TimeOut, Current, IInv, TypeOK
<1> QED BY <1>1, EndsKeep DEF TimeOut

\* A handler that is started gets the next number of its job.
LEMMA StartKeeps == ASSUME NEW j \in Nights PROVE IInv /\ Start(j) => IInv'
<1> SUFFICES ASSUME IInv, Start(j) PROVE IInv'
    OBVIOUS
<1>0. PICK new : new = [job |-> j, nth |-> started'[j], stage |-> "find",
                        date |-> now.day, body |-> NoBody]
    OBVIOUS
<1>1. /\ job[j] \in {"waiting", "delayed", "retry"}
      /\ started' = [started EXCEPT ![j] = @ + 1]
      /\ runs' = runs \cup {new}
      /\ UNCHANGED <<world, tableVars, asked, attemptsMade, mails>>
    BY <1>0 DEF Start, Due
<1>2. /\ started' \in [Nights -> Nat] /\ started[j] \in Nat
      /\ started'[j] = started[j] + 1
      /\ \A i \in Nights : i # j => started'[i] = started[i]
    BY <1>1 DEF IInv, TypeOK
<1>11. \A i \in Nights : \A n \in 1 .. started[i] : n \in 1 .. started'[i]
    <2>1. started \in [Nights -> Nat] BY DEF IInv, TypeOK
    <2> QED BY <1>2, <2>1
<1>3. /\ job' \in [Nights -> {"none", "delayed", "waiting", "active", "retry",
                              "completed", "failed"}]
      /\ job'[j] = "active"
      /\ \A i \in Nights :
            i # j /\ job'[i] # job[i] => job[i] = "none" /\ job'[i] = "delayed"
    <2> DEFINE jobs == [job EXCEPT ![j] = "active"]
    <2>1. jobs \in [Nights -> {"none", "delayed", "waiting", "active", "retry",
                               "completed", "failed"}]
        BY DEF IInv, TypeOK
    <2>2. jobs[j] = "active" /\ \A i \in Nights : i # j => jobs[i] = job[i]
        BY DEF IInv, TypeOK
    <2>3. job' = WithRepetition(jobs) BY DEF Start
    <2> HIDE DEF jobs
    <2>4. /\ job' \in [Nights -> {"none", "delayed", "waiting", "active", "retry",
                                  "completed", "failed"}]
          /\ \A i \in Nights :
                job'[i] # jobs[i] => jobs[i] = "none" /\ job'[i] = "delayed"
        BY <2>1, <2>3, RepetitionIs
    <2> QED BY <2>2, <2>4
<1>4. /\ attemptsMade[j] \in Nat /\ crashes \in Nat /\ JobInv(j)
      /\ now.day \in Days
    BY CrashesAssumption DEF IInv, TypeOK, Attempts
<1>5. /\ new.job = j /\ new.nth = started[j] + 1 /\ new.stage = "find"
      /\ new \in [job : Nights, nth : Nat, stage : {"find", "send", "done"},
                  date : Days, body : {new.body}]
    BY <1>0, <1>2, <1>4
<1>6. TypeOK'
    <2>1. \A i \in Nights :
            /\ job'[i] = "retry" => attemptsMade'[i] \in 1 .. Attempts - 1
            /\ job'[i] = "failed" => attemptsMade'[i] = Attempts
            /\ job'[i] = "active" => started'[i] > attemptsMade'[i]
        <3>1. started'[j] > attemptsMade'[j] BY <1>1, <1>2, <1>4 DEF JobInv
        <3> QED BY <1>1, <1>2, <1>3, <3>1 DEF IInv, TypeOK
    <2>2. \A run \in runs' :
            run \in [job : Nights, nth : Nat, stage : {"find", "send", "done"},
                     date : Days, body : {run.body}]
        BY <1>1, <1>5 DEF IInv, TypeOK
    <2> QED BY <1>1, <1>2, <1>3, <2>1, <2>2 DEF IInv, TypeOK, world, tableVars
<1>7. \A i \in Nights : JobInv(i)'
    <2>1. JobInv(j)' BY <1>1, <1>2, <1>3, <1>4 DEF JobInv, world
    <2>2. ASSUME NEW i \in Nights, i # j PROVE JobInv(i)'
        BY <1>1, <1>2, <1>3, <2>2 DEF IInv, JobInv, world
    <2> QED BY <2>1, <2>2
<1>8. \A i \in Nights : MailsInv(i)'
    <2>1. \A i \in Nights : NightMails(i)' = NightMails(i)
        BY <1>1 DEF NightMails
    <2>3. ASSUME NEW i \in Nights, NEW mail \in NightMails(i)
          PROVE  mail.nth \in 1 .. started'[i]
        <3>1. mail.nth \in 1 .. started[i] BY DEF IInv, MailsInv
        <3> QED BY <1>11, <3>1
    <2> QED BY <2>1, <2>3 DEF IInv, MailsInv
<1>9. RunsInv'
    <2>1. \A run \in runs : /\ run.job \in Nights /\ run.nth \in 1 .. started[run.job]
                            /\ run.nth \in 1 .. started'[run.job]
        <3>1. \A run \in runs : run.job \in Nights BY DEF IInv, TypeOK
        <3>2. \A run \in runs : run.nth \in 1 .. started[run.job]
            BY DEF IInv, RunsInv
        <3> QED BY <1>11, <3>1, <3>2
    <2>2. \A run \in runs : run.job = j => run.nth # new.nth
        BY <1>2, <1>5, <2>1
    <2>3. \A mail \in NightMails(j) : mail.nth # new.nth
        BY <1>2, <1>5 DEF IInv, MailsInv
    <2>4. new.nth \in 1 .. started'[new.job] BY <1>2, <1>5
    <2>5. \A i : NightMails(i)' = NightMails(i) BY <1>1 DEF NightMails
    <2>6. \A run \in runs' : run.nth \in 1 .. started'[run.job]
        BY <1>1, <2>1, <2>4
    <2>7. \A run, other \in runs' :
            run.job = other.job /\ run.nth = other.nth => run = other
        BY <1>1, <1>5, <2>2 DEF IInv, RunsInv
    <2>8. \A run \in runs' : run.stage # "done" =>
            \A mail \in NightMails(run.job) : mail.nth # run.nth
        BY <1>1, <1>5, <2>3 DEF IInv, RunsInv
    <2> QED BY <2>5, <2>6, <2>7, <2>8 DEF RunsInv
<1>10. now'.late => now'.day \in Nights BY <1>1 DEF IInv, world
<1> QED BY <1>6, <1>7, <1>8, <1>9, <1>10 DEF IInv

\* FindLogs and SendMail: a run goes on under its number, and mails once.
LEMMA GoOnKeeps ==
    ASSUME IInv, NEW run \in runs, run.stage # "done", NEW new,
           new \in [job : Nights, nth : Nat, stage : {"find", "send", "done"},
                    date : Days, body : {new.body}],
           new.job = run.job, new.nth = run.nth,
           runs' = (runs \ {run}) \cup {new},
           \/ UNCHANGED mails
           \/ /\ new.stage = "done"
              /\ \E mail : /\ mails' = mails \cup {mail}
                           /\ mail.job = run.job /\ mail.nth = run.nth,
           UNCHANGED <<world, tableVars, asked, redisVars, started>>
    PROVE  IInv'
<1>1. TypeOK' BY DEF IInv, TypeOK, world, tableVars, redisVars
<1>2. \A j \in Nights : JobInv(j)' BY DEF IInv, JobInv, redisVars, world
<1>3. now'.late => now'.day \in Nights BY DEF IInv, world
<1>4. /\ run.job \in Nights /\ run.nth \in 1 .. started[run.job]
      /\ \A mail \in NightMails(run.job) : mail.nth # run.nth
    BY DEF IInv, TypeOK, RunsInv
<1>5. \A x, y \in runs' : x.job = y.job /\ x.nth = y.nth => x = y
    BY DEF IInv, RunsInv
<1>6. \A x \in runs' : x.nth \in 1 .. started'[x.job]
    BY <1>4 DEF IInv, RunsInv
<1>7. \A x \in runs \ {run} : x.job = run.job => x.nth # run.nth
    BY DEF IInv, RunsInv
<1>8. CASE UNCHANGED mails
    <2>1. \A j : NightMails(j)' = NightMails(j) BY <1>8 DEF NightMails
    <2>2. \A j \in Nights : MailsInv(j)' BY <2>1 DEF IInv, MailsInv
    <2>3. \A x \in runs' : x.stage # "done" =>
            \A mail \in NightMails(x.job) : mail.nth # x.nth
        BY <1>4 DEF IInv, RunsInv
    <2>4. RunsInv' BY <1>5, <1>6, <2>1, <2>3 DEF RunsInv
    <2> QED BY <1>1, <1>2, <1>3, <2>2, <2>4 DEF IInv
<1>9. CASE ~UNCHANGED mails
    <2>1. PICK mail : /\ mails' = mails \cup {mail} /\ new.stage = "done"
                      /\ mail.job = run.job /\ mail.nth = run.nth
        BY <1>9
    <2>2. \A j : NightMails(j)' = IF j = run.job THEN NightMails(j) \cup {mail}
                                  ELSE NightMails(j)
        BY <2>1 DEF NightMails
    <2>3. \A j \in Nights : MailsInv(j)'
        BY <1>4, <2>1, <2>2 DEF IInv, MailsInv
    <2>4. \A x \in runs' : x.stage # "done" =>
            \A m \in NightMails(x.job)' : m.nth # x.nth
        BY <1>7, <2>1, <2>2 DEF IInv, RunsInv
    <2>5. RunsInv' BY <1>5, <1>6, <2>4 DEF RunsInv
    <2> QED BY <1>1, <1>2, <1>3, <2>3, <2>5 DEF IInv
<1> QED BY <1>8, <1>9

LEMMA FindLogsKeeps == ASSUME NEW run \in runs PROVE IInv /\ FindLogs(run) => IInv'
<1> SUFFICES ASSUME IInv, FindLogs(run) PROVE IInv'
    OBVIOUS
<1>1. run \in [job : Nights, nth : Nat, stage : {"find", "send", "done"},
               date : Days, body : {run.body}]
    BY DEF IInv, TypeOK
<1>2. PICK body : body = Body(run.date) OBVIOUS
<1>3. PICK new : new = [run EXCEPT !.stage = "send", !.body = body] OBVIOUS
<1>4. /\ new \in [job : Nights, nth : Nat, stage : {"find", "send", "done"},
                  date : Days, body : {new.body}]
      /\ new.job = run.job /\ new.nth = run.nth
    BY <1>1, <1>3
<1>5. /\ run.stage # "done" /\ runs' = (runs \ {run}) \cup {new}
      /\ UNCHANGED mails
      /\ UNCHANGED <<world, tableVars, asked, redisVars, started>>
    BY <1>2, <1>3 DEF FindLogs
<1> QED BY <1>4, <1>5, GoOnKeeps

LEMMA SendMailKeeps == ASSUME NEW run \in runs PROVE IInv /\ SendMail(run) => IInv'
<1> SUFFICES ASSUME IInv, SendMail(run) PROVE IInv'
    OBVIOUS
<1>1. run \in [job : Nights, nth : Nat, stage : {"find", "send", "done"},
               date : Days, body : {run.body}]
    BY DEF IInv, TypeOK
<1>2. PICK new : new = [run EXCEPT !.stage = "done"] OBVIOUS
<1>3. /\ new \in [job : Nights, nth : Nat, stage : {"find", "send", "done"},
                  date : Days, body : {new.body}]
      /\ new.job = run.job /\ new.nth = run.nth /\ new.stage = "done"
    BY <1>1, <1>2
<1>4. PICK mail : mail = [job |-> run.job, nth |-> run.nth, body |-> run.body]
    OBVIOUS
<1>5. mail.job = run.job /\ mail.nth = run.nth BY <1>4
<1>6. /\ run.stage # "done" /\ runs' = (runs \ {run}) \cup {new}
      /\ UNCHANGED mails \/ mails' = mails \cup {mail}
      /\ UNCHANGED <<world, tableVars, asked, redisVars, started>>
    BY <1>2, <1>4 DEF SendMail
<1> QED BY <1>3, <1>5, <1>6, GoOnKeeps

LEMMA NextKeeps == IInv /\ [Next]_vars => IInv'
<1> SUFFICES ASSUME IInv, [Next]_vars PROVE IInv'
    OBVIOUS
<1>1. CASE BeLate \/ Midnight \/ Boot \/ Crash \/ MailAsked
    BY <1>1, BeLateKeeps, MidnightKeeps, BootKeeps, CrashKeeps, MailAskedKeeps
<1>2. CASE \E s \in Sends :
            Request(s) \/ \E type \in {"failed", "success"} : Record(s, type)
    BY <1>2, RequestKeeps, RecordKeeps
<1>3. CASE \E date \in Nights : AskReport(date) BY <1>3, AskReportKeeps
<1>4. CASE \E j \in Nights : Start(j) BY <1>4, StartKeeps
<1>5. CASE \E run \in runs : RunStep(run)
    BY <1>5, FindLogsKeeps, SendMailKeeps, EndRunKeeps, TimeOutKeeps DEF RunStep
<1>6. CASE UNCHANGED vars
    <2>1. TypeOK'
        BY <1>6 DEF vars, world, tableVars, redisVars, IInv, TypeOK
    <2> QED BY <1>6, <2>1, WorldKeeps
            DEF vars, world, tableVars, redisVars, IInv, NightMails
<1> QED BY <1>1, <1>2, <1>3, <1>4, <1>5, <1>6 DEF Next

-----------------------------------------------------------------------------
\* IInv holds in every reachable state, for any messages, nights and crashes.
THEOREM Invariance == Spec => []IInv
<1> QED BY InitHolds, NextKeeps, PTL DEF Spec

\* The types, and where a night's job is after so many attempts.
THEOREM TypeCorrect == Spec => []TypeOK
<1>1. IInv => TypeOK BY DEF IInv
<1> QED BY Invariance, <1>1, PTL

\* A night's report is mailed at most once for each attempt and each restart:
\* the mails of a night are numbered by its handler runs (sendLogFailuresJob).
THEOREM MailsAreBoundedHolds == Spec => []MailsAreBounded
<1>1. IInv => MailsAreBounded
    <2> SUFFICES ASSUME IInv, NEW j \in Nights
                 PROVE  Cardinality(NightMails(j)) <= attemptsMade[j] + crashes
                            + (IF job[j] \in {"active", "completed"} THEN 1 ELSE 0)
        BY DEF MailsAreBounded, NightMails
    <2>1. started[j] \in Nat /\ attemptsMade[j] \in Nat /\ crashes \in Nat /\ JobInv(j)
        BY CrashesAssumption DEF IInv, TypeOK, Attempts
    <2>2. IsFiniteSet(1 .. started[j]) /\ Cardinality(1 .. started[j]) = started[j]
        <3>1. 1 \in Int /\ started[j] \in Int BY <2>1
        <3>2. /\ IsFiniteSet(1 .. started[j])
              /\ Cardinality(1 .. started[j])
                    = IF 1 > started[j] THEN 0 ELSE started[j] - 1 + 1
            BY <3>1, FS_Interval
        <3> QED BY <2>1, <3>2
    <2> DEFINE number == [mail \in NightMails(j) |-> mail.nth]
    <2>3. number \in Injection(NightMails(j), 1 .. started[j])
        BY DEF IInv, MailsInv, Injection, IsInjective
    <2>4. /\ IsFiniteSet(NightMails(j))
          /\ Cardinality(NightMails(j)) <= Cardinality(1 .. started[j])
        <3> HIDE DEF number
        <3> QED BY <2>2, <2>3, FS_Injection
    <2>5. Cardinality(NightMails(j)) \in Nat BY <2>4, FS_CardinalityType
    <2> QED BY <2>1, <2>2, <2>4, <2>5 DEF JobInv
<1> QED BY Invariance, <1>1, PTL
-----------------------------------------------------------------------------
(* The table of a report: what failedTable's loop has after n failures.      *)

Entries == [send : Sends, day : Days]
Recipients == {To[s] : s \in Sends}
Lines == [to : Recipients, count : Nat, item : Nat, order : Nat]

\* The failures up to the n-th whose recipient is `to'.
Of(list, n, to) == {i \in 1 .. n : To[list[i].send] = to}

TableFor(table, list, n) ==
    /\ table \in Seq(Lines)
    /\ \A i \in 1 .. n : \E k \in 1 .. Len(table) : table[k].to = To[list[i].send]
    /\ \A k \in 1 .. Len(table) :
        /\ table[k].item = k
        /\ table[k].count = Cardinality(Of(list, n, table[k].to))
        /\ table[k].order \in Of(list, n, table[k].to)
        /\ \A i \in Of(list, n, table[k].to) : table[k].order <= i
    /\ \A k, l \in 1 .. Len(table) : k < l => table[k].order < table[l].order

\* A recipient has one line.
LEMMA OneLineEach ==
    ASSUME NEW table, NEW list, NEW n \in Nat, TableFor(table, list, n)
    PROVE  \A k, l \in 1 .. Len(table) : table[k].to = table[l].to => k = l
<1> SUFFICES ASSUME NEW k \in 1 .. Len(table), NEW l \in 1 .. Len(table),
                    table[k].to = table[l].to
             PROVE  k = l
    OBVIOUS
<1>1. table[k].order \in Nat /\ table[l].order \in Nat /\ k \in Nat /\ l \in Nat
    <2>1. table \in Seq(Lines) BY DEF TableFor
    <2>2. table[k] \in Lines /\ table[l] \in Lines BY <2>1, ElementOfSeq
    <2> QED BY <2>2 DEF Lines
<1>2. table[k].order <= table[l].order /\ table[l].order <= table[k].order
    BY DEF TableFor
<1>3. ~(k < l) /\ ~(l < k) BY <1>1, <1>2 DEF TableFor
<1> QED BY <1>1, <1>3

\* What the search for a recipient's line finds.
LineOf(table, to) == SelectInSeq(table, LAMBDA line : line.to = to)

LEMMA LineOfIs ==
    ASSUME NEW table \in Seq(Lines), NEW to,
           \A k, l \in 1 .. Len(table) : table[k].to = table[l].to => k = l
    PROVE  /\ LineOf(table, to) = 0 => \A k \in 1 .. Len(table) : table[k].to # to
           /\ LineOf(table, to) # 0 =>
                LineOf(table, to) \in 1 .. Len(table) /\ table[LineOf(table, to)].to = to
<1> DEFINE I == {k \in 1 .. Len(table) : table[k].to = to}
<1>1. LineOf(table, to) = IF I # {} THEN Min(I) ELSE 0 BY DEF LineOf, SelectInSeq
<1>2. CASE I = {} BY <1>1, <1>2
<1>3. CASE I # {}
    <2>1. PICK k : k \in I BY <1>3
    <2>2. I = {k} /\ k \in Nat BY <2>1
    <2>3. Min(I) = k BY <2>2 DEF Min
    <2>4. k # 0 BY <2>1
    <2> QED BY <1>1, <1>3, <2>1, <2>3, <2>4
<1> QED BY <1>2, <1>3

LEMMA WithFailureIs ==
    ASSUME NEW table, NEW list, NEW i
    PROVE  WithFailure(table, list, i) =
            IF LineOf(table, To[list[i].send]) # 0
            THEN [table EXCEPT ![LineOf(table, To[list[i].send])].count = @ + 1]
            ELSE Append(table, [to |-> To[list[i].send], count |-> 1,
                                item |-> Len(table) + 1, order |-> i])
BY DEF WithFailure, LineOf

LEMMA WithFailureType ==
    ASSUME NEW table \in Seq(Lines), NEW list \in Seq(Entries), NEW i \in 1 .. Len(list)
    PROVE  WithFailure(table, list, i) \in Seq(Lines)
<1> DEFINE to == To[list[i].send]
           found == LineOf(table, to)
<1>1. to \in Recipients /\ i \in Nat
    <2>1. list[i] \in Entries BY ElementOfSeq
    <2> QED BY <2>1 DEF Entries, Recipients
<1>2. Len(table) \in Nat /\ \A k \in 1 .. Len(table) : table[k] \in Lines
    BY LenProperties, ElementOfSeq
<1> HIDE DEF to, found
<1>3. Append(table, [to |-> to, count |-> 1, item |-> Len(table) + 1, order |-> i])
        \in Seq(Lines)
    <2>1. [to |-> to, count |-> 1, item |-> Len(table) + 1, order |-> i] \in Lines
        BY <1>1, <1>2 DEF Lines
    <2> QED BY <2>1, AppendProperties
<1>4. [table EXCEPT ![found].count = @ + 1] \in Seq(Lines)
    <2> DEFINE new == [table EXCEPT ![found].count = @ + 1]
    <2>1. DOMAIN table = 1 .. Len(table) BY LenProperties
    <2>2. new = [k \in 1 .. Len(table) |->
                    IF k = found THEN [table[k] EXCEPT !.count = @ + 1] ELSE table[k]]
        BY <2>1
    <2>3. \A line \in Lines : [line EXCEPT !.count = @ + 1] \in Lines BY DEF Lines
    <2>4. \A k \in 1 .. Len(table) : new[k] \in Lines BY <1>2, <2>2, <2>3
    <2>5. new \in [1 .. Len(table) -> Lines] BY <2>2, <2>4
    <2> HIDE DEF new
    <2>6. new \in Seq(Lines) BY <1>2, <2>5, SeqDef
    <2> QED BY <2>6 DEF new
<1> QED BY <1>3, <1>4, WithFailureIs DEF to, found

\* One more failure.
LEMMA OfGrows ==
    ASSUME NEW list, NEW n \in Nat, NEW to
    PROVE  /\ Of(list, n + 1, to) = IF To[list[n + 1].send] = to
                                    THEN Of(list, n, to) \cup {n + 1} ELSE Of(list, n, to)
           /\ IsFiniteSet(Of(list, n, to)) /\ n + 1 \notin Of(list, n, to)
           /\ Cardinality(Of(list, n, to)) \in Nat
           /\ Cardinality(Of(list, n, to) \cup {n + 1}) = Cardinality(Of(list, n, to)) + 1
<1>1. \A i : i \in 1 .. n + 1 <=> i \in 1 .. n \/ i = n + 1 OBVIOUS
<1>2. n + 1 \notin 1 .. n OBVIOUS
<1>3. IsFiniteSet(1 .. n) BY FS_Interval
<1>4. Of(list, n, to) \subseteq 1 .. n BY DEF Of
<1>5. IsFiniteSet(Of(list, n, to)) BY <1>3, <1>4, FS_Subset
<1>6. n + 1 \notin Of(list, n, to) BY <1>2, <1>4
<1>7. Cardinality(Of(list, n, to)) \in Nat BY <1>5, FS_CardinalityType
<1>8. Cardinality(Of(list, n, to) \cup {n + 1}) = Cardinality(Of(list, n, to)) + 1
    BY <1>5, <1>6, FS_AddElement
<1>9. Of(list, n + 1, to) = IF To[list[n + 1].send] = to
                            THEN Of(list, n, to) \cup {n + 1} ELSE Of(list, n, to)
    BY <1>1 DEF Of
<1> QED BY <1>5, <1>6, <1>7, <1>8, <1>9

LEMMA TableStarts ==
    ASSUME NEW list PROVE TableFor(<<>>, list, 0)
<1>1. Len(<<>>) = 0 /\ <<>> \in Seq(Lines) OBVIOUS
<1>2. \A i : i \notin 1 .. 0 OBVIOUS
<1> QED BY <1>1, <1>2 DEF TableFor

LEMMA TableGrows ==
    ASSUME NEW list \in Seq(Entries), NEW n \in Nat, n + 1 \in 1 .. Len(list),
           NEW table, TableFor(table, list, n)
    PROVE  TableFor(WithFailure(table, list, n + 1), list, n + 1)
<1> DEFINE to == To[list[n + 1].send]
           found == LineOf(table, to)
           new == WithFailure(table, list, n + 1)
           m == Len(table)
<1>1. table \in Seq(Lines) BY DEF TableFor
<1>2. /\ m \in Nat /\ \A k \in 1 .. m : table[k] \in Lines
      /\ DOMAIN table = 1 .. m
    BY <1>1, LenProperties, ElementOfSeq
<1>3. new \in Seq(Lines) BY <1>1, WithFailureType
<1>4. /\ found = 0 => \A k \in 1 .. m : table[k].to # to
      /\ found # 0 => found \in 1 .. m /\ table[found].to = to
    BY <1>1, LineOfIs, OneLineEach
<1>5. new = IF found # 0 THEN [table EXCEPT ![found].count = @ + 1]
            ELSE Append(table, [to |-> to, count |-> 1, item |-> m + 1, order |-> n + 1])
    BY WithFailureIs
<1>6. \A x : Of(list, n + 1, x) = IF to = x THEN Of(list, n, x) \cup {n + 1}
                                  ELSE Of(list, n, x)
    <2>1. \A x : Of(list, n + 1, x) = IF To[list[n + 1].send] = x
                                      THEN Of(list, n, x) \cup {n + 1}
                                      ELSE Of(list, n, x)
        BY OfGrows, ZenonT(60)
    <2> QED BY <2>1
<1>7. \A i : i \in 1 .. n + 1 <=> i \in 1 .. n \/ i = n + 1 OBVIOUS
<1>8. \A k \in 1 .. m : /\ table[k].order \in 1 .. n /\ table[k].count \in Nat
                        /\ table[k].order <= n + 1
    <2>1. \A k \in 1 .. m : table[k].order \in 1 .. n BY DEF TableFor, Of
    <2> QED BY <1>2, <2>1 DEF Lines
<1> HIDE DEF to, found, new, m
<1>9. CASE found # 0
    <2>1. found \in 1 .. m /\ table[found].to = to BY <1>4, <1>9
    <2>2. new = [table EXCEPT ![found].count = @ + 1] BY <1>5, <1>9
    <2>3. Len(new) = m /\ \A k \in 1 .. m : k # found => new[k] = table[k]
        <3>1. DOMAIN new = 1 .. m BY <1>2, <2>2
        <3> QED BY <1>2, <1>3, <2>2, <3>1, LenProperties
    <2>4. /\ new[found].to = to /\ new[found].item = table[found].item
          /\ new[found].order = table[found].order
          /\ new[found].count = table[found].count + 1
        <3>1. new[found] = [table[found] EXCEPT !.count = @ + 1] BY <1>2, <2>1, <2>2
        <3>2. table[found] \in Lines BY <1>2, <2>1
        <3> QED BY <2>1, <3>1, <3>2 DEF Lines
    <2>5. \A k \in 1 .. m : /\ new[k].to = table[k].to /\ new[k].order = table[k].order
                            /\ new[k].item = table[k].item
        BY <2>1, <2>3, <2>4
    <2>6. \A k \in 1 .. m : k # found => table[k].to # to
        <3>1. \A k, l \in 1 .. m : table[k].to = table[l].to => k = l
            BY OneLineEach DEF m
        <3> QED BY <2>1, <3>1
    <2>7. ASSUME NEW k \in 1 .. m
          PROVE  /\ new[k].item = k
                 /\ new[k].count = Cardinality(Of(list, n + 1, new[k].to))
                 /\ new[k].order \in Of(list, n + 1, new[k].to)
                 /\ \A i \in Of(list, n + 1, new[k].to) : new[k].order <= i
        <3>1. /\ table[k].item = k
              /\ table[k].count = Cardinality(Of(list, n, table[k].to))
              /\ table[k].order \in Of(list, n, table[k].to)
              /\ \A i \in Of(list, n, table[k].to) : table[k].order <= i
            BY DEF TableFor, m
        <3>2. CASE k = found
            <4>1. Of(list, n + 1, new[k].to) = Of(list, n, to) \cup {n + 1}
                BY <1>6, <2>4, <3>2
            <4>2. Cardinality(Of(list, n, to) \cup {n + 1}) = Cardinality(Of(list, n, to)) + 1
                BY OfGrows
            <4>3. table[k].to = to BY <2>1, <3>2
            <4>4. new[k].order = table[k].order /\ table[k].order <= n + 1
                BY <1>8, <2>4, <3>2
            <4>5. new[k].count = Cardinality(Of(list, n + 1, new[k].to))
                BY <2>4, <3>1, <3>2, <4>1, <4>2, <4>3
            <4>6. \A i \in Of(list, n + 1, new[k].to) : new[k].order <= i
                BY <3>1, <4>1, <4>3, <4>4
            <4>7. new[k].order \in Of(list, n + 1, new[k].to)
                BY <3>1, <4>1, <4>3, <4>4
            <4> QED BY <2>5, <3>1, <4>5, <4>6, <4>7
        <3>3. CASE k # found
            <4>1. new[k] = table[k] /\ table[k].to # to BY <2>3, <2>6, <3>3
            <4>2. Of(list, n + 1, new[k].to) = Of(list, n, table[k].to) BY <1>6, <4>1
            <4> QED BY <3>1, <4>1, <4>2
        <3> QED BY <3>2, <3>3
    <2>8. ASSUME NEW i \in 1 .. n + 1
          PROVE  \E k \in 1 .. m : new[k].to = To[list[i].send]
        <3>1. CASE i \in 1 .. n
            <4>1. PICK k \in 1 .. m : table[k].to = To[list[i].send]
                BY <3>1 DEF TableFor, m
            <4> QED BY <2>5, <4>1
        <3>2. CASE i = n + 1 BY <2>1, <2>4, <3>2 DEF to
        <3> QED BY <1>7, <3>1, <3>2
    <2>9. \A k, l \in 1 .. m : k < l => new[k].order < new[l].order
        BY <2>5 DEF TableFor, m
    <2>10. Len(new) = m BY <2>3
    <2>11. TableFor(new, list, n + 1) BY <1>3, <2>7, <2>8, <2>9, <2>10 DEF TableFor
    <2> QED BY <2>11 DEF new
<1>10. CASE found = 0
    <2> DEFINE line == [to |-> to, count |-> 1, item |-> m + 1, order |-> n + 1]
    <2>1. line.to = to /\ line.count = 1 /\ line.item = m + 1 /\ line.order = n + 1
        OBVIOUS
    <2>2. new = Append(table, line) BY <1>5, <1>10
    <2> HIDE DEF line
    <2>3. Len(new) = m + 1 /\ new[m + 1] = line /\ \A k \in 1 .. m : new[k] = table[k]
        BY <1>1, <2>2 DEF m
    <2>4. \A k : k \in 1 .. m + 1 <=> k \in 1 .. m \/ k = m + 1 BY <1>2
    <2>5. \A k \in 1 .. m : table[k].to # to BY <1>4, <1>10
    <2>6. Of(list, n, to) = {}
        <3> SUFFICES ASSUME NEW i \in 1 .. n, To[list[i].send] = to PROVE FALSE
            BY DEF Of
        <3>1. PICK k \in 1 .. m : table[k].to = To[list[i].send] BY DEF TableFor, m
        <3> QED BY <2>5, <3>1
    <2>7. Of(list, n + 1, to) = {n + 1} BY <1>6, <2>6
    <2>8. ASSUME NEW k \in 1 .. m + 1
          PROVE  /\ new[k].item = k
                 /\ new[k].count = Cardinality(Of(list, n + 1, new[k].to))
                 /\ new[k].order \in Of(list, n + 1, new[k].to)
                 /\ \A i \in Of(list, n + 1, new[k].to) : new[k].order <= i
        <3>1. CASE k = m + 1
            <4>1. Of(list, n + 1, new[k].to) = {n + 1} BY <2>1, <2>3, <2>7, <3>1
            <4>2. n + 1 <= n + 1 OBVIOUS
            <4> QED BY <2>1, <2>3, <3>1, <4>1, <4>2, FS_Singleton
        <3>2. CASE k \in 1 .. m
            <4>1. new[k] = table[k] /\ table[k].to # to BY <2>3, <2>5, <3>2
            <4>2. Of(list, n + 1, new[k].to) = Of(list, n, table[k].to) BY <1>6, <4>1
            <4> QED BY <3>2, <4>1, <4>2 DEF TableFor, m
        <3> QED BY <2>4, <3>1, <3>2
    <2>9. ASSUME NEW i \in 1 .. n + 1
          PROVE  \E k \in 1 .. m + 1 : new[k].to = To[list[i].send]
        <3>1. CASE i \in 1 .. n
            <4>1. PICK k \in 1 .. m : table[k].to = To[list[i].send]
                BY <3>1 DEF TableFor, m
            <4> QED BY <2>3, <2>4, <4>1
        <3>2. CASE i = n + 1 BY <2>1, <2>3, <2>4, <3>2 DEF to
        <3> QED BY <1>7, <3>1, <3>2
    <2>10. ASSUME NEW k \in 1 .. m + 1, NEW l \in 1 .. m + 1, k < l
           PROVE  new[k].order < new[l].order
        <3>1. k \in 1 .. m BY <1>2, <2>10
        <3>2. CASE l \in 1 .. m BY <2>3, <2>10, <3>1, <3>2 DEF TableFor, m
        <3>3. CASE l = m + 1
            <4>1. new[l].order = n + 1 /\ new[k] = table[k] BY <2>1, <2>3, <3>1, <3>3
            <4>2. table[k].order \in 1 .. n BY <1>8, <3>1
            <4> QED BY <4>1, <4>2
        <3> QED BY <2>4, <3>2, <3>3
    <2>11. Len(new) = m + 1 BY <2>3
    <2>12. TableFor(new, list, n + 1) BY <1>3, <2>8, <2>9, <2>10, <2>11 DEF TableFor
    <2> QED BY <2>12 DEF new
<1> QED BY <1>9, <1>10 DEF new

\* failedTable makes the table for its whole list, however long that is.
THEOREM FailedTableIs ==
    ASSUME NEW list \in Seq(Entries) PROVE TableFor(FailedTable(list), list, Len(list))
<1> DEFINE n == Len(list)
           S == Seq(Lines)
           step == [x \in (1 .. n) \X S |-> WithFailure(x[2], list, x[1])]
           f == Tables(list)
<1>1. n \in Nat BY LenProperties
<1>2. step \in [(1 .. n) \X S -> S]
    <2>1. \A x \in (1 .. n) \X S : x[1] \in 1 .. n /\ x[2] \in S OBVIOUS
    <2> QED BY <2>1, WithFailureType
<1>3. PICK base : base = <<>> /\ base \in S
    <2>1. <<>> \in S OBVIOUS
    <2> QED BY <2>1
<1>4. \E g : Iterates(g, n, S, base, step)
    <2> HIDE DEF n, S, step
    <2> QED BY <1>1, <1>2, <1>3, Iteration
<1>5. \E g : g = [k \in 0 .. n |-> IF k = 0 THEN <<>> ELSE WithFailure(g[k - 1], list, k)]
    <2>1. PICK g \in [0 .. n -> S] :
            g[0] = <<>> /\ \A k \in 1 .. n : g[k] = step[<<k, g[k - 1]>>]
        BY <1>3, <1>4 DEF Iterates
    <2>2. ASSUME NEW k \in 1 .. n PROVE g[k] = WithFailure(g[k - 1], list, k)
        <3>1. k - 1 \in 0 .. n BY <1>1
        <3>2. g[k - 1] \in S BY <3>1
        <3> QED BY <2>1, <3>2
    <2>3. \A k \in 0 .. n : k = 0 \/ k \in 1 .. n BY <1>1
    <2>4. \A k \in 0 .. n : g[k] = IF k = 0 THEN <<>> ELSE WithFailure(g[k - 1], list, k)
        BY <2>1, <2>2, <2>3
    <2>5. g = [k \in 0 .. n |-> IF k = 0 THEN <<>> ELSE WithFailure(g[k - 1], list, k)]
        BY <2>4
    <2> QED BY <2>5
<1>6. f = [k \in 0 .. n |-> IF k = 0 THEN <<>> ELSE WithFailure(f[k - 1], list, k)]
    BY <1>5 DEF Tables
<1> HIDE DEF f
<1> DEFINE T == {k \in 0 .. n : TableFor(f[k], list, k)}
<1>7. 0 \in T
    <2>1. 0 \in 0 .. n BY <1>1
    <2>2. f[0] = <<>> BY <1>6, <2>1
    <2> QED BY <2>1, <2>2, TableStarts
<1>8. ASSUME NEW k \in T, k < n PROVE k + 1 \in T
    <2>1. k \in Nat /\ k + 1 \in 0 .. n /\ k + 1 \in 1 .. n /\ k + 1 # 0 /\ (k + 1) - 1 = k
        BY <1>1, <1>8
    <2>2. f[k + 1] = WithFailure(f[k], list, k + 1) BY <1>6, <2>1
    <2>3. TableFor(f[k], list, k) OBVIOUS
    <2>4. TableFor(WithFailure(f[k], list, k + 1), list, k + 1)
        BY <2>1, <2>3, TableGrows
    <2> QED BY <2>1, <2>2, <2>4
<1>9. T = 0 .. n
    <2>1. T \in SUBSET (0 .. n) OBVIOUS
    <2> HIDE DEF T, n
    <2> QED BY <1>1, <1>7, <1>8, <2>1, InductionUpTo
<1>10. n \in 0 .. n BY <1>1
<1> QED BY <1>9, <1>10 DEF f, FailedTable
-----------------------------------------------------------------------------
(* What a report says.  Its body is read in one step, but is mailed later,   *)
(* while messages and rows are added: what it promises holds when it is read *)
(* and nothing that is added takes it back.                                  *)

OfDay(date) == {entry \in Range(sent) : entry.day = date}

\* The night is over as far as its report is concerned: rows that come now are
\* late for it.
Past(j) == j < now.day \/ (j = now.day /\ now.late)

\* A message has one entry and at most one row.
SentInv ==
    /\ \A i, k \in 1 .. Len(sent) : sent[i].send = sent[k].send => i = k
    /\ \A row, other \in rows : row.send = other.send => row = other

BodyInv(body) ==
    /\ body.date \in Days
    /\ body.failedList \in Seq(Entries)
    /\ body.successLength \in Nat
    /\ Len(body.failedList) + body.successLength <= Cardinality(OfDay(body.date))

\* The body names the failures of night j that were in time, if it is of that day.
Named(body, j) ==
    body.date = j =>
        \A row \in RowsOf(j, "failed") : row.inTime =>
            \E entry \in Range(body.failedList) : entry.send = row.send

RunReports(run) ==
    /\ Past(run.job)
    /\ run.stage # "find" => BodyInv(run.body) /\ Named(run.body, run.job)

MailReports(mail) ==
    /\ BodyInv(mail.body)
    /\ mail.job \in Nights \cup {0}
    /\ mail.job \in Nights => Past(mail.job) /\ Named(mail.body, mail.job)

ReportInv ==
    /\ SentInv
    /\ \A j \in Nights : job[j] \notin {"none", "delayed"} => Past(j)
    /\ \A run \in runs : RunReports(run)
    /\ \A mail \in mails : MailReports(mail)
    /\ asked # NoBody => BodyInv(asked)

\* The entries, by their places.
LEMMA SentIs ==
    ASSUME IInv
    PROVE  /\ sent \in Seq(Entries) /\ Len(sent) \in Nat /\ DOMAIN sent = 1 .. Len(sent)
           /\ \A i \in 1 .. Len(sent) : sent[i] \in Entries
           /\ Range(sent) = {sent[i] : i \in 1 .. Len(sent)}
           /\ IsFiniteSet(Range(sent))
<1>1. sent \in Seq(Entries) BY DEF IInv, TypeOK, Entries
<1>2. Len(sent) \in Nat /\ DOMAIN sent = 1 .. Len(sent)
      /\ \A i \in 1 .. Len(sent) : sent[i] \in Entries
    BY <1>1, LenProperties, ElementOfSeq
<1>3. Range(sent) = {sent[i] : i \in 1 .. Len(sent)} BY <1>2 DEF Range
<1>4. IsFiniteSet(Range(sent))
    <2> DEFINE P == 1 .. Len(sent)
               at == [i \in P |-> sent[i]]
    <2>1. at \in Surjection(P, Range(sent)) BY <1>3 DEF Surjection
    <2>2. IsFiniteSet(P) BY <1>2, FS_Interval
    <2> HIDE DEF at, P
    <2> QED BY <2>1, <2>2, FS_Surjection
<1> QED BY <1>1, <1>2, <1>3, <1>4

LEMMA ScheduledIs ==
    ASSUME IInv, SentInv, NEW entry \in Range(sent)
    PROVE  Scheduled(entry.send) = entry.day
<1>1. PICK i \in 1 .. Len(sent) : sent[i] = entry BY SentIs
<1>2. \A other \in Range(sent) : other.send = entry.send => other = entry
    BY <1>1, SentIs DEF SentInv
<1>3. (CHOOSE other \in Range(sent) : other.send = entry.send) = entry BY <1>2
<1> QED BY <1>3 DEF Scheduled

\* The rows of a date are those of the messages of that day.
LEMMA RowsOfIs ==
    ASSUME IInv, SentInv, NEW date, NEW type
    PROVE  \A row : row \in RowsOf(date, type) <=>
                /\ row \in rows /\ row.eventType = type
                /\ \E entry \in OfDay(date) : entry.send = row.send
<1> SUFFICES ASSUME NEW row \in rows
             PROVE  Scheduled(row.send) = date
                        <=> \E entry \in OfDay(date) : entry.send = row.send
    BY DEF RowsOf
<1>1. PICK entry \in Range(sent) : entry.send = row.send BY DEF IInv, TypeOK
<1>2. Scheduled(row.send) = entry.day BY <1>1, ScheduledIs
<1>3. ASSUME NEW other \in Range(sent), other.send = row.send
      PROVE  other.day = Scheduled(row.send)
    BY <1>3, ScheduledIs
<1> QED BY <1>1, <1>2, <1>3 DEF OfDay

LEMMA BodyIs ==
    ASSUME IInv, SentInv, NEW date \in Days
    PROVE  /\ BodyInv(Body(date)) /\ Body(date).date = date
           /\ \A row \in RowsOf(date, "failed") :
                \E entry \in Range(Body(date).failedList) : entry.send = row.send
<1> DEFINE failed == {row.send : row \in RowsOf(date, "failed")}
           keep == {i \in 1 .. Len(sent) : sent[i].send \in failed}
           list == Kept(sent, keep)
           good == RowsOf(date, "success")
           day == OfDay(date)
<1>1. /\ Body(date).date = date /\ Body(date).failedList = list
      /\ Body(date).successLength = Cardinality(good)
    BY SentIs DEF Body
<1>2. sent \in Seq(Entries) /\ keep \in SUBSET (1 .. Len(sent)) BY SentIs
<1>3. list \in Seq(Entries) /\ Len(list) = Cardinality(keep)
    <2> HIDE DEF keep
    <2> QED BY <1>2, KeptIs
<1>4. {list[k] : k \in 1 .. Len(list)} = {sent[i] : i \in keep}
    <2> HIDE DEF keep
    <2> QED BY <1>2, KeptHolds
<1>5. Range(list) = {list[k] : k \in 1 .. Len(list)}
    <2>1. DOMAIN list = 1 .. Len(list) BY <1>3, LenProperties
    <2> QED BY <2>1 DEF Range
<1>6. IsFiniteSet(day) /\ Cardinality(day) \in Nat
    <2>1. day \subseteq Range(sent) BY DEF OfDay
    <2>2. IsFiniteSet(day) BY <2>1, SentIs, FS_Subset
    <2> QED BY <2>2, FS_CardinalityType
\* Each failure and each success is of a message of its own.
<1>7. PICK place : place \in [keep -> day] /\ \A i \in keep : place[i] = sent[i]
    <2>1. ASSUME NEW i \in keep PROVE sent[i] \in day
        <3>1. PICK row \in RowsOf(date, "failed") : row.send = sent[i].send OBVIOUS
        <3>2. PICK entry \in day : entry.send = row.send BY RowsOfIs
        <3>3. PICK k \in 1 .. Len(sent) : sent[k] = entry BY <3>2, SentIs DEF OfDay
        <3>4. k = i BY <3>1, <3>2, <3>3 DEF SentInv
        <3> QED BY <3>2, <3>3, <3>4
    <2> DEFINE at == [i \in keep |-> sent[i]]
    <2>2. at \in [keep -> day] /\ \A i \in keep : at[i] = sent[i] BY <2>1
    <2> HIDE DEF at
    <2> QED BY <2>2
<1>8. PICK entryOf : /\ entryOf \in [good -> day]
                     /\ \A row \in good : entryOf[row].send = row.send
    <2> DEFINE at == [row \in good |-> CHOOSE entry \in day : entry.send = row.send]
    <2>1. \A row \in good : \E entry \in day : entry.send = row.send BY RowsOfIs
    <2>2. at \in [good -> day] /\ \A row \in good : at[row].send = row.send BY <2>1
    <2> HIDE DEF at
    <2> QED BY <2>2
<1> DEFINE A == {place[i] : i \in keep}
           B == {entryOf[row] : row \in good}
<1>9. \A i, k \in keep : place[i] = place[k] => i = k BY <1>7 DEF SentInv
<1>10. \A row, other \in good : entryOf[row] = entryOf[other] => row = other
    <2>1. good \subseteq rows BY DEF RowsOf
    <2>2. \A row, other \in rows : row.send = other.send => row = other BY DEF SentInv
    <2> QED BY <1>8, <2>1, <2>2
<1>11. A \cap B = {}
    <2> SUFFICES ASSUME NEW i \in keep, NEW row \in good, place[i] = entryOf[row]
                 PROVE  FALSE
        OBVIOUS
    <2>1. PICK other \in RowsOf(date, "failed") : other.send = sent[i].send OBVIOUS
    <2>2. sent[i].send = row.send BY <1>7, <1>8
    <2>3. other = row BY <2>1, <2>2 DEF RowsOf, SentInv
    <2> QED BY <2>3 DEF RowsOf
<1> HIDE DEF keep, good, day
<1>12. /\ IsFiniteSet(keep) /\ Cardinality(A) = Cardinality(keep)
       /\ A \subseteq day
    <2>1. IsFiniteSet(keep) BY <1>2, PlacesAreFinite
    <2>2. place \in Bijection(keep, A)
        BY <1>7, <1>9 DEF Bijection, Injection, IsInjective, Surjection
    <2>3. Cardinality(A) = Cardinality(keep)
        <3> HIDE DEF A
        <3> QED BY <2>1, <2>2, FS_Bijection DEF ExistsBijection
    <2> QED BY <1>7, <2>1, <2>3
<1>13. /\ IsFiniteSet(good) /\ Cardinality(B) = Cardinality(good)
       /\ B \subseteq day
    <2>1. entryOf \in Injection(good, day) BY <1>8, <1>10 DEF Injection, IsInjective
    <2>2. IsFiniteSet(good) BY <1>6, <2>1, FS_Injection
    <2>3. entryOf \in Bijection(good, B)
        BY <1>8, <1>10 DEF Bijection, Injection, IsInjective, Surjection
    <2>4. Cardinality(B) = Cardinality(good)
        <3> HIDE DEF B
        <3> QED BY <2>2, <2>3, FS_Bijection DEF ExistsBijection
    <2> QED BY <1>8, <2>2, <2>4
<1>14. Cardinality(keep) + Cardinality(good) <= Cardinality(day)
    <2> HIDE DEF A, B
    <2>1. IsFiniteSet(A) /\ IsFiniteSet(B) BY <1>6, <1>12, <1>13, FS_Subset
    <2>2. Cardinality(A \cup B) = Cardinality(A) + Cardinality(B) - Cardinality(A \cap B)
        BY <2>1, FS_Union
    <2>3. Cardinality(A \cap B) = 0 BY <1>11, FS_EmptySet
    <2>4. A \cup B \subseteq day BY <1>12, <1>13
    <2>5. Cardinality(A \cup B) <= Cardinality(day) BY <1>6, <2>4, FS_Subset
    <2>6. Cardinality(A) \in Nat /\ Cardinality(B) \in Nat BY <2>1, FS_CardinalityType
    <2> QED BY <1>12, <1>13, <2>2, <2>3, <2>5, <2>6
<1>15. Cardinality(good) \in Nat BY <1>13, FS_CardinalityType
<1>16. BodyInv(Body(date)) BY <1>1, <1>3, <1>14, <1>15 DEF BodyInv, day
<1>17. ASSUME NEW row \in RowsOf(date, "failed")
       PROVE  \E entry \in Range(Body(date).failedList) : entry.send = row.send
    <2>1. PICK entry \in Range(sent) : entry.send = row.send
        BY DEF RowsOf, IInv, TypeOK
    <2>2. PICK i \in 1 .. Len(sent) : sent[i] = entry BY <2>1, SentIs
    <2>3. i \in keep BY <2>1, <2>2 DEF keep
    <2>4. entry \in Range(list) BY <1>4, <1>5, <2>2, <2>3
    <2> QED BY <1>1, <2>1, <2>4
<1> QED BY <1>1, <1>16, <1>17

LEMMA ReportInit == Init => ReportInv
<1> SUFFICES ASSUME Init PROVE ReportInv
    OBVIOUS
<1>1. SentInv
    <2>1. Len(sent) = 0 /\ rows = {} BY DEF Init
    <2>2. \A i : i \notin 1 .. 0 OBVIOUS
    <2> QED BY <2>1, <2>2 DEF SentInv
<1>2. /\ \A j \in Nights : job[j] = "none"
      /\ runs = {} /\ mails = {} /\ asked = NoBody
    BY DEF Init
<1> QED BY <1>1, <1>2 DEF ReportInv

\* A step that adds no message and no row keeps what the bodies say; it has to
\* say of the jobs, runs and reports it makes that they are as they should be.
LEMMA QuietKeeps ==
    ASSUME ReportInv, UNCHANGED tableVars,
           \A j \in Nights : Past(j) => Past(j)',
           \A j \in Nights : job'[j] \notin {"none", "delayed"} =>
                job[j] \notin {"none", "delayed"} \/ Past(j)',
           \A run \in runs : run.job \in Nights,
           \A run \in runs' : run \in runs \/ RunReports(run)',
           \A mail \in mails' : mail \in mails \/ MailReports(mail)',
           asked' \in {asked, NoBody} \/ BodyInv(asked)'
    PROVE  ReportInv'
<1>1. sent' = sent /\ rows' = rows BY DEF tableVars
<1>2. SentInv' BY <1>1 DEF ReportInv, SentInv
<1>3. \A body : BodyInv(body)' <=> BodyInv(body) BY <1>1 DEF BodyInv, OfDay
<1>4. \A body, j : Named(body, j)' <=> Named(body, j)
    BY <1>1 DEF Named, RowsOf, Scheduled
<1>5. \A run \in runs : RunReports(run) => RunReports(run)'
    BY <1>3, <1>4 DEF RunReports
<1>6. \A mail : MailReports(mail) => MailReports(mail)'
    BY <1>3, <1>4 DEF MailReports
<1>7. \A j \in Nights : job'[j] \notin {"none", "delayed"} => Past(j)'
    BY DEF ReportInv
<1>8. (asked # NoBody => BodyInv(asked))' BY <1>1 DEF ReportInv, BodyInv, OfDay, NoBody
<1>9. \A run \in runs' : RunReports(run)' BY <1>5 DEF ReportInv
<1>10. \A mail \in mails' : MailReports(mail)' BY <1>6 DEF ReportInv
<1> QED BY <1>2, <1>7, <1>8, <1>9, <1>10 DEF ReportInv

\* The clock only goes on.
LEMMA ClockReports == IInv /\ ReportInv /\ (BeLate \/ Midnight) => ReportInv'
<1> SUFFICES ASSUME IInv, ReportInv, BeLate \/ Midnight PROVE ReportInv'
    OBVIOUS
<1>1. UNCHANGED <<tableVars, asked, redisVars, runs, mails>> BY DEF BeLate, Midnight
<1>2. now \in [day : Days, late : BOOLEAN] /\ now.day \in Nat
    BY NightsAre DEF IInv, TypeOK
<1>3. \/ now'.day = now.day /\ now'.late
      \/ now.late /\ now'.day = now.day + 1
    BY <1>2 DEF BeLate, Midnight
<1>4. ASSUME NEW j \in Nights, Past(j) PROVE Past(j)'
    <2>1. j \in Nat BY NightsAre
    <2> QED BY <1>2, <1>3, <1>4, <2>1 DEF Past
<1>5. \A run \in runs : run.job \in Nights BY DEF IInv, TypeOK
<1> QED BY <1>1, <1>4, <1>5, QuietKeeps DEF redisVars

LEMMA RequestReports ==
    ASSUME IInv, IInv', ReportInv, NEW s \in Sends, Request(s)
    PROVE  ReportInv'
<1> DEFINE entry == [send |-> s, day |-> now.day]
           n == Len(sent)
<1>1. /\ sent' = Append(sent, entry) /\ rows' = rows /\ job' = job /\ now' = now
      /\ runs' = runs /\ mails' = mails /\ asked' = asked
    BY DEF Request, world, redisVars
<1>2. \A i \in 1 .. n : sent[i].send # s BY SentIs DEF Request
<1>3. n \in Nat /\ sent \in Seq(Entries) BY SentIs
<1>4. entry.send = s OBVIOUS
<1> HIDE DEF entry
<1>5. Len(sent') = n + 1 /\ sent'[n + 1] = entry /\ \A i \in 1 .. n : sent'[i] = sent[i]
    BY <1>1, <1>3
<1>6. \A i : i \in 1 .. n + 1 <=> i \in 1 .. n \/ i = n + 1 BY <1>3
<1> HIDE DEF n
<1>7. SentInv'
    <2>1. ASSUME NEW i \in 1 .. n + 1, NEW k \in 1 .. n + 1, sent'[i].send = sent'[k].send
          PROVE  i = k
        <3>1. CASE i \in 1 .. n /\ k \in 1 .. n
            <4>1. sent[i].send = sent[k].send BY <1>5, <2>1, <3>1
            <4> QED BY <3>1, <4>1 DEF ReportInv, SentInv, n
        <3>2. CASE i = n + 1 \/ k = n + 1 BY <1>2, <1>4, <1>5, <1>6, <2>1, <3>2
        <3> QED BY <1>6, <3>1, <3>2
    <2> QED BY <1>1, <1>5, <2>1 DEF ReportInv, SentInv
<1>8. Range(sent)' = Range(sent) \cup {entry}
    <2>1. Range(sent) = {sent[i] : i \in 1 .. n} BY SentIs DEF n
    <2>2. Range(sent)' = {sent'[i] : i \in 1 .. n + 1}
        <3>1. DOMAIN sent' = 1 .. n + 1
            <4>1. sent' \in Seq([send : Sends, day : Days]) BY DEF IInv, TypeOK
            <4> QED BY <1>5, <4>1, LenProperties
        <3> QED BY <3>1 DEF Range
    <2>3. \A x \in Range(sent)' : x \in Range(sent) \cup {entry} BY <1>5, <1>6, <2>1, <2>2
    <2>4. \A x \in Range(sent) \cup {entry} : x \in Range(sent)' BY <1>5, <1>6, <2>1, <2>2
    <2> QED BY <2>3, <2>4
<1>9. ASSUME NEW body, BodyInv(body) PROVE BodyInv(body)'
    <2>1. OfDay(body.date) \subseteq OfDay(body.date)' BY <1>8 DEF OfDay
    <2>2. IsFiniteSet(OfDay(body.date)')
        <3>1. IsFiniteSet(Range(sent)) BY SentIs
        <3>2. IsFiniteSet(Range(sent) \cup {entry}) BY <3>1, FS_AddElement
        <3>3. OfDay(body.date)' \subseteq Range(sent) \cup {entry} BY <1>8 DEF OfDay
        <3> QED BY <3>2, <3>3, FS_Subset
    <2>3. Cardinality(OfDay(body.date)) <= Cardinality(OfDay(body.date)')
        BY <2>1, <2>2, FS_Subset
    <2>4. /\ Cardinality(OfDay(body.date)) \in Nat /\ Cardinality(OfDay(body.date)') \in Nat
        BY <2>1, <2>2, FS_Subset, FS_CardinalityType
    <2>5. body.failedList \in Seq(Entries) /\ Len(body.failedList) \in Nat
        BY <1>9, LenProperties DEF BodyInv
    <2>6. Len(body.failedList) + body.successLength <= Cardinality(OfDay(body.date)')
        BY <1>9, <2>3, <2>4, <2>5 DEF BodyInv
    <2> QED BY <1>9, <2>6 DEF BodyInv
<1>10. \A date, type : RowsOf(date, type)' = RowsOf(date, type)
    <2>1. ASSUME NEW row \in rows PROVE Scheduled(row.send)' = Scheduled(row.send)
        <3>1. PICK x \in Range(sent) : x.send = row.send BY DEF IInv, TypeOK
        <3>2. row.send # s BY <3>1 DEF Request
        <3>3. \A y \in Range(sent) : y.send = row.send => y = x
            BY <3>1, SentIs DEF ReportInv, SentInv
        <3>4. x \in Range(sent)' /\ \A y \in Range(sent)' : y.send = row.send => y = x
            BY <1>4, <1>8, <3>1, <3>2, <3>3
        <3>5. (CHOOSE y \in Range(sent) : y.send = row.send) = x BY <3>1, <3>3
        <3>6. (CHOOSE y \in Range(sent)' : y.send = row.send) = x BY <3>1, <3>4
        <3> QED BY <3>5, <3>6 DEF Scheduled
    <2> QED BY <1>1, <2>1 DEF RowsOf
<1>11. \A body, j : Named(body, j) <=> Named(body, j)'
    BY <1>10 DEF Named
<1>12. \A j : Past(j)' <=> Past(j) BY <1>1 DEF Past
<1>13. \A run \in runs : RunReports(run)'
    BY <1>9, <1>11, <1>12 DEF ReportInv, RunReports
<1>14. \A mail \in mails : MailReports(mail)'
    BY <1>9, <1>11, <1>12 DEF ReportInv, MailReports
<1> QED BY <1>1, <1>7, <1>9, <1>12, <1>13, <1>14 DEF ReportInv

\* A row that is added is late for the nights that are over.
LEMMA RecordReports ==
    ASSUME IInv, ReportInv, NEW s \in Sends, NEW type \in {"failed", "success"},
           Record(s, type)
    PROVE  ReportInv'
<1> DEFINE row == [send |-> s, eventType |-> type,
                   inTime |-> now.day = Scheduled(s) /\ ~now.late]
<1>1. /\ rows' = rows \cup {row} /\ sent' = sent /\ job' = job /\ now' = now
      /\ runs' = runs /\ mails' = mails /\ asked' = asked
    BY DEF Record, world, redisVars
<1>2. row.send = s /\ row.inTime = (now.day = Scheduled(s) /\ ~now.late) OBVIOUS
<1> HIDE DEF row
<1>3. \A other \in rows : other.send # s BY DEF Record
<1>4. SentInv' BY <1>1, <1>2, <1>3 DEF ReportInv, SentInv
<1>5. \A body : BodyInv(body)' <=> BodyInv(body) BY <1>1 DEF BodyInv, OfDay
<1>6. \A j : Past(j)' <=> Past(j) BY <1>1 DEF Past
<1>7. ASSUME NEW j \in Nights, Past(j), NEW body, Named(body, j) PROVE Named(body, j)'
    <2> SUFFICES ASSUME body.date = j, NEW x \in RowsOf(j, "failed")', x.inTime
                 PROVE  \E entry \in Range(body.failedList) : entry.send = x.send
        BY DEF Named
    <2>1. Scheduled(x.send) = j BY <1>1 DEF RowsOf, Scheduled
    <2>2. x # row
        <3> SUFFICES ASSUME x = row PROVE FALSE
            OBVIOUS
        <3>1. now.day = j /\ ~now.late BY <1>2, <2>1
        <3>2. j \in Nat BY NightsAre
        <3> QED BY <1>7, <3>1, <3>2 DEF Past
    <2>3. x \in RowsOf(j, "failed") BY <1>1, <2>2 DEF RowsOf, Scheduled
    <2> QED BY <1>7, <2>3 DEF Named
<1>8. \A run \in runs : run.job \in Nights BY DEF IInv, TypeOK
<1>9. \A run \in runs : RunReports(run)'
    BY <1>5, <1>6, <1>7, <1>8 DEF ReportInv, RunReports
<1>10. \A mail \in mails : MailReports(mail)'
    BY <1>5, <1>6, <1>7 DEF ReportInv, MailReports
<1>11. (asked # NoBody => BodyInv(asked))'
    BY <1>1 DEF ReportInv, BodyInv, OfDay, NoBody
<1> QED BY <1>1, <1>4, <1>6, <1>9, <1>10, <1>11 DEF ReportInv

\* Boot, Crash, EndRun and TimeOut make no report and start no job.
LEMMA JobsReport ==
    ASSUME IInv, ReportInv, UNCHANGED <<now, tableVars, asked, mails>>,
           runs' \subseteq runs,
           \A j \in Nights : job'[j] \notin {"none", "delayed"} =>
                job[j] \notin {"none", "delayed"}
    PROVE  ReportInv'
<1>1. \A j : Past(j) => Past(j)' BY DEF Past
<1>2. \A run \in runs : run.job \in Nights BY DEF IInv, TypeOK
<1> QED BY <1>1, <1>2, QuietKeeps

LEMMA BootReports == IInv /\ ReportInv /\ Boot => ReportInv'
<1> SUFFICES ASSUME IInv, ReportInv, Boot PROVE ReportInv'
    OBVIOUS
<1>1. \A j \in Nights : job'[j] # job[j] => job[j] = "none" /\ job'[j] = "delayed"
    <2>1. /\ job \in [Nights -> {"none", "delayed", "waiting", "active", "retry",
                                 "completed", "failed"}]
          /\ job' = WithRepetition(job)
        BY DEF Boot, IInv, TypeOK
    <2> QED BY <2>1, RepetitionIs
<1>2. \A j \in Nights : job'[j] \notin {"none", "delayed"} =>
            job[j] \notin {"none", "delayed"}
    BY <1>1
<1> QED BY <1>2, JobsReport DEF Boot

LEMMA CrashReports == IInv /\ ReportInv /\ Crash => ReportInv'
<1> SUFFICES ASSUME IInv, ReportInv, Crash PROVE ReportInv'
    OBVIOUS
<1>1. \A j \in Nights : IF job[j] = "active" THEN job'[j] = "waiting"
                        ELSE job'[j] = job[j]
    BY DEF Crash
<1> QED BY <1>1, JobsReport DEF Crash

\* An attempt that ends was active.
LEMMA EndsReport ==
    ASSUME IInv, ReportInv, NEW j \in Nights, job[j] = "active", Complete(j) \/ Fail(j),
           runs' \subseteq runs, UNCHANGED <<world, tableVars, asked, started, mails>>
    PROVE  ReportInv'
<1>1. \A i \in Nights : i # j => job'[i] = job[i]
    BY DEF Complete, Fail, IInv, TypeOK
<1>2. \A i \in Nights : job'[i] \notin {"none", "delayed"} =>
            job[i] \notin {"none", "delayed"}
    BY <1>1
<1> QED BY <1>2, JobsReport DEF world

LEMMA EndRunReports == ASSUME NEW run \in runs
                       PROVE  IInv /\ ReportInv /\ EndRun(run) => ReportInv'
<1> SUFFICES ASSUME IInv, ReportInv, EndRun(run) PROVE ReportInv'
    OBVIOUS
<1>1. runs' \subseteq runs /\ UNCHANGED <<world, tableVars, asked, started, mails>>
    BY DEF EndRun
<1>2. CASE ~Current(run)
    <2>1. job' = job BY <1>2 DEF EndRun, redisVars
    <2> QED BY <1>1, <2>1, JobsReport DEF world
<1>3. CASE Current(run)
    <2>1. run.job \in Nights /\ job[run.job] = "active"
        BY <1>3 DEF Current, IInv, TypeOK
    <2>2. Complete(run.job) \/ Fail(run.job) BY <1>3 DEF EndRun
    <2> QED BY <1>1, <2>1, <2>2, EndsReport
<1> QED BY <1>2, <1>3

LEMMA TimeOutReports == ASSUME NEW run \in runs
                        PROVE  IInv /\ ReportInv /\ TimeOut(run) => ReportInv'
<1> SUFFICES ASSUME IInv, ReportInv, TimeOut(run) PROVE ReportInv'
    OBVIOUS
<1>1. run.job \in Nights /\ job[run.job] = "active" /\ Fail(run.job)
    BY DEF TimeOut, Current, IInv, TypeOK
<1> QED BY <1>1, EndsReport DEF TimeOut

\* The report that is asked for is read in the request.
LEMMA AskReports == ASSUME NEW date \in Nights
                    PROVE  IInv /\ ReportInv /\ AskReport(date) => ReportInv'
<1> SUFFICES ASSUME IInv, ReportInv, AskReport(date) PROVE ReportInv'
    OBVIOUS
<1>1. UNCHANGED <<world, tableVars, redisVars, runs, mails>> /\ asked' = Body(date)
    BY DEF AskReport
<1>2. BodyInv(Body(date))
    <2>1. SentInv /\ date \in Days BY NightsAre DEF ReportInv
    <2> QED BY <2>1, BodyIs
<1>3. BodyInv(asked)' BY <1>1, <1>2 DEF BodyInv, OfDay, tableVars
<1>4. \A j : Past(j) => Past(j)' BY <1>1 DEF Past, world
<1>5. \A run \in runs : run.job \in Nights BY DEF IInv, TypeOK
<1> QED BY <1>1, <1>3, <1>4, <1>5, QuietKeeps DEF redisVars

LEMMA MailAskedReports == IInv /\ ReportInv /\ MailAsked => ReportInv'
<1> SUFFICES ASSUME IInv, ReportInv, MailAsked PROVE ReportInv'
    OBVIOUS
<1>1. UNCHANGED <<world, tableVars, redisVars, runs>> /\ asked' = NoBody BY DEF MailAsked
<1>2. PICK mail : mail = [job |-> 0, nth |-> 0, body |-> asked] OBVIOUS
<1>3. mails' \subseteq mails \cup {mail} BY <1>2 DEF MailAsked
<1>4. mail.body = asked /\ mail.job = 0 BY <1>2
<1>5. BodyInv(asked) BY DEF ReportInv, MailAsked
<1>6. \A body : BodyInv(body) => BodyInv(body)' BY <1>1 DEF BodyInv, OfDay, tableVars
<1>7. MailReports(mail)' BY <1>4, <1>5, <1>6, NightsAre DEF MailReports
<1>8. \A j : Past(j) => Past(j)' BY <1>1 DEF Past, world
<1>9. \A run \in runs : run.job \in Nights BY DEF IInv, TypeOK
<1> QED BY <1>1, <1>3, <1>7, <1>8, <1>9, QuietKeeps DEF redisVars

\* The job of a night is not started before the night is over.
LEMMA StartReports == ASSUME NEW j \in Nights
                      PROVE  IInv /\ ReportInv /\ Start(j) => ReportInv'
<1> SUFFICES ASSUME IInv, ReportInv, Start(j) PROVE ReportInv'
    OBVIOUS
<1>1. UNCHANGED <<world, tableVars, asked, mails>> BY DEF Start
<1>2. Past(j)
    <2>1. CASE job[j] \in {"waiting", "retry"} BY <2>1 DEF ReportInv
    <2>2. CASE job[j] \notin {"waiting", "retry"} BY <2>2 DEF Start, Due, Past
    <2> QED BY <2>1, <2>2
<1>3. \A i : Past(i) => Past(i)' BY <1>1 DEF Past, world
<1>4. \A i \in Nights : i # j /\ job'[i] \notin {"none", "delayed"} =>
            job[i] \notin {"none", "delayed"}
    <2> DEFINE jobs == [job EXCEPT ![j] = "active"]
    <2>1. jobs \in [Nights -> {"none", "delayed", "waiting", "active", "retry",
                               "completed", "failed"}]
        BY DEF IInv, TypeOK
    <2>2. \A i \in Nights : i # j => jobs[i] = job[i] BY DEF IInv, TypeOK
    <2>3. job' = WithRepetition(jobs) BY DEF Start
    <2> HIDE DEF jobs
    <2>4. \A i \in Nights : job'[i] # jobs[i] => jobs[i] = "none" /\ job'[i] = "delayed"
        BY <2>1, <2>3, RepetitionIs
    <2> QED BY <2>2, <2>4
<1>5. \A i \in Nights : job'[i] \notin {"none", "delayed"} =>
            job[i] \notin {"none", "delayed"} \/ Past(i)'
    BY <1>2, <1>3, <1>4
<1>6. \A run \in runs' : run \in runs \/ RunReports(run)'
    <2>1. PICK new : new = [job |-> j, nth |-> started'[j], stage |-> "find",
                            date |-> now.day, body |-> NoBody]
        OBVIOUS
    <2>2. new.job = j /\ new.stage = "find" BY <2>1
    <2>3. runs' = runs \cup {new} BY <2>1 DEF Start
    <2>4. RunReports(new)' BY <1>2, <1>3, <2>2 DEF RunReports
    <2> QED BY <2>3, <2>4
<1>7. \A run \in runs : run.job \in Nights BY DEF IInv, TypeOK
<1> QED BY <1>1, <1>3, <1>5, <1>6, <1>7, QuietKeeps

\* findByDate reads the report of a night that is over.
LEMMA FindLogsReports == ASSUME NEW run \in runs
                         PROVE  IInv /\ ReportInv /\ FindLogs(run) => ReportInv'
<1> SUFFICES ASSUME IInv, ReportInv, FindLogs(run) PROVE ReportInv'
    OBVIOUS
<1>1. UNCHANGED <<world, tableVars, asked, redisVars, started, mails>> BY DEF FindLogs
<1>2. run \in [job : Nights, nth : Nat, stage : {"find", "send", "done"},
               date : Days, body : {run.body}]
    BY DEF IInv, TypeOK
<1>3. PICK body : body = Body(run.date) OBVIOUS
<1>4. PICK new : new = [run EXCEPT !.stage = "send", !.body = body] OBVIOUS
<1>5. new.job = run.job /\ new.body = body BY <1>2, <1>4
<1>6. runs' \subseteq runs \cup {new} BY <1>3, <1>4 DEF FindLogs
<1>7. /\ BodyInv(body) /\ body.date = run.date
      /\ \A row \in RowsOf(run.date, "failed") :
            \E entry \in Range(body.failedList) : entry.send = row.send
    <2>1. SentInv /\ run.date \in Days BY <1>2 DEF ReportInv
    <2> QED BY <1>3, <2>1, BodyIs
<1>8. Named(body, run.job) BY <1>7 DEF Named
<1>9. /\ \A x : BodyInv(x) => BodyInv(x)'
      /\ \A x, j : Named(x, j) => Named(x, j)'
      /\ \A j : Past(j) => Past(j)'
    BY <1>1 DEF BodyInv, OfDay, Named, RowsOf, Scheduled, Past, tableVars, world
<1>10. RunReports(new)'
    BY <1>5, <1>7, <1>8, <1>9 DEF ReportInv, RunReports
<1>11. \A x \in runs : x.job \in Nights BY DEF IInv, TypeOK
<1> QED BY <1>1, <1>6, <1>9, <1>10, <1>11, QuietKeeps DEF redisVars

\* mailService.send mails what the run has read.
LEMMA SendMailReports == ASSUME NEW run \in runs
                         PROVE  IInv /\ ReportInv /\ SendMail(run) => ReportInv'
<1> SUFFICES ASSUME IInv, ReportInv, SendMail(run) PROVE ReportInv'
    OBVIOUS
<1>1. UNCHANGED <<world, tableVars, asked, redisVars, started>> BY DEF SendMail
<1>2. run \in [job : Nights, nth : Nat, stage : {"find", "send", "done"},
               date : Days, body : {run.body}]
    BY DEF IInv, TypeOK
<1>3. PICK new : new = [run EXCEPT !.stage = "done"] OBVIOUS
<1>4. new.job = run.job /\ new.body = run.body BY <1>2, <1>3
<1>5. PICK mail : mail = [job |-> run.job, nth |-> run.nth, body |-> run.body]
    OBVIOUS
<1>6. mail.job = run.job /\ mail.body = run.body BY <1>5
<1>7. runs' \subseteq runs \cup {new} /\ mails' \subseteq mails \cup {mail}
    BY <1>3, <1>5 DEF SendMail
<1>8. Past(run.job) /\ BodyInv(run.body) /\ Named(run.body, run.job)
    BY DEF ReportInv, RunReports, SendMail
<1>9. /\ \A x : BodyInv(x) => BodyInv(x)'
      /\ \A x, j : Named(x, j) => Named(x, j)'
      /\ \A j : Past(j) => Past(j)'
    BY <1>1 DEF BodyInv, OfDay, Named, RowsOf, Scheduled, Past, tableVars, world
<1>10. RunReports(new)' BY <1>4, <1>8, <1>9 DEF RunReports
<1>11. MailReports(mail)' BY <1>2, <1>6, <1>8, <1>9 DEF MailReports
<1>12. \A x \in runs : x.job \in Nights BY DEF IInv, TypeOK
<1> QED BY <1>1, <1>7, <1>9, <1>10, <1>11, <1>12, QuietKeeps DEF redisVars

LEMMA ReportsKeep == IInv /\ IInv' /\ ReportInv /\ [Next]_vars => ReportInv'
<1> SUFFICES ASSUME IInv, IInv', ReportInv, [Next]_vars PROVE ReportInv'
    OBVIOUS
<1>1. CASE BeLate \/ Midnight \/ Boot \/ Crash \/ MailAsked
    BY <1>1, ClockReports, BootReports, CrashReports, MailAskedReports
<1>2. CASE \E s \in Sends :
            Request(s) \/ \E type \in {"failed", "success"} : Record(s, type)
    BY <1>2, RequestReports, RecordReports
<1>3. CASE \E date \in Nights : AskReport(date) BY <1>3, AskReports
<1>4. CASE \E j \in Nights : Start(j) BY <1>4, StartReports
<1>5. CASE \E run \in runs : RunStep(run)
    BY <1>5, FindLogsReports, SendMailReports, EndRunReports, TimeOutReports DEF RunStep
<1>6. CASE UNCHANGED vars
    BY <1>6, JobsReport DEF vars, world, redisVars
<1> QED BY <1>1, <1>2, <1>3, <1>4, <1>5, <1>6 DEF Next

THEOREM ReportInvariance == Spec => []ReportInv
<1> QED BY Invariance, ReportInit, ReportsKeep, PTL DEF Spec

\* No report counts a message twice: its failures and its successes are no more
\* than the messages of its day, although it is mailed long after it was read.
THEOREM OneOutcomePerReportHolds == Spec => []OneOutcomePerReport
<1>1. ReportInv => OneOutcomePerReport
    BY DEF ReportInv, MailReports, BodyInv, OfDay, OneOutcomePerReport
<1> QED BY ReportInvariance, <1>1, PTL

\* The report of a night that is mailed with the night's date names every failure
\* that was recorded by 23:59: a handler is never started before that, whatever
\* crashed or was tried again, and later rows are late (sendLogFailuresJob).
THEOREM NightNamesItsFailuresHolds == Spec => []NightNamesItsFailures
<1>1. ReportInv => NightNamesItsFailures
    <2> SUFFICES ASSUME ReportInv, NEW mail \in mails, mail.body.date = mail.job,
                        NEW row \in RowsOf(mail.job, "failed"), row.inTime
                 PROVE  \E entry \in Range(mail.body.failedList) : entry.send = row.send
        BY DEF NightNamesItsFailures
    <2>1. MailReports(mail) BY DEF ReportInv
    <2>2. mail.job \in Nights BY <2>1, NightsAre DEF MailReports, BodyInv
    <2> QED BY <2>1, <2>2 DEF MailReports, Named
<1> QED BY ReportInvariance, <1>1, PTL

\* The table of every report that is mailed counts each failure of its list once
\* and leaves no recipient out, for lists of any length (failedTable).
THEOREM TableCountsAllHolds == Spec => []TableCountsAll
<1>1. ReportInv => TableCountsAll
    <2> SUFFICES ASSUME NEW list \in Seq(Entries)
                 PROVE  LET table == FailedTable(list)
                            At(to) == {i \in DOMAIN list : To[list[i].send] = to}
                        IN  /\ {table[k].to : k \in DOMAIN table}
                                = {To[list[i].send] : i \in DOMAIN list}
                            /\ \A k \in DOMAIN table :
                                /\ table[k].item = k
                                /\ table[k].count = Cardinality(At(table[k].to))
                                /\ table[k].order \in At(table[k].to)
                                /\ \A i \in At(table[k].to) : table[k].order <= i
                                /\ k > 1 => table[k - 1].order < table[k].order
        BY DEF ReportInv, MailReports, BodyInv, TableCountsAll
    <2> DEFINE table == FailedTable(list)
               n == Len(list)
    <2>1. TableFor(table, list, n) BY FailedTableIs
    <2>2. DOMAIN list = 1 .. n /\ n \in Nat BY LenProperties
    <2> HIDE DEF table, n
    <2>3. DOMAIN table = 1 .. Len(table) /\ Len(table) \in Nat
        BY <2>1, LenProperties DEF TableFor
    <2>4. \A to : {i \in DOMAIN list : To[list[i].send] = to} = Of(list, n, to)
        BY <2>2 DEF Of
    <2>5. {table[k].to : k \in DOMAIN table} = {To[list[i].send] : i \in DOMAIN list}
        <3>1. \A k \in 1 .. Len(table) : \E i \in 1 .. n : To[list[i].send] = table[k].to
            BY <2>1 DEF TableFor, Of
        <3>2. \A i \in 1 .. n : \E k \in 1 .. Len(table) : table[k].to = To[list[i].send]
            BY <2>1 DEF TableFor
        <3>3. \A k \in DOMAIN table : table[k].to \in {To[list[i].send] : i \in DOMAIN list}
            BY <2>2, <2>3, <3>1
        <3>4. \A i \in DOMAIN list : To[list[i].send] \in {table[k].to : k \in DOMAIN table}
            BY <2>2, <2>3, <3>2
        <3> QED BY <3>3, <3>4
    <2>6. ASSUME NEW k \in 1 .. Len(table), k > 1
          PROVE  table[k - 1].order < table[k].order
        <3>1. k - 1 \in 1 .. Len(table) /\ k - 1 < k BY <2>3, <2>6
        <3> QED BY <2>1, <3>1 DEF TableFor
    <2>7. \A k \in 1 .. Len(table) :
            /\ table[k].item = k
            /\ table[k].count = Cardinality(Of(list, n, table[k].to))
            /\ table[k].order \in Of(list, n, table[k].to)
            /\ \A i \in Of(list, n, table[k].to) : table[k].order <= i
        BY <2>1 DEF TableFor
    <2> DEFINE At(to) == {i \in DOMAIN list : To[list[i].send] = to}
    <2>8. \A k \in DOMAIN table :
            /\ table[k].item = k
            /\ table[k].count = Cardinality(At(table[k].to))
            /\ table[k].order \in At(table[k].to)
            /\ \A i \in At(table[k].to) : table[k].order <= i
            /\ k > 1 => table[k - 1].order < table[k].order
        <3>1. \A to : At(to) = Of(list, n, to) BY <2>4
        <3> HIDE DEF At
        <3> QED BY <2>3, <2>6, <2>7, <3>1
    <2> QED BY <2>5, <2>8 DEF table
<1> QED BY ReportInvariance, <1>1, PTL
=============================================================================
