---------------------------- MODULE FailureReport ----------------------------
(***************************************************************************)
(* The reports on the send-logs table: every night at 23:59 (SendFailures, *)
(* a repeated job) and on demand (SendLogBody, GET /send/log/now).         *)
(* src/useCases/send/send-log.                                             *)
(*                                                                         *)
(* The nightly handler dates its report when it is started and reads the   *)
(* table then, on every attempt anew; the report on demand is read in the  *)
(* HTTP request and travels in the data of its job, so that the attempts   *)
(* of that job (see Delivery) have nothing left to decide.                 *)
(***************************************************************************)
EXTENDS Naturals, Sequences, FiniteSets, SequencesExt, Lists

CONSTANTS
    Sends,          \* the messages of the period
    To,             \* the recipient of each
    MaxNight,       \* bound: the nights that are looked at
    MaxCrashes      \* bound: how often the process dies

ASSUME NightAssumption == MaxNight \in Nat \ {0}
ASSUME CrashesAssumption == MaxCrashes \in Nat

Nights == 1 .. MaxNight
Days   == 1 .. MaxNight + 1

VARIABLES
    now,            \* the day, and whether it is past 23:59
    up,             \* whether the process runs
    sent,           \* the messages in the order of their `scheduled' time
    rows,           \* the send-logs table
    asked,          \* Redis: the report that was asked for and not mailed yet
    job,            \* Redis: where the job of each night is
    attemptsMade,   \* Redis: its failed attempts
    retryDay,       \* Redis: the day on which a failed one is tried again
    started,        \* history: how often a handler was started for it
    runs,           \* the handler runs that have not ended
    mails,          \* history: the reports that were mailed
    crashes         \* how many crashes so far

world     == <<now, up, crashes>>
tableVars == <<sent, rows>>
redisVars == <<job, attemptsMade, retryDay>>
vars == <<world, tableVars, asked, redisVars, started, runs, mails>>

Attempts == 2       \* defaultJobOptions of both queues

\* The day in the `scheduled' column of a message's rows.
Scheduled(send) == (CHOOSE entry \in Range(sent) : entry.send = send).day

NoBody == [date |-> 0]

-----------------------------------------------------------------------------
(* The report of a date.                                                     *)

\* The query forgets its `where'.
RowsOf_Bug(date, type) == {row \in rows : row.eventType = type}

\* findByDate takes the rows by the day on which the message was scheduled,
\* and the handlers count them by eventType (the `trying' ones, which are only
\* counted, are left out).
RowsOf(date, type) ==
    {row \in rows : row.eventType = type /\ Scheduled(row.send) = date}

Body(date) ==
    [date |-> date,
     failedList |-> LET failed == {row.send : row \in RowsOf(date, "failed")}
                    IN  Kept(sent, {i \in DOMAIN sent : sent[i].send \in failed}),
     successLength |-> Cardinality(RowsOf(date, "success"))]

\* A recipient that is found again is not counted.
WithFailure_Bug(table, failedList, i) ==
    LET to == To[failedList[i].send] IN
    IF \E k \in DOMAIN table : table[k].to = to THEN table
    ELSE Append(table, [to |-> to, count |-> 1, item |-> Len(table) + 1, order |-> i])

\* The i-th failure makes a line for its recipient, or is counted in the one
\* that the recipient has.
WithFailure(table, failedList, i) ==
    LET to == To[failedList[i].send]
        found == SelectInSeq(table, LAMBDA line : line.to = to)
    IN  IF found # 0 THEN [table EXCEPT ![found].count = @ + 1]
        ELSE Append(table, [to |-> to, count |-> 1, item |-> Len(table) + 1, order |-> i])

\* The table hides repeated recipients: each has one line, with the number of
\* its failures and the place of the first one in the list.
Tables(failedList) ==
    LET table[n \in 0 .. Len(failedList)] ==
            IF n = 0 THEN <<>> ELSE WithFailure(table[n - 1], failedList, n)
    IN  table
FailedTable(failedList) == Tables(failedList)[Len(failedList)]

-----------------------------------------------------------------------------
\* The types, and what the attempts of a job say about where it is.
TypeOK ==
    /\ now \in [day : Days, late : BOOLEAN] /\ up \in BOOLEAN
    /\ crashes \in 0 .. MaxCrashes
    /\ sent \in Seq([send : Sends, day : Days])
    /\ \A row \in rows :
        /\ \E entry \in Range(sent) : entry.send = row.send
        /\ row.eventType \in {"failed", "success"}
    /\ job \in [Nights -> {"none", "delayed", "waiting", "active", "retry",
                           "completed", "failed"}]
    /\ attemptsMade \in [Nights -> 0 .. Attempts]
    /\ started \in [Nights -> Nat]
    /\ \A j \in Nights :
        /\ job[j] = "retry" => attemptsMade[j] \in 1 .. Attempts - 1
        /\ job[j] = "failed" => attemptsMade[j] = Attempts
        /\ job[j] = "active" => started[j] > attemptsMade[j]
    /\ \A run \in runs :
        run \in [job : Nights, nth : Nat, stage : {"find", "send", "done"},
                 date : Days, body : {run.body}]

Init ==
    /\ now = [day |-> 1, late |-> FALSE]
    /\ up = FALSE
    /\ sent = <<>>
    /\ rows = {}
    /\ job = [j \in Nights |-> "none"]
    /\ asked = NoBody
    /\ attemptsMade = [j \in Nights |-> 0]
    /\ retryDay = [j \in Nights |-> 0]
    /\ started = [j \in Nights |-> 0]
    /\ runs = {}
    /\ mails = {}
    /\ crashes = 0

-----------------------------------------------------------------------------
(* The clock: the minute from 23:59 to midnight is enough for Bull to start   *)
(* the night's job, unless the process is down.                              *)

BeLate ==
    /\ ~now.late
    /\ now.day \in Nights
    /\ now' = [now EXCEPT !.late = TRUE]
    /\ UNCHANGED <<up, crashes, tableVars, asked, redisVars, started, runs, mails>>

Midnight ==
    /\ now.late
    /\ up => job[now.day] # "delayed"
    /\ now' = [day |-> now.day + 1, late |-> FALSE]
    /\ UNCHANGED <<up, crashes, tableVars, asked, redisVars, started, runs, mails>>

-----------------------------------------------------------------------------
(* The table (see SendLogs for how the rows come to it).                     *)

\* sendMaxbotText and the others note when the message was scheduled.
Request(s) ==
    /\ up
    /\ \A entry \in Range(sent) : entry.send # s
    /\ sent' = Append(sent, [send |-> s, day |-> now.day])
    /\ UNCHANGED <<world, rows, asked, redisVars, started, runs, mails>>

\* A callback inserts a row; createdAt tells whether 23:59 is over.
Record(s, type) ==
    /\ up
    /\ \E entry \in Range(sent) : entry.send = s
    /\ \A row \in rows : row.send # s
    /\ rows' = rows \cup {[send |-> s, eventType |-> type,
                            inTime |-> now.day = Scheduled(s) /\ ~now.late]}
    /\ UNCHANGED <<world, sent, asked, redisVars, started, runs, mails>>

-----------------------------------------------------------------------------
(* The jobs.                                                                 *)

\* External: Bull adds the next repetition, whose id is made of its time, so
\* that adding it once more has no effect.
WithRepetition(jobs) ==
    LET next == IF now.late THEN now.day + 1 ELSE now.day
    IN  IF next \in Nights /\ jobs[next] = "none"
        THEN [jobs EXCEPT ![next] = "delayed"] ELSE jobs

\* The process starts: process() calls the starter repeatRegister.
Boot ==
    /\ ~up
    /\ up' = TRUE
    /\ job' = WithRepetition(job)
    /\ UNCHANGED <<now, crashes, tableVars, asked, attemptsMade, retryDay,
                   started, runs, mails>>

\* SendLogController.now, sendBody: the report is read in the request and
\* added to its queue.  Bound: until one has been mailed.
AskReport(date) ==
    /\ up
    /\ asked = NoBody
    /\ \A mail \in mails : mail.job \in Nights
    /\ asked' = Body(date)
    /\ UNCHANGED <<world, tableVars, redisVars, started, runs, mails>>

\* The job SendLogBody mails it, or a mail server or Redis does not take it.
MailAsked ==
    /\ up
    /\ asked # NoBody
    /\ asked' = NoBody
    /\ \/ mails' = mails \cup {[job |-> 0, nth |-> 0, body |-> asked]}
       \/ UNCHANGED mails
    /\ UNCHANGED <<world, tableVars, redisVars, started, runs>>

\* The job does not wait for 23:59.
Due_Bug(j) ==
    \/ job[j] = "waiting"
    \/ job[j] = "delayed" /\ j <= now.day
    \/ job[j] = "retry" /\ retryDay[j] <= now.day

\* A night's job is due at 23:59, a failed one half an hour later.
Due(j) ==
    \/ job[j] = "waiting"
    \/ job[j] = "delayed" /\ j < now.day
    \/ job[j] = "delayed" /\ j = now.day /\ now.late
    \/ job[j] = "retry" /\ retryDay[j] <= now.day

\* sendLogFailuresJob: the date is taken before the table is read.
Start(j) ==
    /\ up
    /\ Due(j)
    /\ \A i \in Nights : job[i] # "active"
    /\ job' = WithRepetition([job EXCEPT ![j] = "active"])
    /\ retryDay' = [retryDay EXCEPT ![j] = 0]
    /\ started' = [started EXCEPT ![j] = @ + 1]
    /\ runs' = runs \cup {[job |-> j, nth |-> started'[j], stage |-> "find",
                            date |-> now.day, body |-> NoBody]}
    /\ UNCHANGED <<world, tableVars, asked, attemptsMade, mails>>

\* findByDate
FindLogs(run) ==
    /\ run.stage = "find"
    /\ runs' = (runs \ {run}) \cup
                    {[run EXCEPT !.stage = "send", !.body = Body(run.date)]}
    /\ UNCHANGED <<world, tableVars, asked, redisVars, started, mails>>

\* mailService.send, whose SMTP sender turns an error into null.
SendMail(run) ==
    /\ run.stage = "send"
    /\ runs' = (runs \ {run}) \cup {[run EXCEPT !.stage = "done"]}
    /\ \/ mails' = mails \cup {[job |-> run.job, nth |-> run.nth,
                                body |-> run.body]}
       \/ UNCHANGED mails
    /\ UNCHANGED <<world, tableVars, asked, redisVars, started>>

\* Bull hears the newest run of an active job only.
Current(run) == run.nth = started[run.job] /\ job[run.job] = "active"

\* External: moveToCompleted
Complete(j) ==
    /\ job' = [job EXCEPT ![j] = "completed"]
    /\ UNCHANGED <<attemptsMade, retryDay>>

\* The failed attempt is not counted.
Fail_Bug(j) ==
    /\ retryDay' = [retryDay EXCEPT ![j] = IF now.late THEN now.day + 1 ELSE now.day]
    /\ job' = [job EXCEPT ![j] = "retry"]
    /\ UNCHANGED attemptsMade

\* External: moveToFailed, with the backoff of half an hour.
Fail(j) ==
    /\ attemptsMade' = [attemptsMade EXCEPT ![j] = @ + 1]
    /\ retryDay' = [retryDay EXCEPT ![j] = IF now.late THEN now.day + 1 ELSE now.day]
    /\ job' = [job EXCEPT ![j] = IF attemptsMade[j] + 1 >= Attempts THEN "failed"
                                 ELSE "retry"]

\* The handler returns, or findByDate rejects.
EndRun(run) ==
    /\ run.stage \in {"done", "find"}
    /\ runs' = runs \ {run}
    /\ IF ~Current(run) THEN UNCHANGED redisVars
       ELSE IF run.stage = "done" THEN Complete(run.job) ELSE Fail(run.job)
    /\ UNCHANGED <<world, tableVars, asked, started, mails>>

\* Only the database is waited for with a limit.
TimeOutFind_Bug(run) ==
    /\ run.stage = "find"
    /\ Current(run)
    /\ Fail(run.job)
    /\ UNCHANGED <<world, tableVars, asked, started, runs, mails>>

\* Bull's `timeout' of 10 s fails the attempt; the run goes on.
TimeOut(run) ==
    /\ run.stage \in {"find", "send"}
    /\ Current(run)
    /\ Fail(run.job)
    /\ UNCHANGED <<world, tableVars, asked, started, runs, mails>>

RunStep(run) == FindLogs(run) \/ SendMail(run) \/ EndRun(run) \/ TimeOut(run)

\* The process dies; Bull puts the jobs it was running back to wait.
Crash ==
    /\ up
    /\ crashes < MaxCrashes
    /\ crashes' = crashes + 1
    /\ up' = FALSE
    /\ job' = [j \in Nights |-> IF job[j] = "active" THEN "waiting" ELSE job[j]]
    /\ runs' = {}
    /\ UNCHANGED <<now, tableVars, asked, attemptsMade, retryDay, started, mails>>

Next ==
    \/ BeLate \/ Midnight \/ Boot \/ Crash
    \/ \E s \in Sends :
        \/ Request(s)
        \/ \E type \in {"failed", "success"} : Record(s, type)
    \/ \E date \in Nights : AskReport(date)
    \/ MailAsked
    \/ \E j \in Nights : Start(j)
    \/ \E run \in runs : RunStep(run)

Spec == Init /\ [][Next]_vars

\* Time passes, docker restarts the process, and Bull starts and ends the
\* attempts that are due.
Fairness ==
    /\ WF_vars(BeLate) /\ WF_vars(Midnight) /\ WF_vars(Boot)
    /\ \A j \in Nights :
        /\ WF_vars(Start(j))
        /\ WF_vars(\E run \in runs : run.job = j /\ Current(run)
                                        /\ (TimeOut(run) \/ EndRun(run)))

FairSpec == Spec /\ Fairness

-----------------------------------------------------------------------------
(* Properties.                                                              *)

\* The table of a report leaves nobody out and counts every failure of the
\* list once, whatever repeated recipients it hides (failedTable).
TableCountsAll ==
    \A mail \in mails :
        LET list == mail.body.failedList
            table == FailedTable(list)
            Of(to) == {i \in DOMAIN list : To[list[i].send] = to}
        IN  /\ {table[k].to : k \in DOMAIN table} = {To[list[i].send] : i \in DOMAIN list}
            /\ \A k \in DOMAIN table :
                /\ table[k].item = k
                /\ table[k].count = Cardinality(Of(table[k].to))
                /\ table[k].order \in Of(table[k].to)
                /\ \A i \in Of(table[k].to) : table[k].order <= i
                /\ k > 1 => table[k - 1].order < table[k].order

\* A message is not counted twice in a report: no more failures and successes
\* than messages of that day, although rows are added while it is made.
OneOutcomePerReport ==
    \A mail \in mails :
        Len(mail.body.failedList) + mail.body.successLength
            <= Cardinality({entry \in Range(sent) : entry.day = mail.body.date})

\* The nightly report of its own day names every failure that was recorded by
\* 23:59 of the messages scheduled that day.
NightNamesItsFailures ==
    \A mail \in mails :
        mail.body.date = mail.job =>
            \A row \in RowsOf(mail.job, "failed") :
                row.inTime =>
                    \E entry \in Range(mail.body.failedList) : entry.send = row.send

\* The report of a night is mailed at most once for each attempt and each restart.
MailsAreBounded ==
    \A j \in Nights :
        Cardinality({mail \in mails : mail.job = j})
            <= attemptsMade[j] + crashes
                + (IF job[j] \in {"active", "completed"} THEN 1 ELSE 0)

\* A report that is due comes to its end, even if neither the database nor the
\* mail server answers.
ReportsEnd ==
    \A j \in Nights :
        job[j] \in {"delayed", "retry", "waiting"} ~> job[j] \in {"completed", "failed"}

\* The report of a night is about that night: `Falhas de envio dia <day>', at
\* 23:59 (CRON_SENDLOGS), in whichever attempt it is mailed.
ReportIsForItsDay ==
    \A mail \in mails : mail.job \in Nights => mail.body.date = mail.job
=============================================================================
