------------------------------ MODULE SendLogs ------------------------------
(***************************************************************************)
(* What the send services do with the outcomes of their jobs: the rows of  *)
(* the `send-logs' table and the contingency e-mail.                       *)
(* src/useCases/send/{send.service,send-socket,send-email,send-log}.       *)
(*                                                                         *)
(* The callbacks that QueueService calls are async and nobody awaits them: *)
(* each is a small process of its own (look for the row, insert the row,   *)
(* and for a failed text create the EmailSent row and add the e-mail job)  *)
(* that interleaves with the other callbacks, the queues and the requests. *)
(* A rejected callback is an unhandled rejection, which ends the process:  *)
(* that is Crash, as is any other death of it.                             *)
(***************************************************************************)
EXTENDS QueueService, Bags

CONSTANTS
    Kind,           \* the service method that makes each request
    WantsEmail,     \* texts with metaData.email and no forbiddenEmail
    Contingency     \* the e-mail job that a failed text of WantsEmail adds

Kinds == {"sendMaxbotText", "sendMaxbotImage", "sendScheduledText",
          "sendGeneral", "sendContingency"}

ASSUME KindAssumption == Kind \in [Requests -> Kinds]
ASSUME RemoveTryingByKind ==
    RemoveTrying = {r \in Requests : Kind[r] \in
                        {"sendMaxbotText", "sendGeneral", "sendContingency"}}
ASSUME ContingencyAssumption ==
    /\ WantsEmail \subseteq {r \in Requests : Kind[r] = "sendMaxbotText"}
    /\ Contingency \in [WantsEmail ->
                            {r \in Requests : Kind[r] = "sendContingency"}]
    /\ \A r, s \in WantsEmail : Contingency[r] = Contingency[s] => r = s

VARIABLES
    callbacks,      \* the async callbacks that have not finished
    sendLogs,       \* the send-logs table, a bag of rows
    emailSent       \* the email-sent table, a bag of rows

logVars == <<callbacks, sendLogs, emailSent>>
allVars == <<vars, logVars>>

\* The requests whose callbacks write rows; those of sendContingency only log
\* to the console.
Logged == {r \in Requests : Kind[r] # "sendContingency"}

\* SendService.processFailed stores the attempt it looked for; processLog of
\* the socket and e-mail services does not, and the column's default is 0.
StoresAttempt(r) == Kind[r] \in {"sendMaxbotText", "sendMaxbotImage"}

\* Both methods that store the attempt use the Maxbot queue, which gives more
\* attempts than the two of the socket and e-mail queues.  Were these raised to
\* the same number, the last failure of a job of one could be taken for the
\* one of another's (HasRow).
ASSUME StoredAttemptsAssumption ==
    /\ \A r, s \in Requests :
        StoresAttempt(r) /\ StoresAttempt(s) => QueueOf[r] = QueueOf[s]
    /\ \A r \in Logged :
        IF StoresAttempt(r) THEN Attempts[QueueOf[r]] > 2
        ELSE Attempts[QueueOf[r]] <= 2

Row(c) ==
    [request |-> c.request, jobId |-> c.jobId, eventType |-> c.eventType,
     attemptsMade |-> IF c.eventType = "success" \/ StoresAttempt(c.request)
                      THEN c.attemptsMade ELSE 0]

NoRow == [request |-> "null"]

LogInit ==
    /\ Init
    /\ callbacks = {}
    /\ sendLogs = EmptyBag
    /\ emailSent = EmptyBag

-----------------------------------------------------------------------------
(* The queue's own steps.  A contingency job has no HTTP caller: a callback  *)
(* submits it, and an error of its save rejects that callback.               *)

LogSubmit(r)    == Kind[r] # "sendContingency" /\ Submit(r) /\ UNCHANGED logVars
LogSaveError(r) == Kind[r] # "sendContingency" /\ SaveError(r) /\ UNCHANGED logVars

QueueStep(r) ==
    /\ RedisAdd(r) \/ SaveReply(r) \/ Activate(r) \/ Complete(r) \/ Fail(r)
       \/ Ignore(r)
    /\ UNCHANGED logVars

\* The callback for `trying' is built with eventType 'failed'.
StartedFailed_Bug(r, w) ==
    [request |-> w, jobId |-> id[r], attemptsMade |-> attemptsMade[r],
     eventType |-> IF EventType(r) = "success" THEN "success" ELSE "failed",
     log |-> NoRow,
     stage |-> IF EventType(r) = "success" THEN "insert" ELSE "find"]

\* The call of a callback: it runs to its first await.  processFailed looks
\* for an equal row first, processSuccess inserts at once.
Started(r, w) ==
    [request |-> w, eventType |-> EventType(r), jobId |-> id[r],
     attemptsMade |-> attemptsMade[r], log |-> NoRow,
     stage |-> IF EventType(r) = "success" THEN "insert" ELSE "find"]

LogDispatch(r, w) ==
    /\ Trying(r, w) \/ Settle(r, w)
    /\ callbacks' = IF w \in Logged THEN callbacks \cup {Started(r, w)}
                    ELSE callbacks
    /\ UNCHANGED <<sendLogs, emailSent>>

-----------------------------------------------------------------------------
(* The steps of a callback.                                                  *)

\* The query leaves attemptsMade out.
HasRowAnyAttempt_Bug(c) ==
    \E row \in BagToSet(sendLogs) :
        row.jobId = c.jobId /\ row.eventType = c.eventType

\* findOne({ jobId, attemptsMade, eventType }): the query names neither the
\* provider nor the queue that gave the job its id.
HasRow(c) ==
    \E row \in BagToSet(sendLogs) :
        /\ row.jobId = c.jobId
        /\ row.attemptsMade = c.attemptsMade
        /\ row.eventType = c.eventType

\* The e-mail hangs on every failed attempt.
MailsTrying_Bug(c) == c.request \in WantsEmail

\* The e-mail hangs on the return for a row that was found.
MailsFound_Bug(c) ==
    /\ c.eventType = "failed"
    /\ c.request \in WantsEmail
    /\ c.stage = "find"

\* After its row the failed callback of a text goes on to the e-mail.
Mails(c) ==
    /\ c.eventType = "failed"
    /\ c.request \in WantsEmail

\* The callback that remains of c when its row is written or given up.
AfterRow(c, row) ==
    IF Mails(c) THEN {[c EXCEPT !.stage = "track", !.log = row]} ELSE {}

\* A found row ends processFailed with null.
FindRow(c) ==
    /\ c.stage = "find"
    /\ callbacks' = (callbacks \ {c}) \cup
                        (IF HasRow(c) THEN AfterRow(c, NoRow)
                         ELSE {[c EXCEPT !.stage = "insert"]})
    /\ UNCHANGED <<vars, sendLogs, emailSent>>

\* sendLogService.create
InsertRow(c) ==
    /\ c.stage = "insert"
    /\ sendLogs' = sendLogs (+) SetToBag({Row(c)})
    /\ callbacks' = (callbacks \ {c}) \cup AfterRow(c, Row(c))
    /\ UNCHANGED <<vars, emailSent>>

\* sendContingency, getTrackerImages: emailSentService.create
TrackEmail(c) ==
    /\ c.stage = "track"
    /\ emailSent' = emailSent (+) SetToBag({[jobId |-> c.jobId,
                                             sendLog |-> c.log]})
    /\ callbacks' = (callbacks \ {c}) \cup {[c EXCEPT !.stage = "mail"]}
    /\ UNCHANGED <<vars, sendLogs>>

\* sendContingency: setWorker('SendHtmlEmailJob') and save
MailText(c) ==
    /\ c.stage = "mail"
    /\ Submit(Contingency[c.request])
    /\ callbacks' = callbacks \ {c}
    /\ UNCHANGED <<sendLogs, emailSent>>

CallbackStep(c) == FindRow(c) \/ InsertRow(c) \/ TrackEmail(c) \/ MailText(c)

\* The tables survive the process, the running callbacks do not.
LogCrash ==
    /\ Crash
    /\ callbacks' = {}
    /\ UNCHANGED <<sendLogs, emailSent>>

LogNext ==
    \/ \E r \in Requests :
        \/ LogSubmit(r)
        \/ LogSaveError(r)
        \/ QueueStep(r)
        \/ \E w \in Requests : LogDispatch(r, w)
    \/ \E c \in callbacks : CallbackStep(c)
    \/ LogCrash

LogSpec == LogInit /\ [][LogNext]_allVars

\* The fairness of QueueService, and every step of a callback that does not
\* reject is taken: the database, the template and Redis answer.
LogFairness ==
    /\ \A r \in Requests :
        /\ WF_allVars((RedisAdd(r) \/ SaveReply(r)) /\ UNCHANGED logVars)
        /\ WF_allVars(Activate(r) /\ UNCHANGED logVars)
        /\ WF_allVars((Complete(r) \/ Fail(r)) /\ UNCHANGED logVars)
        /\ WF_allVars(\/ Ignore(r) /\ UNCHANGED logVars
                      \/ \E w \in Requests : LogDispatch(r, w))
    /\ WF_allVars(\E c \in callbacks : CallbackStep(c))

LogFairSpec == LogSpec /\ LogFairness

-----------------------------------------------------------------------------
(* Properties.                                                              *)

RowsOf(r, type) ==
    {row \in BagToSet(sendLogs) : row.request = r /\ row.eventType = type}

Idle(r) == \A c \in callbacks : c.request # r

\* A row says what happened to the job it is about: its id, and success or
\* failed only for a job whose outcome in Redis is that one, however late the
\* row is inserted (SendService.processSuccess, processFailed, processLog).
RowsAreTrue ==
    \A row \in BagToSet(sendLogs) :
        LET r == row.request IN
        /\ row.jobId = id[r]
        /\ row.eventType = "success" => job[r] = "completed"
        /\ row.eventType = "failed" => job[r] = "failed"
        /\ row.eventType = "trying" => row.attemptsMade < Attempts[QueueOf[r]]

\* The reports count rows: a request has at most one row that says how it
\* ended, and no row twice, although finding and inserting are two steps.
OneRowPerOutcome ==
    /\ \A row \in BagToSet(sendLogs) : sendLogs[row] = 1
    /\ \A r \in Requests :
        Cardinality(RowsOf(r, "success") \cup RowsOf(r, "failed")) <= 1

\* While the process that answered a request runs, the end of its job is in
\* the table once the callbacks are done, and a row for each failed attempt of
\* a Maxbot job: the query that looks for an equal row never finds another
\* queue's row of the same id for these.
OutcomeIsLogged ==
    \A r \in Logged :
        Tracked(r) /\ Idle(r) =>
            /\ Handled(r) => RowsOf(r, "success") \cup RowsOf(r, "failed") # {}
            /\ StoresAttempt(r) =>
                Cardinality(RowsOf(r, "trying"))
                    = Cardinality({i \in 1 .. Len(called[r]) :
                                    called[r][i] = "trying"})

\* The contingency e-mail goes out for a text that has failed for good and for
\* no other, and the EmailSent row that counts its readings is created once and
\* leads to the text's `failed' row.
ContingencyOnlyForFailed ==
    \A r \in WantsEmail :
        LET sent == {e \in BagToSet(emailSent) : e.sendLog \in RowsOf(r, "failed")}
        IN  /\ http[Contingency[r]] # "idle" =>
                    job[r] = "failed" /\ Cardinality(sent) = 1
            /\ \A e \in sent : emailSent[e] = 1

\* A text that fails for good is followed by its contingency e-mail, unless
\* the process dies first.
FailedTextIsMailed ==
    \A r \in WantsEmail :
        (job[r] = "failed" /\ Tracked(r)) ~>
            (http[Contingency[r]] = "ok" \/ r \in orphans)

\* `Total de tentativas' in the report is the number of `trying' rows: every
\* failed attempt that is tried again should have one (send-log.html.ts).
EveryTryIsLogged ==
    \A r \in Logged :
        Tracked(r) /\ Idle(r) /\ (\E i \in 1 .. Len(called[r]) :
                                        called[r][i] = "trying")
            => RowsOf(r, "trying") # {}
=============================================================================
