# Verification of guarita-whatsapp

TLA+ specifications of the service in `src/`, their TLC runs and their TLAPS
proofs. guarita-whatsapp receives HTTP requests to send WhatsApp texts, images
and e-mails, puts them in Bull queues kept in Redis, sends them through the
Maxbot API, a connected device (socket.io) or an e-mail provider, and keeps a
table of what happened (`send-logs`).

## The system

| Component | State | Operations | Talks to |
|---|---|---|---|
| Queue layer (`services/QueueService`) | `workers` in memory, jobs in Redis | `setWorker`, `save`, listeners and `processEvents`, `removeWorker`, `process`, `onInit`, `destroy` | Bull/Redis; calls the send services back |
| Send services (`useCases/send`) | tables `send-logs`, `email-sent` | `sendMaxbotText/Image`, `sendScheduledText`, `sendGeneral(Sg)`, `sendContingency` and their three callbacks | queue layer, database |
| Job handlers and providers (`send-*.job.ts`, `EmailService`, `MaxbotService`) | none of their own | `handle` of each job | Maxbot, SMTP/SendGrid, socket server |
| Socket server (`services/SocketServerService`) | `clients` | middleware, `connection`, `disconnect`, `sendText`, `getStatus`, `withTimeout` | devices; connection e-mails |
| Failure report (`send-log/job`) | a repeated job | `SendFailures`, `SendLogBody`, `repeatRegister`, `sendBody` | `send-logs`, SMTP |
| Startup and shutdown (`index.ts`, `AppExpress`) | `started`, Redis status | `start`, `startQueues`, `tryRedisConnection`, `listen`, `close` | database, Redis, queues |
| HTTP interface (`index.route.ts`, `useCases/*.controller.ts`, `auth.middleware.ts`, `@Catch`, `errorMiddleware`) | request-scoped | the routes: refusal, awaits, answer | all of the above |
| E-mail tracking (`useCases/email`) | `email-sent.countRead` | image names, `sendFile`, `increment` | database |
| Google contacts and tokens (`services/GoogleService`, `contact/google`, `auth`) | `token.json`, the OAuth2 client's `credentials`, `authUrl` | consent, refresh, pages of contacts | Google |
| Priority cache, HTTP client, logger, templates | read into no decision | | |

What is hard here:

- **Concurrency.** One process, but every `await` is a switch: the answer to
  `queue.add` against the job's events, the callbacks of all jobs against each
  other (nobody awaits them), the device's acknowledgement against the timer.
- **State in two places.** Jobs are in Redis and survive; the workers that know
  whom to tell are in memory and do not (`restart: always`).
- **Identity.** A job id is a counter of its queue. It is looked up together
  with a name in one place (`processEvents`) and without its queue in another
  (`findOne` of `send-logs`).
- **Counting.** `failed` is Bull's event for a failed attempt and for a failed
  job; `attemptsMade >= attempts` and `attemptsRest <= 1` tell them apart.
- **Copies.** The tokens are in a file and in memory, the id of an `email-sent`
  row is in a table and in the name of an image, a report's date is taken anew
  by each attempt.
- **Failure.** Lost answers, refused jobs, vanished devices, restarts.

## Modules

| Module | Models | Notes |
|---|---|---|
| `QueueService` | the queue layer | Bull and Redis are external actions |
| `JobOutcome` | what the queue layer promises | abstract, refined by `QueueService` |
| `SendLogs` | the callbacks of the send services | extends `QueueService` |
| `SocketServer` | the socket server | |
| `ProviderCall` | what a caller may rely on when it hands a message over | abstract, refined by `SocketServer` |
| `Delivery` | the job handlers and the providers they call | one job; Bull and providers external |
| `FailureReport` | the reports on `send-logs` | nights, rows and mails |
| `Startup` | `startServer` and the wait for Redis | |
| `GoogleService` | the tokens and the synchronisation of contacts | Google and its library external |
| `Api` | the HTTP routes and the images of e-mails | jobs, rows and the device happen beside it |
| `Lists` | `Array.prototype.filter` | used by `SocketServer`, `FailureReport`, `GoogleService` |
| `...Proofs` | the theorems about a module, all but `JobOutcome` and `ProviderCall` | `SendLogsProofs` holds those of `QueueService` too; `ListProofs` is the library of the others |
| `MC*` | small instances for TLC | constants only |

A definition named `..._Bug` is a plausible mistake in the definition after it.
No specification uses it: put in the place of the correct definition it breaks
the property that is about that mistake.

### QueueService

A *request* stands for one `setWorker(..).trying(..).failed(..).success(..).save(..)`.

| TLA+ | Code |
|---|---|
| `Submit` | `setWorker`, the chain of setters and `save` up to its `await` |
| `RedisAdd` | Redis runs Bull's script (external) |
| `SaveReply`, `SaveError` | the `await` in `save` returns or throws |
| `Activate`, `Complete`, `Fail` | Bull: `moveToActive`, `moveToCompleted`, `moveToFailed` and their events (external) |
| `EventType`, `Matching` | the listeners of `process()`, the `find` of `processEvents` |
| `Ignore`, `Trying`, `Settle` | `processEvents`: no worker, `trying`, `success` or `failed`, with `removeWorker` |
| `Crash` | the process ends and is started again |

An event and its listener are two steps (`event` holds it between them), so
other requests, answers and crashes come in between. `id` and `lastId` are
Redis's counters; `jobId` is the worker's copy, set one step later.

Two facts of the environment are assumed. Every job has a delay of 10 ms or
more and Redis answers one connection in order, so the answer to the add comes
before the end of the job's first attempt (`Activate` waits for it). And the
jobs that were running at a crash go back to the queue; Bull's limit on how
often a job may stall is not modelled.

### JobOutcome

`outcome` and `told` for each request. An accepted job gets one outcome, the
outcome never changes, and what is told is the truth, once. `QueueService`
maps its Redis state to `outcome` and the last callback to `told`.

### SendLogs

Each callback is a record in `callbacks` with a stage for every `await`:
`find` (is there an equal row?), `insert`, `track` (the EmailSent row), `mail`
(the contingency job). It extends `QueueService`: its steps are the queue's,
with what the callback does attached to the step that calls it, and the
contingency job is submitted by a callback instead of an HTTP request. A
callback that rejects is an unhandled rejection and ends the process, which is
`LogCrash`.

### SocketServer

`link` is the truth about a device, `clients` what the server believes; between
them is `Vanish`, a device cut off without a packet. A call holds the client it
read with `first()`, its message on the `wire` and its `result`.

### ProviderCall

A call is asked for, carried out at most once, and ends: one that succeeded was
carried out, one that was refused never will be, and of one that was given up
nobody knows. `SocketServer` maps its results to these, with `timeout` as
given up and a missing device as refused. It is the promise on which the
handlers of `Delivery` rest.

### Delivery

A job of any send method, its attempts in Redis (`job`, `attemptsMade`), the
handler runs of the process (`running`) and the calls on their way to a
provider (`wire`). A run is a record with a stage: `status` (`getStatus` of
Maxbot), `call`, `wait`, and `success` or `error`. Bull's `timeout` fails the
attempt and does not stop its run, so several runs of a job may be alive, of
which Bull hears the newest only (`Current`). `received` is what the recipient
got. The handlers are compared by what they do with an answer: `Swallows` names
those that turn an error into a result, `Payload` what they read from the data.
`MAXBOT_KEY` is taken to be set; without it the Maxbot handlers send nothing.

| TLA+ | Code |
|---|---|
| `JobOf`, `Processor` | the name and options of each method's job, the handler of each name |
| `FirstStage`, `CheckStatus`, `Call` | the handlers up to their `await`s |
| `Carry`, `Refuse`, `Answer` | the provider, and an answer that may be lost (external) |
| `GiveUp` | the client's own timer: `withTimeout`, 10 s of Maxbot |
| `EndRun`, `Complete`, `Fail` | the handler returns or throws, Bull notes it |
| `TimeOut` | Bull's `timeout` of the queue |

### FailureReport

`now` is the day and whether it is past 23:59, `sent` the messages in the order
of `scheduled`, `rows` the table, `job` the repetition of each night, `mails`
what was mailed. `Start` takes the date, `FindLogs` reads the table, `SendMail`
mails (or loses the mail, see `Delivery`). `WithRepetition` is Bull's rule that
a repetition's id is made of its time. A report on demand is read in the
request (`AskReport`) and mailed later from the data of its job. The minute
before midnight is taken to be enough for a running process to start the
night's job, and a message gets one final row (`OneRowPerOutcome` and `OutcomeIsLogged` of
`SendLogs`).
`FailedTable` is `failedTable` of the mail: `WithFailure` is the callback of its
`reduce`, `Tables` what `reduce` makes of it, as a recursive function.

### Startup

`Initialize` is `startServer` after the database has answered: `listen` and
`start` run in one turn up to the first poll of Redis. `Interval` is the
callback of the timer, which polls again or gives up. `RedisStep` takes the
client through the states of ioredis in between. `ProcessQueues` is `process()`
of all queues with `register()`: one synchronous turn, so that no other step
comes between a queue's listeners, its handlers and its starters. Only the first queue's client is polled, and
the model has no other.

### GoogleService

`file` is `token.json`, `client` the credentials in memory; a token is the
number under which Google issued it, 0 for one that is not there. `Boot` is the
constructor with `loadCredentials` and `authorize`. A synchronisation reads its
pages one at a time (`GetContacts`, `ListAnswer`); one whose access token has
expired waits in `refresh` for what `Refresh` gives to all who wait for the same
refresh token. `Refresh` saves the tokens as google-auth-library hands them to
the listener, without the refresh token, which only the memory keeps. A consent
(`CodeAnswer`) comes with a refresh token or without one, and `setCredentials`
replaces both tokens. A page has status 200 or another one: after another one
`next` resolves with the pages before it, and `ListAnswer` answers them as a
success. `Reject` is a request that fails, as google-auth-library makes of most
other statuses: the executor of the promise in `allContacts` drops it, and the
process `End`s. Which pages come with which end is Google's choice.
Three variables are history: `given`, that the process was given a refresh token,
`bare`, that its last consent brought none, and `cut`, that a synchronisation met
a page with another status.

### Api

A request is an element of `Inputs`: its route, its token (none, a string that
`verify` takes or not, or no string at all), whether its body can be read and
passes the schema, and for an image the name. `Refusal` is what stops it before
its handler awaits anything, in the order of `AppExpress` and `IndexRoute`: the
parsers (`Unreadable`), `authMiddleware` (`AuthError`), the schema. The errors of
which `errorMiddleware` knows no status are answered 500; `Awaits` is the list
of what its handler waits for. `Happen` lets such a thing happen whether or not
the handler still waits, `Resolve` and `Reject` end an await (`Resolve` only
after it has happened, `Reject` before or after), `Answer` is the response. What the device or Maxbot
says is passed on in the answer and need not be good (`Providers`). The routes
under `/auth/google` and `/contact/google` are not here: the consent and the
synchronisation are in `GoogleService`, the other two only read. The
name of an image is a list of parts, taken apart by `ParseImageName` the way
`split('.')` and `split('_')` do; `served`, `pending`, `lost` and `countRead`
follow a reading from the answer to the row.

## Runs

| Run | Bounds | Shows |
|---|---|---|
| `queue` | 3 requests, 2 queues, 3/2 attempts, 2/1 handlers, 1 crash | `OwnWorker`, `CallbackProtocol`, `EveryOutcomeCalled`, `WorkersAreOpenJobs`, `CallbacksAreTracked` |
| `send_logs` | a text, its e-mail and a socket text, 1 crash | rows are true, one per outcome, none missing, one for each failed Maxbot attempt; the contingency e-mail follows a final failure only, and does follow it; the queue layer under the callbacks implements `JobOutcome`, liveness included, and tells who was answered |
| `lost_tries` | an image, a socket text, a general e-mail, no crash | **finding**: `EveryTryIsLogged` does not hold |
| `socket_server` | 3 devices, 2 calls | the list of clients, who is first and the connection e-mails agree with the devices; the calls implement `ProviderCall`, liveness included; the vanished leave |
| `delivery` | one job of any text method, 2 crashes | a completed job was received (but see `mail_errors`), copies are bounded by attempts and restarts, every job leaves the queue |
| `mail_errors` | as `delivery`, no crash | **finding**: `MailErrorsFail` does not hold |
| `images` | one image, no crash | **finding**: `ImagesAreSent` does not hold |
| `failure_report` | 2 messages to one recipient, 1 night, 1 report on demand, 1 crash | what a report counts and names; it is mailed once for each attempt or restart; it comes to its end |
| `report_day` | as `failure_report`, no crash | **finding**: `ReportIsForItsDay` does not hold |
| `startup` | 2 queues, 1 with a starter, 2 jobs, 3 retries, 1 crash | Redis is given up for good reasons only; all queues run or none; jobs are run unless the queues were given up |
| `google` | 2 consents, 2 synchronisations of 2 pages with 3 contacts, 2 expiries, 1 crash | an answered synchronisation holds all its pages, or all before one with another status; file and client agree on the access token; a process that was given a refresh token is refused only after a consent that brought none; synchronisations end |
| `api` | 2 requests of 35 kinds, 2 rows of `email-sent`, 1 crash | a request without a valid token is refused (401, 403 or, where the refusal itself fails, 500) and leaves no trace; answers are true; readings are counted for their e-mail; every request is answered |

Why the bounds are enough. Two requests in one queue and one in another is the
least that has equal ids in different queues and different ids under one name.
Three attempts is the least with a `trying` that must not clear the entry and
one that must. One crash separates the requests before it from those after it;
and makes its requests orphans. Jobs of `Delivery` share nothing but the
handlers, so one shows what each can go through; a night and the day after it
are what a report's two attempts can see, and two messages to one recipient the
least that `failedTable` merges. Two pages are the least between which a token can expire,
and two synchronisations the least of which one is refreshed by the other; two
expiries separate a refresh from the next. Requests of `Api` share only the
counters of the rows, so that two, one for each row or both for one, meet all
there is to meet. Attempts, handlers, names and kinds are
those of the code's queues. The bounds in guards are
`MaxCrashes`, in `FailureReport` the `Nights` and one report on demand, and in
`GoogleService` `MaxExpiries`.
Two things are left to the theorems. The run `send_logs` has one Maxbot job, so
that an image beside a text, whose workers have one name, is covered by
`RowsAreTrueHolds` and `OutcomeIsLoggedHolds` only. The run `failure_report` has
one recipient, so that the order and the several lines of a report's table are
covered by `FailedTableIs` and `TableCountsAllHolds` only.
Deadlock is not checked in any run: the system stops when every request has its
outcome (and, in `SocketServer`, when every device has left).

### Fairness

`QueueService`: a pending `save` returns or throws (ioredis rejects after its
retries), a free handler takes a queued job, an attempt ends (every queue sets
`timeout`), an emitted event is handled (`emit` is synchronous). Nothing makes
a request arrive, a job succeed or the process die. `SendLogs` adds that the
callbacks run on, and that the `save` of a contingency job is answered.
`SocketServer`: the timer fires and the ping of a vanished device times out;
devices owe nothing. `Delivery`: Bull starts a queued job and its timer or its
handler ends the attempt; no provider owes an answer. `FailureReport` adds the
clock and docker. `Startup`: timers and the database answer, Redis becomes
ready again and again (strong fairness, as it may go away in between), and the
polls, every 2 s, do not always meet the client in the state `connecting`, from
which it parts after 10 s. Without the last, `startQueues` polls for ever.
`GoogleService`: docker boots the process, and Google answers a request that
does not fail; nobody owes a consent. `Api`: an await of the database, of Redis or of
Maxbot (10 s) returns or rejects, one of the socket server returns by its timer; what was
asked for may never happen.

## Proofs

Every invariant and every action property of the passing runs is a theorem, for
every value of the constants; the liveness properties are not (see below).

| Module | Theorems about the properties of the runs |
|---|---|
| `SendLogsProofs` | `queue`: `TypeCorrect`, `OwnWorkerHolds`, `CallbackProtocolHolds`, `EveryOutcomeCalledHolds`, `WorkersAreOpenJobsHolds`, `CallbacksAreTrackedHolds`; `send_logs`: `RowsAreTrueHolds`, `OneRowPerOutcomeHolds`, `OutcomeIsLoggedHolds`, `ContingencyOnlyForFailedHolds` |
| `SocketServerProofs` | `ClientsAreConnectedHolds`, `FirstIsOldestHolds`, `MailsMatchClientsHolds` |
| `DeliveryProofs` | `CompletedWasReceivedHolds`, `CopiesAreBoundedHolds` |
| `FailureReportProofs` | `MailsAreBoundedHolds`, `OneOutcomePerReportHolds`, `NightNamesItsFailuresHolds`, `TableCountsAllHolds` |
| `StartupProofs` | `TypeCorrect`, `GivesUpOnGoneHolds`, `AllOrNoneHolds` |
| `GoogleServiceProofs` | `TokensAreKeptHolds`, `SyncsAreAuthorizedHolds`, `SyncHoldsItsPagesHolds` |
| `ApiProofs` | `TypeCorrect`, `NothingUnauthorizedHolds`, `AnswersAreTrueHolds`, `ReadingsAreCountedHolds` |

Besides, `ImplementsJobOutcomeSafely`, `ImplementsQueue` and `ImplementsSafely`
are the safety of the refinements: `QueueService` implements `JobOutcome`,
`SendLogs` implements `QueueService`, `SocketServer` implements `ProviderCall`.
The types of `SocketServer`, `Delivery`, `FailureReport` and `GoogleService` are
theorems too (`TypeCorrect`).

### Assumptions

The proofs use the named assumptions of the modules, which TLC evaluates in the
runs. Most of them give the constants their types. Two say more:

- `StoredAttemptsAssumption` of `SendLogs`: the methods that store the attempt
  in their rows share one queue, and that queue gives more than two attempts,
  those of the other logged methods at most two. The code's queues give 3
  (`send-maxbot.job.ts`, line 28), 2 (`send-socket.job.ts`, line 24) and 2
  (`send-email.job.ts`, line 73). `findOne` asks for a row by job id, attempt
  and event and not by provider, so that with equal numbers the last failure of
  a socket text would be taken for logged when a Maxbot text of the same id has
  failed: the finding of `lost_tries` would reach the final failures, and
  `OutcomeIsLogged` would not hold. The numbers of the queues keep it from them.
- `NamesAssumption` of `Api`: an image that is asked for an e-mail has the name
  that `setImageNameDto` gave it, and no other name that is asked for has the id
  of a row in it. It restricts the requests, not the service.

### The queue layer

None of the properties is inductive. `OwnWorker` needs to know that ids are
unique in a queue and that a worker without a `jobId` has no job that runs;
`EveryOutcomeCalled` needs to know that the worker of an open job is in the
list and armed when `trying` is due. `IInv` is the conjunction that closes
under every step:

- `ProgressInv`: the caller's state against the job's;
- `IdInv`: ids positive, below the queue's counter and unique in it; a
  worker's `jobId` is its own job's id as soon as the caller is answered;
- `AttemptInv`: only a failed job has used all its attempts, and an event that
  waits is about the last attempt;
- `WorkerInv`: which workers are in the list, and that one whose `trying` was
  cleared is at its last attempt;
- `CalledInv`: the callbacks called against the outcomes there were.

There is a lemma for each action; `MatchingIsOwn` carries most of them.

### The send services

A step of the send services is a step of the queue layer or none
(`ImplementsQueue`), the one exception, the contingency job, being a legal
`Submit` only because `LogInv` knows that a callback at that stage has one.
`RowsAreTrueHolds` needs `IInv` twice: when a callback is called, the
classification of the event agrees with Redis (`StartedIsTrue`), and afterwards
no step makes that untrue (`SaysKeeps`), so that a row may be inserted as late as
it likes. `OnlyFailedIsMailedHolds` is the safety half of
`ContingencyOnlyForFailed`.

What the table holds is another matter. Neither that there is no row too many
nor that there is none too few says anything of the callbacks that are on their
way. `EntryInv` goes through the calls instead: the k-th call of a request's
callbacks would make the row `RowOf(r, k)`, and

- `TriesInv`: a call of `trying` is below the queue's attempts, one of `failed`
  at them;
- `CallsInv`: a running callback is one such call, and no call runs twice;
- `TableInv`: every row is that of a call and is there once; a callback has its
  row before it or behind it; and a call that can be told from those of the
  other queues has its row or a running callback, as long as the process lives;
- `EmailsInv`: the rows of `email-sent` are those of the failed rows of texts.

The step that could fail is `find`: a row that is found must be the callback's
own. `FindsNoOther` shows that from the ids of a queue (`RowsDiffer`) and, across
queues, from `StoredAttemptsAssumption`.

### The socket server

`Spec => Provider!SafeSpec` (`ImplementsSafely`) rests on `CallInv`, which
relates the wire to what the device did: without it a late acknowledgement could
turn a call that was given up into any other.

The properties of the list need to know how it lies in the history of arrivals.
`ListInv` says that a connected device has as many places in `clients` as it was
registered (`RosterInv`), that the places are in the order of arrival
(`OrderInv`), that a device arrives once (`ArrivalsInv`) and what mails it got
(`MailsInv`). `removeClient` filters the list: `KeptCounts` and `KeptHeads` of
`ListProofs` say what is left of the places.

### Delivery

What `CompletedWasReceivedHolds` needs beside it is `RunInv`: a run at `success`,
the newest or one that Bull has given up, has put a message before the recipient.
The property of `CopiesAreBoundedHolds` counts copies against attempts, which no
step compares. Between them are the starts of the handler: `StartsInv` says that
each is paid for by an attempt, a restart or the job's end, `CallsInv` that the
copies received, those on the wire and the runs that have still to call are no
more than the starts.

### The failure report

The property of `MailsAreBoundedHolds` compares the number of mails with
attempts. Between them are the runs of the handler: `JobInv` says that each start
is paid for by an attempt, a restart or the job's end, `RunsInv` and `MailsInv`
that a run mails once, under a number of its own, and an injection from mails to
numbers does the counting.

What a mail says was read long before it is mailed, while messages and rows went
on being added. `ReportInv` says of every body that is held by a run, asked for or
mailed, that its failures and successes are no more than its day's messages, and
of a night's that it names each failure that was in time. The first is an
injection of places and rows into messages, the second holds because a handler
starts after 23:59 (`Past`) and what is recorded then is late.

`FailedTableIs` is by induction on the list: `TableFor(table, list, n)` says what
the table is after n failures, `TableGrows` that one more failure makes it so for
n + 1, whether its recipient is found or not.

### Startup

`IInv` adds what the properties leave open:

- `PollsAreCounted`: `retries` against the polls by what they saw, and that no
  poll is made before the database is there;
- `Untouched` or `Processed`: either no queue was touched, no job is active,
  and the server listens only when the polls are used up; or exactly one poll
  found Redis ready and `startQueues` ran to its end.

### Google

`TokensAreKeptHolds` and `SyncsAreAuthorizedHolds` lack `RequestInv`: who waits for
a refresh does so with a refresh token, at a client that has tokens.
The first conjunct of `ClientInv` is the heart of the second: a process that was
given a refresh token has one in memory, or its last consent brought none.
`SyncHoldsItsPagesHolds` rests on `SyncInv`: a synchronisation that asks for page n
holds what the pages before n give, whoever else refreshed or ended meanwhile, and
so does one that was answered at a page with another status. `DtosAre` and
`PeopleAre` show by induction on the pages what that is.

### The HTTP interface

Of a request that waits, `RequestInv` says that it was not refused and that what
it has awaited so far has happened, or was an answer of the device or of Maxbot;
the answers follow. A refused request never waits, so that nothing of it can
happen (`NothingUnauthorizedHolds`). For
`ReadingsAreCountedHolds` the name of an image must lead back to its row and to no
other: `NameLeadsBack` takes a name apart as `split` does, `CountsForItsRow` adds
that a piece of a name is made of the parts of the name (`PieceIsPart`).

### Induction

The induction rules of the library take an operator for a parameter, which the
installed provers cannot instantiate. `ListProofs` has lemmas for sets of numbers
instead (`Induction`, `InductionUpTo`), from the well-foundedness of the order on the
numbers, and `Iteration`, from which a recursive function is what its definition
says. `KeptIs` and the lemmas after it say what `Kept` returns for any list. This
is why the modules filter with `Kept` and not with `SelectSeq`, whose recursion
the provers do not see.

### Only model-checked

All liveness, which is out of the prover's reach: `AnsweredIsTold`, the fairness
of `JobOutcome` and of `ProviderCall` (in `ImplementsJobOutcome` and
`ImplementsProviderCall`), `FailedTextIsMailed`, `VanishedLeave`,
`QueuedIsDecided`, `ReportsEnd`, `WaitingIsRun`, `SyncsEnd` and
`EveryRequestIsAnswered`. The four runs that expect a violation check what is not
so.

## Findings

- **Failed attempts that are not logged** (`lost_tries`). `findOne({ jobId,
  attemptsMade, eventType })` does not name the provider. When a Maxbot text
  and a socket text have the same job id and the Maxbot one failed first, the
  socket text's failed attempt is taken for logged. The report's total of
  attempts is short by one. A final failure is safe only because the queues
  differ in their number of attempts (`StoredAttemptsAssumption`).
- **E-mails that no server took are never tried again** (`mail_errors`).
  `createTransporterSMTP` returns null on an error, the job completes, and the
  attempts and the backoff of its queue have no use. (The SendGrid sender tries
  to do the same, but it was created without a logger, so its `catch` throws
  and the job fails as it should.)
- **Images are not sent** (`images`). `sendMaxbotImage` names its job
  `SendMaxbotText`, whose handler sends `data.text`.
- **The second attempt of the nightly report is about the wrong day**
  (`report_day`). It runs half an hour after 23:59 and dates the report anew.

Seen while modelling, with nothing in the repository that says otherwise:

- A device with an invalid token is registered twice: `next()` is called in the
  `catch` and again after it. It gets two connection e-mails and counts twice
  in `totalClients`.
- The tokens of a refresh hold no refresh token and replace those of
  `token.json`. The process goes on with the one in memory; the next one has an
  access token that expires and nothing to refresh it with, and offers no URL
  for a consent, as it has tokens.
- A page of contacts that fails is an unhandled rejection, which ends the
  process: the executor in `allContacts` does not pass it on. A page that comes
  with another status ends the synchronisation early, and the pages before it are
  answered with `success: true`.
- A later consent that brings no refresh token discards the one in memory:
  `setCredentials` replaces both. When the access token expires the process has
  nothing to refresh it with, and the next synchronisation ends it.
- A token that is no string (`?token=a&token=b`, a number in the body) and a body
  that the parsers refuse are answered 500: `startsWith` is called outside the
  `try`, and `errorMiddleware` knows the status of `HttpException` only.
- `GET /contact` answers `success: true` whatever Maxbot says; `ready` tells.
- `POST /send/socket/text` answers `success: true` when no device took the text.
- `PATCH /contact` is always answered 400: its schema asks for a parameter that
  the route does not have.

## Not modelled

`closeServer` and `destroy`, which only `index.spec.ts` calls: they destroy the
database without waiting for it and remove the jobs that wait in Redis. The
callbacks of the repeated report, which only log, and whose worker holds the id
of the first repetition. Bull's limit of stalls; a Redis that loses its data
(ids start again, and the process still holds the old workers); a command resent
by the Redis client after its answer was lost; the rate limiters (they only
delay); the wording of rows and messages; the HTTP client, logging, templates
and configuration. The priority cache: both `getPriority` return 1 whatever it
holds.

## Plan

1. `Delivery` and `SocketServer` composed through `ProviderCall`: the
   acknowledgement that misses its timer in one and is a late answer in the
   other.
2. A Redis that comes back empty under a process that goes on.
3. `FailureReport` on top of `SendLogs`: that a message gets one final row is a
   theorem of one and taken for granted in the other.
