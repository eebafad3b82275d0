--------------------------------- MODULE Api ---------------------------------
(***************************************************************************)
(* The HTTP interface: the routes of src/useCases with authMiddleware, the *)
(* schemas, the controllers, @Catch and errorMiddleware, and the images of *)
(* the e-mails with their counter of readings.                             *)
(*                                                                         *)
(* A handler runs up to an await in one turn.  What it awaits (a row of the *)
(* database, a job of Redis, the socket server) happens on its own, and the *)
(* answer may be lost: then the handler rejects although it has happened.  *)
(* The jobs are followed further by QueueService, the two Google routes by *)
(* GoogleService.                                                          *)
(***************************************************************************)
EXTENDS Naturals, Sequences, FiniteSets, FiniteSetsExt, SequencesExt

CONSTANTS
    Requests,
    Inputs,         \* what a request can be: route, token ("malformed" is one
                    \* that is no string), body ("broken" cannot be read, "valid"
                    \* passes the schema of the route too), mail
                    \* (metaData.email), name and for (see below)
    Rows,           \* the rows of email-sent
    Files,          \* the images in volumes/assets, as lists of parts
    None,           \* no row: an image that is not in an e-mail
    MaxCrashes      \* bound: how often the process dies

Routes ==
    {"healthz", "authorize", "image", "tokens", "contactPost", "contactPatch",
     "contactList", "send", "sacdigital", "email", "report", "socketMessage",
     "socketText", "socketStatus"}

\* `name' is the image asked for; it was made for the row `for'.
ASSUME InputsAssumption ==
    \A i \in Inputs :
        /\ i.route \in Routes
        /\ i.token \in {"none", "malformed", "invalid", "valid"}
        /\ i.body \in {"broken", "invalid", "valid"} /\ i.mail \in BOOLEAN
        /\ i.for \in Rows \cup {None}
ASSUME CrashesAssumption == MaxCrashes \in Nat

VARIABLES
    input,          \* what each request is
    stage,          \* of its handler
    step,           \* the last await it has come to
    done,           \* the awaits whose operation has happened
    success,        \* what the socket server said
    reply,          \* the answers the request got
    countRead,      \* email-sent.countRead
    pending,        \* increments on their way
    served, lost,   \* history: images sent for a row; increments that failed
    crashes

requestVars == <<input, stage, step, done, success, reply>>
readVars == <<countRead, pending, served, lost>>
vars == <<requestVars, readVars, crashes>>

-----------------------------------------------------------------------------
(* Image names: `image.ext' and `image_id.ext', as lists of parts.          *)

\* The n-th piece of a name split at a separator, empty if there is none
\* (String.split and the destructuring).
Piece(name, sep, n) ==
    LET cuts == {0} \cup {i \in DOMAIN name : name[i] = sep}
                    \cup {Len(name) + 1}
        From == {c \in cuts : Cardinality({d \in cuts : d < c}) = n - 1}
        To   == {c \in cuts : Cardinality({d \in cuts : d < c}) = n}
    IN  IF To = {} THEN <<>>
        ELSE SubSeq(name, Max(From) + 1, Max(To) - 1)

\* parseImageNameDto takes the extension for a part of the id.
ParseImageName_Bug(name) ==
    LET image == Piece(name, ".", 1)
    IN  [ok |-> Piece(name, ".", 2) # <<>>, imageId |-> Piece(name, "_", 2),
         file |-> Piece(image, "_", 1) \o <<".">> \o Piece(name, ".", 2)]

\* parseImageNameDto, with the file that sendFile makes of it.
ParseImageName(name) ==
    LET image == Piece(name, ".", 1)
        ext   == Piece(name, ".", 2)
    IN  [ok |-> image # <<>> /\ ext # <<>>,
         imageId |-> Piece(image, "_", 2),
         file |-> Piece(image, "_", 1) \o <<".">> \o ext]

\* setImageNameDto, by which getTrackerImages names the image of an e-mail.
SetImageName(name, id) ==
    Piece(name, ".", 1) \o <<"_", id, ".">> \o Piece(name, ".", 2)

\* The name of an image that is asked for a row is the one that setImageNameDto
\* made for it of an `image.ext'; there is no row's id in any other name.
ASSUME NamesAssumption ==
    /\ Rows \cap {None, ".", "_"} = {}
    /\ \A i \in Inputs : i.route = "image" =>
        IF i.for = None
        THEN i.name \in Seq(ToSet(i.name)) /\ ToSet(i.name) \cap Rows = {}
        ELSE LET plain == <<i.name[1], ".", i.name[5]>>
             IN  /\ {plain[1], plain[3]} \cap {".", "_"} = {}
                 /\ i.name = SetImageName(plain, i.for)

-----------------------------------------------------------------------------
(* Routes.                                                                  *)

\* The parsers of AppExpress, before every route: their error has a status of
\* its own, but is no HttpException.
Unreadable(i) == i.body = "broken"

\* The routes that are used before authMiddleware.
Public == {"healthz", "authorize", "image"}

\* authMiddleware lets a token pass that verify does not take.
AuthError_Bug(i) ==
    IF i.token = "none" THEN 403 ELSE IF i.token = "malformed" THEN 500 ELSE 0

\* authMiddleware: the status of its error, 0 if there is none.  A token that is
\* no string (a repeated parameter, a number in the body) has no startsWith, and
\* the TypeError comes before the try.
AuthError(i) ==
    CASE i.token = "none"      -> 403
      [] i.token = "malformed" -> 500
      [] i.token = "invalid"   -> 401
      [] OTHER                 -> 0

\* celebrate's schemas; that of PATCH /contact wants a parameter the route has
\* not.
Invalid(i) == i.body # "valid" \/ i.route = "contactPatch"

\* What stops a request before its handler awaits anything, as errorMiddleware
\* answers it: a parser, authMiddleware, a schema, the provider that send does
\* not have, an image that is not there.
Refusal(i) ==
    IF Unreadable(i) THEN 500
    ELSE IF i.route \notin Public /\ AuthError(i) # 0 THEN AuthError(i)
    ELSE IF Invalid(i) THEN 400
    ELSE IF i.route = "sacdigital" THEN 503
    ELSE IF i.route = "image"
    THEN LET parse == ParseImageName(i.name)
         IN  IF parse.ok /\ parse.file \in Files THEN 0 ELSE 404
    ELSE 0

\* What the handler awaits, in order: a row saved or read, a job added, a call
\* of the device, the status of Maxbot; the mail is one more job, of
\* sendGeneralSg.
Awaits(i) ==
    CASE i.route \in {"healthz", "image"}        -> <<>>
      [] i.route \in {"authorize", "contactPost"} -> <<"row">>
      [] i.route = "tokens"                      -> <<"read">>
      [] i.route = "contactList"                 -> <<"maxbot">>
      [] i.route \in {"send", "email"}           -> <<"job">>
      [] i.route = "report"                      -> <<"read", "job">>
      [] i.route = "socketMessage" ->
            IF i.mail THEN <<"job", "job">> ELSE <<"job">>
      [] i.route = "socketText" ->
            IF i.mail THEN <<"device", "job">> ELSE <<"device">>
      [] i.route = "socketStatus"                -> <<"device">>
      [] OTHER                                   -> <<>>

\* The awaits that return what a provider says, be it that nothing was done.
Providers == {"device", "maxbot"}

\* The types, and that a request is answered once.
TypeOK ==
    /\ input \in [Requests -> Inputs]
    /\ stage \in [Requests -> {"idle", "await", "answered", "lost"}]
    /\ success \in [Requests -> BOOLEAN]
    /\ step \in [Requests -> Nat] /\ done \in [Requests -> SUBSET Nat]
    /\ reply \in [Requests -> Seq([status : Nat, success : BOOLEAN])]
    /\ \A r \in Requests :
        /\ step[r] \in 0 .. Len(Awaits(input[r]))
        /\ done[r] \subseteq 1 .. step[r]
        /\ Len(reply[r]) = IF stage[r] = "answered" THEN 1 ELSE 0
    /\ countRead \in [Rows -> Nat] /\ pending \in [Rows -> Nat]
    /\ served \in [Rows -> Nat] /\ lost \in [Rows -> Nat]
    /\ crashes \in 0 .. MaxCrashes

Init ==
    /\ input \in [Requests -> Inputs]
    /\ stage = [r \in Requests |-> "idle"]
    /\ step = [r \in Requests |-> 0]
    /\ done = [r \in Requests |-> {}]
    /\ success = [r \in Requests |-> TRUE]
    /\ reply = [r \in Requests |-> <<>>]
    /\ countRead = [e \in Rows |-> 0] /\ pending = [e \in Rows |-> 0]
    /\ served = [e \in Rows |-> 0] /\ lost = [e \in Rows |-> 0]
    /\ crashes = 0

-----------------------------------------------------------------------------
(* Requests.                                                                *)

\* res.status(..).send(..), by a handler or by errorMiddleware.
Answer(r, status, ok) ==
    /\ reply' = [reply EXCEPT ![r] = Append(@, [status |-> status, success |-> ok])]
    /\ stage' = [stage EXCEPT ![r] = "answered"]

\* sendFile: the increment is started and not awaited.
Serve(i) ==
    LET id == ParseImageName(i.name).imageId IN
    /\ pending' = [e \in Rows |-> pending[e] + (IF id = <<e>> THEN 1 ELSE 0)]
    /\ served' = [e \in Rows |-> served[e] + (IF i.for = e THEN 1 ELSE 0)]
    /\ UNCHANGED <<countRead, lost>>

\* A refused request goes on to its handler (next() and no return).
ArriveBoth_Bug(r) ==
    /\ stage[r] = "idle"
    /\ IF Awaits(input[r]) = <<>>
       THEN /\ Answer(r, 200, TRUE)
            /\ IF input[r].route = "image" THEN Serve(input[r]) ELSE UNCHANGED readVars
            /\ UNCHANGED step
       ELSE /\ stage' = [stage EXCEPT ![r] = "await"]
            /\ step' = [step EXCEPT ![r] = 1]
            /\ reply' = [reply EXCEPT ![r] =
                    IF Refusal(input[r]) = 0 THEN @
                    ELSE <<[status |-> Refusal(input[r]), success |-> FALSE]>>]
            /\ UNCHANGED readVars
    /\ UNCHANGED <<input, done, success, crashes>>

\* A request comes in and runs to its first await, or to its answer.
Arrive(r) ==
    /\ stage[r] = "idle"
    /\ LET i == input[r] IN
       \/ /\ Refusal(i) # 0
          /\ Answer(r, Refusal(i), FALSE)
          /\ UNCHANGED <<step, readVars>>
       \/ /\ Refusal(i) = 0 /\ Awaits(i) = <<>>
          /\ Answer(r, 200, TRUE)
          /\ IF i.route = "image" THEN Serve(i) ELSE UNCHANGED readVars
          /\ UNCHANGED step
       \/ /\ Refusal(i) = 0 /\ Awaits(i) # <<>>
          /\ stage' = [stage EXCEPT ![r] = "await"]
          /\ step' = [step EXCEPT ![r] = 1]
          /\ UNCHANGED <<reply, readVars>>
    /\ UNCHANGED <<input, done, success, crashes>>

\* External: what a handler has asked for happens, also after it was given up.
Happen(r) ==
    /\ \E k \in (1 .. step[r]) \ done[r] :
        done' = [done EXCEPT ![r] = @ \cup {k}]
    /\ UNCHANGED <<input, stage, step, success, reply, readVars, crashes>>

\* The mail is not awaited.
ResolveUnawaited_Bug(r) ==
    /\ stage[r] = "await"
    /\ step[r] \in done[r] \/ Awaits(input[r])[step[r]] \in Providers
    /\ step' = [step EXCEPT ![r] = Len(Awaits(input[r]))]
    /\ Answer(r, 200, TRUE)
    /\ UNCHANGED <<input, done, success, readVars, crashes>>

\* An await returns, and the handler goes on to the next or answers.  The
\* socket server always returns, with a result that getStatus spreads over
\* its answer and of which sendText makes null if it is no success; what Maxbot
\* says is passed on by GET /contact beside `success'.
Resolve(r) ==
    LET awaits == Awaits(input[r]) IN
    /\ stage[r] = "await"
    /\ step[r] \in done[r] \/ awaits[step[r]] \in Providers
    /\ \E ok \in BOOLEAN :
        /\ IF awaits[step[r]] \in Providers THEN ok => step[r] \in done[r]
           ELSE ok = success[r]
        /\ success' = [success EXCEPT ![r] = ok]
        /\ IF step[r] < Len(awaits)
           THEN step' = [step EXCEPT ![r] = @ + 1] /\ UNCHANGED <<stage, reply>>
           ELSE /\ Answer(r, 200, input[r].route = "socketStatus" => ok)
                /\ UNCHANGED step
    /\ UNCHANGED <<input, done, readVars, crashes>>

\* @Catch swallows the rejection.
RejectSilently_Bug(r) ==
    /\ stage[r] = "await"
    /\ Awaits(input[r])[step[r]] # "device"
    /\ stage' = [stage EXCEPT ![r] = "answered"]
    /\ UNCHANGED <<input, step, done, success, reply, readVars, crashes>>

\* An await rejects: @Catch (or Express, where a controller has none) hands the
\* error to errorMiddleware.
Reject(r) ==
    /\ stage[r] = "await"
    /\ Awaits(input[r])[step[r]] # "device"
    /\ Answer(r, 500, FALSE)
    /\ UNCHANGED <<input, step, done, success, readVars, crashes>>

-----------------------------------------------------------------------------
(* Readings, and the end of the process.                                    *)

\* The UPDATE of increment adds one in the database, or fails; sendFile only
\* logs which.
Increment(e) ==
    /\ pending[e] > 0
    /\ pending' = [pending EXCEPT ![e] = @ - 1]
    /\ \/ countRead' = [countRead EXCEPT ![e] = @ + 1] /\ UNCHANGED lost
       \/ lost' = [lost EXCEPT ![e] = @ + 1] /\ UNCHANGED countRead
    /\ UNCHANGED <<requestVars, served, crashes>>

\* The process dies and is started again.
Crash ==
    /\ crashes < MaxCrashes
    /\ crashes' = crashes + 1
    /\ stage' = [r \in Requests |-> IF stage[r] = "await" THEN "lost" ELSE stage[r]]
    /\ lost' = [e \in Rows |-> lost[e] + pending[e]]
    /\ pending' = [e \in Rows |-> 0]
    /\ UNCHANGED <<input, step, done, success, reply, countRead, served>>

Next ==
    \/ \E r \in Requests : Arrive(r) \/ Happen(r) \/ Resolve(r) \/ Reject(r)
    \/ \E e \in Rows : Increment(e)
    \/ Crash

Spec == Init /\ [][Next]_vars

\* An await of the database, of Redis and of Maxbot returns or rejects, one of
\* the socket server returns (its timer).  Nobody owes a request.
Fairness == \A r \in Requests : WF_vars(Resolve(r) \/ Reject(r))

FairSpec == Spec /\ Fairness

-----------------------------------------------------------------------------
(* Properties.                                                              *)

\* What a request has not done: the awaits of its route that have not happened.
Missing(r) == DOMAIN Awaits(input[r]) \ done[r]

\* A request that needs a token and has no valid one is refused, whatever else
\* is wrong with it, and leaves no trace (the parsers, the order of IndexRoute,
\* authMiddleware): 500 where nobody expected the error, 401 or 403 elsewhere.
NothingUnauthorized ==
    \A r \in Requests :
        input[r].route \notin Public /\ input[r].token # "valid" =>
            /\ done[r] = {}
            /\ reply[r] # <<>> =>
                reply[r][1].status \in {401, 403, 500} /\ ~reply[r][1].success

\* The answer is true of all that was asked for, however its parts ended: with
\* 200 and `success' all has happened (except that sendText of the socket says
\* success of a message the device did not take, and GET /contact of a Maxbot
\* that is not ready), a refusal leaves nothing behind, and after a 500 the
\* parts before the one that failed have happened, so that a client that tries
\* again repeats them.
AnswersAreTrue ==
    \A r \in Requests : reply[r] # <<>> =>
        LET status == reply[r][1].status
            told == {k \in DOMAIN Awaits(input[r]) : Awaits(input[r])[k] \in Providers}
        IN  /\ status = 200 =>
                /\ Missing(r) \subseteq told
                /\ reply[r][1].success /\ Missing(r) # {} =>
                        input[r].route \in {"socketText", "contactList"}
            /\ status = 500 => (1 .. step[r] - 1) \subseteq done[r] \cup told
            /\ status \notin {200, 500} => done[r] = {}
            /\ status # 200 => ~reply[r][1].success

\* Every image that is sent for an e-mail is counted for that e-mail once, or
\* its increment has failed: the name that setImageNameDto made leads back to
\* its row, and nothing is counted for an image that is not sent (sendFile).
ReadingsAreCounted ==
    \A e \in Rows : served[e] = countRead[e] + pending[e] + lost[e]

\* Every request is answered, unless the process dies.
EveryRequestIsAnswered ==
    \A r \in Requests :
        stage[r] = "await" ~> reply[r] # <<>> \/ stage[r] = "lost"
=============================================================================
