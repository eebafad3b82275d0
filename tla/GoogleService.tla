---------------------------- MODULE GoogleService ----------------------------
(***************************************************************************)
(* Google's contacts and the tokens they need: src/services/GoogleService, *)
(* src/useCases/contact/google, googleCode of src/useCases/auth.           *)
(*                                                                         *)
(* The tokens are in token.json and in the memory of the OAuth2 client. The *)
(* client refreshes an expired access token and raises `tokens' for every  *)
(* token it gets; those of a refresh hold no refresh token, the client puts *)
(* its own back afterwards, in memory.  A synchronisation reads page after *)
(* page, inside a promise whose executor drops the rejections of `next': a *)
(* request that fails ends the process, and docker starts it again.        *)
(***************************************************************************)
EXTENDS Naturals, Sequences, SequencesExt, Lists

CONSTANTS
    Codes,          \* requests to /auth/google
    Syncs,          \* requests to /contact/google/sync
    People,         \* the user's contacts at Google
    Phones,         \* their phone numbers: [value, main], main if flagged
                    \* primary, verified or default
    Book,           \* the contacts in Google's pages
    None,           \* no phone
    MaxExpiries,    \* bound: how often an access token expires
    MaxCrashes      \* bound: crashes that no rejection causes

ASSUME BookAssumption ==
    /\ \A p \in People : Phones[p] \in Seq([value : STRING, main : BOOLEAN])
    /\ Book \in Seq(Seq(People)) /\ Book # <<>>
ASSUME BoundsAssumption == MaxExpiries \in Nat /\ MaxCrashes \in Nat

VARIABLES
    configured,     \* credentials.json is there, with `installed'
    writable,       \* token.json can be written
    file,           \* token.json
    up,             \* the process runs
    client,         \* oAuth2Client.credentials
    authUrl,        \* GoogleService.authUrl is set
    given,          \* history: this process was given a refresh token, by the
                    \* file or by a consent
    bare,           \* history: its last consent brought none
    issued,         \* Google: access tokens so far, numbered as they come
    live,           \* those that have not expired
    expiries, crashes,
    code,           \* the requests to /auth/google
    stage,          \* the synchronisations
    page, data,     \* their page and the contacts so far
    using,          \* the refresh token the client had when it was asked
    cut             \* history: a page came with another status than 200

disk == <<configured, writable, file>>
memory == <<up, client, authUrl, given, bare>>
google == <<issued, live>>
bounds == <<expiries, crashes>>
sync == <<stage, page, data, using, cut>>
vars == <<disk, memory, google, bounds, code, sync>>

\* 0 stands for a token that is not there.
NoTokens == [access |-> 0, refresh |-> 0]
Tokens == [access : 0 .. issued, refresh : 0 .. issued]

TypeOK ==
    /\ configured \in BOOLEAN /\ writable \in BOOLEAN
    /\ up \in BOOLEAN /\ authUrl \in BOOLEAN
    /\ given \in BOOLEAN /\ bare \in BOOLEAN
    /\ file \in Tokens /\ client \in Tokens
    /\ issued \in Nat /\ live \subseteq 1 .. issued
    /\ expiries \in 0 .. MaxExpiries /\ crashes \in 0 .. MaxCrashes
    /\ code \in [Codes -> {"idle", "asked", "ok", "error", "lost"}]
    /\ stage \in [Syncs -> {"idle", "refresh", "list", "answered",
                            "starved", "failed", "lost"}]
    /\ page \in [Syncs -> 0 .. Len(Book)]
    /\ using \in [Syncs -> 0 .. issued] /\ cut \in [Syncs -> BOOLEAN]

Init ==
    /\ configured \in BOOLEAN /\ writable \in BOOLEAN
    /\ up = FALSE /\ authUrl = FALSE /\ given = FALSE /\ bare = FALSE
    /\ file = NoTokens /\ client = NoTokens
    /\ issued = 0 /\ live = {}
    /\ expiries = 0 /\ crashes = 0
    /\ code = [c \in Codes |-> "idle"]
    /\ stage = [s \in Syncs |-> "idle"]
    /\ page = [s \in Syncs |-> 0] /\ data = [s \in Syncs |-> <<>>]
    /\ using = [s \in Syncs |-> 0] /\ cut = [s \in Syncs |-> FALSE]

-----------------------------------------------------------------------------
(* The process.                                                             *)

\* loadCredentials: the tokens of the file, if the credentials are there too.
LoadCredentials == IF configured THEN file ELSE NoTokens

\* requestAuthUrl is called for a client without tokens.
RequestAuthUrl == configured /\ LoadCredentials = NoTokens

\* The constructor: loadCredentials and authorize.
Boot ==
    /\ ~up
    /\ up' = TRUE
    /\ client' = LoadCredentials
    /\ authUrl' = RequestAuthUrl
    /\ given' = (LoadCredentials.refresh # 0)
    /\ UNCHANGED <<disk, bare, google, bounds, code, sync>>

\* The process ends in the synchronisations `ended', for a reason; whatever
\* else it was doing is lost.
End(ended, reason) ==
    /\ up' = FALSE /\ client' = NoTokens /\ authUrl' = FALSE
    /\ given' = FALSE /\ bare' = FALSE
    /\ code' = [c \in Codes |-> IF code[c] = "asked" THEN "lost" ELSE code[c]]
    /\ stage' = [s \in Syncs |->
                 IF s \in ended THEN reason
                 ELSE IF stage[s] \in {"refresh", "list"} THEN "lost" ELSE stage[s]]

Crash ==
    /\ up
    /\ crashes < MaxCrashes
    /\ crashes' = crashes + 1
    /\ End({}, "lost")
    /\ UNCHANGED <<disk, google, expiries, page, data, using, cut>>

\* External: the client takes its access token for expired.
Expire ==
    /\ client.access \in live
    /\ expiries < MaxExpiries
    /\ expiries' = expiries + 1
    /\ live' = live \ {client.access}
    /\ UNCHANGED <<disk, memory, issued, crashes, code, sync>>

-----------------------------------------------------------------------------
(* Tokens.                                                                  *)

\* External: Google issues an access token.
Issue == issued' = issued + 1 /\ live' = live \cup {issued + 1}

\* The file is written by the authorisation only.
SaveOnce_Bug(tokens) ==
    /\ file' = IF writable /\ file = NoTokens THEN tokens ELSE file
    /\ UNCHANGED <<configured, writable>>

\* saveTokens, the listener of `tokens'; an error of the file is swallowed.
Save(tokens) ==
    /\ file' = IF writable THEN tokens ELSE file
    /\ UNCHANGED <<configured, writable>>

\* googleCode, authorizeByCode; without credentials there is no client, and
\* the TypeError is answered by @Catch.
AskCode(c) ==
    /\ up
    /\ code[c] = "idle"
    /\ code' = [code EXCEPT ![c] = IF configured THEN "asked" ELSE "error"]
    /\ UNCHANGED <<disk, memory, google, bounds, sync>>

\* authorizeByCode keeps the tokens for itself.
SetCredentials_Bug(tokens) == UNCHANGED client

\* authorizeByCode: setCredentials replaces both tokens.
SetCredentials(tokens) == client' = tokens

\* getToken resolves, after the client has raised `tokens'.  Google gives a
\* refresh token with the first consent and may give none with a later one,
\* and the first may have been another process's.
CodeAnswer(c) ==
    /\ code[c] = "asked"
    /\ Issue
    /\ \E refresh \in {0, issued + 1} :
        LET tokens == [access |-> issued + 1, refresh |-> refresh]
        IN  /\ Save(tokens)
            /\ SetCredentials(tokens)
            /\ given' = (given \/ refresh # 0)
            /\ bare' = (refresh = 0)
    /\ authUrl' = FALSE
    /\ code' = [code EXCEPT ![c] = "ok"]
    /\ UNCHANGED <<up, bounds, sync>>

\* getToken rejects, which @Catch answers.
CodeError(c) ==
    /\ code[c] = "asked"
    /\ code' = [code EXCEPT ![c] = "error"]
    /\ UNCHANGED <<disk, memory, google, bounds, sync>>

-----------------------------------------------------------------------------
(* Contacts.                                                                *)

\* findPrimary takes the last flagged entry, or none.
FindPrimary_Bug(entries) ==
    LET main == Kept(entries, {i \in DOMAIN entries : entries[i].main}) IN
    IF main # <<>> THEN Last(main).value
    ELSE IF entries # <<>> THEN Head(entries).value ELSE None

\* findPrimary: the first flagged entry, or the first.
FindPrimary(entries) ==
    LET main == Kept(entries, {i \in DOMAIN entries : entries[i].main}) IN
    IF main # <<>> THEN Head(main).value
    ELSE IF entries # <<>> THEN Head(entries).value ELSE None

\* personDto of every person of a page; e-mail, name and photo are chosen like
\* the phone number.
Contacts(people) ==
    [i \in 1 .. Len(people) |->
        [resourceName |-> people[i], phone |-> FindPrimary(Phones[people[i]])]]

\* getContacts: the client uses its access token, refreshes an expired one, or
\* rejects when it has nothing to refresh it with, and the process ends.
GetContacts(s, n, contacts) ==
    /\ page' = [page EXCEPT ![s] = n]
    /\ data' = [data EXCEPT ![s] = contacts]
    /\ using' = [using EXCEPT ![s] = client.refresh]
    /\ UNCHANGED cut
    /\ IF client.access \in live
       THEN stage' = [stage EXCEPT ![s] = "list"] /\ UNCHANGED <<memory, code>>
       ELSE IF client.refresh # 0
       THEN stage' = [stage EXCEPT ![s] = "refresh"] /\ UNCHANGED <<memory, code>>
       ELSE End({s}, "starved")

\* googleSync, allContacts: the first page.
AskSync(s) ==
    /\ up
    /\ stage[s] = "idle"
    /\ GetContacts(s, 1, <<>>)
    /\ UNCHANGED <<disk, google, bounds>>

\* The client gets a new access token for all who wait for this refresh token:
\* it raises `tokens' (authorize saves them) and only then adds the refresh
\* token to its own copy.
Refresh(token) ==
    LET waiting == {s \in Syncs : stage[s] = "refresh" /\ using[s] = token}
    IN  /\ waiting # {}
        /\ Issue
        /\ Save([access |-> issued + 1, refresh |-> 0])
        /\ client' = [access |-> issued + 1, refresh |-> token]
        /\ stage' = [s \in Syncs |-> IF s \in waiting THEN "list" ELSE stage[s]]
        /\ UNCHANGED <<up, authUrl, given, bare, bounds, code, page, data,
                       using, cut>>

\* The promise is not resolved after the last page.
ListAnswerUnresolved_Bug(s) ==
    /\ stage[s] = "list"
    /\ page[s] < Len(Book)
    /\ GetContacts(s, page[s] + 1, data[s] \o Contacts(Book[page[s]]))
    /\ UNCHANGED <<disk, google, bounds>>

\* A page with another status is left out, and `next' goes on after it.
ListAnswerSkips_Bug(s) ==
    /\ stage[s] = "list"
    /\ \E success \in BOOLEAN :
        LET contacts == IF success THEN data[s] \o Contacts(Book[page[s]]) ELSE data[s]
        IN  IF page[s] < Len(Book) THEN GetContacts(s, page[s] + 1, contacts)
            ELSE /\ stage' = [stage EXCEPT ![s] = "answered"]
                 /\ data' = [data EXCEPT ![s] = contacts]
                 /\ cut' = [cut EXCEPT ![s] = ~success]
                 /\ UNCHANGED <<memory, code, page, using>>
    /\ UNCHANGED <<disk, google, bounds>>

\* A page arrives.  With status 200, `next' adds its contacts and asks for the
\* page its token names.  After the last one, and after a page with any other
\* status that the client does not reject, it resolves with what it has, and
\* the request is answered with `success'.
ListAnswer(s) ==
    /\ stage[s] = "list"
    /\ \E success \in BOOLEAN :
        LET contacts == IF success THEN data[s] \o Contacts(Book[page[s]]) ELSE data[s]
        IN  IF success /\ page[s] < Len(Book) THEN GetContacts(s, page[s] + 1, contacts)
            ELSE /\ stage' = [stage EXCEPT ![s] = "answered"]
                 /\ data' = [data EXCEPT ![s] = contacts]
                 /\ cut' = [cut EXCEPT ![s] = ~success]
                 /\ UNCHANGED <<memory, code, page, using>>
    /\ UNCHANGED <<disk, google, bounds>>

\* Google refuses a request or the network fails (a refresh fails for all who
\* wait for it): an unhandled rejection, which ends the process.
Reject(s) ==
    /\ stage[s] \in {"refresh", "list"}
    /\ End(IF stage[s] = "list" THEN {s}
           ELSE {t \in Syncs : stage[t] = "refresh" /\ using[t] = using[s]}, "failed")
    /\ UNCHANGED <<disk, google, bounds, page, data, using, cut>>

Next ==
    \/ Boot \/ Crash \/ Expire
    \/ \E c \in Codes : AskCode(c) \/ CodeAnswer(c) \/ CodeError(c)
    \/ \E s \in Syncs : AskSync(s) \/ ListAnswer(s) \/ Reject(s)
    \/ \E token \in 1 .. issued : Refresh(token)

Spec == Init /\ [][Next]_vars

\* docker starts the process, and Google ends every exchange in the end, with
\* an answer unless with an error.  Nobody owes a request or a consent.
Fairness ==
    /\ WF_vars(Boot)
    /\ \A s \in Syncs :
        /\ WF_vars(ListAnswer(s))
        /\ WF_vars(stage[s] = "refresh" /\ Refresh(using[s]))

FairSpec == Spec /\ Fairness

-----------------------------------------------------------------------------
(* Properties.                                                              *)

\* The value of a first entry that is flagged or, when none is, of the first.
IsPrimary(value, entries) ==
    IF entries = <<>> THEN value = None
    ELSE \E i \in DOMAIN entries :
            /\ value = entries[i].value
            /\ \A j \in 1 .. i - 1 : ~entries[j].main
            /\ \/ entries[i].main
               \/ i = 1 /\ \A j \in DOMAIN entries : ~entries[j].main

\* The people of the first n pages.
PeopleOf[n \in 0 .. Len(Book)] == IF n = 0 THEN <<>> ELSE PeopleOf[n - 1] \o Book[n]

\* A synchronisation that is answered holds every contact of its pages once, in
\* Google's order and with the right phone number, whatever expired, was
\* refreshed or was synchronised beside it.  Its pages are all there are or,
\* when one came with another status than 200, all before that one: the answer
\* is short then, and never has a hole or a contact twice (allContacts,
\* personDto).
SyncHoldsItsPages ==
    \A s \in Syncs : stage[s] = "answered" =>
        LET all == PeopleOf[IF cut[s] THEN page[s] - 1 ELSE Len(Book)] IN
        /\ [i \in DOMAIN data[s] |-> data[s][i].resourceName] = all
        /\ \A i \in DOMAIN all : IsPrimary(data[s][i].phone, Phones[all[i]])

\* The two copies of the tokens: the file has the access token that the client
\* uses, by whatever way it came, so that a restart goes on with it; and the
\* URL for a consent is offered when there are no tokens and only then
\* (saveTokens, authorize, authorizeByCode).
TokensAreKept ==
    up /\ configured =>
        /\ writable => client.access = file.access
        /\ authUrl <=> client = NoTokens

\* A process that was once given a refresh token, by the file or by a consent,
\* refuses a synchronisation for want of tokens in one case only: its last
\* consent brought none, so that setCredentials has thrown away the one it had.
\* No expiry and no refresh loses it, whatever a refresh waits for meanwhile.
\* (The next process may be without: after a refresh the file holds none.)
SyncsAreAuthorized ==
    [][\A s \in Syncs :
        stage'[s] = "starved" /\ stage[s] # "starved" /\ given => bare]_vars

\* A synchronisation ends: it is answered, if only with the pages before one
\* that failed, or the process ends with it.
SyncsEnd ==
    \A s \in Syncs :
        stage[s] \in {"refresh", "list"}
            ~> stage[s] \in {"answered", "starved", "failed", "lost"}
=============================================================================
