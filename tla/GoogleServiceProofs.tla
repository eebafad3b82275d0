------------------------- MODULE GoogleServiceProofs -------------------------
(***************************************************************************)
(* Proofs about GoogleService, for any requests, contacts, pages, number of *)
(* expiries and crashes.                                                   *)
(*                                                                         *)
(* TokensAreKept is not inductive: a refresh writes the file and the client *)
(* but not the URL, and is right only because nobody waits for a refresh at *)
(* a client without tokens; and SyncsAreAuthorized needs that what a refresh *)
(* puts back is a refresh token.  Of a synchronisation SyncInv says what it *)
(* holds before each page.                                                 *)
(***************************************************************************)
EXTENDS GoogleService, ListProofs

\* A process that was given a refresh token holds one, unless its last consent
\* replaced it with none; without a process, or without credentials, there are
\* no tokens and no URL.
ClientInv ==
    /\ given /\ ~bare => client.refresh # 0
    /\ ~up \/ ~configured => client = NoTokens /\ ~authUrl

\* Who waits for Google waits in a process that runs, and who waits for a
\* refresh does so with a refresh token, at a client that has tokens.
RequestInv ==
    /\ \A c \in Codes : code[c] = "asked" => up /\ configured
    /\ \A s \in Syncs :
        /\ stage[s] \in {"refresh", "list"} => up
        /\ stage[s] = "refresh" => using[s] # 0 /\ client # NoTokens

IInv == TypeOK /\ TokensAreKept /\ ClientInv /\ RequestInv

-----------------------------------------------------------------------------
LEMMA InitHolds == Init => IInv
<1> SUFFICES ASSUME Init PROVE IInv
    OBVIOUS
<1> USE BookAssumption, BoundsAssumption DEF Init
<1>1. TypeOK
    <2>1. 0 \in 0 .. issued /\ 0 \in 0 .. MaxExpiries /\ 0 \in 0 .. MaxCrashes
          /\ 0 \in 0 .. Len(Book)
        OBVIOUS
    <2>2. file \in Tokens /\ client \in Tokens BY <2>1 DEF NoTokens, Tokens
    <2> QED BY <2>1, <2>2 DEF TypeOK
<1>2. TokensAreKept BY DEF TokensAreKept
<1>3. ClientInv BY DEF ClientInv
<1>4. RequestInv BY DEF RequestInv
<1> QED BY <1>1, <1>2, <1>3, <1>4 DEF IInv

\* The end of the process leaves no tokens, no URL and nobody waiting.
LEMMA EndKeeps ==
    ASSUME IInv, NEW ended, NEW reason \in {"starved", "failed", "lost"},
           End(ended, reason), UNCHANGED <<disk, google>>,
           expiries' \in 0 .. MaxExpiries, crashes' \in 0 .. MaxCrashes,
           page' \in [Syncs -> 0 .. Len(Book)], using' \in [Syncs -> 0 .. issued],
           UNCHANGED cut
    PROVE  IInv'
<1> USE DEF IInv, disk, google
<1>1. TypeOK'
    <2>1. client' \in Tokens' BY DEF TypeOK, End, NoTokens, Tokens
    <2>2. file' \in Tokens' BY DEF TypeOK, Tokens
    <2>3. code' \in [Codes -> {"idle", "asked", "ok", "error", "lost"}]
        BY DEF TypeOK, End
    <2>4. stage' \in [Syncs -> {"idle", "refresh", "list", "answered",
                                "starved", "failed", "lost"}]
        BY DEF TypeOK, End
    <2> QED BY <2>1, <2>2, <2>3, <2>4 DEF TypeOK, End
<1>2. TokensAreKept' BY DEF TokensAreKept, End
<1>3. ClientInv' BY DEF ClientInv, End
<1>4. RequestInv'
    <2>1. \A c \in Codes : code'[c] # "asked" BY DEF TypeOK, End
    <2>2. \A s \in Syncs : stage'[s] \notin {"refresh", "list"}
        BY DEF TypeOK, End
    <2> QED BY <2>1, <2>2 DEF RequestInv
<1> QED BY <1>1, <1>2, <1>3, <1>4

\* A request to Google that cannot be made ends the process; one that can
\* waits for a page or, with a refresh token, for a refresh.
LEMMA GetContactsKeeps ==
    ASSUME IInv, up, NEW s \in Syncs, NEW n \in 0 .. Len(Book), NEW contacts,
           GetContacts(s, n, contacts), UNCHANGED <<disk, google, bounds>>
    PROVE  IInv'
<1> USE DEF IInv
<1>1. page' \in [Syncs -> 0 .. Len(Book)]
    BY DEF GetContacts, TypeOK
<1>2. using' \in [Syncs -> 0 .. issued] /\ cut' = cut
    BY DEF GetContacts, TypeOK, Tokens
<1>3. CASE client.access \in live \/ client.refresh # 0
    <2>1. /\ UNCHANGED <<memory, code>>
          /\ \/ stage' = [stage EXCEPT ![s] = "list"]
             \/ /\ stage' = [stage EXCEPT ![s] = "refresh"]
                /\ client.refresh # 0
        BY <1>3 DEF GetContacts
    <2>2. TypeOK'
        BY <1>1, <1>2, <2>1
        DEF TypeOK, Tokens, disk, memory, google, bounds
    <2>3. TokensAreKept' BY <2>1 DEF TokensAreKept, disk, memory
    <2>4. ClientInv' BY <2>1 DEF ClientInv, disk, memory
    <2>5. RequestInv'
        <3>1. ASSUME NEW t \in Syncs
              PROVE  /\ stage'[t] \in {"refresh", "list"} => up'
                     /\ stage'[t] = "refresh" => using'[t] # 0 /\ client' # NoTokens
            <4>1. up' /\ client' = client BY <2>1 DEF memory
            <4>2. using' = [using EXCEPT ![s] = client.refresh] BY DEF GetContacts
            <4>3. CASE t = s BY <2>1, <4>1, <4>2, <4>3 DEF TypeOK, NoTokens
            <4>4. CASE t # s
                BY <2>1, <4>1, <4>2, <4>4 DEF TypeOK, RequestInv
            <4> QED BY <4>3, <4>4
        <3>2. \A c \in Codes : code'[c] = "asked" => up' /\ configured'
            BY <2>1 DEF RequestInv, memory, disk
        <3> QED BY <3>1, <3>2 DEF RequestInv
    <2> QED BY <2>2, <2>3, <2>4, <2>5
<1>4. CASE ~(client.access \in live \/ client.refresh # 0)
    <2>1. End({s}, "starved") BY <1>4 DEF GetContacts
    <2> QED BY <1>1, <1>2, <2>1, EndKeeps DEF bounds, TypeOK
<1> QED BY <1>3, <1>4

-----------------------------------------------------------------------------
\* The steps.

LEMMA BootKeeps == IInv /\ Boot => IInv'
<1> SUFFICES ASSUME IInv, Boot PROVE IInv'
    OBVIOUS
<1> USE DEF IInv, Boot, LoadCredentials, RequestAuthUrl, disk, google, bounds,
            sync, NoTokens
<1>1. TypeOK'
    <2>1. client' \in Tokens' BY DEF TypeOK, Tokens
    <2> QED BY <2>1 DEF TypeOK, Tokens
<1>2. TokensAreKept' BY DEF TokensAreKept
<1>3. ClientInv' BY DEF ClientInv
<1>4. RequestInv' BY DEF RequestInv
<1> QED BY <1>1, <1>2, <1>3, <1>4

LEMMA CrashKeeps == IInv /\ Crash => IInv'
<1> SUFFICES ASSUME IInv, Crash PROVE IInv'
    OBVIOUS
<1>1. expiries' \in 0 .. MaxExpiries /\ crashes' \in 0 .. MaxCrashes
    BY BoundsAssumption DEF IInv, TypeOK, Crash
<1> QED BY <1>1, EndKeeps DEF Crash, IInv, TypeOK

LEMMA ExpireKeeps == IInv /\ Expire => IInv'
<1> SUFFICES ASSUME IInv, Expire PROVE IInv'
    OBVIOUS
<1> USE DEF IInv, Expire, disk, memory, sync
<1>1. TypeOK'
    <2>1. expiries' \in 0 .. MaxExpiries BY BoundsAssumption DEF TypeOK
    <2>2. live' \subseteq 1 .. issued' BY DEF TypeOK
    <2> QED BY <2>1, <2>2 DEF TypeOK, Tokens
<1>2. TokensAreKept' /\ ClientInv' /\ RequestInv'
    BY DEF TokensAreKept, ClientInv, RequestInv
<1> QED BY <1>1, <1>2

LEMMA AskCodeKeeps == ASSUME NEW c \in Codes PROVE IInv /\ AskCode(c) => IInv'
<1> SUFFICES ASSUME IInv, AskCode(c) PROVE IInv'
    OBVIOUS
<1> USE DEF IInv, AskCode, disk, memory, google, bounds, sync
<1>1. TypeOK' BY DEF TypeOK, Tokens
<1>2. TokensAreKept' /\ ClientInv' BY DEF TokensAreKept, ClientInv
<1>3. RequestInv' BY DEF RequestInv, TypeOK
<1> QED BY <1>1, <1>2, <1>3

LEMMA CodeErrorKeeps == ASSUME NEW c \in Codes PROVE IInv /\ CodeError(c) => IInv'
<1> SUFFICES ASSUME IInv, CodeError(c) PROVE IInv'
    OBVIOUS
<1> USE DEF IInv, CodeError, disk, memory, google, bounds, sync
<1>1. TypeOK' BY DEF TypeOK, Tokens
<1>2. TokensAreKept' /\ ClientInv' BY DEF TokensAreKept, ClientInv
<1>3. RequestInv' BY DEF RequestInv, TypeOK
<1> QED BY <1>1, <1>2, <1>3

\* A token that Google has just issued is the last one there is.
LEMMA IssueKeepsTypes ==
    ASSUME TypeOK, Issue
    PROVE  /\ issued' \in Nat /\ issued' = issued + 1
           /\ live' \subseteq 1 .. issued'
           /\ 0 .. issued \subseteq 0 .. issued'
           /\ 0 \in 0 .. issued' /\ issued + 1 \in 0 .. issued'
BY DEF TypeOK, Issue

\* A consent writes both copies, and takes the URL away with them.
LEMMA CodeAnswerKeeps == ASSUME NEW c \in Codes PROVE IInv /\ CodeAnswer(c) => IInv'
<1> SUFFICES ASSUME IInv, CodeAnswer(c) PROVE IInv'
    OBVIOUS
<1> USE DEF IInv
<1>1. PICK refresh \in {0, issued + 1} :
        /\ file' = IF writable THEN [access |-> issued + 1, refresh |-> refresh]
                   ELSE file
        /\ client' = [access |-> issued + 1, refresh |-> refresh]
        /\ given' = (given \/ refresh # 0) /\ bare' = (refresh = 0)
    BY DEF CodeAnswer, Save, SetCredentials
<1>2. /\ Issue /\ UNCHANGED <<up, bounds, sync, configured, writable>>
      /\ authUrl' = FALSE /\ code[c] = "asked" /\ up /\ configured
      /\ code' = [code EXCEPT ![c] = "ok"]
    BY DEF CodeAnswer, Save, RequestInv
<1>3. issued \in Nat /\ TypeOK BY DEF TypeOK
<1>4. TypeOK'
    <2>1. client' \in Tokens' BY <1>1, <1>2, <1>3, IssueKeepsTypes DEF Tokens
    <2>2. file' \in Tokens'
        BY <1>1, <1>2, <1>3, IssueKeepsTypes DEF Tokens, TypeOK
    <2>3. using' \in [Syncs -> 0 .. issued']
        BY <1>2, <1>3, IssueKeepsTypes DEF TypeOK, sync
    <2>4. given' \in BOOLEAN /\ bare' \in BOOLEAN BY <1>1
    <2> QED
        BY <1>2, <1>3, <2>1, <2>2, <2>3, <2>4, IssueKeepsTypes
        DEF TypeOK, bounds, sync
<1>5. client' # NoTokens BY <1>1, <1>3 DEF NoTokens
<1>6. TokensAreKept' BY <1>1, <1>2, <1>5 DEF TokensAreKept
<1>7. ClientInv' BY <1>1, <1>2 DEF ClientInv
<1>8. RequestInv' BY <1>2, <1>5 DEF RequestInv, TypeOK, sync
<1> QED BY <1>4, <1>6, <1>7, <1>8

LEMMA AskSyncKeeps == ASSUME NEW s \in Syncs PROVE IInv /\ AskSync(s) => IInv'
<1> SUFFICES ASSUME IInv, AskSync(s) PROVE IInv'
    OBVIOUS
<1>1. 1 \in 0 .. Len(Book) BY BookAssumption
<1> QED BY <1>1, GetContactsKeeps DEF AskSync

\* A refresh writes both copies too.  Somebody waits for it, so the client has
\* tokens and the URL is not offered; and it puts back a refresh token.
LEMMA RefreshKeeps == ASSUME NEW token PROVE IInv /\ Refresh(token) => IInv'
<1> SUFFICES ASSUME IInv, Refresh(token) PROVE IInv'
    OBVIOUS
<1> USE DEF IInv
<1> DEFINE waiting == {s \in Syncs : stage[s] = "refresh" /\ using[s] = token}
<1>1. PICK s \in Syncs : stage[s] = "refresh" /\ using[s] = token
    BY DEF Refresh
<1>2. /\ Issue
      /\ file' = IF writable THEN [access |-> issued + 1, refresh |-> 0] ELSE file
      /\ client' = [access |-> issued + 1, refresh |-> token]
      /\ stage' = [t \in Syncs |-> IF t \in waiting THEN "list" ELSE stage[t]]
      /\ UNCHANGED <<configured, writable, up, authUrl, given, bare, bounds, code,
                     page, using, cut>>
    BY DEF Refresh, Save
<1>3. /\ up /\ token # 0 /\ client # NoTokens /\ token \in 0 .. issued
      /\ issued \in Nat /\ TypeOK
    BY <1>1 DEF RequestInv, TypeOK
<1>4. TypeOK'
    <2>1. client' \in Tokens' /\ file' \in Tokens'
        BY <1>2, <1>3, IssueKeepsTypes DEF Tokens, TypeOK
    <2>2. using' \in [Syncs -> 0 .. issued']
        BY <1>2, <1>3, IssueKeepsTypes DEF TypeOK
    <2> HIDE DEF waiting
    <2>3. stage' \in [Syncs -> {"idle", "refresh", "list", "answered",
                                "starved", "failed", "lost"}]
        BY <1>2 DEF TypeOK
    <2> QED
        BY <1>2, <1>3, <2>1, <2>2, <2>3, IssueKeepsTypes DEF TypeOK, bounds
<1>5. client' # NoTokens BY <1>2, <1>3 DEF NoTokens
<1>6. configured /\ ~authUrl BY <1>3 DEF ClientInv, TokensAreKept
<1>7. TokensAreKept' BY <1>2, <1>5, <1>6 DEF TokensAreKept
<1>8. ClientInv' BY <1>2, <1>3, <1>6 DEF ClientInv
<1>9. RequestInv'
    <2> HIDE DEF waiting
    <2>1. \A t \in Syncs : stage'[t] = "refresh" => stage[t] = "refresh"
        BY <1>2
    <2> QED BY <1>2, <1>3, <1>5, <2>1 DEF RequestInv
<1> QED BY <1>4, <1>7, <1>8, <1>9

LEMMA ListAnswerKeeps == ASSUME NEW s \in Syncs PROVE IInv /\ ListAnswer(s) => IInv'
<1> SUFFICES ASSUME IInv, ListAnswer(s) PROVE IInv'
    OBVIOUS
<1>1. up BY DEF IInv, RequestInv, ListAnswer
<1>2. PICK contacts :
        \/ page[s] < Len(Book) /\ GetContacts(s, page[s] + 1, contacts)
        \/ \E success \in BOOLEAN :
            /\ stage' = [stage EXCEPT ![s] = "answered"]
            /\ cut' = [cut EXCEPT ![s] = ~success]
            /\ UNCHANGED <<memory, code, page, using>>
    BY DEF ListAnswer
<1>3. UNCHANGED <<disk, google, bounds>> BY DEF ListAnswer
<1>4. CASE page[s] < Len(Book) /\ GetContacts(s, page[s] + 1, contacts)
    <2>1. page[s] + 1 \in 0 .. Len(Book) BY <1>4, BookAssumption DEF IInv, TypeOK
    <2> QED BY <1>1, <1>3, <1>4, <2>1, GetContactsKeeps
<1>5. CASE \E success \in BOOLEAN :
            /\ stage' = [stage EXCEPT ![s] = "answered"]
            /\ cut' = [cut EXCEPT ![s] = ~success]
            /\ UNCHANGED <<memory, code, page, using>>
    <2>1. /\ stage' = [stage EXCEPT ![s] = "answered"]
          /\ cut' \in [Syncs -> BOOLEAN]
          /\ UNCHANGED <<memory, code, page, using>>
        BY <1>5 DEF IInv, TypeOK
    <2>2. TypeOK' BY <1>3, <2>1 DEF IInv, TypeOK, Tokens, memory, disk, google, bounds
    <2>3. TokensAreKept' /\ ClientInv'
        BY <1>3, <2>1 DEF IInv, TokensAreKept, ClientInv, memory, disk
    <2>4. RequestInv' BY <1>3, <2>1 DEF IInv, TypeOK, RequestInv, memory, disk
    <2> QED BY <2>2, <2>3, <2>4 DEF IInv
<1> QED BY <1>2, <1>4, <1>5

LEMMA RejectKeeps == ASSUME NEW s \in Syncs PROVE IInv /\ Reject(s) => IInv'
<1> SUFFICES ASSUME IInv, Reject(s) PROVE IInv'
    OBVIOUS
<1> QED BY EndKeeps DEF Reject, bounds, IInv, TypeOK

LEMMA NextKeeps == IInv /\ [Next]_vars => IInv'
<1> SUFFICES ASSUME IInv, [Next]_vars PROVE IInv'
    OBVIOUS
<1>1. CASE Boot BY <1>1, BootKeeps
<1>2. CASE Crash BY <1>2, CrashKeeps
<1>3. CASE Expire BY <1>3, ExpireKeeps
<1>4. CASE \E c \in Codes : AskCode(c) \/ CodeAnswer(c) \/ CodeError(c)
    BY <1>4, AskCodeKeeps, CodeAnswerKeeps, CodeErrorKeeps
<1>5. CASE \E s \in Syncs : AskSync(s) \/ ListAnswer(s) \/ Reject(s)
    BY <1>5, AskSyncKeeps, ListAnswerKeeps, RejectKeeps
<1>6. CASE \E token \in 1 .. issued : Refresh(token)
    BY <1>6, RefreshKeeps
<1>7. CASE UNCHANGED vars
    BY <1>7
    DEF vars, disk, memory, google, bounds, sync, IInv, TypeOK, Tokens,
        TokensAreKept, ClientInv, RequestInv
<1> QED BY <1>1, <1>2, <1>3, <1>4, <1>5, <1>6, <1>7 DEF Next

-----------------------------------------------------------------------------
\* IInv holds in every reachable state, for any number of requests, expiries,
\* crashes and pages.
THEOREM Invariance == Spec => []IInv
<1> QED BY InitHolds, NextKeeps, PTL DEF Spec

\* The types: no copy of the tokens names one that Google has not issued, and
\* no synchronisation asks for a page after the last.
THEOREM TypeCorrect == Spec => []TypeOK
<1>1. IInv => TypeOK BY DEF IInv
<1> QED BY Invariance, <1>1, PTL

\* saveTokens and the client: the file has the access token in use, and the
\* URL for a consent is offered to a client without tokens and to no other.
THEOREM TokensAreKeptHolds == Spec => []TokensAreKept
<1>1. IInv => TokensAreKept BY DEF IInv
<1> QED BY Invariance, <1>1, PTL

\* authorizeByCode and the client: a process that was once given a refresh token
\* ends for want of tokens only if its last consent has replaced it with none.
THEOREM SyncsAreAuthorizedHolds == Spec => SyncsAreAuthorized
<1> DEFINE Authorized ==
        \A s \in Syncs :
            stage'[s] = "starved" /\ stage[s] # "starved" /\ given => bare
<1>1. ASSUME IInv, [Next]_vars PROVE Authorized
    <2> SUFFICES ASSUME NEW s \in Syncs, stage'[s] = "starved",
                        stage[s] # "starved", given, ~bare
                 PROVE  FALSE
        OBVIOUS
    <2>1. client.refresh # 0 BY <1>1 DEF IInv, ClientInv
    <2>2. \A n, contacts : \A t \in Syncs : ~GetContacts(t, n, contacts)
        BY <1>1, <2>1 DEF GetContacts, IInv, TypeOK
    <2>3. \A ended, reason :
            End(ended, reason) => reason = "starved"
        BY DEF End
    <2>4. ~Crash BY <1>1, <2>3 DEF Crash
    <2>5. \A t \in Syncs : ~AskSync(t) BY <2>2 DEF AskSync
    <2>6. \A t \in Syncs : ~ListAnswer(t)
        BY <1>1, <2>2 DEF ListAnswer, IInv, TypeOK
    <2>7. \A t \in Syncs : ~Reject(t) BY <2>3 DEF Reject
    <2>8. \A token : ~Refresh(token) BY DEF Refresh
    <2>9. stage' # stage OBVIOUS
    <2> QED
        BY <1>1, <2>4, <2>5, <2>6, <2>7, <2>8, <2>9
        DEF Next, vars, sync, Boot, Expire, AskCode, CodeAnswer, CodeError
<1>2. IInv /\ [Next]_vars => [Authorized]_vars BY <1>1
<1> QED BY Invariance, <1>2, PTL DEF Spec, SyncsAreAuthorized
-----------------------------------------------------------------------------
(* The contacts.  A synchronisation holds what the pages before its own hold. *)

PersonDtos == {[resourceName |-> p, phone |-> FindPrimary(Phones[p])] : p \in People}

\* What allContacts makes of them.
DtosOf(n) ==
    [i \in 1 .. Len(PeopleOf[n]) |->
        [resourceName |-> PeopleOf[n][i], phone |-> FindPrimary(Phones[PeopleOf[n][i]])]]

LEMMA PagesAre ==
    /\ Len(Book) \in Nat \ {0}
    /\ \A n \in 1 .. Len(Book) : Book[n] \in Seq(People)
BY BookAssumption, EmptySeq, ElementOfSeq

\* The recursive definition of PeopleOf has a solution, page after page.
LEMMA PeopleAre ==
    /\ PeopleOf[0] = <<>>
    /\ \A n \in 0 .. Len(Book) : PeopleOf[n] \in Seq(People)
    /\ \A n \in 1 .. Len(Book) : PeopleOf[n] = PeopleOf[n - 1] \o Book[n]
<1> DEFINE N == Len(Book)
           S == Seq(People)
           step == [x \in (1 .. N) \X S |-> x[2] \o Book[x[1]]]
<1>1. N \in Nat \ {0} /\ \A n \in 1 .. N : Book[n] \in S BY PagesAre
<1>2. step \in [(1 .. N) \X S -> S]
    <2>1. \A x \in (1 .. N) \X S : x[2] \in S /\ Book[x[1]] \in S BY <1>1
    <2>2. \A a, b \in S : a \o b \in S BY ConcatProperties
    <2> QED BY <2>1, <2>2
<1>3. PICK base : base = <<>> /\ base \in S
    <2>1. <<>> \in S OBVIOUS
    <2> QED BY <2>1
<1>4. \E f : Iterates(f, N, S, base, step)
    <2> HIDE DEF N, S, step
    <2> QED BY <1>1, <1>2, <1>3, Iteration
<1>5. PICK f : /\ f \in [0 .. N -> S] /\ f[0] = <<>>
               /\ \A k \in 1 .. N : f[k] = step[<<k, f[k - 1]>>]
    BY <1>3, <1>4 DEF Iterates
<1>6. ASSUME NEW k \in 1 .. N PROVE f[k] = f[k - 1] \o Book[k]
    <2>1. k - 1 \in 0 .. N BY <1>1
    <2>2. f[k - 1] \in S BY <1>5, <2>1
    <2> QED BY <1>5, <2>2
<1>7. ASSUME NEW k \in 0 .. N
      PROVE  f[k] = IF k = 0 THEN <<>> ELSE f[k - 1] \o Book[k]
    <2>1. CASE k = 0 BY <1>5, <2>1
    <2>2. CASE k # 0
        <3>1. k \in 1 .. N BY <1>1, <2>2
        <3> QED BY <1>6, <2>2, <3>1
    <2> QED BY <2>1, <2>2
<1> HIDE DEF S
<1>8. f = [k \in 0 .. N |-> IF k = 0 THEN <<>> ELSE f[k - 1] \o Book[k]]
    <2> HIDE DEF N
    <2> QED BY <1>5, <1>7
<1>9. PeopleOf = [k \in 0 .. N |-> IF k = 0 THEN <<>> ELSE PeopleOf[k - 1] \o Book[k]]
    BY <1>8 DEF PeopleOf
<1> HIDE DEF N
<1>10. ASSUME NEW n \in 0 .. N
      PROVE  PeopleOf[n] = IF n = 0 THEN <<>> ELSE PeopleOf[n - 1] \o Book[n]
    BY <1>9
<1>11. 0 \in 0 .. N /\ PeopleOf[0] = <<>>
    <2>1. 0 \in 0 .. N BY <1>1
    <2> QED BY <1>10, <2>1
<1>12. ASSUME NEW n \in 1 .. N PROVE PeopleOf[n] = PeopleOf[n - 1] \o Book[n]
    <2>1. n \in 0 .. N /\ n # 0 BY <1>1
    <2> QED BY <1>10, <2>1
<1> DEFINE T == {n \in 0 .. N : PeopleOf[n] \in S}
<1>13. T = 0 .. N
    <2>1. 0 \in T BY <1>3, <1>11
    <2>2. ASSUME NEW n \in T, n < N PROVE n + 1 \in T
        <3>1. n \in Nat /\ n + 1 \in 1 .. N /\ n + 1 \in 0 .. N /\ (n + 1) - 1 = n
            BY <1>1, <2>2
        <3>2. Book[n + 1] \in S /\ PeopleOf[n] \in S BY <1>1, <3>1
        <3>3. PeopleOf[n] \o Book[n + 1] \in S BY <3>2, ConcatProperties DEF S
        <3>4. PeopleOf[n + 1] \in S BY <1>12, <3>1, <3>3
        <3> QED BY <3>1, <3>4
    <2>3. T \in SUBSET (0 .. N) /\ N \in Nat BY <1>1
    <2> HIDE DEF T
    <2> QED BY <2>1, <2>2, <2>3, InductionUpTo
<1>14. \A n \in 0 .. N : PeopleOf[n] \in S BY <1>13
<1> QED BY <1>11, <1>12, <1>14 DEF N, S

\* findPrimary: the first flagged entry, or the first, or none.
LEMMA FindPrimaryIs ==
    ASSUME NEW p \in People PROVE IsPrimary(FindPrimary(Phones[p]), Phones[p])
<1> DEFINE entries == Phones[p]
           keep == {i \in 1 .. Len(entries) : entries[i].main}
           main == Kept(entries, keep)
           Phone == [value : STRING, main : BOOLEAN]
<1>1. /\ entries \in Seq(Phone) /\ Len(entries) \in Nat
      /\ DOMAIN entries = 1 .. Len(entries)
    BY BookAssumption, LenProperties
<1>2. FindPrimary(entries) = IF main # <<>> THEN Head(main).value
                             ELSE IF entries # <<>> THEN Head(entries).value ELSE None
    BY <1>1 DEF FindPrimary
<1>3. /\ keep = {} => main = <<>>
      /\ keep # {} =>
            /\ main # <<>>
            /\ \E i \in keep : Head(main) = entries[i] /\ \A j \in keep : i <= j
    <2>1. keep \in SUBSET (1 .. Len(entries)) OBVIOUS
    <2> HIDE DEF keep, entries, Phone
    <2> QED BY <1>1, <2>1, KeptHeads
<1> HIDE DEF main
<1>4. CASE keep # {}
    <2>1. PICK i \in keep : Head(main) = entries[i] /\ \A j \in keep : i <= j
        BY <1>3, <1>4
    <2>2. FindPrimary(entries) = entries[i].value BY <1>2, <1>3, <1>4, <2>1
    <2>3. ASSUME NEW j \in 1 .. i - 1 PROVE ~entries[j].main
        <3>1. j \in 1 .. Len(entries) /\ ~(i <= j) BY <1>1
        <3> QED BY <2>1, <3>1
    <2>4. i \in DOMAIN entries /\ entries[i].main /\ entries # <<>> BY <1>1
    <2> QED BY <2>2, <2>3, <2>4 DEF IsPrimary
<1>5. CASE keep = {} /\ entries # <<>>
    <2>1. 1 \in DOMAIN entries /\ Head(entries) = entries[1]
        <3>1. Len(entries) # 0 BY <1>1, <1>5, EmptySeq
        <3> QED BY <1>1, <3>1
    <2>2. FindPrimary(entries) = entries[1].value BY <1>2, <1>3, <1>5, <2>1
    <2>3. \A j \in DOMAIN entries : ~entries[j].main BY <1>1, <1>5
    <2>4. \A j : j \notin 1 .. 1 - 1 OBVIOUS
    <2> QED BY <1>5, <2>1, <2>2, <2>3, <2>4 DEF IsPrimary
<1>6. CASE keep = {} /\ entries = <<>> BY <1>2, <1>3, <1>6 DEF IsPrimary
<1> QED BY <1>4, <1>5, <1>6

\* One page more (personDto of every person of it).
LEMMA DtosAre ==
    /\ DtosOf(0) = <<>>
    /\ \A n \in 0 .. Len(Book) : DtosOf(n) \in Seq(PersonDtos)
    /\ \A n \in 1 .. Len(Book) : DtosOf(n) = DtosOf(n - 1) \o Contacts(Book[n])
<1>1. DtosOf(0) = <<>>
    <2>1. PeopleOf[0] = <<>> /\ Len(<<>>) = 0 BY PeopleAre
    <2> QED BY <2>1 DEF DtosOf
<1>2. ASSUME NEW n \in 0 .. Len(Book)
      PROVE  /\ DtosOf(n) \in Seq(PersonDtos) /\ Len(DtosOf(n)) = Len(PeopleOf[n])
             /\ Len(PeopleOf[n]) \in Nat
    <2>1. PeopleOf[n] \in Seq(People) BY PeopleAre
    <2>2. Len(PeopleOf[n]) \in Nat
          /\ \A i \in 1 .. Len(PeopleOf[n]) : PeopleOf[n][i] \in People
        BY <2>1, LenProperties, ElementOfSeq
    <2>3. \A i \in 1 .. Len(PeopleOf[n]) : DtosOf(n)[i] \in PersonDtos
        BY <2>2 DEF DtosOf, PersonDtos
    <2>4. DtosOf(n) \in [1 .. Len(PeopleOf[n]) -> PersonDtos] BY <2>3 DEF DtosOf
    <2> QED BY <2>2, <2>4, SeqDef
<1>3. ASSUME NEW n \in 1 .. Len(Book) PROVE DtosOf(n) = DtosOf(n - 1) \o Contacts(Book[n])
    <2> DEFINE m == Len(PeopleOf[n - 1])
               l == Len(Book[n])
    <2>1. n \in 0 .. Len(Book) /\ n - 1 \in 0 .. Len(Book) BY PagesAre
    <2>2. /\ PeopleOf[n - 1] \in Seq(People) /\ Book[n] \in Seq(People)
          /\ PeopleOf[n] = PeopleOf[n - 1] \o Book[n]
        BY <2>1, PeopleAre, PagesAre
    <2>3. /\ m \in Nat /\ l \in Nat /\ Len(PeopleOf[n]) = m + l
          /\ \A i \in 1 .. m + l : PeopleOf[n][i] =
                IF i <= m THEN PeopleOf[n - 1][i] ELSE Book[n][i - m]
        <3> DEFINE before == PeopleOf[n - 1]
                   page_n == Book[n]
        <3>1. /\ before \in Seq(People) /\ page_n \in Seq(People)
              /\ PeopleOf[n] = before \o page_n
            BY <2>2
        <3> HIDE DEF before, page_n
        <3>2. /\ Len(before) \in Nat /\ Len(page_n) \in Nat
              /\ Len(before \o page_n) = Len(before) + Len(page_n)
              /\ \A i \in 1 .. Len(before) + Len(page_n) : (before \o page_n)[i] =
                    IF i <= Len(before) THEN before[i] ELSE page_n[i - Len(before)]
            BY <3>1, LenProperties, ConcatProperties
        <3> QED BY <3>1, <3>2 DEF before, page_n
    <2>4. /\ Contacts(Book[n]) \in Seq(PersonDtos) /\ Len(Contacts(Book[n])) = l
        <3>1. \A i \in 1 .. l : Book[n][i] \in People BY <2>2, ElementOfSeq
        <3>2. \A i \in 1 .. l : Contacts(Book[n])[i] \in PersonDtos
            BY <3>1 DEF Contacts, PersonDtos
        <3>3. Contacts(Book[n]) \in [1 .. l -> PersonDtos] BY <3>2 DEF Contacts
        <3> QED BY <2>3, <3>3, SeqDef
    <2>5. DtosOf(n - 1) \in Seq(PersonDtos) /\ Len(DtosOf(n - 1)) = m BY <1>2, <2>1
    <2>6. DtosOf(n) \in Seq(PersonDtos) /\ Len(DtosOf(n)) = m + l BY <1>2, <2>1, <2>3
    <2> DEFINE before == DtosOf(n - 1)
               more == Contacts(Book[n])
               both == before \o more
    <2>6a. /\ before \in Seq(PersonDtos) /\ Len(before) = m
           /\ more \in Seq(PersonDtos) /\ Len(more) = l
        BY <2>4, <2>5
    <2> HIDE DEF m, l, before, more
    <2>7. /\ both \in Seq(PersonDtos) /\ Len(both) = m + l
          /\ \A i \in 1 .. m + l : both[i] = IF i <= m THEN before[i] ELSE more[i - m]
        <3>1. /\ both \in Seq(PersonDtos) /\ Len(both) = Len(before) + Len(more)
              /\ \A i \in 1 .. Len(before) + Len(more) : both[i] =
                    IF i <= Len(before) THEN before[i] ELSE more[i - Len(before)]
            BY <2>6a, ConcatProperties
        <3> QED BY <2>6a, <3>1
    <2> HIDE DEF both
    <2>8. ASSUME NEW i \in 1 .. m + l PROVE DtosOf(n)[i] = both[i]
        <3>1. DtosOf(n)[i] = [resourceName |-> PeopleOf[n][i],
                              phone |-> FindPrimary(Phones[PeopleOf[n][i]])]
            BY <2>3 DEF DtosOf
        <3>2. CASE i <= m
            <4>1. i \in 1 .. m BY <2>3, <3>2
            <4> QED BY <2>3, <2>7, <3>1, <3>2, <4>1 DEF DtosOf, before, m
        <3>3. CASE ~(i <= m)
            <4>1. i - m \in 1 .. l BY <2>3, <3>3
            <4> QED BY <2>3, <2>7, <3>1, <3>3, <4>1 DEF Contacts, more, l
        <3> QED BY <3>2, <3>3
    <2>9. DtosOf(n) = both BY <2>6, <2>7, <2>8, SeqEqual
    <2> QED BY <2>9 DEF both, before, more
<1> QED BY <1>1, <1>2, <1>3

\* How many pages an answered synchronisation has.
PagesOf(s) == IF cut[s] THEN page[s] - 1 ELSE Len(Book)

\* A synchronisation that goes on holds what the pages before its own hold, and
\* one that is answered what its pages hold.
SyncInv ==
    /\ data \in [Syncs -> Seq(PersonDtos)]
    /\ \A s \in Syncs :
        /\ stage[s] \in {"refresh", "list"} =>
                page[s] \in 1 .. Len(Book) /\ data[s] = DtosOf(page[s] - 1)
        /\ stage[s] = "answered" =>
                PagesOf(s) \in 0 .. Len(Book) /\ data[s] = DtosOf(PagesOf(s))

\* The request for page n, with what came before.
LEMMA GetContactsSyncs ==
    ASSUME IInv, SyncInv, NEW s \in Syncs, NEW n \in 1 .. Len(Book),
           NEW contacts, contacts = DtosOf(n - 1), GetContacts(s, n, contacts)
    PROVE  SyncInv'
<1>1. /\ page' = [page EXCEPT ![s] = n] /\ page \in [Syncs -> 0 .. Len(Book)]
      /\ data' = [data EXCEPT ![s] = contacts] /\ data \in [Syncs -> Seq(PersonDtos)]
    BY DEF GetContacts, IInv, TypeOK, SyncInv
<1>2. contacts \in Seq(PersonDtos)
    <2>1. n - 1 \in 0 .. Len(Book) BY PagesAre
    <2> QED BY <2>1, DtosAre
<1>3. \A t \in Syncs : t # s =>
        stage'[t] = stage[t] \/ stage'[t] = "lost"
    BY DEF GetContacts, End, IInv, TypeOK
<1>4. stage'[s] \in {"list", "refresh", "starved"}
    BY DEF GetContacts, End, IInv, TypeOK
<1>5. data' \in [Syncs -> Seq(PersonDtos)] BY <1>1, <1>2
<1>6. ASSUME NEW t \in Syncs
      PROVE  /\ stage'[t] \in {"refresh", "list"} =>
                    page'[t] \in 1 .. Len(Book) /\ data'[t] = DtosOf(page'[t] - 1)
             /\ stage'[t] = "answered" =>
                    PagesOf(t)' \in 0 .. Len(Book) /\ data'[t] = DtosOf(PagesOf(t)')
    <2>1. CASE t = s BY <1>1, <1>4, <2>1
    <2>2. CASE t # s
        <3>1. page'[t] = page[t] /\ data'[t] = data[t] /\ cut' = cut
            BY <1>1, <2>2 DEF GetContacts
        <3>2. PagesOf(t)' = PagesOf(t) BY <3>1 DEF PagesOf
        <3> QED BY <1>3, <2>2, <3>1, <3>2 DEF SyncInv
    <2> QED BY <2>1, <2>2
<1> QED BY <1>5, <1>6 DEF SyncInv, DtosOf

\* Nothing else touches the pages or the contacts, or answers.
LEMMA OthersSync ==
    ASSUME IInv, SyncInv, UNCHANGED <<page, data, cut>>,
           \A s \in Syncs :
                \/ stage'[s] = stage[s] \/ stage'[s] \in {"lost", "failed"}
                \/ stage[s] = "refresh" /\ stage'[s] = "list"
    PROVE  SyncInv'
<1>1. \A s \in Syncs :
        /\ stage'[s] \in {"refresh", "list"} => stage[s] \in {"refresh", "list"}
        /\ stage'[s] = "answered" => stage[s] = "answered"
    OBVIOUS
<1> QED BY <1>1 DEF SyncInv, PagesOf, DtosOf

LEMMA ListAnswerSyncs ==
    ASSUME IInv, SyncInv, NEW s \in Syncs, ListAnswer(s) PROVE SyncInv'
<1>1. stage[s] = "list" BY DEF ListAnswer
<1>2. page[s] \in 1 .. Len(Book) /\ data[s] = DtosOf(page[s] - 1) BY <1>1 DEF SyncInv
<1>3. data[s] \o Contacts(Book[page[s]]) = DtosOf(page[s]) BY <1>2, DtosAre
<1>4. PICK success \in BOOLEAN :
        \E contacts :
            /\ contacts = IF success THEN DtosOf(page[s]) ELSE DtosOf(page[s] - 1)
            /\ IF success /\ page[s] < Len(Book)
               THEN GetContacts(s, page[s] + 1, contacts)
               ELSE /\ stage' = [stage EXCEPT ![s] = "answered"]
                    /\ data' = [data EXCEPT ![s] = contacts]
                    /\ cut' = [cut EXCEPT ![s] = ~success]
                    /\ page' = page
    BY <1>2, <1>3 DEF ListAnswer
<1>4a. PICK contacts :
        /\ contacts = IF success THEN DtosOf(page[s]) ELSE DtosOf(page[s] - 1)
        /\ IF success /\ page[s] < Len(Book) THEN GetContacts(s, page[s] + 1, contacts)
           ELSE /\ stage' = [stage EXCEPT ![s] = "answered"]
                /\ data' = [data EXCEPT ![s] = contacts]
                /\ cut' = [cut EXCEPT ![s] = ~success]
                /\ page' = page
    BY <1>4
<1>5. CASE success /\ page[s] < Len(Book)
    <2>1. page[s] + 1 \in 1 .. Len(Book) /\ (page[s] + 1) - 1 = page[s]
        BY <1>2, <1>5, PagesAre
    <2>2. GetContacts(s, page[s] + 1, contacts) BY <1>4a, <1>5
    <2>3. contacts = DtosOf((page[s] + 1) - 1) BY <1>4a, <1>5, <2>1
    <2> QED BY <2>1, <2>2, <2>3, GetContactsSyncs
<1>6. CASE ~(success /\ page[s] < Len(Book))
    <2> DEFINE n == IF success THEN Len(Book) ELSE page[s] - 1
    <2>1. /\ stage' = [stage EXCEPT ![s] = "answered"]
          /\ data' = [data EXCEPT ![s] = contacts]
          /\ cut' = [cut EXCEPT ![s] = ~success] /\ page' = page
        BY <1>4a, <1>6
    <2>2. contacts = DtosOf(n) /\ n \in 0 .. Len(Book)
        BY <1>2, <1>4a, <1>6, PagesAre
    <2>3. contacts \in Seq(PersonDtos) BY <2>2, DtosAre
    <2>4. data' \in [Syncs -> Seq(PersonDtos)] BY <2>1, <2>3 DEF SyncInv
    <2>5. cut \in [Syncs -> BOOLEAN] /\ stage \in [Syncs -> {"idle", "refresh", "list",
                "answered", "starved", "failed", "lost"}]
        BY DEF IInv, TypeOK
    <2>6. ASSUME NEW t \in Syncs
          PROVE  /\ stage'[t] \in {"refresh", "list"} =>
                    page'[t] \in 1 .. Len(Book) /\ data'[t] = DtosOf(page'[t] - 1)
                 /\ stage'[t] = "answered" =>
                    PagesOf(t)' \in 0 .. Len(Book) /\ data'[t] = DtosOf(PagesOf(t)')
        <3>1. CASE t = s
            <4>1. stage'[t] = "answered" /\ data'[t] = contacts /\ PagesOf(t)' = n
                BY <2>1, <2>5, <3>1 DEF SyncInv, PagesOf
            <4> QED BY <2>2, <4>1
        <3>2. CASE t # s
            <4>1. /\ stage'[t] = stage[t] /\ data'[t] = data[t] /\ page'[t] = page[t]
                  /\ PagesOf(t)' = PagesOf(t)
                BY <2>1, <2>5, <3>2 DEF SyncInv, PagesOf
            <4> QED BY <4>1 DEF SyncInv
        <3> QED BY <3>1, <3>2
    <2> QED BY <2>4, <2>6 DEF SyncInv, DtosOf
<1> QED BY <1>5, <1>6

LEMMA SyncsKeep == IInv /\ SyncInv /\ [Next]_vars => SyncInv'
<1> SUFFICES ASSUME IInv, SyncInv, [Next]_vars PROVE SyncInv'
    OBVIOUS
<1>1. CASE Boot \/ Expire \/ UNCHANGED vars
           \/ \E c \in Codes : AskCode(c) \/ CodeAnswer(c) \/ CodeError(c)
    <2>1. UNCHANGED sync
        BY <1>1 DEF Boot, Expire, AskCode, CodeAnswer, CodeError, vars, sync
    <2> QED BY <2>1, OthersSync DEF sync
<1>2. CASE Crash BY <1>2, OthersSync DEF Crash, End, IInv, TypeOK
<1>3. ASSUME NEW s \in Syncs, AskSync(s) PROVE SyncInv'
    <2>1. 1 \in 1 .. Len(Book) /\ 1 - 1 = 0 BY PagesAre
    <2>2. GetContacts(s, 1, <<>>) BY <1>3 DEF AskSync
    <2>3. <<>> = DtosOf(1 - 1) BY <2>1, DtosAre
    <2> QED BY <2>1, <2>2, <2>3, GetContactsSyncs
<1>4. ASSUME NEW s \in Syncs, ListAnswer(s) PROVE SyncInv' BY <1>4, ListAnswerSyncs
<1>5. ASSUME NEW s \in Syncs, Reject(s) PROVE SyncInv'
    BY <1>5, OthersSync DEF Reject, End, IInv, TypeOK
<1>6. ASSUME NEW token \in 1 .. issued, Refresh(token) PROVE SyncInv'
    BY <1>6, OthersSync DEF Refresh
<1> QED BY <1>1, <1>2, <1>3, <1>4, <1>5, <1>6 DEF Next

\* A synchronisation that is answered holds every contact of its pages once, in
\* Google's order and with the right phone number, for books of any size: all pages,
\* or those before one with another status than 200.  A refresh that comes between
\* two pages, another synchronisation or an expired token takes nothing from it and
\* gives it nothing (allContacts, personDto, findPrimary).
THEOREM SyncHoldsItsPagesHolds == Spec => []SyncHoldsItsPages
<1>1. Init => SyncInv
    <2>1. <<>> \in Seq(PersonDtos) OBVIOUS
    <2> QED BY <2>1 DEF Init, SyncInv
<1>2. Spec => []SyncInv BY Invariance, <1>1, SyncsKeep, PTL DEF Spec
<1>3. SyncInv => SyncHoldsItsPages
    <2> SUFFICES ASSUME SyncInv, NEW s \in Syncs, stage[s] = "answered"
                 PROVE  LET all == PeopleOf[PagesOf(s)] IN
                        /\ [i \in DOMAIN data[s] |-> data[s][i].resourceName] = all
                        /\ \A i \in DOMAIN all :
                                IsPrimary(data[s][i].phone, Phones[all[i]])
        BY DEF SyncHoldsItsPages, PagesOf
    <2> DEFINE people == PeopleOf[PagesOf(s)]
               n == Len(people)
    <2>1. PagesOf(s) \in 0 .. Len(Book) /\ data[s] = DtosOf(PagesOf(s)) BY DEF SyncInv
    <2>2. people \in Seq(People) BY <2>1, PeopleAre
    <2>3. /\ DOMAIN people = 1 .. n /\ people = [i \in 1 .. n |-> people[i]]
          /\ \A i \in 1 .. n : people[i] \in People
        BY <2>2, LenProperties, ElementOfSeq
    <2> DEFINE Dto(p) == [resourceName |-> p, phone |-> FindPrimary(Phones[p])]
    <2>4. DOMAIN data[s] = 1 .. n /\ \A i \in 1 .. n : data[s][i] = Dto(people[i])
        BY <2>1 DEF DtosOf
    <2>4a. \A p : Dto(p).resourceName = p /\ Dto(p).phone = FindPrimary(Phones[p])
        OBVIOUS
    <2> HIDE DEF people, n, Dto
    <2>5. [i \in DOMAIN data[s] |-> data[s][i].resourceName] = people
        <3>1. \A i \in 1 .. n : data[s][i].resourceName = people[i] BY <2>4, <2>4a
        <3>2. [i \in 1 .. n |-> data[s][i].resourceName] = [i \in 1 .. n |-> people[i]]
            BY <3>1
        <3> QED BY <2>3, <2>4, <3>2
    <2>6. ASSUME NEW i \in DOMAIN people
          PROVE  IsPrimary(data[s][i].phone, Phones[people[i]])
        <3>1. i \in 1 .. n /\ people[i] \in People BY <2>3
        <3>2. data[s][i].phone = FindPrimary(Phones[people[i]]) BY <2>4, <2>4a, <3>1
        <3>3. IsPrimary(FindPrimary(Phones[people[i]]), Phones[people[i]])
            BY <3>1, FindPrimaryIs
        <3> QED BY <3>2, <3>3
    <2> QED BY <2>5, <2>6 DEF people
<1> QED BY <1>2, <1>3, PTL
=============================================================================
