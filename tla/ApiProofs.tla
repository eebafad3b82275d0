------------------------------ MODULE ApiProofs ------------------------------
(***************************************************************************)
(* Proofs about Api, for any requests, inputs, rows, files and crashes.    *)
(*                                                                         *)
(* Neither what an answer says nor who is refused is inductive: both need  *)
(* to know of a request that still waits that it was not refused, and that *)
(* what it has awaited so far has happened.  The readings are counted for  *)
(* the right row because the name of an image leads back to it, which is   *)
(* proved for names of any parts.                                          *)
(***************************************************************************)
EXTENDS Api, FiniteSetTheorems, SequenceTheorems, TLAPS

Kinds == {"row", "read", "job", "device", "maxbot"}

\* The awaits of a request that return what a provider says.
Told(r) == {k \in DOMAIN Awaits(input[r]) : Awaits(input[r])[k] \in Providers}

\* A request that has awaited something was not refused, and all that it has
\* awaited before has happened, but for the providers.
Waiting(r) ==
    /\ step[r] > 0 /\ Refusal(input[r]) = 0
    /\ 1 .. step[r] - 1 \subseteq done[r] \cup Told(r)

\* The one answer of a request, with success or without.
Yes(status) == <<[status |-> status, success |-> TRUE]>>
No(status) == <<[status |-> status, success |-> FALSE]>>

\* How a request was answered: it was refused, it had nothing to await, an await
\* rejected, the last one returned.
Answered(r) ==
    \/ /\ step[r] = 0 /\ Refusal(input[r]) # 0
       /\ reply[r] = No(Refusal(input[r]))
    \/ /\ Refusal(input[r]) = 0 /\ Awaits(input[r]) = <<>>
       /\ reply[r] = Yes(200)
    \/ Waiting(r) /\ reply[r] = No(500)
    \/ /\ Refusal(input[r]) = 0 /\ Missing(r) \subseteq Told(r)
       /\ \/ reply[r] = No(200)
          \/ /\ reply[r] = Yes(200)
             /\ Missing(r) = {} \/ input[r].route \in {"socketText", "contactList"}

RequestInv(r) ==
    /\ stage[r] = "idle" => step[r] = 0
    /\ stage[r] \in {"await", "lost"} => Waiting(r)
    /\ stage[r] = "answered" => Answered(r)

IInv == TypeOK /\ \A r \in Requests : RequestInv(r)

-----------------------------------------------------------------------------
\* The awaits of a handler are a list, and only three routes ask a provider, of
\* which getStatus of the socket server awaits nothing else.
LEMMA AwaitsAre ==
    ASSUME NEW i \in Inputs
    PROVE  /\ Awaits(i) \in Seq(Kinds)
           /\ i.route = "socketStatus" => Awaits(i) = <<"device">>
           /\ \A k \in DOMAIN Awaits(i) :
                Awaits(i)[k] \in Providers =>
                    i.route \in {"socketText", "contactList", "socketStatus"}
<1> USE DEF Kinds, Providers
<1>1. i.route \in Routes /\ i.mail \in BOOLEAN BY InputsAssumption
<1>2. CASE i.route \in {"healthz", "image", "contactPatch", "sacdigital"}
    <2>1. Awaits(i) = <<>> BY <1>2 DEF Awaits
    <2> QED BY <2>1, <1>2
<1>3. CASE i.route \in {"authorize", "contactPost"}
    <2>1. Awaits(i) = <<"row">> BY <1>3 DEF Awaits
    <2> QED BY <2>1, <1>3
<1>4. CASE i.route = "tokens"
    <2>1. Awaits(i) = <<"read">> BY <1>4 DEF Awaits
    <2> QED BY <2>1, <1>4
<1>4a. CASE i.route = "contactList"
    <2>1. Awaits(i) = <<"maxbot">> BY <1>4a DEF Awaits
    <2> QED BY <2>1, <1>4a
<1>5. CASE i.route \in {"send", "email"}
    <2>1. Awaits(i) = <<"job">> BY <1>5 DEF Awaits
    <2> QED BY <2>1, <1>5
<1>6. CASE i.route = "report"
    <2>1. Awaits(i) = <<"read", "job">> BY <1>6 DEF Awaits
    <2> QED BY <2>1, <1>6
<1>7. CASE i.route = "socketMessage"
    <2>1. Awaits(i) = IF i.mail THEN <<"job", "job">> ELSE <<"job">>
        BY <1>7 DEF Awaits
    <2>2. CASE i.mail BY <2>1, <2>2, <1>7
    <2>3. CASE ~i.mail BY <2>1, <2>3, <1>7
    <2> QED BY <2>2, <2>3
<1>8. CASE i.route = "socketText"
    <2>1. Awaits(i) = IF i.mail THEN <<"device", "job">> ELSE <<"device">>
        BY <1>8 DEF Awaits
    <2>2. CASE i.mail BY <2>1, <2>2, <1>8
    <2>3. CASE ~i.mail BY <2>1, <2>3, <1>8
    <2> QED BY <2>2, <2>3
<1>9. CASE i.route = "socketStatus"
    <2>1. Awaits(i) = <<"device">> BY <1>9 DEF Awaits
    <2> QED BY <2>1, <1>9
<1> QED
    BY <1>1, <1>2, <1>3, <1>4, <1>4a, <1>5, <1>6, <1>7, <1>8, <1>9 DEF Routes

\* A refusal has one of the statuses of errorMiddleware, and is never a 200.
LEMMA RefusalIs ==
    ASSUME NEW i \in Inputs
    PROVE  /\ Refusal(i) \in {0, 400, 401, 403, 404, 500, 503}
           /\ i.route \notin Public /\ i.token # "valid" =>
                Refusal(i) \in {401, 403, 500}
<1>1. i.token \in {"none", "malformed", "invalid", "valid"} BY InputsAssumption
<1>2. /\ AuthError(i) \in {0, 401, 403, 500}
      /\ i.token # "valid" => AuthError(i) \in {401, 403, 500}
    <2>1. CASE i.token = "none" BY <2>1 DEF AuthError
    <2>2. CASE i.token = "malformed" BY <2>2 DEF AuthError
    <2>3. CASE i.token = "invalid" BY <2>3 DEF AuthError
    <2>4. CASE i.token = "valid" BY <2>4 DEF AuthError
    <2> QED BY <1>1, <2>1, <2>2, <2>3, <2>4
<1> QED BY <1>2 DEF Refusal

LEMMA InitHolds == Init => IInv
<1> SUFFICES ASSUME Init PROVE IInv
    OBVIOUS
<1>1. TypeOK
    <2>1. \A r \in Requests :
            /\ step[r] = 0 /\ done[r] = {} /\ reply[r] = <<>> /\ stage[r] = "idle"
            /\ Awaits(input[r]) \in Seq(Kinds)
        BY AwaitsAre DEF Init
    <2>2. \A r \in Requests :
            /\ step[r] \in 0 .. Len(Awaits(input[r]))
            /\ done[r] \subseteq 1 .. step[r]
            /\ Len(reply[r]) = IF stage[r] = "answered" THEN 1 ELSE 0
        BY <2>1
    <2>3. 0 \in 0 .. MaxCrashes BY CrashesAssumption
    <2> QED BY <2>2, <2>3 DEF Init, TypeOK
<1>2. \A r \in Requests : RequestInv(r) BY DEF Init, RequestInv
<1> QED BY <1>1, <1>2 DEF IInv

-----------------------------------------------------------------------------
\* The steps.

\* What RequestInv says of a request depends on its own variables only.
LEMMA OthersKeep ==
    ASSUME NEW r \in Requests, RequestInv(r), input' = input,
           stage'[r] = stage[r], step'[r] = step[r], done'[r] = done[r],
           reply'[r] = reply[r]
    PROVE  RequestInv(r)'
<1>1. Told(r)' = Told(r) /\ Missing(r)' = Missing(r)
    BY DEF Told, Missing
<1>2. Waiting(r)' <=> Waiting(r)
    BY <1>1 DEF Waiting
<1>3. Answered(r)' <=> Answered(r)
    BY <1>1, <1>2 DEF Answered
<1> QED BY <1>2, <1>3 DEF RequestInv

\* An answer is the only one of its request, and leaves the types alone.
LEMMA AnswerIs ==
    ASSUME TypeOK, NEW r \in Requests, NEW status \in Nat, NEW ok \in BOOLEAN,
           reply[r] = <<>>, Answer(r, status, ok)
    PROVE  /\ ok => reply'[r] = Yes(status)
           /\ ~ok => reply'[r] = No(status)
           /\ stage'[r] = "answered"
           /\ \A t \in Requests : t # r =>
                reply'[t] = reply[t] /\ stage'[t] = stage[t]
           /\ /\ input' = input /\ step' = step /\ done' = done /\ crashes' = crashes
              /\ success' \in [Requests -> BOOLEAN]
              /\ countRead' \in [Rows -> Nat] /\ pending' \in [Rows -> Nat]
              /\ served' \in [Rows -> Nat] /\ lost' \in [Rows -> Nat]
              => TypeOK'
<1> DEFINE said == [status |-> status, success |-> ok]
<1>1. said \in [status : Nat, success : BOOLEAN]
    OBVIOUS
<1> HIDE DEF said
<1>2. /\ reply' = [reply EXCEPT ![r] = Append(@, said)]
      /\ stage' = [stage EXCEPT ![r] = "answered"]
    BY DEF Answer, said
<1>3. /\ reply \in [Requests -> Seq([status : Nat, success : BOOLEAN])]
      /\ stage \in [Requests -> {"idle", "await", "answered", "lost"}]
    BY DEF TypeOK
<1>4. reply'[r] = <<said>> /\ stage'[r] = "answered"
    BY <1>1, <1>2, <1>3
<1>5. \A t \in Requests : t # r => reply'[t] = reply[t] /\ stage'[t] = stage[t]
    BY <1>2, <1>3
<1>6. ASSUME input' = input, step' = step, done' = done, crashes' = crashes,
             success' \in [Requests -> BOOLEAN],
             countRead' \in [Rows -> Nat], pending' \in [Rows -> Nat],
             served' \in [Rows -> Nat], lost' \in [Rows -> Nat]
      PROVE  TypeOK'
    <2>1. /\ reply' \in [Requests -> Seq([status : Nat, success : BOOLEAN])]
          /\ stage' \in [Requests -> {"idle", "await", "answered", "lost"}]
        BY <1>1, <1>2, <1>3
    <2>2. Len(reply'[r]) = 1 BY <1>4
    <2>3. \A t \in Requests :
            /\ step'[t] \in 0 .. Len(Awaits(input'[t]))
            /\ done'[t] \subseteq 1 .. step'[t]
            /\ Len(reply'[t]) = IF stage'[t] = "answered" THEN 1 ELSE 0
        BY <1>4, <1>5, <1>6, <2>2 DEF TypeOK
    <2> QED BY <1>6, <2>1, <2>3 DEF TypeOK
<1>7. ok => reply'[r] = Yes(status)
    BY <1>4 DEF Yes, said
<1>8. ~ok => reply'[r] = No(status)
    <2>1. CASE ok = FALSE BY <1>4, <2>1 DEF No, said
    <2> QED BY <2>1
<1> QED BY <1>4, <1>5, <1>6, <1>7, <1>8

LEMMA ArriveKeeps == ASSUME NEW r \in Requests PROVE IInv /\ Arrive(r) => IInv'
<1> SUFFICES ASSUME IInv, Arrive(r) PROVE IInv'
    OBVIOUS
<1> DEFINE i == input[r]
<1>0. /\ i \in Inputs /\ stage[r] = "idle" /\ step[r] = 0 /\ reply[r] = <<>>
      /\ done[r] = {} /\ UNCHANGED <<input, done, success, crashes>>
    BY DEF IInv, TypeOK, RequestInv, Arrive
<1>1. Refusal(i) \in Nat /\ Awaits(i) \in Seq(Kinds)
    BY <1>0, RefusalIs, AwaitsAre
<1> HIDE DEF i
<1>2. TypeOK'
    <2>1. /\ countRead' \in [Rows -> Nat] /\ pending' \in [Rows -> Nat]
          /\ served' \in [Rows -> Nat] /\ lost' \in [Rows -> Nat]
        <3>1. /\ countRead \in [Rows -> Nat] /\ pending \in [Rows -> Nat]
              /\ served \in [Rows -> Nat] /\ lost \in [Rows -> Nat]
            BY DEF IInv, TypeOK
        <3>2. CASE UNCHANGED readVars BY <3>1, <3>2 DEF readVars
        <3>3. CASE Serve(i) BY <3>1, <3>3 DEF Serve
        <3> QED BY <3>2, <3>3 DEF Arrive, i
    <2>2. ASSUME NEW status \in Nat, NEW ok \in BOOLEAN, Answer(r, status, ok),
                 UNCHANGED step
          PROVE  TypeOK'
        BY <1>0, <2>1, <2>2, AnswerIs DEF IInv, TypeOK
    <2>3. CASE /\ Awaits(i) # <<>> /\ UNCHANGED reply
               /\ stage' = [stage EXCEPT ![r] = "await"]
               /\ step' = [step EXCEPT ![r] = 1]
        BY <1>0, <1>1, <2>1, <2>3 DEF IInv, TypeOK, i
    <2>4. \/ Answer(r, Refusal(i), FALSE) /\ UNCHANGED step
          \/ Answer(r, 200, TRUE) /\ UNCHANGED step
          \/ /\ Awaits(i) # <<>> /\ UNCHANGED reply
             /\ stage' = [stage EXCEPT ![r] = "await"]
             /\ step' = [step EXCEPT ![r] = 1]
        BY DEF Arrive, i
    <2>5. 200 \in Nat /\ TRUE \in BOOLEAN /\ FALSE \in BOOLEAN OBVIOUS
    <2> QED BY <1>1, <2>2, <2>3, <2>4, <2>5
<1>3. RequestInv(r)'
    <2>1. CASE Refusal(i) # 0 /\ Answer(r, Refusal(i), FALSE) /\ UNCHANGED step
        <3>0. /\ TypeOK /\ Refusal(i) \in Nat /\ FALSE \in BOOLEAN
              /\ reply[r] = <<>> /\ Answer(r, Refusal(i), FALSE)
            BY <1>0, <1>1, <2>1, ZenonT(60) DEF IInv
        <3>1. reply'[r] = No(Refusal(i)) /\ stage'[r] = "answered"
            BY <3>0, AnswerIs
        <3>2. Answered(r)' BY <1>0, <2>1, <3>1 DEF Answered, i
        <3> QED BY <3>1, <3>2 DEF RequestInv
    <2>2. CASE /\ Refusal(i) = 0 /\ Awaits(i) = <<>>
               /\ Answer(r, 200, TRUE) /\ UNCHANGED step
        <3>0. /\ TypeOK /\ 200 \in Nat /\ TRUE \in BOOLEAN
              /\ reply[r] = <<>> /\ Answer(r, 200, TRUE)
            BY <1>0, <2>2, ZenonT(60) DEF IInv
        <3>1. reply'[r] = Yes(200) /\ stage'[r] = "answered"
            BY <3>0, AnswerIs
        <3>2. Answered(r)' BY <1>0, <2>2, <3>1 DEF Answered, i
        <3> QED BY <3>1, <3>2 DEF RequestInv
    <2>3. CASE /\ Refusal(i) = 0 /\ stage' = [stage EXCEPT ![r] = "await"]
               /\ step' = [step EXCEPT ![r] = 1]
        <3>1. stage'[r] = "await" /\ step'[r] = 1
            BY <2>3 DEF IInv, TypeOK
        <3>2. Waiting(r)' BY <1>0, <2>3, <3>1 DEF Waiting, i
        <3> QED BY <3>1, <3>2 DEF RequestInv
    <2> QED BY <2>1, <2>2, <2>3 DEF Arrive, i
<1>4. ASSUME NEW t \in Requests, t # r PROVE RequestInv(t)'
    BY <1>0, <1>4, OthersKeep DEF Arrive, Answer, IInv, TypeOK
<1> QED BY <1>2, <1>3, <1>4 DEF IInv

\* What happens takes nothing from what has.
LEMMA HappenKeeps == ASSUME NEW r \in Requests PROVE IInv /\ Happen(r) => IInv'
<1> SUFFICES ASSUME IInv, Happen(r) PROVE IInv'
    OBVIOUS
<1>1. PICK k \in (1 .. step[r]) \ done[r] : done' = [done EXCEPT ![r] = @ \cup {k}]
    BY DEF Happen
<1>2. UNCHANGED <<input, stage, step, success, reply, readVars, crashes>>
    BY DEF Happen
<1>3. TypeOK' BY <1>1, <1>2 DEF IInv, TypeOK, readVars
<1>4. RequestInv(r)'
    <2>1. done[r] \subseteq done'[r] /\ step[r] > 0
        BY <1>1 DEF IInv, TypeOK
    <2>2. Waiting(r) => Waiting(r)' BY <1>2, <2>1 DEF Waiting, Told
    <2>3. Missing(r)' \subseteq Missing(r) /\ Told(r)' = Told(r)
        BY <1>2, <2>1 DEF Missing, Told
    <2>4. Answered(r) => Answered(r)'
        BY <1>2, <2>1, <2>2, <2>3 DEF Answered
    <2> QED BY <1>2, <2>1, <2>2, <2>4 DEF RequestInv, IInv
<1>5. ASSUME NEW t \in Requests, t # r PROVE RequestInv(t)'
    BY <1>1, <1>2, <1>5, OthersKeep DEF IInv, TypeOK
<1> QED BY <1>3, <1>4, <1>5 DEF IInv

\* The last await returns: all but a call of the device has happened, and what
\* getStatus says of that call is the truth.
LEMMA ResolveKeeps == ASSUME NEW r \in Requests PROVE IInv /\ Resolve(r) => IInv'
<1> SUFFICES ASSUME IInv, Resolve(r) PROVE IInv'
    OBVIOUS
<1> DEFINE awaits == Awaits(input[r])
           n == step[r]
<1>0. /\ input[r] \in Inputs /\ awaits \in Seq(Kinds) /\ stage[r] = "await"
      /\ n \in 1 .. Len(awaits) /\ Waiting(r) /\ reply[r] = <<>>
      /\ UNCHANGED <<input, done, readVars, crashes>>
      /\ Told(r)' = Told(r) /\ Missing(r)' = Missing(r)
      /\ n \in done[r] \cup Told(r)
    <2>1. input[r] \in Inputs /\ stage[r] = "await" /\ Waiting(r)
        BY DEF IInv, TypeOK, Resolve, RequestInv
    <2>2. awaits \in Seq(Kinds) BY <2>1, AwaitsAre
    <2>3. n \in 1 .. Len(awaits) /\ reply[r] = <<>>
        BY <2>1 DEF IInv, TypeOK, Waiting
    <2>4. UNCHANGED <<input, done, readVars, crashes>> BY DEF Resolve
    <2>5. n \in done[r] \cup Told(r) BY <2>2, <2>3 DEF Resolve, Told
    <2>6. Told(r)' = Told(r) /\ Missing(r)' = Missing(r)
        BY <2>4 DEF Told, Missing
    <2> QED BY <2>1, <2>2, <2>3, <2>4, <2>5, <2>6
<1>1. PICK ok \in BOOLEAN :
        /\ IF awaits[n] \in Providers THEN ok => n \in done[r] ELSE ok = success[r]
        /\ success' = [success EXCEPT ![r] = ok]
        /\ IF n < Len(awaits)
           THEN step' = [step EXCEPT ![r] = @ + 1] /\ UNCHANGED <<stage, reply>>
           ELSE /\ Answer(r, 200, input[r].route = "socketStatus" => ok)
                /\ UNCHANGED step
    BY DEF Resolve
<1>3. 1 .. n \subseteq done[r] \cup Told(r) BY <1>0 DEF Waiting
<1>5. CASE n < Len(awaits)
    <2>1. step' = [step EXCEPT ![r] = @ + 1] /\ UNCHANGED <<stage, reply>>
        BY <1>1, <1>5
    <2>2. TypeOK' BY <1>0, <1>1, <1>5, <2>1 DEF IInv, TypeOK, readVars
    <2>5. ASSUME NEW t \in Requests, t # r PROVE RequestInv(t)'
        BY <1>0, <2>1, <2>5, OthersKeep DEF IInv, TypeOK
    <2>3. Waiting(r)'
        <3>1. step'[r] = n + 1 BY <2>1 DEF IInv, TypeOK
        <3> QED BY <1>0, <1>3, <3>1 DEF Waiting
    <2>4. RequestInv(r)' BY <1>0, <2>1, <2>3 DEF RequestInv
    <2> QED BY <2>2, <2>4, <2>5 DEF IInv
<1>6. CASE ~(n < Len(awaits))
    <2> DEFINE claim == input[r].route = "socketStatus" => ok
    <2>1. Answer(r, 200, claim) /\ UNCHANGED step
        BY <1>1, <1>6
    <2>2. /\ claim => reply'[r] = Yes(200)
          /\ ~claim => reply'[r] = No(200)
          /\ stage'[r] = "answered"
          /\ claim \in BOOLEAN /\ TypeOK'
        <3>1. /\ success' \in [Requests -> BOOLEAN]
              /\ countRead' \in [Rows -> Nat] /\ pending' \in [Rows -> Nat]
              /\ served' \in [Rows -> Nat] /\ lost' \in [Rows -> Nat]
            BY <1>0, <1>1 DEF IInv, TypeOK, readVars
        <3>2. claim \in BOOLEAN OBVIOUS
        <3> HIDE DEF claim
        <3>3. UNCHANGED <<input, step, done, crashes>> BY <1>0, <2>1
        <3>4. TypeOK /\ reply[r] = <<>> /\ Answer(r, 200, claim)
            BY <1>0, <2>1 DEF IInv
        <3> QED BY <3>1, <3>2, <3>3, <3>4, AnswerIs
    <2>3. ASSUME NEW t \in Requests, t # r PROVE RequestInv(t)'
        <3>1. claim \in BOOLEAN OBVIOUS
        <3> HIDE DEF claim
        <3>2. reply'[t] = reply[t] /\ stage'[t] = stage[t]
            BY <1>0, <2>1, <2>3, <3>1, AnswerIs DEF IInv
        <3> QED BY <1>0, <2>1, <2>3, <3>2, OthersKeep DEF IInv
    <2>4. n = Len(awaits) BY <1>0, <1>6
    <2>5. Missing(r) \subseteq Told(r)
        BY <1>0, <1>3, <2>4 DEF Missing
    <2>6. claim /\ Missing(r) # {} => input[r].route \in {"socketText", "contactList"}
        <3> SUFFICES ASSUME claim, NEW k \in Missing(r), input[r].route \notin {"socketText", "contactList"}
                     PROVE  FALSE
            OBVIOUS
        <3>1. k \in DOMAIN awaits /\ awaits[k] \in Providers /\ k \notin done[r]
            BY <2>5 DEF Told, Missing
        <3>2. input[r].route = "socketStatus" BY <1>0, <3>1, AwaitsAre
        <3>3. awaits = <<"device">> BY <1>0, <3>2, AwaitsAre
        <3>4. k = 1 /\ n = 1 BY <1>0, <3>1, <3>3
        <3>5. ok = FALSE BY <1>1, <3>1, <3>4
        <3> QED BY <3>2, <3>5
    <2>7. RequestInv(r)'
        <3>1. /\ Refusal(input[r]) = 0 /\ UNCHANGED input
              /\ Told(r)' = Told(r) /\ Missing(r)' = Missing(r)
            BY <1>0 DEF Waiting
        <3>2. CASE claim
            <4>1. Missing(r) = {} \/ input[r].route \in {"socketText", "contactList"}
                BY <2>6, <3>2
            <4>2. reply'[r] = Yes(200) BY <2>2, <3>2
            <4> HIDE DEF claim
            <4>3. Answered(r)' BY <2>5, <3>1, <4>1, <4>2 DEF Answered
            <4> QED BY <2>2, <4>3 DEF RequestInv
        <3>3. CASE ~claim
            <4>1. reply'[r] = No(200) BY <2>2, <3>3
            <4>2. Answered(r)' BY <2>5, <3>1, <4>1 DEF Answered
            <4> QED BY <2>2, <4>2 DEF RequestInv
        <3> QED BY <3>2, <3>3
    <2> QED BY <2>2, <2>3, <2>7 DEF IInv
<1> QED BY <1>5, <1>6

LEMMA RejectKeeps == ASSUME NEW r \in Requests PROVE IInv /\ Reject(r) => IInv'
<1> SUFFICES ASSUME IInv, Reject(r) PROVE IInv'
    OBVIOUS
<1>0. /\ stage[r] = "await" /\ Waiting(r) /\ reply[r] = <<>>
      /\ Answer(r, 500, FALSE)
      /\ UNCHANGED <<input, step, done, success, readVars, crashes>>
    <2>1. /\ stage[r] = "await" /\ Answer(r, 500, FALSE)
          /\ UNCHANGED <<input, step, done, success, readVars, crashes>>
        BY DEF Reject
    <2>2. Waiting(r) BY <2>1 DEF IInv, RequestInv
    <2>3. reply[r] = <<>> BY <2>1 DEF IInv, TypeOK
    <2> QED BY <2>1, <2>2, <2>3
<1>1. /\ reply'[r] = No(500) /\ stage'[r] = "answered" /\ TypeOK'
      /\ \A t \in Requests : t # r => reply'[t] = reply[t] /\ stage'[t] = stage[t]
    <2>1. /\ success' \in [Requests -> BOOLEAN]
          /\ countRead' \in [Rows -> Nat] /\ pending' \in [Rows -> Nat]
          /\ served' \in [Rows -> Nat] /\ lost' \in [Rows -> Nat]
        BY <1>0 DEF IInv, TypeOK, readVars
    <2>2. input' = input /\ step' = step /\ done' = done /\ crashes' = crashes BY <1>0
    <2> DEFINE ok == FALSE
               status == 500
    <2>3. TypeOK /\ reply[r] = <<>> /\ Answer(r, status, ok) BY <1>0 DEF IInv
    <2>4. ok \in BOOLEAN /\ ~ok /\ status \in Nat OBVIOUS
    <2> HIDE DEF ok
    <2>5. reply'[r] = No(500) /\ stage'[r] = "answered"
        BY <2>3, <2>4, AnswerIs
    <2> HIDE DEF status
    <2>6. TypeOK' BY <2>1, <2>2, <2>3, <2>4, AnswerIs
    <2>7. \A t \in Requests : t # r => reply'[t] = reply[t] /\ stage'[t] = stage[t]
        BY <2>3, <2>4, AnswerIs
    <2> QED BY <2>5, <2>6, <2>7
<1>2. Waiting(r)' BY <1>0 DEF Waiting, Told
<1>3. RequestInv(r)' BY <1>1, <1>2 DEF RequestInv, Answered
<1>4. ASSUME NEW t \in Requests, t # r PROVE RequestInv(t)'
    BY <1>0, <1>1, <1>4, OthersKeep DEF IInv
<1> QED BY <1>1, <1>3, <1>4 DEF IInv

LEMMA IncrementKeeps == ASSUME NEW e \in Rows PROVE IInv /\ Increment(e) => IInv'
<1> SUFFICES ASSUME IInv, Increment(e) PROVE IInv'
    OBVIOUS
<1>1. TypeOK'
    <2>1. pending' \in [Rows -> Nat] BY DEF IInv, TypeOK, Increment
    <2>2. countRead' \in [Rows -> Nat] /\ lost' \in [Rows -> Nat]
        <3>1. countRead \in [Rows -> Nat] /\ lost \in [Rows -> Nat]
            BY DEF IInv, TypeOK
        <3>2. CASE /\ countRead' = [countRead EXCEPT ![e] = @ + 1]
                   /\ UNCHANGED lost
            BY <3>1, <3>2
        <3>3. CASE /\ lost' = [lost EXCEPT ![e] = @ + 1]
                   /\ UNCHANGED countRead
            BY <3>1, <3>3
        <3> QED BY <3>2, <3>3 DEF Increment
    <2> QED BY <2>1, <2>2 DEF IInv, TypeOK, Increment, requestVars
<1>2. ASSUME NEW t \in Requests PROVE RequestInv(t)'
    BY <1>2, OthersKeep DEF Increment, requestVars, IInv
<1> QED BY <1>1, <1>2 DEF IInv

LEMMA CrashKeeps == IInv /\ Crash => IInv'
<1> SUFFICES ASSUME IInv, Crash PROVE IInv'
    OBVIOUS
<1>1. TypeOK'
    <2>1. stage' \in [Requests -> {"idle", "await", "answered", "lost"}]
        BY DEF IInv, TypeOK, Crash
    <2>2. \A r \in Requests : stage'[r] = "answered" <=> stage[r] = "answered"
        BY DEF IInv, TypeOK, Crash
    <2>3. lost' \in [Rows -> Nat] /\ pending' \in [Rows -> Nat]
        BY DEF IInv, TypeOK, Crash
    <2>4. crashes' \in 0 .. MaxCrashes
        BY CrashesAssumption DEF IInv, TypeOK, Crash
    <2> QED BY <2>1, <2>2, <2>3, <2>4 DEF IInv, TypeOK, Crash
<1>2. ASSUME NEW r \in Requests PROVE RequestInv(r)'
    <2>1. RequestInv(r) /\ Answered(r)' = Answered(r) /\ Waiting(r)' = Waiting(r)
        BY DEF IInv, Crash, Answered, Waiting, Missing, Told
    <2> QED BY <2>1 DEF IInv, TypeOK, Crash, RequestInv
<1> QED BY <1>1, <1>2 DEF IInv

LEMMA NextKeeps == IInv /\ [Next]_vars => IInv'
<1> SUFFICES ASSUME IInv, [Next]_vars PROVE IInv'
    OBVIOUS
<1>1. CASE \E r \in Requests : Arrive(r) \/ Happen(r) \/ Resolve(r) \/ Reject(r)
    BY <1>1, ArriveKeeps, HappenKeeps, ResolveKeeps, RejectKeeps
<1>2. CASE \E e \in Rows : Increment(e) BY <1>2, IncrementKeeps
<1>3. CASE Crash BY <1>3, CrashKeeps
<1>4. CASE UNCHANGED vars
    <2>1. TypeOK' BY <1>4 DEF vars, requestVars, readVars, IInv, TypeOK
    <2>2. ASSUME NEW r \in Requests PROVE RequestInv(r)'
        BY <1>4, <2>2, OthersKeep DEF vars, requestVars, IInv
    <2> QED BY <2>1, <2>2 DEF IInv
<1> QED BY <1>1, <1>2, <1>3, <1>4 DEF Next

-----------------------------------------------------------------------------
\* IInv holds in every reachable state, for any requests and inputs.
THEOREM Invariance == Spec => []IInv
<1> QED BY InitHolds, NextKeeps, PTL DEF Spec

\* The types, and that no request is answered twice (Catch, errorMiddleware and
\* the controllers each answer a request that nobody else does).
THEOREM TypeCorrect == Spec => []TypeOK
<1>1. IInv => TypeOK BY DEF IInv
<1> QED BY Invariance, <1>1, PTL

\* The routes behind authMiddleware: without a valid token nothing happens, be the
\* token missing, wrong or no string, and the body readable or not.
THEOREM NothingUnauthorizedHolds == Spec => []NothingUnauthorized
<1>1. IInv => NothingUnauthorized
    <2> SUFFICES ASSUME IInv, NEW r \in Requests,
                        input[r].route \notin Public, input[r].token # "valid"
                 PROVE  /\ done[r] = {}
                        /\ reply[r] # <<>> =>
                                /\ reply[r][1].status \in {401, 403, 500}
                                /\ ~reply[r][1].success
        BY DEF NothingUnauthorized
    <2>1. Refusal(input[r]) \in {401, 403, 500} BY RefusalIs DEF IInv, TypeOK
    <2>2. ~Waiting(r) BY <2>1 DEF Waiting
    <2>3. stage[r] \in {"idle", "answered"}
        BY <2>2 DEF IInv, TypeOK, RequestInv
    <2>4. CASE stage[r] = "idle"
        BY <2>4 DEF IInv, TypeOK, RequestInv
    <2>5. CASE stage[r] = "answered"
        <3>1. /\ step[r] = 0
              /\ reply[r] = No(Refusal(input[r]))
            BY <2>1, <2>2, <2>5 DEF IInv, RequestInv, Answered
        <3>2. done[r] = {} BY <3>1 DEF IInv, TypeOK
        <3> QED BY <2>1, <3>1, <3>2 DEF Yes, No
    <2> QED BY <2>3, <2>4, <2>5
<1> QED BY Invariance, <1>1, PTL

\* What a client may conclude from its answer.
THEOREM AnswersAreTrueHolds == Spec => []AnswersAreTrue
<1>1. IInv => AnswersAreTrue
    <2> SUFFICES ASSUME IInv, NEW r \in Requests, reply[r] # <<>>
                 PROVE  LET status == reply[r][1].status IN
                        /\ status = 200 =>
                            /\ Missing(r) \subseteq Told(r)
                            /\ reply[r][1].success /\ Missing(r) # {} =>
                                    input[r].route \in {"socketText", "contactList"}
                        /\ status = 500 => (1 .. step[r] - 1) \subseteq done[r] \cup Told(r)
                        /\ status \notin {200, 500} => done[r] = {}
                        /\ status # 200 => ~reply[r][1].success
        BY DEF AnswersAreTrue, Told
    <2>1. Answered(r)
        BY DEF IInv, TypeOK, RequestInv
    <2>2. Refusal(input[r]) \in {0, 400, 401, 403, 404, 500, 503}
        BY RefusalIs DEF IInv, TypeOK
    <2>3. CASE /\ step[r] = 0 /\ Refusal(input[r]) # 0
               /\ reply[r] = No(Refusal(input[r]))
        <3>1. done[r] = {} /\ 1 .. step[r] - 1 = {} BY <2>3 DEF IInv, TypeOK
        <3> QED BY <2>2, <2>3, <3>1 DEF Yes, No
    <2>4. CASE /\ Awaits(input[r]) = <<>>
               /\ reply[r] = Yes(200)
        <3>1. Missing(r) = {} BY <2>4 DEF Missing
        <3> QED BY <2>4, <3>1 DEF Yes, No
    <2>5. CASE Waiting(r) /\ reply[r] = No(500)
        BY <2>5 DEF Waiting, Yes, No
    <2>6. CASE /\ Missing(r) \subseteq Told(r)
               /\ \/ reply[r] = No(200)
                  \/ /\ reply[r] = Yes(200)
                     /\ Missing(r) = {} \/ input[r].route \in {"socketText", "contactList"}
        BY <2>6 DEF Yes, No
    <2> QED BY <2>1, <2>3, <2>4, <2>5, <2>6 DEF Answered
<1> QED BY Invariance, <1>1, PTL

-----------------------------------------------------------------------------
(* Readings: the name of an image leads back to its row.                     *)

\* The places at which a name is cut, and those with n of them before.
Cuts(name, sep) ==
    {0} \cup {i \in DOMAIN name : name[i] = sep} \cup {Len(name) + 1}
Before(cuts, c) == {d \in cuts : d < c}
Ends(cuts, n) == {c \in cuts : Cardinality(Before(cuts, c)) = n}

LEMMA PieceIs ==
    ASSUME NEW name, NEW sep, NEW n
    PROVE  Piece(name, sep, n) =
                IF Ends(Cuts(name, sep), n) = {} THEN <<>>
                ELSE SubSeq(name, Max(Ends(Cuts(name, sep), n - 1)) + 1,
                            Max(Ends(Cuts(name, sep), n)) - 1)
BY DEF Piece, Ends, Before, Cuts

LEMMA MaxOfOne == ASSUME NEW c \in Nat PROVE Max({c}) = c
BY DEF Max

\* No two places have the same number of places before them.
LEMMA EndIsOne ==
    ASSUME NEW cuts \in SUBSET Nat, IsFiniteSet(cuts), NEW n \in Nat,
           NEW c \in Ends(cuts, n)
    PROVE  Ends(cuts, n) = {c}
<1>1. ASSUME NEW a \in Ends(cuts, n), NEW b \in Ends(cuts, n), a < b PROVE FALSE
    <2> DEFINE lower == Before(cuts, a)
               upper == Before(cuts, b)
    <2>1. /\ Cardinality(lower) = n /\ Cardinality(upper) = n
          /\ a \in cuts /\ b \in cuts
        BY DEF Ends
    <2>2. /\ lower \in SUBSET cuts /\ upper \in SUBSET cuts
          /\ a \notin lower /\ lower \cup {a} \in SUBSET upper
        <3>1. a \in Nat /\ b \in Nat BY <2>1
        <3>2. a \notin lower BY <3>1 DEF Before
        <3>3. ASSUME NEW d \in lower \cup {a} PROVE d \in upper
            <4>1. d \in cuts /\ d \in Nat BY <2>1 DEF Before
            <4>2. d < b BY <1>1, <3>1, <4>1 DEF Before
            <4> QED BY <4>1, <4>2 DEF Before
        <3>4. lower \in SUBSET cuts /\ upper \in SUBSET cuts BY DEF Before
        <3> HIDE DEF lower, upper
        <3>5. lower \cup {a} \in SUBSET upper BY <3>3
        <3> QED BY <3>2, <3>4, <3>5
    <2> HIDE DEF lower, upper
    <2>3. IsFiniteSet(lower) /\ IsFiniteSet(upper) BY <2>2, FS_Subset
    <2>4. Cardinality(lower \cup {a}) = n + 1 BY <2>1, <2>2, <2>3, FS_AddElement
    <2>5. Cardinality(lower \cup {a}) <= Cardinality(upper) BY <2>2, <2>3, FS_Subset
    <2> QED BY <2>1, <2>4, <2>5
<1>2. \A d \in Ends(cuts, n) : d \in Nat BY DEF Ends
<1>3. \A d \in Ends(cuts, n) : ~(d < c) /\ ~(c < d) BY <1>1
<1> QED BY <1>2, <1>3

\* The first and the second piece of a name are made of its parts.
LEMMA PieceIsPart ==
    ASSUME NEW S, NEW name \in Seq(S), NEW sep, NEW n \in {1, 2}
    PROVE  Piece(name, sep, n) \in Seq(S)
<1> DEFINE cuts == Cuts(name, sep)
<1>1. /\ Len(name) \in Nat /\ DOMAIN name = 1 .. Len(name)
      /\ \A k \in 1 .. Len(name) : name[k] \in S
    BY LenProperties, ElementOfSeq
<1>2. /\ cuts \in SUBSET (0 .. Len(name) + 1) /\ cuts \in SUBSET Nat /\ 0 \in cuts
    BY <1>1 DEF Cuts
<1>3. IsFiniteSet(cuts)
    <2>1. 0 \in Int /\ Len(name) + 1 \in Int BY <1>1
    <2>2. IsFiniteSet(0 .. Len(name) + 1) BY <2>1, FS_Interval
    <2> HIDE DEF cuts
    <2> QED BY <1>2, <2>2, FS_Subset
<1> HIDE DEF cuts
<1>4. CASE Ends(cuts, n) = {}
    <2>1. Piece(name, sep, n) = <<>> BY <1>4, PieceIs DEF cuts
    <2> QED BY <2>1
<1>5. ASSUME NEW to \in Ends(cuts, n) PROVE Piece(name, sep, n) \in Seq(S)
    <2>1. Ends(cuts, n) = {to} /\ to \in cuts /\ Cardinality(Before(cuts, to)) = n
        BY <1>2, <1>3, EndIsOne DEF Ends
    <2>2. PICK from \in cuts : from \in Ends(cuts, n - 1)
        <3>1. CASE n = 1
            <4>1. Before(cuts, 0) = {}
                <5>1. \A d \in cuts : d \in Nat /\ ~(d < 0) BY <1>2
                <5> QED BY <5>1 DEF Before
            <4>2. Cardinality(Before(cuts, 0)) = 0 BY <4>1, FS_EmptySet
            <4>3. 0 \in Ends(cuts, 0) BY <1>2, <4>2 DEF Ends
            <4>4. n - 1 = 0 BY <3>1
            <4> QED BY <1>2, <4>3, <4>4
        <3>2. CASE n = 2
            <4> DEFINE before == Before(cuts, to)
            <4>1. before \in SUBSET cuts /\ to \in Nat BY <1>2, <2>1 DEF Before
            <4>2. IsFiniteSet(before)
                <5> HIDE DEF before
                <5> QED BY <1>3, <4>1, FS_Subset
            <4>3. before # {}
                <5>1. Cardinality(before) # 0 BY <2>1, <3>2
                <5> HIDE DEF before
                <5> QED BY <5>1, FS_EmptySet
            <4>4. 0 \in before
                <5>1. PICK d \in cuts : d < to BY <4>3 DEF Before
                <5> QED BY <1>2, <4>1, <5>1 DEF Before
            <4>5. Cardinality(before) = 2 BY <2>1, <3>2
            <4> HIDE DEF before
            <4>6. IsFiniteSet(before \ {0}) /\ Cardinality(before \ {0}) = 1
                BY <4>2, <4>4, <4>5, FS_RemoveElement
            <4>7. PICK q : before \ {0} = {q} BY <4>6, FS_Singleton
            <4>8. q \in cuts /\ q \in Nat /\ q # 0 /\ q < to /\ before = {0, q}
                BY <1>2, <4>1, <4>4, <4>7 DEF before, Before
            <4>9. Before(cuts, q) = {0}
                <5>1. \A d \in cuts : d < q => d \in {0, q}
                    BY <1>2, <4>1, <4>8 DEF before, Before
                <5>2. 0 \in cuts /\ 0 < q BY <1>2, <4>8
                <5>3. ASSUME NEW d \in Before(cuts, q) PROVE d = 0
                    <6>1. d \in cuts /\ d \in Nat /\ d < q
                        BY <1>2 DEF Before
                    <6> QED BY <4>8, <5>1, <6>1
                <5>4. 0 \in Before(cuts, q) BY <5>2 DEF Before
                <5> QED BY <5>3, <5>4
            <4>10. Cardinality(Before(cuts, q)) = 1 BY <4>9, FS_Singleton
            <4>11. q \in Ends(cuts, 1) BY <4>8, <4>10 DEF Ends
            <4>12. n - 1 = 1 BY <3>2
            <4> QED BY <4>8, <4>11, <4>12
        <3> QED BY <3>1, <3>2
    <2>3. n - 1 \in Nat /\ n \in Nat OBVIOUS
    <2>4. Ends(cuts, n - 1) = {from} BY <1>2, <1>3, <2>2, <2>3, EndIsOne
    <2>5. /\ Max(Ends(cuts, n - 1)) = from /\ Max(Ends(cuts, n)) = to
          /\ from \in Nat /\ to \in Nat
        BY <1>2, <2>1, <2>2, <2>4, MaxOfOne
    <2>6. Piece(name, sep, n) = SubSeq(name, from + 1, to - 1)
        BY <2>1, <2>5, PieceIs DEF cuts
    <2>7. /\ from + 1 \in Int /\ to - 1 \in Int
          /\ \A k \in from + 1 .. to - 1 : name[k] \in S
        BY <1>1, <1>2, <2>1, <2>2, <2>5
    <2>8. SubSeq(name, from + 1, to - 1) \in Seq(S) BY <2>7, SubSeqProperties
    <2> QED BY <2>6, <2>8
<1> QED BY <1>4, <1>5

\* The two pieces of a name that has one separator.
LEMMA TwoPieces ==
    ASSUME NEW S, NEW name \in Seq(S), NEW sep, NEW a \in 1 .. Len(name),
           name[a] = sep, \A k \in 1 .. Len(name) : name[k] = sep => k = a
    PROVE  /\ Piece(name, sep, 1) = SubSeq(name, 1, a - 1)
           /\ Piece(name, sep, 2) = SubSeq(name, a + 1, Len(name))
<1> DEFINE b == Len(name) + 1
<1>1. /\ Len(name) \in Nat /\ DOMAIN name = 1 .. Len(name) BY LenProperties
<1>2. a \in Nat /\ b \in Nat /\ 0 < a /\ a < b BY <1>1
<1>3. Cuts(name, sep) = {0, a, b}
    <2>1. {i \in DOMAIN name : name[i] = sep} = {a}
        <3>1. a \in {i \in DOMAIN name : name[i] = sep} BY <1>1
        <3>2. \A k \in {i \in DOMAIN name : name[i] = sep} : k = a BY <1>1
        <3> QED BY <3>1, <3>2
    <2> QED BY <2>1 DEF Cuts
<1> HIDE DEF b
<1> DEFINE cuts == {0, a, b}
<1>4. cuts \in SUBSET Nat /\ cuts = ({0} \cup {a}) \cup {b} BY <1>2
<1>5. IsFiniteSet(cuts)
    <2>1. IsFiniteSet({0}) BY FS_Singleton
    <2>2. IsFiniteSet({0} \cup {a}) BY <1>2, <2>1, FS_AddElement
    <2>3. IsFiniteSet(({0} \cup {a}) \cup {b}) BY <2>2, FS_AddElement
    <2> QED BY <1>4, <2>3
<1>6. /\ Before(cuts, 0) = {} /\ Before(cuts, a) = {0}
      /\ Before(cuts, b) = {0} \cup {a}
    BY <1>2 DEF Before
<1>7. /\ Cardinality(Before(cuts, 0)) = 0 /\ Cardinality(Before(cuts, a)) = 1
      /\ Cardinality(Before(cuts, b)) = 2
    <2>1. IsFiniteSet({0}) /\ Cardinality({0}) = 1 BY FS_Singleton
    <2>2. Cardinality({0} \cup {a}) = 2
        <3>1. a \notin {0} BY <1>2
        <3>2. Cardinality({0} \cup {a}) = Cardinality({0}) + 1
            BY <2>1, <3>1, FS_AddElement
        <3>3. 1 + 1 = 2 OBVIOUS
        <3> QED BY <2>1, <3>2, <3>3, Zenon
    <2> QED BY <1>6, <2>1, <2>2, FS_EmptySet
<1>8. 0 \in Ends(cuts, 0) /\ a \in Ends(cuts, 1) /\ b \in Ends(cuts, 2)
    BY <1>7 DEF Ends
<1> HIDE DEF cuts
<1>9. Ends(cuts, 0) = {0} BY <1>4, <1>5, <1>8, EndIsOne
<1>10. Ends(cuts, 1) = {a} BY <1>4, <1>5, <1>8, EndIsOne
<1>11. Ends(cuts, 2) = {b} BY <1>4, <1>5, <1>8, EndIsOne
<1>12. /\ Max(Ends(cuts, 0)) = 0 /\ Max(Ends(cuts, 1)) = a /\ Max(Ends(cuts, 2)) = b
    BY <1>2, <1>9, <1>10, <1>11, MaxOfOne
<1>13. Cuts(name, sep) = cuts BY <1>3 DEF cuts
<1>14. Piece(name, sep, 1) = SubSeq(name, 0 + 1, a - 1)
    <2>1. 1 - 1 = 0 OBVIOUS
    <2> QED BY <1>10, <1>12, <1>13, <2>1, PieceIs
<1>15. Piece(name, sep, 2) = SubSeq(name, a + 1, b - 1)
    <2>1. 2 - 1 = 1 OBVIOUS
    <2> QED BY <1>11, <1>12, <1>13, <2>1, PieceIs
<1>16. b - 1 = Len(name) BY <1>1 DEF b
<1> QED BY <1>14, <1>15, <1>16

LEMMA OnePart ==
    ASSUME NEW name, NEW n \in Int
    PROVE  SubSeq(name, n, n) = <<name[n]>>
<1> DEFINE S == {name[n]}
           part == SubSeq(name, n, n)
<1>1. \A i \in n .. n : name[i] \in S OBVIOUS
<1>2. /\ part \in Seq(S) /\ Len(part) = 1
      /\ \A i \in 1 .. 1 : part[i] = name[n + i - 1]
    <2> HIDE DEF S
    <2>1. /\ SubSeq(name, n, n) \in Seq(S)
          /\ Len(SubSeq(name, n, n)) = IF n <= n THEN n - n + 1 ELSE 0
          /\ \A i \in 1 .. n - n + 1 : SubSeq(name, n, n)[i] = name[n + i - 1]
        BY <1>1, SubSeqProperties
    <2>2. n - n + 1 = 1 /\ n <= n OBVIOUS
    <2> QED BY <2>1, <2>2
<1> HIDE DEF part
<1>3. part[1] = name[n]
    <2>1. n + 1 - 1 = n /\ 1 \in 1 .. 1 OBVIOUS
    <2> QED BY <1>2, <2>1
<1>4. part = <<name[n]>> BY <1>2, <1>3
<1> QED BY <1>4 DEF part

\* The parts of the names, for any two separators.
LEMMA Parts ==
    ASSUME NEW x, NEW y, NEW e, NEW dot, NEW bar,
           x # dot, x # bar, y # dot, e # dot, e # bar, bar # dot
    PROVE  /\ Piece(<<x, dot, y>>, dot, 1) = <<x>>
           /\ Piece(<<x, dot, y>>, dot, 2) = <<y>>
           /\ (<<x>> \o <<bar, e, dot>>) \o <<y>> = <<x, bar, e, dot, y>>
           /\ Piece(<<x, bar, e, dot, y>>, dot, 1) = <<x, bar, e>>
           /\ Piece(<<x, bar, e>>, bar, 2) = <<e>>
<1> DEFINE S == {x, y, e, dot, bar}
<1>1. Piece(<<x, dot, y>>, dot, 1) = <<x>> /\ Piece(<<x, dot, y>>, dot, 2) = <<y>>
    <2> DEFINE name == <<x, dot, y>>
    <2>1. /\ name \in Seq(S) /\ Len(name) = 3
          /\ name[1] = x /\ name[2] = dot /\ name[3] = y
        OBVIOUS
    <2> HIDE DEF name, S
    <2>2. /\ 2 \in 1 .. Len(name)
          /\ \A k \in 1 .. Len(name) : name[k] = dot => k = 2
        BY <2>1
    <2>3. /\ Piece(name, dot, 1) = SubSeq(name, 1, 2 - 1)
          /\ Piece(name, dot, 2) = SubSeq(name, 2 + 1, Len(name))
        BY <2>1, <2>2, TwoPieces
    <2>4. SubSeq(name, 1, 1) = <<x>> /\ SubSeq(name, 3, 3) = <<y>>
        BY <2>1, OnePart
    <2>5. Piece(name, dot, 1) = <<x>> /\ Piece(name, dot, 2) = <<y>>
        BY <2>1, <2>3, <2>4
    <2> QED BY <2>5 DEF name
<1>2. (<<x>> \o <<bar, e, dot>>) \o <<y>> = <<x, bar, e, dot, y>>
    <2> DEFINE s1 == <<x>>
               s2 == <<bar, e, dot>>
               s3 == <<y>>
               name == <<x, bar, e, dot, y>>
    <2>1. s1 \in Seq(S) /\ Len(s1) = 1 /\ s1[1] = x OBVIOUS
    <2>2. /\ s2 \in Seq(S) /\ Len(s2) = 3
          /\ s2[1] = bar /\ s2[2] = e /\ s2[3] = dot
        OBVIOUS
    <2>3. s3 \in Seq(S) /\ Len(s3) = 1 /\ s3[1] = y OBVIOUS
    <2>4. /\ name \in Seq(S) /\ Len(name) = 5
          /\ name[1] = x /\ name[2] = bar /\ name[3] = e /\ name[4] = dot
          /\ name[5] = y
        OBVIOUS
    <2> HIDE DEF s1, s2, s3, name, S
    <2>5. /\ s1 \o s2 \in Seq(S) /\ Len(s1 \o s2) = Len(s1) + Len(s2)
          /\ \A i \in 1 .. Len(s1) + Len(s2) : (s1 \o s2)[i] =
                IF i <= Len(s1) THEN s1[i] ELSE s2[i - Len(s1)]
        BY <2>1, <2>2, ConcatProperties
    <2> DEFINE head == s1 \o s2
    <2>6. /\ head \in Seq(S) /\ Len(head) = 4
          /\ head[1] = x /\ head[2] = bar /\ head[3] = e /\ head[4] = dot
        BY <2>1, <2>2, <2>5
    <2> HIDE DEF head
    <2>7. /\ head \o s3 \in Seq(S) /\ Len(head \o s3) = Len(head) + Len(s3)
          /\ \A i \in 1 .. Len(head) + Len(s3) : (head \o s3)[i] =
                IF i <= Len(head) THEN head[i] ELSE s3[i - Len(head)]
        BY <2>3, <2>6, ConcatProperties
    <2> DEFINE whole == head \o s3
    <2>8. /\ whole \in Seq(S) /\ Len(whole) = 5
          /\ whole[1] = x /\ whole[2] = bar /\ whole[3] = e /\ whole[4] = dot
          /\ whole[5] = y
        BY <2>3, <2>6, <2>7
    <2> HIDE DEF whole
    <2>9. \A i \in 1 .. Len(whole) : whole[i] = name[i] BY <2>4, <2>8
    <2>10. whole = name BY <2>4, <2>8, <2>9, SeqEqual
    <2> QED BY <2>10 DEF whole, head, s1, s2, s3, name
<1>3. Piece(<<x, bar, e, dot, y>>, dot, 1) = <<x, bar, e>>
    <2> DEFINE name == <<x, bar, e, dot, y>>
               part == <<x, bar, e>>
    <2>1. /\ name \in Seq(S) /\ Len(name) = 5
          /\ name[1] = x /\ name[2] = bar /\ name[3] = e /\ name[4] = dot
          /\ name[5] = y
        OBVIOUS
    <2>2. /\ part \in Seq(S) /\ Len(part) = 3
          /\ part[1] = x /\ part[2] = bar /\ part[3] = e
        OBVIOUS
    <2>3. x \in S /\ bar \in S /\ e \in S OBVIOUS
    <2> HIDE DEF name, part, S
    <2>4. /\ 4 \in 1 .. Len(name)
          /\ \A k \in 1 .. Len(name) : name[k] = dot => k = 4
        BY <2>1
    <2>5. Piece(name, dot, 1) = SubSeq(name, 1, 4 - 1) BY <2>1, <2>4, TwoPieces
    <2>6. \A i \in 1 .. 3 : name[i] \in S BY <2>1, <2>3
    <2> DEFINE cut == SubSeq(name, 1, 3)
    <2>7. /\ cut \in Seq(S) /\ Len(cut) = 3
          /\ \A i \in 1 .. 3 : cut[i] = name[i]
        <3>1. /\ SubSeq(name, 1, 3) \in Seq(S)
              /\ Len(SubSeq(name, 1, 3)) = IF 1 <= 3 THEN 3 - 1 + 1 ELSE 0
              /\ \A i \in 1 .. 3 - 1 + 1 : SubSeq(name, 1, 3)[i] = name[1 + i - 1]
            BY <2>6, SubSeqProperties
        <3> HIDE DEF cut
        <3>2. /\ cut \in Seq(S) /\ Len(cut) = 3 - 1 + 1
              /\ \A i \in 1 .. 3 - 1 + 1 : cut[i] = name[1 + i - 1]
            BY <3>1 DEF cut
        <3>3. \A i \in 1 .. 3 : 1 + i - 1 = i OBVIOUS
        <3> QED BY <3>2, <3>3
    <2> HIDE DEF cut
    <2>8. \A i \in 1 .. Len(cut) : cut[i] = part[i] BY <2>1, <2>2, <2>7
    <2>9. cut = part BY <2>2, <2>7, <2>8, SeqEqual
    <2>10. Piece(name, dot, 1) = part BY <2>5, <2>9 DEF cut
    <2> QED BY <2>10 DEF name, part
<1>4. Piece(<<x, bar, e>>, bar, 2) = <<e>>
    <2> DEFINE name == <<x, bar, e>>
    <2>1. /\ name \in Seq(S) /\ Len(name) = 3
          /\ name[1] = x /\ name[2] = bar /\ name[3] = e
        OBVIOUS
    <2> HIDE DEF name, S
    <2>2. /\ 2 \in 1 .. Len(name)
          /\ \A k \in 1 .. Len(name) : name[k] = bar => k = 2
        BY <2>1
    <2>3. Piece(name, bar, 2) = SubSeq(name, 2 + 1, Len(name))
        BY <2>1, <2>2, TwoPieces
    <2>4. SubSeq(name, 3, 3) = <<e>> BY <2>1, OnePart
    <2>5. Piece(name, bar, 2) = <<e>> BY <2>1, <2>3, <2>4
    <2> QED BY <2>5 DEF name
<1> QED BY <1>1, <1>2, <1>3, <1>4

\* The name that setImageNameDto makes, and the id that parseImageNameDto reads.
LEMMA NameLeadsBack ==
    ASSUME NEW x, NEW y, NEW e, {x, y, e} \cap {".", "_"} = {}
    PROVE  ParseImageName(SetImageName(<<x, ".", y>>, e)).imageId = <<e>>
<1>1. x # "." /\ x # "_" /\ y # "." /\ e # "." /\ e # "_" /\ "_" # "." OBVIOUS
<1> DEFINE Read(dot, bar) ==
        /\ Piece(<<x, dot, y>>, dot, 1) = <<x>>
        /\ Piece(<<x, dot, y>>, dot, 2) = <<y>>
        /\ (<<x>> \o <<bar, e, dot>>) \o <<y>> = <<x, bar, e, dot, y>>
        /\ Piece(<<x, bar, e, dot, y>>, dot, 1) = <<x, bar, e>>
        /\ Piece(<<x, bar, e>>, bar, 2) = <<e>>
<1>2. \A dot, bar : /\ x # dot /\ x # bar /\ y # dot /\ e # dot /\ e # bar
                   /\ bar # dot
                   => Read(dot, bar)
    BY Parts
<1>3. Read(".", "_")
    <2> HIDE DEF Read
    <2> QED BY <1>1, <1>2
<1>4. /\ Piece(<<x, ".", y>>, ".", 1) = <<x>>
      /\ Piece(<<x, ".", y>>, ".", 2) = <<y>>
      /\ (<<x>> \o <<"_", e, ".">>) \o <<y>> = <<x, "_", e, ".", y>>
      /\ Piece(<<x, "_", e, ".", y>>, ".", 1) = <<x, "_", e>>
      /\ Piece(<<x, "_", e>>, "_", 2) = <<e>>
    BY <1>3
<1>5. SetImageName(<<x, ".", y>>, e) = <<x, "_", e, ".", y>>
    BY <1>4 DEF SetImageName
<1> QED BY <1>4, <1>5 DEF ParseImageName

\* An image counts for the row it was made for, and for no other.
LEMMA CountsForItsRow ==
    ASSUME NEW i \in Inputs, i.route = "image", NEW e \in Rows
    PROVE  ParseImageName(i.name).imageId = <<e>> <=> i.for = e
<1>1. i.for \in Rows \cup {None} /\ Rows \cap {None, ".", "_"} = {}
    BY InputsAssumption, NamesAssumption
<1>2. CASE i.for = None
    <2>1. i.name \in Seq(ToSet(i.name)) /\ e \notin ToSet(i.name)
        BY <1>2, NamesAssumption
    <2> DEFINE parts == ToSet(i.name)
               image == Piece(i.name, ".", 1)
               imageId == Piece(image, "_", 2)
    <2> HIDE DEF parts, image, imageId
    <2>2. image \in Seq(parts) BY <2>1, PieceIsPart DEF image, parts
    <2>3. imageId \in Seq(parts) BY <2>2, PieceIsPart DEF imageId
    <2>4. imageId # <<e>>
        <3>1. SUFFICES ASSUME imageId = <<e>> PROVE FALSE OBVIOUS
        <3>2. <<e>>[1] \in parts BY <2>3, <3>1, ElementOfSeq
        <3> QED BY <2>1, <3>2 DEF parts
    <2>5. ParseImageName(i.name).imageId = imageId
        BY DEF ParseImageName, image, imageId
    <2> QED BY <1>1, <1>2, <2>4, <2>5
<1>3. CASE i.for \in Rows
    <2>1. PICK x, y : /\ {x, y} \cap {".", "_"} = {}
                      /\ i.name = SetImageName(<<x, ".", y>>, i.for)
        BY <1>1, <1>3, NamesAssumption
    <2>2. PICK own : own = i.for OBVIOUS
    <2>3. {x, y, own} \cap {".", "_"} = {} BY <1>1, <1>3, <2>1, <2>2
    <2>4. ParseImageName(i.name).imageId = <<own>> BY <2>1, <2>2, <2>3, NameLeadsBack
    <2> QED BY <2>2, <2>4
<1> QED BY <1>1, <1>2, <1>3

\* Every image that is sent for an e-mail is counted for that e-mail once, or its
\* increment has failed, and nothing is counted for an image that is not sent
\* (setImageNameDto, parseImageNameDto, sendFile), for any names without a row's id
\* and any rows.
THEOREM ReadingsAreCountedHolds == Spec => []ReadingsAreCounted
<1>1. Init => ReadingsAreCounted BY DEF Init, ReadingsAreCounted
<1>2. IInv /\ ReadingsAreCounted /\ [Next]_vars => ReadingsAreCounted'
    <2> SUFFICES ASSUME IInv, ReadingsAreCounted, [Next]_vars, NEW e \in Rows
                 PROVE  served'[e] = countRead'[e] + pending'[e] + lost'[e]
        BY DEF ReadingsAreCounted
    <2>1. /\ served[e] = countRead[e] + pending[e] + lost[e]
          /\ served \in [Rows -> Nat] /\ countRead \in [Rows -> Nat]
          /\ pending \in [Rows -> Nat] /\ lost \in [Rows -> Nat]
        BY DEF ReadingsAreCounted, IInv, TypeOK
    <2>2. ASSUME UNCHANGED readVars
          PROVE  served'[e] = countRead'[e] + pending'[e] + lost'[e]
        BY <2>1, <2>2 DEF readVars
    <2>3. ASSUME NEW r \in Requests, Arrive(r)
          PROVE  served'[e] = countRead'[e] + pending'[e] + lost'[e]
        <3>1. UNCHANGED readVars \/ (input[r].route = "image" /\ Serve(input[r]))
            BY <2>3 DEF Arrive
        <3>2. CASE input[r].route = "image" /\ Serve(input[r])
            <4>1. ParseImageName(input[r].name).imageId = <<e>> <=> input[r].for = e
                BY <3>2, CountsForItsRow DEF IInv, TypeOK
            <4>2. PICK n \in {0, 1} : n = IF input[r].for = e THEN 1 ELSE 0 OBVIOUS
            <4>3. pending'[e] = pending[e] + n /\ served'[e] = served[e] + n
                BY <3>2, <4>1, <4>2 DEF Serve
            <4> QED BY <2>1, <3>2, <4>3 DEF Serve
        <3> QED BY <2>2, <3>1, <3>2
    <2>4. ASSUME NEW f \in Rows, Increment(f)
          PROVE  served'[e] = countRead'[e] + pending'[e] + lost'[e]
        <3>1. CASE e # f BY <2>1, <2>4, <3>1 DEF Increment
        <3>2. CASE e = f BY <2>1, <2>4, <3>2 DEF Increment
        <3> QED BY <3>1, <3>2
    <2>5. ASSUME Crash
          PROVE  served'[e] = countRead'[e] + pending'[e] + lost'[e]
        BY <2>1, <2>5 DEF Crash
    <2> QED BY <2>2, <2>3, <2>4, <2>5 DEF Next, Happen, Resolve, Reject, vars
<1> QED BY <1>1, <1>2, Invariance, PTL DEF Spec
=============================================================================
