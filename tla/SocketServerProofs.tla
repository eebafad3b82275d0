------------------------- MODULE SocketServerProofs -------------------------
(***************************************************************************)
(* Proofs about SocketServer, for any sockets, tokens and calls.           *)
(*                                                                         *)
(* That the calls keep the promise of ProviderCall is not inductive: a late *)
(* acknowledgement is harmless only because it is that of a call which was  *)
(* carried out (or refused) and which is waiting or has been given up.     *)
(* Nor are the properties of the list of clients: ListInv says where the   *)
(* entries lie, against the order in which the devices came.               *)
(***************************************************************************)
EXTENDS SocketServer, ListProofs

\* What is on the wire agrees with what the device did, and a call that has
\* ended otherwise than by the timer has nothing on the wire.
CallInv(c) ==
    /\ delivered[c] \in {0, 1}
    /\ wire[c] \in {"event", "refused"} => delivered[c] = 0
    /\ wire[c] = "success" => delivered[c] = 1
    /\ result[c] \notin {"waiting", "timeout"} => wire[c] = "none"
    /\ result[c] \in {"idle", "offline", "refused"} => delivered[c] = 0
    /\ result[c] = "success" => delivered[c] = 1

IInv == TypeOK /\ \A c \in Calls : CallInv(c)

-----------------------------------------------------------------------------
LEMMA InitHolds == Init => IInv
BY DEF Init, IInv, TypeOK, CallInv

\* Connections touch the calls only by losing what is on the wire.
LEMMA WireWithoutIs ==
    ASSUME IInv, NEW s \in Sockets, wire' = WireWithout(s),
           UNCHANGED <<target, delivered, result>>
    PROVE  /\ wire' \in [Calls -> {"none", "event", "success", "refused"}]
           /\ \A c \in Calls : CallInv(c)'
<1>1. \A c \in Calls : wire'[c] \in {"none", wire[c]}
    BY DEF WireWithout
<1>2. wire' \in [Calls -> {"none", "event", "success", "refused"}]
    BY DEF WireWithout, IInv, TypeOK
<1> QED BY <1>1, <1>2 DEF IInv, TypeOK, CallInv

\* The counters of mails stay counters.
LEMMA MailsAre ==
    ASSUME NEW s \in Sockets, NEW n \in Nat,
           mails \in [Sockets -> [on : Nat, off : Nat]]
    PROVE  /\ [mails EXCEPT ![s].on = @ + n] \in [Sockets -> [on : Nat, off : Nat]]
           /\ [mails EXCEPT ![s].off = @ + n] \in [Sockets -> [on : Nat, off : Nat]]
<1>1. mails[s] \in [on : Nat, off : Nat]
    OBVIOUS
<1>2. /\ [mails[s] EXCEPT !.on = @ + n] \in [on : Nat, off : Nat]
      /\ [mails[s] EXCEPT !.off = @ + n] \in [on : Nat, off : Nat]
    BY <1>1
<1> QED BY <1>2

LEMMA ConnectKeeps == ASSUME NEW s \in Sockets PROVE IInv /\ Connect(s) => IInv'
<1> SUFFICES ASSUME IInv, Connect(s) PROVE IInv'
    OBVIOUS
<1>1. Connections(s) \in Nat BY DEF Connections
<1>2. mails' \in [Sockets -> [on : Nat, off : Nat]]
    BY <1>1, MailsAre DEF Connect, IInv, TypeOK
<1>4. TypeOK' BY <1>2 DEF Connect, callVars, IInv, TypeOK
<1>5. \A c \in Calls : CallInv(c)' BY DEF Connect, callVars, IInv, CallInv
<1> QED BY <1>4, <1>5 DEF IInv

LEMMA VanishKeeps == ASSUME NEW s \in Sockets PROVE IInv /\ Vanish(s) => IInv'
<1> SUFFICES ASSUME IInv, Vanish(s) PROVE IInv'
    OBVIOUS
<1>1. /\ wire' \in [Calls -> {"none", "event", "success", "refused"}]
      /\ \A c \in Calls : CallInv(c)'
    BY WireWithoutIs DEF Vanish
<1>2. TypeOK' BY <1>1 DEF Vanish, IInv, TypeOK
<1> QED BY <1>1, <1>2 DEF IInv

LEMMA DisconnectKeeps ==
    ASSUME NEW s \in Sockets PROVE IInv /\ Disconnect(s) => IInv'
<1> SUFFICES ASSUME IInv, Disconnect(s) PROVE IInv'
    OBVIOUS
<1>1. /\ wire' \in [Calls -> {"none", "event", "success", "refused"}]
      /\ \A c \in Calls : CallInv(c)'
    BY WireWithoutIs DEF Disconnect
<1>3. mails' \in [Sockets -> [on : Nat, off : Nat]]
    <2>1. Connections(s) \in Nat BY DEF Connections
    <2> QED BY <2>1, MailsAre DEF Disconnect, IInv, TypeOK
<1>4. TypeOK' BY <1>1, <1>3 DEF Disconnect, IInv, TypeOK
<1> QED BY <1>1, <1>4 DEF IInv

LEMMA CallStepKeeps == ASSUME NEW c \in Calls PROVE IInv /\ CallStep(c) => IInv'
<1> SUFFICES ASSUME IInv, CallStep(c) PROVE IInv'
    OBVIOUS
<1>1. CASE Refuse(c)
    <2>1. TypeOK' BY <1>1 DEF Refuse, socketVars, IInv, TypeOK
    <2>2. \A d \in Calls : CallInv(d)'
        BY <1>1 DEF Refuse, IInv, TypeOK, CallInv
    <2> QED BY <2>1, <2>2 DEF IInv
<1>2. CASE Emit(c)
    <2>2. TypeOK' BY <1>2 DEF Emit, socketVars, IInv, TypeOK
    <2>3. \A d \in Calls : CallInv(d)'
        BY <1>2 DEF Emit, IInv, TypeOK, CallInv
    <2> QED BY <2>2, <2>3 DEF IInv
<1>3. CASE Deliver(c)
    <2>1. PICK ack \in {"success", "refused", "none"} :
            /\ wire' = [wire EXCEPT ![c] = ack]
            /\ delivered' = [delivered EXCEPT ![c] =
                                IF ack = "refused" THEN @ ELSE @ + 1]
        BY <1>3 DEF Deliver
    <2>2. TypeOK' BY <1>3, <2>1 DEF Deliver, socketVars, IInv, TypeOK
    <2>3. \A d \in Calls : CallInv(d)'
        BY <1>3, <2>1 DEF Deliver, IInv, TypeOK, CallInv
    <2> QED BY <2>2, <2>3 DEF IInv
<1>4. CASE Acknowledge(c)
    <2>1. TypeOK' BY <1>4 DEF Acknowledge, socketVars, IInv, TypeOK
    <2>2. \A d \in Calls : CallInv(d)'
        BY <1>4 DEF Acknowledge, IInv, TypeOK, CallInv
    <2> QED BY <2>1, <2>2 DEF IInv
<1>5. CASE Timeout(c)
    <2>1. TypeOK' BY <1>5 DEF Timeout, socketVars, IInv, TypeOK
    <2>2. \A d \in Calls : CallInv(d)'
        BY <1>5 DEF Timeout, IInv, TypeOK, CallInv
    <2> QED BY <2>1, <2>2 DEF IInv
<1> QED BY <1>1, <1>2, <1>3, <1>4, <1>5 DEF CallStep

LEMMA NextKeeps == IInv /\ [Next]_vars => IInv'
<1> SUFFICES ASSUME IInv, [Next]_vars PROVE IInv'
    OBVIOUS
<1>1. CASE \E s \in Sockets : SocketStep(s)
    BY <1>1, ConnectKeeps, VanishKeeps, DisconnectKeeps DEF SocketStep
<1>2. CASE \E c \in Calls : CallStep(c) BY <1>2, CallStepKeeps
<1>3. CASE UNCHANGED vars
    BY <1>3 DEF vars, IInv, TypeOK, CallInv
<1> QED BY <1>1, <1>2, <1>3 DEF Next

-----------------------------------------------------------------------------
\* The steps of the abstract specification.

\* CallOf changes for a call only when its result does.
LEMMA CallOfIs ==
    ASSUME NEW c \in Calls, TypeOK
    PROVE  /\ result[c] = "idle" => CallOf[c] = "idle"
           /\ result[c] = "waiting" => CallOf[c] = "asked"
           /\ result[c] \in {"offline", "refused"} => CallOf[c] = "refused"
           /\ result[c] = "timeout" => CallOf[c] = "unknown"
           /\ result[c] = "success" => CallOf[c] = "success"
BY DEF CallOf, TypeOK

\* A result that changes in one call changes what ProviderCall sees in one.
LEMMA CallOfBecomes ==
    ASSUME NEW c \in Calls, NEW x, NEW y, result' = [result EXCEPT ![c] = x],
           TypeOK, TypeOK',
           y = CASE x = "waiting"                -> "asked"
                 [] x \in {"offline", "refused"} -> "refused"
                 [] x = "timeout"                -> "unknown"
                 [] OTHER                        -> x
    PROVE  CallOf' = [CallOf EXCEPT ![c] = y]
<1>1. result \in [Calls -> {"idle", "waiting", "success", "refused", "offline", "timeout"}]
    BY DEF TypeOK
<1>2. result'[c] = x /\ \A d \in Calls : d # c => result'[d] = result[d]
    BY <1>1
<1>3. CallOf'[c] = y BY <1>2 DEF CallOf
<1>4. \A d \in Calls : d # c => CallOf'[d] = CallOf[d] BY <1>2 DEF CallOf
<1> QED BY <1>3, <1>4 DEF CallOf

LEMMA CallStepIs ==
    ASSUME NEW c \in Calls, IInv, IInv', CallStep(c)
    PROVE  [Provider!Next]_Provider!vars
<1> USE DEF Provider!Next, Provider!vars
<1>0. TypeOK /\ TypeOK' /\ CallInv(c) BY DEF IInv
<1>1. CASE Refuse(c)
    <2>1. CallOf' = [CallOf EXCEPT ![c] = "refused"] /\ CallOf[c] = "idle"
        BY <1>0, <1>1, CallOfIs, CallOfBecomes DEF Refuse
    <2>2. Provider!Refuse(c) BY <1>0, <1>1, <2>1 DEF Refuse, Provider!Refuse, CallInv
    <2> QED BY <2>2
<1>2. CASE Emit(c)
    <2>1. CallOf' = [CallOf EXCEPT ![c] = "asked"] /\ CallOf[c] = "idle"
        BY <1>0, <1>2, CallOfIs, CallOfBecomes DEF Emit
    <2>2. Provider!Ask(c) BY <1>2, <2>1 DEF Emit, Provider!Ask
    <2> QED BY <2>2
<1>3. CASE Deliver(c)
    <2>1. PICK ack \in {"success", "refused", "none"} :
            delivered' = [delivered EXCEPT ![c] =
                                IF ack = "refused" THEN @ ELSE @ + 1]
        BY <1>3 DEF Deliver
    <2>2. CallOf' = CallOf BY <1>3 DEF Deliver, CallOf
    <2>3. CASE ack = "refused"
        BY <1>0, <2>1, <2>2, <2>3 DEF TypeOK
    <2>4. CASE ack # "refused"
        <3>1. delivered[c] = 0 /\ delivered' = [delivered EXCEPT ![c] = 1]
            <4>1. delivered[c] = 0 BY <1>0, <1>3 DEF Deliver, CallInv
            <4>2. delivered' = [delivered EXCEPT ![c] = @ + 1] BY <2>1, <2>4
            <4> QED BY <4>1, <4>2
        <3>2. CallOf[c] \in {"asked", "unknown"}
            BY <1>0, <1>3, CallOfIs DEF Deliver, CallInv
        <3>3. Provider!Carry(c) BY <2>2, <3>1, <3>2 DEF Provider!Carry
        <3> QED BY <3>3
    <2> QED BY <2>3, <2>4
<1>4. CASE Acknowledge(c)
    <2>1. CASE result[c] # "waiting"
        <3>1. result' = result BY <1>0, <1>4, <2>1 DEF Acknowledge, TypeOK
        <3> QED BY <1>4, <3>1 DEF Acknowledge, CallOf
    <2>2. CASE result[c] = "waiting"
        <3>1. /\ wire[c] \in {"success", "refused"} /\ UNCHANGED delivered
              /\ result' = [result EXCEPT ![c] = wire[c]]
            BY <1>4, <2>2 DEF Acknowledge
        <3>2. CallOf[c] = "asked" BY <1>0, <2>2, CallOfIs
        <3>3. CASE wire[c] = "success"
            <4>0. CallOf' = [CallOf EXCEPT ![c] = "success"]
                BY <1>0, <3>1, <3>3, CallOfBecomes
            <4>1. Provider!Succeed(c)
                BY <1>0, <3>1, <3>2, <3>3, <4>0 DEF Provider!Succeed, CallInv
            <4> QED BY <4>1
        <3>4. CASE wire[c] = "refused"
            <4>0. CallOf' = [CallOf EXCEPT ![c] = "refused"]
                BY <1>0, <3>1, <3>4, CallOfBecomes
            <4>1. Provider!Refuse(c)
                BY <1>0, <3>1, <3>2, <3>4, <4>0 DEF Provider!Refuse, CallInv
            <4> QED BY <4>1
        <3> QED BY <3>1, <3>3, <3>4
    <2> QED BY <2>1, <2>2
<1>5. CASE Timeout(c)
    <2>1. CallOf' = [CallOf EXCEPT ![c] = "unknown"] /\ CallOf[c] = "asked"
        BY <1>0, <1>5, CallOfIs, CallOfBecomes DEF Timeout
    <2>2. Provider!GiveUp(c) BY <1>5, <2>1 DEF Timeout, Provider!GiveUp
    <2> QED BY <2>2
<1> QED BY <1>1, <1>2, <1>3, <1>4, <1>5 DEF CallStep

LEMMA NextIs ==
    ASSUME IInv, IInv', [Next]_vars PROVE [Provider!Next]_Provider!vars
<1>1. CASE \E s \in Sockets : SocketStep(s)
    BY <1>1 DEF SocketStep, Connect, Vanish, Disconnect, callVars, CallOf,
                Provider!vars
<1>2. CASE \E c \in Calls : CallStep(c) BY <1>2, CallStepIs
<1>3. CASE UNCHANGED vars BY <1>3 DEF vars, CallOf, Provider!vars
<1> QED BY <1>1, <1>2, <1>3 DEF Next

-----------------------------------------------------------------------------
\* IInv holds in every reachable state, for any sockets and calls.
THEOREM Invariance == Spec => []IInv
<1> QED BY InitHolds, NextKeeps, PTL DEF Spec

\* The types of the socket server's state (clients, sendText's two outcomes).
THEOREM TypeCorrect == Spec => []TypeOK
<1>1. IInv => TypeOK BY DEF IInv
<1> QED BY Invariance, <1>1, PTL

\* sendText and getStatus implement the safety part of ProviderCall: however
\* many devices come, vanish and leave, and however the timers and the
\* acknowledgements race, a call that succeeded was carried out, one that was
\* refused was not, none is twice, and none ends twice.
THEOREM ImplementsSafely == Spec => Provider!SafeSpec
<1>1. Init => Provider!Init BY DEF Init, CallOf, Provider!Init
<1>2. IInv /\ IInv' /\ [Next]_vars => [Provider!Next]_Provider!vars BY NextIs
<1> QED BY Invariance, <1>1, <1>2, PTL DEF Spec, Provider!SafeSpec
-----------------------------------------------------------------------------
(* The list of clients.  That its first entry is the oldest client, and that *)
(* no entry is left behind, say how the list lies in the history of arrivals. *)

Places(s) == PlacesOf(clients, s)

\* A socket arrives once; the list holds each connected one as often as it was
\* registered, and the entries in the order of their arrivals.
ArrivalsInv ==
    /\ \A p, q \in 1 .. Len(arrivals) : arrivals[p] = arrivals[q] => p = q
    /\ \A s \in Sockets :
        link[s] # "off" <=> \E p \in 1 .. Len(arrivals) : arrivals[p] = s
RosterInv ==
    /\ clients \in Seq(Sockets)
    /\ \A s \in Sockets :
        Cardinality(Places(s)) = IF Connected(s) THEN Connections(s) ELSE 0
OrderInv ==
    \A i, j \in 1 .. Len(clients) : \A p, q \in 1 .. Len(arrivals) :
        i < j /\ arrivals[p] = clients[i] /\ arrivals[q] = clients[j] => p <= q
MailsInv ==
    \A s \in Sockets :
        /\ mails[s].on = IF link[s] = "off" THEN 0 ELSE Connections(s)
        /\ mails[s].off = IF link[s] = "closed" THEN Connections(s) ELSE 0

ListInv == ArrivalsInv /\ RosterInv /\ OrderInv /\ MailsInv

LEMMA ConnectionsAre == ASSUME NEW s \in Sockets PROVE Connections(s) \in {1, 2}
BY DEF Connections

\* Who is in the list has a place there, and the other way round.
LEMMA PlacesAre ==
    ASSUME IInv, RosterInv, NEW s \in Sockets
    PROVE  /\ IsFiniteSet(Places(s))
           /\ Connected(s) <=> Places(s) # {}
<1>1. IsFiniteSet(Places(s))
    <2>1. Places(s) \in SUBSET (1 .. Len(clients)) BY DEF Places, PlacesOf
    <2> QED BY <2>1, PlacesAreFinite DEF RosterInv
<1>2. Cardinality(Places(s)) = IF Connected(s) THEN Connections(s) ELSE 0
    BY DEF RosterInv
<1> QED BY <1>1, <1>2, ConnectionsAre, FS_EmptySet

LEMMA ListInit == Init => ListInv
<1> SUFFICES ASSUME Init PROVE ListInv
    OBVIOUS
<1>1. \A s \in Sockets : Places(s) = {}
    <2>1. Len(clients) = 0 BY DEF Init
    <2>2. \A i : i \notin 1 .. 0 OBVIOUS
    <2> QED BY <2>1, <2>2 DEF Places, PlacesOf
<1>2. RosterInv
    <2>1. clients \in Seq(Sockets) BY DEF Init
    <2>2. \A s \in Sockets : Cardinality(Places(s)) = 0 BY <1>1, FS_EmptySet
    <2>3. \A s \in Sockets : ~Connected(s) BY DEF Init, Connected
    <2> QED BY <2>1, <2>2, <2>3 DEF RosterInv
<1>3. ArrivalsInv /\ OrderInv BY DEF Init, ArrivalsInv, OrderInv
<1>4. MailsInv BY DEF Init, MailsInv
<1> QED BY <1>2, <1>3, <1>4 DEF ListInv

LEMMA ConnectLists ==
    ASSUME IInv, ListInv, NEW s \in Sockets, Connect(s)
    PROVE  ListInv'
<1> DEFINE n == Connections(s)
           m == Len(clients)
           a == Len(arrivals)
<1>1. /\ link[s] = "off" /\ link' = [link EXCEPT ![s] = "open"]
      /\ clients' = clients \o [i \in 1 .. n |-> s]
      /\ arrivals' = Append(arrivals, s)
      /\ mails' = [mails EXCEPT ![s].on = @ + n]
    BY DEF Connect
<1>2. /\ n \in {1, 2} /\ m \in Nat /\ a \in Nat
      /\ clients \in Seq(Sockets) /\ arrivals \in Seq(Sockets)
    BY ConnectionsAre, LenProperties DEF ListInv, RosterInv, IInv, TypeOK
<1>3. [i \in 1 .. n |-> s] \in Seq(Sockets) /\ Len([i \in 1 .. n |-> s]) = n
    BY <1>2
<1> HIDE DEF n
<1>4. /\ clients' \in Seq(Sockets) /\ Len(clients') = m + n
      /\ \A i \in 1 .. m : clients'[i] = clients[i]
      /\ \A i \in m + 1 .. m + n : clients'[i] = s
    BY <1>1, <1>2, <1>3, ConcatProperties
<1>5. /\ Len(arrivals') = a + 1 /\ arrivals'[a + 1] = s
      /\ \A p \in 1 .. a : arrivals'[p] = arrivals[p]
    BY <1>1, <1>2, AppendProperties
<1>6. /\ link'[s] = "open" /\ \A t \in Sockets : t # s => link'[t] = link[t]
    BY <1>1 DEF IInv, TypeOK
<1> HIDE DEF m, a
<1>7. \A p \in 1 .. a : arrivals[p] # s /\ arrivals[p] \in Sockets
    BY <1>1, <1>2, ElementOfSeq DEF a, ListInv, ArrivalsInv
<1>8. \A i \in 1 .. m : clients[i] # s
    <2>1. Places(s) = {} BY <1>1, PlacesAre DEF ListInv, Connected
    <2> QED BY <2>1 DEF Places, PlacesOf, m
<1>9. ArrivalsInv'
    <2>1. ASSUME NEW t \in Sockets
          PROVE  link'[t] # "off" <=> \E p \in 1 .. a + 1 : arrivals'[p] = t
        <3>1. CASE t = s BY <1>2, <1>5, <1>6, <3>1
        <3>2. CASE t # s
            <4>1. link[t] # "off" <=> \E p \in 1 .. a : arrivals[p] = t
                BY DEF ListInv, ArrivalsInv, a
            <4>2. (\E p \in 1 .. a + 1 : arrivals'[p] = t)
                    <=> \E p \in 1 .. a : arrivals[p] = t
                BY <1>2, <1>5, <3>2
            <4> QED BY <1>6, <3>2, <4>1, <4>2
        <3> QED BY <3>1, <3>2
    <2>2. ASSUME NEW p \in 1 .. a + 1, NEW q \in 1 .. a + 1, arrivals'[p] = arrivals'[q]
          PROVE  p = q
        <3>1. CASE p \in 1 .. a /\ q \in 1 .. a
            BY <1>5, <2>2, <3>1 DEF ListInv, ArrivalsInv, a
        <3>2. CASE p = a + 1 \/ q = a + 1 BY <1>2, <1>5, <1>7, <2>2, <3>2
        <3> QED BY <1>2, <3>1, <3>2
    <2> QED BY <1>5, <2>1, <2>2 DEF ArrivalsInv
<1>10. RosterInv'
    <2>1. Places(s)' = m + 1 .. m + n
        <3>1. ASSUME NEW i \in 1 .. m + n, clients'[i] = s PROVE i \in m + 1 .. m + n
            <4>1. i \notin 1 .. m BY <1>4, <1>8, <3>1
            <4> QED BY <1>2, <4>1
        <3>2. ASSUME NEW i \in m + 1 .. m + n PROVE i \in 1 .. m + n /\ clients'[i] = s
            BY <1>2, <1>4
        <3>3. Places(s)' = {i \in 1 .. m + n : clients'[i] = s} BY <1>4 DEF Places, PlacesOf
        <3> QED BY <3>1, <3>2, <3>3
    <2>2. Cardinality(Places(s)') = n
        <3>1. m \in Nat /\ n \in Nat BY <1>2
        <3> QED BY <2>1, <3>1, NextPlaces
    <2>3. ASSUME NEW t \in Sockets, t # s PROVE Places(t)' = Places(t)
        BY <1>2, <1>4, <2>3 DEF Places, PlacesOf, m
    <2>4. ASSUME NEW t \in Sockets
          PROVE  Cardinality(Places(t)') = IF Connected(t)' THEN Connections(t) ELSE 0
        <3>1. CASE t = s BY <1>6, <2>2, <3>1 DEF Connected, n
        <3>2. CASE t # s BY <1>6, <2>3, <3>2 DEF ListInv, RosterInv, Connected
        <3> QED BY <3>1, <3>2
    <2>5. \A t : Connections(t)' = Connections(t) BY DEF Connections
    <2> QED BY <1>4, <2>4, <2>5 DEF RosterInv
<1>11. OrderInv'
    <2> SUFFICES ASSUME NEW i \in 1 .. m + n, NEW j \in 1 .. m + n,
                        NEW p \in 1 .. a + 1, NEW q \in 1 .. a + 1, i < j,
                        arrivals'[p] = clients'[i], arrivals'[q] = clients'[j]
                 PROVE  p <= q
        BY <1>4, <1>5 DEF OrderInv
    <2>1. CASE j \in m + 1 .. m + n
        <3>1. arrivals'[q] = s BY <1>4, <2>1
        <3>2. q \notin 1 .. a BY <1>5, <1>7, <3>1
        <3>3. q = a + 1 BY <1>2, <3>2
        <3> QED BY <1>2, <3>3
    <2>2. CASE j \in 1 .. m
        <3>1. i \in 1 .. m /\ clients'[i] # s /\ clients'[j] # s
            BY <1>2, <1>4, <1>8, <2>2, SMTT(30)
        <3>2. p \in 1 .. a /\ q \in 1 .. a BY <1>2, <1>5, <3>1
        <3> QED BY <1>4, <1>5, <2>2, <3>1, <3>2 DEF ListInv, OrderInv, m, a
    <2> QED BY <1>2, <2>1, <2>2
<1>12. MailsInv'
    <2>1. mails \in [Sockets -> [on : Nat, off : Nat]] BY DEF IInv, TypeOK
    <2>2. /\ mails'[s].on = mails[s].on + n /\ mails'[s].off = mails[s].off
          /\ \A t \in Sockets : t # s => mails'[t] = mails[t]
        BY <1>1, <2>1
    <2>3. mails[s].on = 0 /\ mails[s].off = 0 BY <1>1 DEF ListInv, MailsInv
    <2>4. \A t : Connections(t)' = Connections(t) BY DEF Connections
    <2> QED BY <1>2, <1>6, <2>2, <2>3, <2>4 DEF ListInv, MailsInv, n
<1> QED BY <1>9, <1>10, <1>11, <1>12 DEF ListInv

\* What removeClient leaves: the places of the others, in their order.
LEMMA WithoutIs ==
    ASSUME RosterInv, NEW s \in Sockets
    PROVE  /\ ClientsWithout(s) \in Seq(Sockets)
           /\ \A t \in Sockets :
                Cardinality(PlacesOf(ClientsWithout(s), t))
                    = IF t = s THEN 0 ELSE Cardinality(Places(t))
           /\ \A k, l \in 1 .. Len(ClientsWithout(s)) : k < l =>
                \E i, j \in 1 .. Len(clients) :
                    /\ i < j /\ clients[i] = ClientsWithout(s)[k]
                    /\ clients[j] = ClientsWithout(s)[l]
<1> DEFINE keep == {i \in 1 .. Len(clients) : clients[i] # s}
           left == Kept(clients, keep)
<1>1. clients \in Seq(Sockets) /\ Len(clients) \in Nat /\ keep \in SUBSET (1 .. Len(clients))
    BY LenProperties DEF RosterInv
<1>2. ClientsWithout(s) = left BY <1>1, LenProperties DEF ClientsWithout
<1>3. /\ left \in Seq(Sockets) /\ Len(left) = Cardinality(keep)
      /\ Cardinality(keep) \in Nat
      /\ \A i \in keep : Rank(keep, i) \in 1 .. Cardinality(keep)
                        /\ left[Rank(keep, i)] = clients[i]
      /\ \A k \in 1 .. Cardinality(keep) : \E i \in keep : Rank(keep, i) = k
    BY <1>1, KeptIs
<1>4. \A i, j \in keep : i < j => Rank(keep, i) < Rank(keep, j)
    BY <1>1, RanksAreOrdered
<1>5. ASSUME NEW t \in Sockets
      PROVE  Cardinality(PlacesOf(left, t))
                = IF t = s THEN 0 ELSE Cardinality(Places(t))
    <2>1. Cardinality(PlacesOf(left, t)) = Cardinality(keep \cap PlacesOf(clients, t))
        <3> HIDE DEF keep
        <3> QED BY <1>1, KeptCounts
    <2>2. keep \cap PlacesOf(clients, t) = IF t = s THEN {} ELSE Places(t)
        BY DEF Places, PlacesOf
    <2> QED BY <2>1, <2>2, FS_EmptySet
<1>6. ASSUME NEW k \in 1 .. Len(left), NEW l \in 1 .. Len(left), k < l
      PROVE  \E i, j \in 1 .. Len(clients) :
                i < j /\ clients[i] = left[k] /\ clients[j] = left[l]
    <2> HIDE DEF left, keep
    <2>1. PICK i \in keep : Rank(keep, i) = k BY <1>3
    <2>2. PICK j \in keep : Rank(keep, j) = l BY <1>3
    <2>3. i \in 1 .. Len(clients) /\ j \in 1 .. Len(clients) BY <1>1
    <2>4. ~(j < i) /\ i # j
        <3>1. ~(l < k) /\ k # l BY <1>3, <1>6
        <3> QED BY <1>4, <2>1, <2>2, <3>1
    <2>5. i < j BY <2>3, <2>4
    <2> QED BY <1>3, <2>1, <2>2, <2>3, <2>5
<1> HIDE DEF left
<1> QED BY <1>2, <1>3, <1>5, <1>6

LEMMA DisconnectLists ==
    ASSUME IInv, ListInv, NEW s \in Sockets, Disconnect(s)
    PROVE  ListInv'
<1> DEFINE n == Connections(s)
<1>1. /\ link[s] \in {"open", "gone"} /\ link' = [link EXCEPT ![s] = "closed"]
      /\ clients' = ClientsWithout(s) /\ arrivals' = arrivals
      /\ mails' = [mails EXCEPT ![s].off = @ + n]
    BY DEF Disconnect
<1>2. /\ link'[s] = "closed" /\ \A t \in Sockets : t # s => link'[t] = link[t]
    BY <1>1 DEF IInv, TypeOK
<1>3. \A t : Connections(t)' = Connections(t) BY DEF Connections
<1>4. ArrivalsInv' BY <1>1, <1>2 DEF ListInv, ArrivalsInv
<1>5. RosterInv'
    <2>1. /\ clients' \in Seq(Sockets)
          /\ \A t \in Sockets :
                Cardinality(PlacesOf(clients', t))
                    = IF t = s THEN 0 ELSE Cardinality(Places(t))
        <3> DEFINE left == ClientsWithout(s)
        <3>1. /\ left \in Seq(Sockets)
              /\ \A t \in Sockets :
                    Cardinality(PlacesOf(left, t))
                        = IF t = s THEN 0 ELSE Cardinality(Places(t))
            <4>1. RosterInv BY DEF ListInv
            <4> QED BY <4>1, WithoutIs
        <3>2. clients' = left BY <1>1
        <3> HIDE DEF left
        <3> QED BY <3>1, <3>2
    <2>2. \A t \in Sockets :
            Cardinality(Places(t)') = IF t = s THEN 0 ELSE Cardinality(Places(t))
        BY <2>1 DEF Places, PlacesOf
    <2>3. \A t \in Sockets :
            Cardinality(Places(t)') = IF Connected(t)' THEN Connections(t) ELSE 0
        BY <1>2, <2>2 DEF ListInv, RosterInv, Connected
    <2> QED BY <1>3, <2>1, <2>3 DEF RosterInv
<1>6. OrderInv'
    <2>1. \A k, l \in 1 .. Len(clients') : k < l =>
            \E i, j \in 1 .. Len(clients) :
                i < j /\ clients[i] = clients'[k] /\ clients[j] = clients'[l]
        <3> DEFINE left == ClientsWithout(s)
        <3>1. \A k, l \in 1 .. Len(left) : k < l =>
                \E i, j \in 1 .. Len(clients) :
                    i < j /\ clients[i] = left[k] /\ clients[j] = left[l]
            <4>1. RosterInv BY DEF ListInv
            <4> QED BY <4>1, WithoutIs
        <3>2. clients' = left BY <1>1
        <3> HIDE DEF left
        <3> QED BY <3>1, <3>2
    <2> SUFFICES ASSUME NEW k \in 1 .. Len(clients'), NEW l \in 1 .. Len(clients'),
                        NEW p \in 1 .. Len(arrivals), NEW q \in 1 .. Len(arrivals),
                        k < l, arrivals[p] = clients'[k], arrivals[q] = clients'[l]
                 PROVE  p <= q
        BY <1>1 DEF OrderInv
    <2>2. PICK i \in 1 .. Len(clients), j \in 1 .. Len(clients) :
            i < j /\ clients[i] = clients'[k] /\ clients[j] = clients'[l]
        BY <2>1
    <2> QED BY <2>2 DEF ListInv, OrderInv
<1>7. MailsInv'
    <2>1. mails \in [Sockets -> [on : Nat, off : Nat]] BY DEF IInv, TypeOK
    <2>2. /\ mails'[s].off = mails[s].off + n /\ mails'[s].on = mails[s].on
          /\ \A t \in Sockets : t # s => mails'[t] = mails[t]
        BY <1>1, <2>1
    <2>3. mails[s].on = n /\ mails[s].off = 0 BY <1>1 DEF ListInv, MailsInv
    <2>4. n \in {1, 2} BY ConnectionsAre
    <2> QED BY <1>2, <1>3, <2>2, <2>3, <2>4 DEF ListInv, MailsInv
<1> QED BY <1>4, <1>5, <1>6, <1>7 DEF ListInv

LEMMA ListsKeep == IInv /\ ListInv /\ [Next]_vars => ListInv'
<1> SUFFICES ASSUME IInv, ListInv, [Next]_vars PROVE ListInv'
    OBVIOUS
<1>1. CASE \E s \in Sockets : Connect(s) \/ Disconnect(s)
    BY <1>1, ConnectLists, DisconnectLists
<1>2. ASSUME NEW s \in Sockets, Vanish(s) PROVE ListInv'
    <2>1. /\ link[s] = "open" /\ link' = [link EXCEPT ![s] = "gone"]
          /\ clients' = clients /\ arrivals' = arrivals /\ mails' = mails
        BY <1>2 DEF Vanish
    <2>2. link'[s] = "gone" /\ \A t \in Sockets : t # s => link'[t] = link[t]
        BY <2>1 DEF IInv, TypeOK
    <2>3. \A t \in Sockets : /\ link'[t] = "off" <=> link[t] = "off"
                             /\ link'[t] = "closed" <=> link[t] = "closed"
                             /\ Connected(t)' <=> Connected(t)
        BY <2>1, <2>2 DEF Connected
    <2>4. \A t : Connections(t)' = Connections(t) BY DEF Connections
    <2>5. ArrivalsInv' BY <2>1, <2>3 DEF ListInv, ArrivalsInv
    <2>6. RosterInv' BY <2>1, <2>3, <2>4 DEF ListInv, RosterInv, Places
    <2>7. OrderInv' BY <2>1 DEF ListInv, OrderInv
    <2>8. MailsInv' BY <2>1, <2>3, <2>4 DEF ListInv, MailsInv
    <2> QED BY <2>5, <2>6, <2>7, <2>8 DEF ListInv
<1>3. CASE UNCHANGED socketVars
    <2>1. /\ link' = link /\ clients' = clients /\ arrivals' = arrivals
          /\ mails' = mails
        BY <1>3 DEF socketVars
    <2>2. ArrivalsInv' BY <2>1 DEF ListInv, ArrivalsInv
    <2>3. RosterInv' BY <2>1 DEF ListInv, RosterInv, Places, Connected, Connections
    <2>4. OrderInv' BY <2>1 DEF ListInv, OrderInv
    <2>5. MailsInv' BY <2>1 DEF ListInv, MailsInv, Connections
    <2> QED BY <2>2, <2>3, <2>4, <2>5 DEF ListInv
<1>4. CASE \E c \in Calls : CallStep(c)
    BY <1>3, <1>4 DEF CallStep, Refuse, Emit, Deliver, Acknowledge, Timeout
<1> QED BY <1>1, <1>2, <1>3, <1>4 DEF Next, SocketStep, vars, socketVars

THEOREM ListInvariance == Spec => []ListInv
<1> QED BY Invariance, ListInit, ListsKeep, PTL DEF Spec

\* Who is connected, as far as the server can know, is in `clients', and no other
\* is, however often a socket was registered and whatever came and left
\* (addClient, removeClient).
THEOREM ClientsAreConnectedHolds == Spec => []ClientsAreConnected
<1>1. IInv /\ ListInv => ClientsAreConnected
    <2> SUFFICES ASSUME IInv, ListInv PROVE ClientsAreConnected
        OBVIOUS
    <2>1. clients \in Seq(Sockets) /\ RosterInv BY DEF ListInv, RosterInv
    <2>2. \A i \in 1 .. Len(clients) : clients[i] \in Sockets BY <2>1, ElementOfSeq
    <2>3. \A s \in Sockets : Connected(s) <=> Places(s) # {} BY <2>1, PlacesAre
    <2>4. ToSet(clients) = {clients[i] : i \in 1 .. Len(clients)}
        BY <2>1, LenProperties DEF ToSet
    <2>5. ASSUME NEW s \in Sockets PROVE Connected(s) <=> s \in ToSet(clients)
        <3>1. Connected(s) <=> \E i \in 1 .. Len(clients) : clients[i] = s
            BY <2>3 DEF Places, PlacesOf
        <3> QED BY <2>4, <3>1
    <2>6. ToSet(clients) \subseteq Sockets BY <2>2, <2>4
    <2> QED BY <2>5, <2>6 DEF ClientsAreConnected
<1> QED BY Invariance, ListInvariance, <1>1, PTL

\* first() is the device that has been connected longest: the calls of sendText
\* and getStatus never go to a later one while it is there.
THEOREM FirstIsOldestHolds == Spec => []FirstIsOldest
<1>1. IInv /\ ListInv => FirstIsOldest
    <2> SUFFICES ASSUME IInv, ListInv, clients # <<>>
                 PROVE  Head(clients) =
                    Head(Kept(arrivals, {i \in DOMAIN arrivals : Connected(arrivals[i])}))
        BY DEF FirstIsOldest
    <2>1. /\ clients \in Seq(Sockets) /\ arrivals \in Seq(Sockets) /\ RosterInv
        BY DEF ListInv, RosterInv, IInv, TypeOK
    <2>2. Len(clients) \in Nat /\ Len(arrivals) \in Nat /\ Len(clients) # 0
          /\ DOMAIN arrivals = 1 .. Len(arrivals)
        BY <2>1, LenProperties, EmptySeq
    <2> DEFINE first == clients[1]
               keep == {i \in 1 .. Len(arrivals) : Connected(arrivals[i])}
    <2>3. 1 \in 1 .. Len(clients) /\ Head(clients) = first BY <2>1, <2>2
    <2>4. first \in Sockets BY <2>1, <2>3, ElementOfSeq
    <2>5. Connected(first)
        <3>1. 1 \in Places(first) BY <2>3 DEF Places, PlacesOf
        <3> QED BY <2>1, <2>4, <3>1, PlacesAre
    <2>6. PICK p \in 1 .. Len(arrivals) : arrivals[p] = first
        BY <2>4, <2>5 DEF ListInv, ArrivalsInv, Connected
    <2>7. p \in keep BY <2>5, <2>6
    <2>8. ASSUME NEW q \in keep PROVE p <= q
        <3>1. arrivals[q] \in Sockets BY <2>1, ElementOfSeq
        <3>2. Places(arrivals[q]) # {} BY <2>1, <3>1, PlacesAre
        <3>3. PICK j \in 1 .. Len(clients) : clients[j] = arrivals[q]
            BY <3>2 DEF Places, PlacesOf
        <3>4. CASE j = 1
            <4>1. p = q BY <2>6, <3>3, <3>4 DEF ListInv, ArrivalsInv
            <4> QED BY <4>1
        <3>5. CASE j # 1
            <4>1. 1 < j BY <2>2, <3>5
            <4> QED BY <2>3, <2>6, <3>3, <4>1 DEF ListInv, OrderInv
        <3> QED BY <3>4, <3>5
    <2>9. keep \in SUBSET (1 .. Len(arrivals)) OBVIOUS
    <2> HIDE DEF keep
    <2>10. Head(Kept(arrivals, keep)) = arrivals[p] BY <2>1, <2>7, <2>8, <2>9, KeptStarts
    <2> QED BY <2>2, <2>3, <2>6, <2>10 DEF keep
<1> QED BY Invariance, ListInvariance, <1>1, PTL

\* A mail for each registration and one for its end: what is still owed is what
\* the list holds (connectHandler, disconnectHandler).
THEOREM MailsMatchClientsHolds == Spec => []MailsMatchClients
<1>1. IInv /\ ListInv => MailsMatchClients
    <2> SUFFICES ASSUME IInv, ListInv, NEW s \in Sockets
                 PROVE  mails[s].on = mails[s].off + Cardinality(Places(s))
        BY DEF MailsMatchClients, Places, PlacesOf
    <2>1. Cardinality(Places(s)) = IF Connected(s) THEN Connections(s) ELSE 0
        BY DEF ListInv, RosterInv
    <2>2. /\ mails[s].on = IF link[s] = "off" THEN 0 ELSE Connections(s)
          /\ mails[s].off = IF link[s] = "closed" THEN Connections(s) ELSE 0
        BY DEF ListInv, MailsInv
    <2>3. Connections(s) \in {1, 2} BY ConnectionsAre
    <2>4. link[s] \in {"off", "open", "gone", "closed"} BY DEF IInv, TypeOK
    <2> QED BY <2>1, <2>2, <2>3, <2>4 DEF Connected
<1> QED BY Invariance, ListInvariance, <1>1, PTL
=============================================================================
