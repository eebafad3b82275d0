---------------------------- MODULE SocketServer ----------------------------
(***************************************************************************)
(* The socket server: src/services/SocketServerService.                    *)
(*                                                                         *)
(* Devices (the WhatsApp bots) connect by socket.io and are kept in        *)
(* `clients'.  sendText and getStatus emit an event to the first client and *)
(* race the device's acknowledgement against a timer of 5 seconds.         *)
(* A socket that reconnects gets a new id: it is another socket here.      *)
(***************************************************************************)
EXTENDS Naturals, Sequences, FiniteSets, SequencesExt, Lists

CONSTANTS
    Sockets,    \* socket ids
    Token,      \* the handshake's token: "none", "valid" or "invalid"
    Calls       \* the calls of sendText and getStatus

ASSUME TokenAssumption == Token \in [Sockets -> {"none", "valid", "invalid"}]

VARIABLES
    link,       \* the connection: "gone" when the device has vanished and the
                \* server has not noticed (until the ping times out)
    clients,    \* SocketServerService.clients, a list of socket ids
    arrivals,   \* history: the sockets in the order they connected
    mails,      \* e-mails sent by connectHandler and disconnectHandler
    target,     \* the client a call has emitted to (a set: empty or one)
    wire,       \* the call's event or acknowledgement on its way
    delivered,  \* history: how often the device carried out the call
    result      \* what the call has resolved to

socketVars == <<link, clients, arrivals, mails>>
callVars == <<target, wire, delivered, result>>
vars == <<link, clients, arrivals, mails, target, wire, delivered, result>>

\* The types.  What is in `clients' says ClientsAreConnected, and `target' is
\* taken from there.
TypeOK ==
    /\ link \in [Sockets -> {"off", "open", "gone", "closed"}]
    /\ arrivals \in Seq(Sockets)
    /\ mails \in [Sockets -> [on : Nat, off : Nat]]
    /\ wire \in [Calls -> {"none", "event", "success", "refused"}]
    /\ delivered \in [Calls -> Nat]
    /\ result \in [Calls ->
            {"idle", "waiting", "success", "refused", "offline", "timeout"}]

Init ==
    /\ link = [s \in Sockets |-> "off"]
    /\ clients = <<>>
    /\ arrivals = <<>>
    /\ mails = [s \in Sockets |-> [on |-> 0, off |-> 0]]
    /\ target = [c \in Calls |-> {}]
    /\ wire = [c \in Calls |-> "none"]
    /\ delivered = [c \in Calls |-> 0]
    /\ result = [c \in Calls |-> "idle"]

-----------------------------------------------------------------------------
(* Connections.                                                             *)

\* The middleware of createFromExpress calls next() in the catch of verify and
\* again after it, so socket.io raises `connection' twice for that socket.
Connections(s) == IF Token[s] = "invalid" THEN 2 ELSE 1

\* The client is put at the front of the list.
ConnectFirst_Bug(s) ==
    /\ link[s] = "off"
    /\ link' = [link EXCEPT ![s] = "open"]
    /\ clients' = [i \in 1 .. Connections(s) |-> s] \o clients
    /\ arrivals' = Append(arrivals, s)
    /\ mails' = [mails EXCEPT ![s].on = @ + Connections(s)]
    /\ UNCHANGED callVars

\* init: each `connection' event adds the client, mails, and registers the
\* `disconnect' handler.
Connect(s) ==
    /\ link[s] = "off"
    /\ link' = [link EXCEPT ![s] = "open"]
    /\ clients' = clients \o [i \in 1 .. Connections(s) |-> s]
    /\ arrivals' = Append(arrivals, s)
    /\ mails' = [mails EXCEPT ![s].on = @ + Connections(s)]
    /\ UNCHANGED callVars

\* What was on its way to or from a socket is lost with it.
WireWithout(s) ==
    [c \in Calls |-> IF s \in target[c] THEN "none" ELSE wire[c]]

\* The device is cut off; no packet says so.
Vanish(s) ==
    /\ link[s] = "open"
    /\ link' = [link EXCEPT ![s] = "gone"]
    /\ wire' = WireWithout(s)
    /\ UNCHANGED <<clients, arrivals, mails, target, delivered, result>>

\* removeClient keeps the client it should remove.
ClientsWithoutSwapped_Bug(s) ==
    Kept(clients, {i \in DOMAIN clients : clients[i] = s})

\* removeClient drops the filtered list.
ClientsWithoutUnassigned_Bug(s) == clients

\* removeClient
ClientsWithout(s) == Kept(clients, {i \in DOMAIN clients : clients[i] # s})

\* One mail however many handlers were registered.
DisconnectOnce_Bug(s) ==
    /\ link[s] \in {"open", "gone"}
    /\ link' = [link EXCEPT ![s] = "closed"]
    /\ clients' = ClientsWithout(s)
    /\ mails' = [mails EXCEPT ![s].off = @ + 1]
    /\ wire' = WireWithout(s)
    /\ UNCHANGED <<arrivals, target, delivered, result>>

\* `disconnect': each registered handler removes the client and mails.
Disconnect(s) ==
    /\ link[s] \in {"open", "gone"}
    /\ link' = [link EXCEPT ![s] = "closed"]
    /\ clients' = ClientsWithout(s)
    /\ mails' = [mails EXCEPT ![s].off = @ + Connections(s)]
    /\ wire' = WireWithout(s)
    /\ UNCHANGED <<arrivals, target, delivered, result>>

-----------------------------------------------------------------------------
(* Calls: sendText and getStatus.                                            *)

\* No client: the call resolves at once.
Refuse(c) ==
    /\ result[c] = "idle"
    /\ clients = <<>>
    /\ result' = [result EXCEPT ![c] = "offline"]
    /\ UNCHANGED <<socketVars, target, wire, delivered>>

\* first() is read once; the event goes to it and the timer starts.  An event
\* emitted to a vanished device is lost.
Emit(c) ==
    /\ result[c] = "idle"
    /\ clients # <<>>
    /\ target' = [target EXCEPT ![c] = {Head(clients)}]
    /\ wire' = [wire EXCEPT ![c] = IF link[Head(clients)] = "open"
                                   THEN "event" ELSE "none"]
    /\ result' = [result EXCEPT ![c] = "waiting"]
    /\ UNCHANGED <<socketVars, delivered>>

\* External: the device carries the call out and acknowledges it, or refuses
\* it, or carries it out without a word ("none").
Deliver(c) ==
    /\ wire[c] = "event"
    /\ \E ack \in {"success", "refused", "none"} :
        /\ wire' = [wire EXCEPT ![c] = ack]
        /\ delivered' = [delivered EXCEPT ![c] =
                            IF ack = "refused" THEN @ ELSE @ + 1]
    /\ UNCHANGED <<socketVars, target, result>>

\* A late acknowledgement overwrites the timer's result.
AcknowledgeLate_Bug(c) ==
    /\ wire[c] \in {"success", "refused"}
    /\ wire' = [wire EXCEPT ![c] = "none"]
    /\ result' = [result EXCEPT ![c] = wire[c]]
    /\ UNCHANGED <<socketVars, target, delivered>>

\* The acknowledgement resolves the call, unless the timer has: the race of
\* withTimeout is decided and a late answer is dropped.
Acknowledge(c) ==
    /\ wire[c] \in {"success", "refused"}
    /\ wire' = [wire EXCEPT ![c] = "none"]
    /\ result' = [result EXCEPT ![c] = IF @ = "waiting" THEN wire[c] ELSE @]
    /\ UNCHANGED <<socketVars, target, delivered>>

\* The timer of withTimeout.
Timeout(c) ==
    /\ result[c] = "waiting"
    /\ result' = [result EXCEPT ![c] = "timeout"]
    /\ UNCHANGED <<socketVars, target, wire, delivered>>

CallStep(c) == Refuse(c) \/ Emit(c) \/ Deliver(c) \/ Acknowledge(c) \/ Timeout(c)

SocketStep(s) == Connect(s) \/ Vanish(s) \/ Disconnect(s)

Next == (\E s \in Sockets : SocketStep(s)) \/ (\E c \in Calls : CallStep(c))

Spec == Init /\ [][Next]_vars

\* The timer fires, and the server notices a vanished device (ping timeout).
\* Devices owe nothing: they may never connect, answer or leave.
Fairness ==
    /\ \A c \in Calls : WF_vars(Timeout(c))
    /\ \A s \in Sockets : WF_vars(link[s] = "gone" /\ Disconnect(s))

FairSpec == Spec /\ Fairness

-----------------------------------------------------------------------------
(* Properties.                                                              *)

Connected(s) == link[s] \in {"open", "gone"}

\* `clients' holds the sockets that are connected as far as the server can
\* know, each of them and no other: a socket registered twice is removed whole
\* when it leaves (addClient, removeClient).
ClientsAreConnected == ToSet(clients) = {s \in Sockets : Connected(s)}

\* Calls go to the device that has been connected longest: first() is the
\* earliest arrival that has not left, whatever came and went in between.
FirstIsOldest ==
    clients # <<>> =>
        Head(clients) =
            Head(Kept(arrivals, {i \in DOMAIN arrivals : Connected(arrivals[i])}))

\* The bot's owners get a mail for every registration and one for its end: the
\* mails still owed are those of the clients in the list.
MailsMatchClients ==
    \A s \in Sockets :
        mails[s].on = mails[s].off
            + Cardinality({i \in 1 .. Len(clients) : clients[i] = s})

\* What ProviderCall sees of a call: how it ended, for the job's handler.
CallOf ==
    [c \in Calls |->
        CASE result[c] = "waiting"                -> "asked"
          [] result[c] \in {"offline", "refused"} -> "refused"
          [] result[c] = "timeout"                -> "unknown"
          [] OTHER                                -> result[c]]

Provider == INSTANCE ProviderCall WITH call <- CallOf, carried <- delivered

\* sendText and getStatus keep what ProviderCall promises: the timer and the
\* acknowledgement never overwrite each other, success and refusal are the
\* device's, and the caller is not left waiting when the device vanishes.
ImplementsProviderCall == Provider!Spec

\* A device that vanished is not kept for ever as the first client.
VanishedLeave == \A s \in Sockets : link[s] = "gone" ~> s \notin ToSet(clients)
=============================================================================
