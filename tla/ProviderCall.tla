---------------------------- MODULE ProviderCall ----------------------------
(***************************************************************************)
(* What a caller may rely on when it hands a message to a provider (the    *)
(* device here; Maxbot and the mail servers make the same promise to their *)
(* jobs): a call ends in the end; one that succeeded was carried out, one  *)
(* that was refused was not and never will be, and of one that was given   *)
(* up nobody knows: it may be carried out later, but no call is twice.     *)
(***************************************************************************)
EXTENDS Naturals

CONSTANT Calls

VARIABLES
    call,       \* "idle", "asked", then how the call ended for its caller
    carried     \* how often it was carried out

vars == <<call, carried>>

Init ==
    /\ call = [c \in Calls |-> "idle"]
    /\ carried = [c \in Calls |-> 0]

Ask(c) ==
    /\ call[c] = "idle"
    /\ call' = [call EXCEPT ![c] = "asked"]
    /\ UNCHANGED carried

Carry(c) ==
    /\ call[c] \in {"asked", "unknown"}
    /\ carried[c] = 0
    /\ carried' = [carried EXCEPT ![c] = 1]
    /\ UNCHANGED call

Succeed(c) ==
    /\ call[c] = "asked"
    /\ carried[c] = 1
    /\ call' = [call EXCEPT ![c] = "success"]
    /\ UNCHANGED carried

Refuse(c) ==
    /\ call[c] \in {"idle", "asked"}
    /\ carried[c] = 0
    /\ call' = [call EXCEPT ![c] = "refused"]
    /\ UNCHANGED carried

GiveUp(c) ==
    /\ call[c] = "asked"
    /\ call' = [call EXCEPT ![c] = "unknown"]
    /\ UNCHANGED carried

End(c) == call[c] = "asked" /\ (Succeed(c) \/ Refuse(c) \/ GiveUp(c))

Next == \E c \in Calls : Ask(c) \/ Carry(c) \/ Succeed(c) \/ Refuse(c) \/ GiveUp(c)

SafeSpec == Init /\ [][Next]_vars

\* A call that was asked for ends.
Spec == SafeSpec /\ \A c \in Calls : WF_vars(End(c))
=============================================================================
