-------------------------- MODULE MCFailureReport --------------------------
(* A small instance of FailureReport: two messages to one recipient.          *)
EXTENDS FailureReport

CONSTANTS s1, s2, peer

MCSends == {s1, s2}
MCTo == [s \in MCSends |-> peer]
=============================================================================
