--------------------------- MODULE MCSocketServer ---------------------------
(* Three devices, one of each kind of token, and two or three calls.        *)
EXTENDS SocketServer, TLC

CONSTANTS s1, s2, s3, c1, c2

MCSockets == {s1, s2, s3}
MCToken == (s1 :> "none") @@ (s2 :> "valid") @@ (s3 :> "invalid")
MCCalls == {c1, c2}
=============================================================================
