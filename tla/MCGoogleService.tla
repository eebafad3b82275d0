--------------------------- MODULE MCGoogleService ---------------------------
(* A small instance of GoogleService: two synchronisations of two pages, two *)
(* consents.  The contacts have no phone, none flagged, and two flagged.     *)
EXTENDS GoogleService, TLC

CONSTANTS s1, s2, c1, c2, ana, bia, caio

MCCodes == {c1, c2}
MCSyncs == {s1, s2}
MCPeople == {ana, bia, caio}
Phone(value, main) == [value |-> value, main |-> main]
MCPhones ==
    (ana :> <<>>)
    @@ (bia :> <<Phone("1", FALSE), Phone("2", FALSE)>>)
    @@ (caio :> <<Phone("1", FALSE), Phone("2", TRUE), Phone("3", TRUE)>>)
MCBook == <<<<ana, caio>>, <<bia>>>>
=============================================================================
