----------------------------- MODULE MCDelivery -----------------------------
(* Instances of Delivery: one job of any method that sends a text, and one   *)
(* image.  Jobs share nothing but the handlers of their queue, so that one   *)
(* shows what each of them can go through.                                   *)
EXTENDS Delivery

CONSTANTS r1

MCRequests == {r1}
MCTexts == {"sendMaxbotText", "sendScheduledText", "sendGeneral",
            "sendGeneralSg", "sendContingency"}
MCImages == {"sendMaxbotImage"}
=============================================================================
