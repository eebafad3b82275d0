----------------------------- MODULE MCSendLogs -----------------------------
(* A small instance of SendLogs: a Maxbot text with a contingency e-mail and *)
(* a socket text, whose jobs have the same id in their two queues.           *)
EXTENDS SendLogs, TLC

CONSTANTS text, mail, socket, image, general

MCQueues == {"MAXBOT", "SOCKET", "SEND_EMAIL"}
MCRequests == {text, mail, socket}
MCQueueOf == (text :> "MAXBOT") @@ (mail :> "SEND_EMAIL") @@ (socket :> "SOCKET")
MCKind == (text :> "sendMaxbotText") @@ (mail :> "sendContingency")
            @@ (socket :> "sendScheduledText")
MCJobName == (text :> "SendMaxbotText") @@ (mail :> "SendHtmlEmailJob")
            @@ (socket :> "SendSocketText")
MCAttempts == [q \in MCQueues |-> IF q = "MAXBOT" THEN 3 ELSE 2]
MCHandlers == [q \in MCQueues |-> IF q = "SOCKET" THEN 1 ELSE 2]
MCRemoveTrying == {text, mail}
MCWantsEmail == {text}
MCContingency == (text :> mail)

\* The other methods: an image, a socket text and a general e-mail.
MCTriesRequests == {image, socket, general}
MCTriesQueueOf == (image :> "MAXBOT") @@ (socket :> "SOCKET")
                    @@ (general :> "SEND_EMAIL")
MCTriesKind == (image :> "sendMaxbotImage") @@ (socket :> "sendScheduledText")
                    @@ (general :> "sendGeneral")
MCTriesJobName == (image :> "SendMaxbotText") @@ (socket :> "SendSocketText")
                    @@ (general :> "sendGeneralEmailJob")
MCTriesRemoveTrying == {general}
MCTriesWantsEmail == {}
MCTriesContingency == <<>>
=============================================================================
