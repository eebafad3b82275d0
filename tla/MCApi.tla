-------------------------------- MODULE MCApi --------------------------------
(* A small instance of Api: two requests of any route, with the tokens and   *)
(* bodies that their middlewares look at.                                    *)
EXTENDS Api, TLC

CONSTANTS r1, r2, e1, e2

MCRequests == {r1, r2}
MCRows == {e1, e2}

Robo == <<"robo", ".", "png">>
MCFiles == {Robo}

Input(route, token, body, mail) ==
    [route |-> route, token |-> token, body |-> body, mail |-> mail,
     name |-> <<>>, for |-> None]

\* The image of an e-mail, the plain one, one without extension and one that is
\* not there but names a row.
Image(name, for) == [Input("image", "none", "valid", FALSE)
                        EXCEPT !.name = name, !.for = for]
Images ==
    {Image(SetImageName(Robo, e1), e1), Image(SetImageName(Robo, e2), e2),
     Image(Robo, None), Image(<<"robo">>, None),
     Image(<<"other", "_", e1, ".", "png">>, e1)}

Bodies == {"broken", "invalid", "valid"}

MCInputs ==
    Images
    \cup {Input("healthz", "none", "valid", FALSE)}
    \cup {Input("authorize", "none", body, FALSE) : body \in Bodies}
    \cup {Input("socketMessage", token, body, TRUE) :
            token \in {"none", "malformed", "invalid", "valid"}, body \in Bodies}
    \cup {Input("socketMessage", "valid", "valid", FALSE)}
    \cup {Input("socketText", "valid", "valid", mail) : mail \in BOOLEAN}
    \cup {Input("send", "valid", body, FALSE) : body \in Bodies}
    \cup {Input(route, "valid", "valid", FALSE) :
            route \in {"tokens", "contactPost", "contactPatch", "contactList",
                       "sacdigital", "email", "report", "socketStatus"}}
=============================================================================
