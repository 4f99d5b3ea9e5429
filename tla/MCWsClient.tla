----------------------------- MODULE MCWsClient -----------------------------
EXTENDS WsClient

\* Address lists on which some address connects, possibly after others fail.
ConnectsEventually == {<<"connected">>, <<"nosock", "connected">>,
                       <<"noconnect", "connected">>}

\* Also the lists on which _connect fails.
ConnectsMaybe == ConnectsEventually \cup {<<"gaifail">>, <<"noconnect">>,
                                          <<"badfamily", "connected">>}

\* Behaviours in which the server never closes.
ServerStaysOpen == srv # "closed"
=============================================================================
