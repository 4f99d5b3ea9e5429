---------------------------- MODULE MCHttpServer ----------------------------
(* Instances of HttpServer for TLC. *)
EXTENDS HttpServer

(* getaddrinfo results: the first binds, or one fails before one binds.   *)
BindsEventually == {<<"bound">>, <<"nosock", "bound">>, <<"nobind", "bound">>}

(* As above, plus lists on which nothing binds.                           *)
BindsMaybe == BindsEventually \cup {<<"nosock">>, <<"nobind">>, <<"bound", "nobind">>}

=============================================================================
