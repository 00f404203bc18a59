-------------------------- MODULE MCAppServerClient --------------------------
(* An instance of AppServerClient for TLC. *)
EXTENDS AppServerClient

CONSTANTS r1, r2, s1

TwoRequests == {r1, r2}
OneReply == {s1}
===============================================================================
