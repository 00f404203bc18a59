------------------------------ MODULE MCEventPath ------------------------------
(* Instance of EventPath for TLC: the events of the app-server and of terminals. *)
EXTENDS EventPath, TLC

CONSTANTS app, terminal, l1, l2

TwoHubs == {app, terminal}
OneEach == (l1 :> app) @@ (l2 :> terminal)
===============================================================================
