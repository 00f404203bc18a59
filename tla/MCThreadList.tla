----------------------------- MODULE MCThreadList -----------------------------
(* An instance of ThreadList for TLC. *)
EXTENDS ThreadList, TLC

ThreeThreads == 1..3
FirstTwo == 1..2

\* The first thread has a subagent.
Subagents == (1 :> 0) @@ (2 :> 1) @@ (3 :> 0)
===============================================================================
