------------------------------- MODULE RpcCalls -------------------------------
(***************************************************************************)
(* What CodexAppServerClient promises the code that calls request(): an    *)
(* opened call is settled once, it is fulfilled only with an answer that   *)
(* some process gave to this very call, and it fails otherwise.  How many  *)
(* processes were started, killed or restarted meanwhile is invisible.     *)
(***************************************************************************)
CONSTANT Calls

VARIABLES state, answered

vars == <<state, answered>>

TypeOK ==
  /\ state \in [Calls -> {"idle", "open", "ok", "failed"}]
  /\ answered \subseteq Calls

Init ==
  /\ state = [k \in Calls |-> "idle"]
  /\ answered = {}

Open(k) ==
  /\ state[k] = "idle"
  /\ state' = [state EXCEPT ![k] = "open"]
  /\ UNCHANGED answered

\* A process gives its answer to some open calls; the caller has not seen it.
\* An answer may also come too late, when the call has already failed.
Answer(k) ==
  /\ state[k] \in {"open", "failed"}
  /\ answered' = answered \cup {k}
  /\ UNCHANGED state

Fulfil(k) ==
  /\ state[k] = "open"
  /\ k \in answered
  /\ state' = [state EXCEPT ![k] = "ok"]
  /\ UNCHANGED answered

\* One event (a process that ended, a close) may fail many calls together.
Fail(S) ==
  /\ S # {}
  /\ \A k \in S : state[k] = "open"
  /\ state' = [k \in Calls |-> IF k \in S THEN "failed" ELSE state[k]]
  /\ UNCHANGED answered

Next ==
  \/ \E k \in Calls : Open(k) \/ Answer(k) \/ Fulfil(k)
  \/ \E S \in SUBSET Calls : Fail(S)

Spec == Init /\ [][Next]_vars
===============================================================================
