---------------------------- MODULE DurableRecord ----------------------------
(***************************************************************************)
(* What a file of the companion server promises to the rest of the server: *)
(* a record kept in memory, and a copy of it that survives a crash or a    *)
(* power failure.  The copy may be late, but it never goes back, is never  *)
(* ahead of memory, and has at least what was in memory at the time of a   *)
(* call of save that was told "ok".  After a restart memory has at least   *)
(* the copy.                                                               *)
(*                                                                         *)
(* A record is a version number for each of its keys.                      *)
(***************************************************************************)
EXTENDS Naturals

CONSTANTS Keys, Saves

VARIABLES
  memory,   \* the record in memory
  saved,    \* the copy that survives
  status,   \* of each call of save
  needs     \* the record in memory when save was called

recordVars == <<memory, saved, status, needs>>

Leq(f, g) == \A key \in Keys : f[key] <= g[key]

Init ==
  /\ memory = [key \in Keys |-> 0]
  /\ saved = [key \in Keys |-> 0]
  /\ status = [w \in Saves |-> "none"]
  /\ needs = [w \in Saves |-> [key \in Keys |-> 0]]

Edit ==
  /\ Leq(memory, memory')
  /\ UNCHANGED <<saved, status, needs>>

AskToSave(w) ==
  /\ status[w] = "none"
  /\ status' = [status EXCEPT ![w] = "open"]
  /\ needs' = [needs EXCEPT ![w] = memory]
  /\ UNCHANGED <<memory, saved>>

\* The copy is brought up to some point between what it has and what memory has.
Advance == Leq(saved, saved') /\ Leq(saved', memory)

\* A call ends: "ok" is a promise, "unsure" and "failed" are not.
Answer(w) ==
  /\ status[w] = "open"
  /\ \/ Leq(needs[w], saved') /\ status' = [status EXCEPT ![w] = "ok"]
     \/ \E no \in {"unsure", "failed"} : status' = [status EXCEPT ![w] = no]

Save ==
  /\ Advance
  /\ UNCHANGED <<memory, needs>>
  /\ UNCHANGED status \/ \E w \in Saves : Answer(w)

\* What was not promised may be gone.
Restart ==
  /\ Leq(saved, memory') /\ Leq(memory', memory)
  /\ \A w \in Saves :
       \/ status[w] # "open" /\ status'[w] = status[w]
       \/ status[w] \in {"open", "unsure"} /\ status'[w] = "lost"
  /\ UNCHANGED <<saved, needs>>

Next == Edit \/ (\E w \in Saves : AskToSave(w)) \/ Save \/ Restart

Spec == Init /\ [][Next]_recordVars
===============================================================================
