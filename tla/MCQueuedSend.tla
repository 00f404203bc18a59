----------------------------- MODULE MCQueuedSend -----------------------------
(* Instances of QueuedSend for TLC. *)
EXTENDS QueuedSend, TLC

NoCommands == {}
SecondIsCommand == {2}
Symmetry == Permutations(Threads)
===============================================================================
