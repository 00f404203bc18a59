---------------------------- MODULE MCLiveConnection ----------------------------
(* Instance of LiveConnection for TLC. *)
EXTENDS LiveConnection, TLC

Symmetry == Permutations(Threads)
===============================================================================
