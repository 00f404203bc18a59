--------------------------- MODULE MCCompanionServer ---------------------------
(* An instance of CompanionServer for TLC. *)
EXTENDS CompanionServer, TLC

ThreeIds == 1..3
TwoProjects == {1, 2}
Symmetry == Permutations(Ops) \cup Permutations(Calls) \cup Permutations(Args)
===============================================================================
