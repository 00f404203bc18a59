---------------------------- MODULE MCJsonStorage ----------------------------
(* Instance of JsonStorage for TLC. *)
EXTENDS JsonStorage
===============================================================================
