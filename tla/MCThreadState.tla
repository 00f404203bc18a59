---------------------------- MODULE MCThreadState ----------------------------
(* Instances of ThreadState for TLC. *)
EXTENDS ThreadState, TLC

Symmetry == Permutations(Calls)

\* All methods of the service
AllMethods == {"start_thread", "send_user_message", "resume_thread", "rollback", "edit",
               "start_review", "set_thread_name"}

SendMethods == {"send_user_message"}
===============================================================================
