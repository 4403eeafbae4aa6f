------------------------------- MODULE MCLock -------------------------------
(* A small instance of Lock for model checking. *)
EXTENDS Lock

=============================================================================
