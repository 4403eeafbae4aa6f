-------------------------- MODULE MCSessionManager --------------------------
(* A small instance of SessionManager for model checking. *)
EXTENDS SessionManager

=============================================================================
