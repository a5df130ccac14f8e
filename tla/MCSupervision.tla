---------------------------- MODULE MCSupervision ---------------------------
(* Supervision for TLC: the constants get their values in the configurations. *)
EXTENDS Supervision

=============================================================================
