---------------------------- MODULE MCExecution -----------------------------
(* Model checking of Execution. *)
EXTENDS Execution
=============================================================================
