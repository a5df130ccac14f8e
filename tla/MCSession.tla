----------------------------- MODULE MCSession ------------------------------
(* Small instances of the session for TLC. *)
EXTENDS Session, TLC

MCDelays == <<1>>
MCSymmetry == Permutations(Guards)
=============================================================================
