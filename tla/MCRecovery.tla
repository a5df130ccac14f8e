----------------------------- MODULE MCRecovery -----------------------------
(***************************************************************************)
(* A Recovery whose backoff has three steps, with an observer that counts  *)
(* one unit further than the longest wait and the attempt's time.          *)
(***************************************************************************)
EXTENDS Recovery

MCDelays == <<1, 2, 4>>
=============================================================================
