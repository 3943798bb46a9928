----------------------------- MODULE MCWarmPath -----------------------------
(***************************************************************************)
(* WarmPath with the nested bodies of MCReceiver.                          *)
(***************************************************************************)
EXTENDS MCReceiver, WarmPath
=============================================================================
