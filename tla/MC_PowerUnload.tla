---------------------------- MODULE MC_PowerUnload ----------------------------
(* Three processes that may ask for a dedicated CPU.                       *)
EXTENDS PowerUnload

MCProcs == {1, 2, 3}
=============================================================================
