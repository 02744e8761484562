------------------------- MODULE MC_PowerController -------------------------
(* Three processes that may ask for a dedicated CPU.                       *)
EXTENDS PowerController

MCProcs == {1, 2, 3}
=============================================================================
