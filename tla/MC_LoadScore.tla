----------------------------- MODULE MC_LoadScore -----------------------------
(* Four CPUs (one may be off), snapshots with 0 or 2 ticks per CPU, and up  *)
(* to two processes per need class.                                         *)
EXTENDS LoadScore

MCTickTotals == {0, 2}
=============================================================================
