-------------------------- MODULE MC_RequestBudget --------------------------
(* Instances of RequestBudget for TLC.                                     *)
EXTENDS RequestBudget

CONSTANTS t1, t2
Threads == {t1, t2}
=============================================================================
