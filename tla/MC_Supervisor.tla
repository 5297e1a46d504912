---------------------------- MODULE MC_Supervisor ---------------------------
(* An instance of Supervisor for TLC.                                      *)
EXTENDS Supervisor

\* Two trading days with a holiday between them.
WeekDays == {0, 2}
=============================================================================
