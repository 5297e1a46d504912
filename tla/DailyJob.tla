------------------------------ MODULE DailyJob ------------------------------
(***************************************************************************)
(* What the supervisor promises of a job "once per trading day"            *)
(* (supervisor.py:144, :163): it runs on working days only, and at most    *)
(* once a day for each life of the process, whose memory of what it has    *)
(* done today does not survive a restart.                                  *)
(***************************************************************************)
EXTENDS Integers

CONSTANT Working      \* the days the market is open

VARIABLES
  day,
  times,              \* runs of the job on this day
  lives               \* lives of the process on this day

jobVars == <<day, times, lives>>

Init == day = 0 /\ times = 0 /\ lives = 1

Run ==
  /\ day \in Working
  /\ times < lives
  /\ times' = times + 1
  /\ UNCHANGED <<day, lives>>

NewLife ==
  /\ lives' = lives + 1
  /\ UNCHANGED <<day, times>>

NewDay ==
  /\ day' = day + 1
  /\ times' = 0
  /\ lives' = 1

Next == Run \/ NewLife \/ NewDay

Spec == Init /\ [][Next]_jobVars
=============================================================================
