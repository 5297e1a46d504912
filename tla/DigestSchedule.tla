--------------------------- MODULE DigestSchedule ---------------------------
(***************************************************************************)
(* The pre-open and post-close digests: when the supervisor sends them     *)
(* (supervisor.py:143-160) and which alerts they gather                    *)
(* (agents/a8_alerts/engine.py:261-292).                                   *)
(*                                                                         *)
(* Time is counted in slots of four hours from a midnight.  08:15 lies in  *)
(* slot 2 of its day, 16:30 in slot 4, and the 20 hours a digest looks     *)
(* back are five slots; the order of all the instants of the code is kept. *)
(***************************************************************************)
EXTENDS Integers, FiniteSets

CONSTANTS
  Days,             \* bound: the days of the schedule, 0..Days-1
  TradingDays,      \* the days on which is_trading_day
  Shown,            \* high alerts a digest's text has room for
  MaxAlerts,        \* bound: high alerts
  MaxFailures,      \* bound: digests that raise
  MaxRestarts       \* bound: deaths of the ingest process

ASSUME DigestAssumption ==
  /\ Days \in Nat \ {0}
  /\ TradingDays \subseteq 0..(Days - 1)
  /\ Shown \in Nat \ {0}
  /\ MaxAlerts \in Nat
  /\ MaxFailures \in Nat
  /\ MaxRestarts \in Nat

SlotsPerDay == 6
LookBack == 5
Kinds == {"pre_open", "post_close"}
HourOf == [pre_open |-> 2, post_close |-> 4]

VARIABLES
  now,          \* the current slot
  alerts,       \* high alerts, as [id, at]
  up,           \* the ingest process is running
  done,         \* [Kinds -> day of _digest_done, or Never]
  reported,     \* ids shown in some digest
  lastDigest,   \* slot of the latest digest, or Never
  count,        \* history: [Kinds -> digests begun on the current day]
  lives,        \* history: lives of the process on the current day
  missed,       \* history: a digest raised, or the process was down for a slot
  failures, restarts

digestVars == <<now, alerts, up, done, reported, lastDigest, count, lives,
                missed, failures, restarts>>

Never == -1

DigestInit ==
  /\ now = 0
  /\ alerts = {}
  /\ up = TRUE
  /\ done = [k \in Kinds |-> Never]
  /\ reported = {}
  /\ lastDigest = Never
  /\ count = [k \in Kinds |-> 0]
  /\ lives = 1
  /\ missed = FALSE
  /\ failures = 0
  /\ restarts = 0

Today == now \div SlotsPerDay

Due(k) ==
  /\ up
  /\ Today \in TradingDays
  /\ now % SlotsPerDay >= HourOf[k]
  /\ done[k] # Today

\* raise_alert of a high severity, pushed or suppressed.
RaiseHigh ==
  /\ up
  /\ Cardinality(alerts) < MaxAlerts
  /\ alerts' = alerts \cup {[id |-> Cardinality(alerts) + 1, at |-> now]}
  /\ UNCHANGED <<now, up, done, reported, lastDigest, count, lives, missed,
                 failures, restarts>>

\* Fault: the digest looks back over half a day.
RecentHalfDay == {a \in alerts : a.at >= now - 3}

Recent == {a \in alerts : a.at >= now - LookBack}

\* The newest alerts of the window, as many as the text shows.
Gathered == {a \in Recent : Cardinality({b \in Recent : b.id > a.id}) < Shown}

\* Fault: the day is not marked.
SendUnmarked(k) ==
  /\ Due(k)
  /\ count[k] < 3
  /\ reported' = reported \cup {a.id : a \in Gathered}
  /\ lastDigest' = now
  /\ count' = [count EXCEPT ![k] = @ + 1]
  /\ UNCHANGED <<now, alerts, up, done, lives, missed, failures, restarts>>

\* The day is marked first, then the digest is gathered, sent and logged.
SendDigest(k) ==
  /\ Due(k)
  /\ done' = [done EXCEPT ![k] = Today]
  /\ reported' = reported \cup {a.id : a \in Gathered}
  /\ lastDigest' = now
  /\ count' = [count EXCEPT ![k] = @ + 1]
  /\ UNCHANGED <<now, alerts, up, lives, missed, failures, restarts>>

\* It raises: _record_run keeps the loop alive and the day stays marked.
DigestRaises(k) ==
  /\ Due(k)
  /\ failures < MaxFailures
  /\ failures' = failures + 1
  /\ missed' = TRUE
  /\ done' = [done EXCEPT ![k] = Today]
  /\ count' = [count EXCEPT ![k] = @ + 1]
  /\ UNCHANGED <<now, alerts, up, reported, lastDigest, lives, restarts>>

\* The process ends: killed, or an agent_runs row that cannot be committed.
Dies ==
  /\ up
  /\ restarts < MaxRestarts
  /\ restarts' = restarts + 1
  /\ up' = FALSE
  /\ UNCHANGED <<now, alerts, done, reported, lastDigest, count, lives, missed,
                 failures>>

\* _digest_done is memory.
Restart ==
  /\ ~up
  /\ up' = TRUE
  /\ lives' = lives + 1
  /\ done' = [k \in Kinds |-> Never]
  /\ UNCHANGED <<now, alerts, reported, lastDigest, count, missed, failures,
                 restarts>>

\* The loop comes round every few seconds: no slot passes over a due digest.
Pass ==
  /\ now + 1 < Days * SlotsPerDay
  /\ \A k \in Kinds : ~Due(k)
  /\ now' = now + 1
  /\ missed' = (missed \/ ~up)
  /\ IF now' \div SlotsPerDay = Today
       THEN UNCHANGED <<count, lives>>
       ELSE count' = [k \in Kinds |-> 0] /\ lives' = 1
  /\ UNCHANGED <<alerts, up, done, reported, lastDigest, failures, restarts>>

-----------------------------------------------------------------------------
DigestTypeOK ==
  /\ now \in 0..(Days * SlotsPerDay - 1)
  /\ alerts \subseteq [id : 1..MaxAlerts, at : 0..now]
  /\ up \in BOOLEAN
  /\ done \in [Kinds -> Never..Today]
  /\ reported \subseteq 1..MaxAlerts
  /\ lastDigest \in Never..now
  /\ count \in [Kinds -> Nat]
  /\ lives \in Nat
  /\ missed \in BOOLEAN
  /\ failures \in 0..MaxFailures
  /\ restarts \in 0..MaxRestarts

\* A digest of a trading day looks back at the slot of the alert.
Timely(a) ==
  \E d \in TradingDays :
    a.at \in (SlotsPerDay * d + HourOf["pre_open"] - LookBack)
             ..(SlotsPerDay * d + HourOf["post_close"] - 1)

\* By the end of the look-back the newer alerts fill the text.
Crowded(a) ==
  Cardinality({b \in alerts : b.id > a.id /\ b.at <= a.at + LookBack}) >= Shown

\* "Overflow is recorded ... and folded into the next digest" (engine.py:14-16):
\* as long as no digest raises and the process is not down for long, a high
\* alert older than the latest digest has been in some digest, unless it fell
\* between two trading days or newer ones took all the room.
OverflowDigested ==
  ~missed => \A a \in alerts :
    a.at < lastDigest /\ Timely(a) /\ ~Crowded(a) => a.id \in reported

-----------------------------------------------------------------------------
(* The inductive invariant behind it.                                      *)

\* Every digest whose slot is over has been sent ...
DigestsSent ==
  ~missed => \A d \in TradingDays, k \in Kinds :
    SlotsPerDay * d + HourOf[k] < now => SlotsPerDay * d + HourOf[k] <= lastDigest

\* ... a marked one too ...
MarkedSent ==
  ~missed => \A k \in Kinds :
    done[k] # Never => SlotsPerDay * done[k] + HourOf[k] <= lastDigest

\* ... and neither digests nor alerts are dated ahead.
PastDated ==
  /\ lastDigest <= now
  /\ IsFiniteSet(alerts)
  /\ \A a \in alerts : a.at \in Nat /\ a.at <= now

DigestInvariant == DigestsSent /\ MarkedSent /\ PastDated /\ OverflowDigested
=============================================================================
