----------------------------- MODULE PointInTime -----------------------------
(***************************************************************************)
(* Reads as of a past moment (db/pit.py, and event_score of                *)
(* a7_fusion/engine.py with visibility="observed").                        *)
(*                                                                         *)
(* observed_at is a server default, now(): the start of the transaction    *)
(* that inserts the row, while the row shows when that one commits.  A     *)
(* classification's transaction (a2_docintel/consumer.py) is open while    *)
(* the models are asked.  A release may change the MODEL_VERSION that      *)
(* classifications carry and reads ask for (a2_docintel/classifier.py).    *)
(* Materiality, symbol and the like are columns no row changes, and so is  *)
(* what a limited read ranks by: the filters on them are left out.         *)
(***************************************************************************)
EXTENDS Integers, FiniteSets

CONSTANTS
  Filings,      \* filings
  Versions,     \* model versions of A2
  LastMoment    \* bound: moments

ASSUME PitAssumption == LastMoment \in Nat /\ "filing" \notin Versions

\* A filing, and its classification by each version: prior ones remain.
PitRows == Filings \X (Versions \cup {"filing"})
Later == LastMoment + 1

VARIABLES
  moment,       \* now
  version,      \* MODEL_VERSION of the release that runs
  eventAt,      \* [Filings -> the time NSE prints]
  observedAt,   \* [PitRows -> start of the inserting transaction, or Later]
  stored,       \* facts committed
  liveRead      \* history: [moments -> the version and what a live read has seen]

pitVars == <<moment, version, eventAt, observedAt, stored, liveRead>>

PitInit ==
  /\ moment = 0
  /\ version \in Versions
  /\ eventAt \in [Filings -> 0..LastMoment]
  /\ observedAt = [f \in PitRows |-> Later]
  /\ stored = {}
  /\ liveRead = [t \in 0..LastMoment |-> [by |-> version, seen |-> {}]]

Tick ==
  /\ moment < LastMoment
  /\ moment' = moment + 1
  /\ UNCHANGED <<version, eventAt, observedAt, stored, liveRead>>

\* A release, or its withdrawal.  What the last one has open still ends.
Release ==
  /\ version' \in Versions \ {version}
  /\ UNCHANGED <<moment, eventAt, observedAt, stored, liveRead>>

\* A filing may be inserted once it is public; it is classified, once stored,
\* by the version that runs.
Begin(f) ==
  /\ observedAt[f] = Later
  /\ IF f[2] = "filing" THEN eventAt[f[1]] <= moment
     ELSE f[2] = version /\ <<f[1], "filing">> \in stored
  /\ observedAt' = [observedAt EXCEPT ![f] = moment]
  /\ UNCHANGED <<moment, version, eventAt, stored, liveRead>>

Commit(f) ==
  /\ observedAt[f] # Later /\ f \notin stored
  /\ stored' = stored \cup {f}
  /\ UNCHANGED <<moment, version, eventAt, observedAt, liveRead>>

\* A crash or a failed insert; the next attempt is a transaction of its own.
Rollback(f) ==
  /\ observedAt[f] # Later /\ f \notin stored
  /\ observedAt' = [observedAt EXCEPT ![f] = Later]
  /\ UNCHANGED <<moment, version, eventAt, stored, liveRead>>

-----------------------------------------------------------------------------
\* Fault: a read goes by the time NSE prints.
VisibleByEvent(f, t) == f \in stored /\ eventAt[f[1]] <= t

Visible(f, t) == f \in stored /\ observedAt[f] <= t

\* pit_filings: the filings; pit_classified: both sides of the join, of the
\* version that reads.
PitFilings(t) == {f \in Filings : Visible(<<f, "filing">>, t)}

PitClassified(t) == {f \in PitFilings(t) : Visible(<<f, version>>, t)}

\* Live agents pass as_of = now; the next moment follows.
LiveRead ==
  /\ moment < LastMoment
  /\ liveRead' = [liveRead EXCEPT ![moment] = [by |-> version, seen |-> PitClassified(moment)]]
  /\ moment' = moment + 1
  /\ UNCHANGED <<version, eventAt, observedAt, stored>>

PitNext ==
  \/ Tick \/ Release \/ LiveRead
  \/ \E f \in PitRows : Begin(f) \/ Commit(f) \/ Rollback(f)

PitSpec == PitInit /\ [][PitNext]_pitVars

-----------------------------------------------------------------------------
PitTypeOK ==
  /\ moment \in 0..LastMoment
  /\ version \in Versions
  /\ observedAt \in [PitRows -> 0..Later]
  /\ stored \subseteq PitRows
  /\ liveRead \in [0..LastMoment -> [by : Versions, seen : SUBSET Filings]]

\* No transaction that could still show as of t is open.
Quiet(t) == \A f \in PitRows : observedAt[f] <= t => f \in stored

\* "a backtest literally cannot see a filing before the moment we ingested it,
\* whatever its printed date says" (pit.py:9-11): a read as of a past moment by
\* the version of a live read of that moment misses nothing that one saw, and
\* once the transactions of that moment have ended no late or backfilled row
\* and none of another version changes it, while the version is the same.
PastReadsFixed ==
  [][\A t \in 0..LastMoment :
       /\ liveRead[t].by = version => liveRead[t].seen \subseteq PitClassified(t)
       /\ t < moment /\ Quiet(t) =>
            /\ PitFilings(t)' = PitFilings(t)
            /\ version' = version => PitClassified(t)' = PitClassified(t)]_pitVars

\* "a backtest must see exactly the scores it would have had at the time"
\* (pit.py:73-74), of whatever version they were.
ReplayIsLive ==
  \A t \in 0..(moment - 1) : liveRead[t].seen \subseteq PitClassified(t)
=============================================================================
