----------------------------- MODULE Supervisor -----------------------------
(***************************************************************************)
(* The daily jobs of the ingest loop (supervisor.py:80-253): the digests   *)
(* of DigestSchedule, the end-of-day chain and the securities-master sync. *)
(* One thread runs them all, each under _record_run; what it has done      *)
(* today is memory and ends with the process, what it has stored does not. *)
(* 18:45 falls between the instants of slots 4 and 5.                      *)
(***************************************************************************)
EXTENDS DigestSchedule, Sequences

CONSTANT HostUp       \* slots the host had been up when the process started

ASSUME SupervisorAssumption == HostUp \in Nat

EodHour == 5

\* The scoring stages after the price ingest, in the order of run().
Chain == <<"a4", "a3", "a5", "a6", "a7">>
Agents == {"a4", "a3", "a5", "a6", "a7"}

VARIABLES
  published,    \* days whose bhavcopy NSE served on their own evening
  refused,      \* history: days asked for with the file up, so far in vain
  kept,         \* days in price_daily
  eodDone,      \* _eod_done_for
  stage,        \* the stage of the chain about to run, 0 outside it
  scored,       \* [Agents -> the last day the stage ran to its commit]
  eodCount,     \* history: chains begun on the current day
  booted,       \* slot in which the host came up
  lastSync,     \* _last_master_sync, on the monotonic clock
  tried         \* history: slot of the last sync, or Never

eodVars == <<published, refused, kept, eodDone, stage, scored, eodCount>>
syncVars == <<booted, lastSync, tried>>
vars == <<digestVars, eodVars, syncVars>>

Init ==
  /\ DigestInit
  /\ published = {} /\ refused = {} /\ kept = {}
  /\ eodDone = Never
  /\ stage = 0
  /\ scored = [a \in Agents |-> Never]
  /\ eodCount = 0
  /\ booted = -HostUp
  /\ lastSync = 0
  /\ tried = Never

-----------------------------------------------------------------------------
\* time.monotonic counts from the boot of the host.
Monotonic == now - booted

\* The securities master: a day after the last attempt, whatever came of it.

SyncDue == up /\ Monotonic - lastSync >= SlotsPerDay

SyncMaster ==
  /\ SyncDue
  /\ stage = 0
  /\ lastSync' = Monotonic
  /\ tried' = now
  /\ UNCHANGED <<digestVars, eodVars, booted>>

-----------------------------------------------------------------------------
\* The end-of-day chain.  A file that appears after midnight no pass asks for.
PublishPrices ==
  /\ stage = 0
  /\ Today \in TradingDays
  /\ now % SlotsPerDay >= EodHour
  /\ published' = published \cup {Today}
  /\ UNCHANGED <<digestVars, refused, kept, eodDone, stage, scored, eodCount, syncVars>>

EodDue ==
  /\ up
  /\ stage = 0
  /\ ~SyncDue
  /\ \A k \in Kinds : ~Due(k)
  /\ Today \in TradingDays
  /\ now % SlotsPerDay >= EodHour
  /\ eodDone # Today

\* The file is not up yet: nothing is kept, the next pass asks again.
EodNotUp ==
  /\ EodDue
  /\ Today \notin published
  /\ UNCHANGED vars

\* ingest_day and ingest_indices_day, then the day is marked.
EodIngest ==
  /\ EodDue
  /\ Today \in published
  /\ kept' = kept \cup {Today}
  /\ eodDone' = Today
  /\ stage' = 1
  /\ eodCount' = eodCount + 1
  /\ refused' = refused \ {Today}
  /\ UNCHANGED <<digestVars, published, scored, syncVars>>

\* Fault: a day that failed is not asked for again.
EodIngestGivesUp ==
  /\ EodDue
  /\ Today \in published
  /\ refused' = refused \cup {Today}
  /\ eodDone' = Today
  /\ kept' \in {kept, kept \cup {Today}}
  /\ UNCHANGED <<digestVars, published, stage, scored, eodCount, syncVars>>

\* Either download is deferred by the budget, fails or raises, in one pass
\* after the other perhaps: the day is not marked, though its prices may have
\* been committed.
EodIngestFails ==
  /\ EodDue
  /\ Today \in published
  /\ refused' = refused \cup {Today}
  /\ kept' \in {kept, kept \cup {Today}}
  /\ UNCHANGED <<digestVars, published, eodDone, stage, scored, eodCount, syncVars>>

NextStage == IF stage < Len(Chain) THEN stage + 1 ELSE 0

EodStage ==
  /\ stage # 0
  /\ scored' = [scored EXCEPT ![Chain[stage]] = Today]
  /\ stage' = NextStage
  /\ UNCHANGED <<digestVars, published, refused, kept, eodDone, eodCount, syncVars>>

\* Fault: the chain goes on behind a stage that raised.
EodStageRaisesAndGoesOn ==
  /\ stage # 0
  /\ failures < MaxFailures
  /\ failures' = failures + 1
  /\ stage' = NextStage
  /\ UNCHANGED <<now, alerts, up, done, reported, lastDigest, count, lives, missed,
                 restarts, published, refused, kept, eodDone, scored, eodCount,
                 syncVars>>

\* A stage that raises ends the chain; the day stays marked.
EodStageRaises ==
  /\ stage # 0
  /\ failures < MaxFailures
  /\ failures' = failures + 1
  /\ stage' = 0
  /\ UNCHANGED <<now, alerts, up, done, reported, lastDigest, count, lives, missed,
                 restarts, published, refused, kept, eodDone, scored, eodCount,
                 syncVars>>

-----------------------------------------------------------------------------
\* The digests' actions between two chains, and what a death and the clock do
\* to the rest of the loop.
DigestStep ==
  /\ stage = 0
  /\ ~SyncDue
  /\ RaiseHigh \/ \E k \in Kinds : SendDigest(k) \/ DigestRaises(k)
  /\ UNCHANGED <<eodVars, syncVars>>

LoopDies ==
  /\ Dies
  /\ stage' = 0
  /\ UNCHANGED <<published, refused, kept, eodDone, scored, eodCount, syncVars>>

\* Fault: the timer starts with the process and not at 0.0.
LoopRestartsClock ==
  /\ Restart
  /\ eodDone' = Never
  /\ lastSync' = Monotonic
  /\ UNCHANGED <<published, refused, kept, stage, scored, eodCount, booted, tried>>

LoopRestarts ==
  /\ Restart
  /\ eodDone' = Never
  /\ lastSync' = 0
  /\ UNCHANGED <<published, refused, kept, stage, scored, eodCount, booted, tried>>

\* It comes up with its host, whose clock begins anew.
HostBoots ==
  /\ Restart
  /\ booted' = now
  /\ eodDone' = Never
  /\ lastSync' = 0
  /\ UNCHANGED <<published, refused, kept, stage, scored, eodCount, tried>>

\* The loop comes round every few seconds: no slot passes over a job that is
\* due and not tried.  It does pass over prices that no pass could get.
LoopPass ==
  /\ Pass
  /\ ~SyncDue
  /\ stage = 0
  /\ EodDue => Today \notin published \/ Today \in refused
  /\ eodCount' = IF now' \div SlotsPerDay = Today THEN eodCount ELSE 0
  /\ UNCHANGED <<published, refused, kept, eodDone, stage, scored, syncVars>>

Next ==
  \/ SyncMaster
  \/ PublishPrices \/ EodNotUp \/ EodIngest \/ EodIngestFails
  \/ EodStage \/ EodStageRaises
  \/ DigestStep \/ LoopDies \/ LoopRestarts \/ HostBoots \/ LoopPass

Spec == Init /\ [][Next]_vars

-----------------------------------------------------------------------------
TypeOK ==
  /\ DigestTypeOK
  /\ published \subseteq TradingDays
  /\ refused \subseteq published
  /\ kept \subseteq published
  /\ eodDone \in Never..Today
  /\ stage \in 0..Len(Chain)
  /\ scored \in [Agents -> Never..Today]
  /\ eodCount \in Nat
  /\ booted \in (-HostUp)..now
  /\ lastSync \in Nat
  /\ tried \in Never..now

\* "Once per trading day" (supervisor.py:144, :163): each digest and the
\* end-of-day chain begin on trading days only, and at most once a day but for
\* the restarts of that day, whatever raises.
PreOpen   == INSTANCE DailyJob WITH Working <- TradingDays, day <- Today,
                                    times <- count["pre_open"], lives <- lives
PostClose == INSTANCE DailyJob WITH Working <- TradingDays, day <- Today,
                                    times <- count["post_close"], lives <- lives
EndOfDay  == INSTANCE DailyJob WITH Working <- TradingDays, day <- Today,
                                    times <- eodCount, lives <- lives

DailyJobs == PreOpen!Spec /\ PostClose!Spec /\ EndOfDay!Spec

\* "file not up yet - the next loop pass retries" (supervisor.py:188-191): a
\* day is asked for until its prices are stored.  So one that is not stored by
\* midnight, though its bhavcopy was up that evening, was asked for in vain up
\* to midnight, or the process was down.
AskedUntilKept ==
  /\ eodDone # Never => eodDone \in kept
  /\ ~missed => \A d \in published : d < Today => d \in kept \cup refused

\* The stronger promise that the loop does not keep: after midnight today is
\* another day (supervisor.py:171-177), and no pass asks for the old one.
NoDayMissed == ~missed => \A d \in published : d < Today => d \in kept

\* "A6 last - it consumes today's scores", "A7 last of all" (supervisor.py:218,
\* :222): no stage has run for a day that an earlier stage, or the price
\* ingest, has not been through.
StancesOnFreshInputs ==
  /\ \A i, j \in 1..Len(Chain) : i < j => scored[Chain[j]] <= scored[Chain[i]]
  /\ \A a \in Agents : scored[a] # Never => scored[a] \in kept

\* MASTER_SYNC_EVERY (supervisor.py:34): however often the process restarts,
\* when the loop is at rest the last sync is less than a day old.  Only a boot
\* of the host postpones it, to a day after that boot at most, for the timer
\* starts at 0.0 on a clock that the boot has put to zero (supervisor.py:78).
MasterTriedDaily ==
  up /\ ~SyncDue =>
    \/ tried # Never /\ now - tried < SlotsPerDay
    \/ now - booted < SlotsPerDay
=============================================================================
