# Marketsense: verification

Marketsense ingests disclosures and prices from the NSE of India, classifies
them, scores companies, issues stances and sends alerts. Its `ingest` process
is one thread that loops over feeds, documents, event consumers and the daily
jobs; `ms backfill` and the other commands are processes of their own; all of
them meet in one PostgreSQL database. This directory models the program from
the request that leaves for NSE to the alert on the phone, and from the day's
prices to the signal, its risk gate and the record of what it was worth. TLC
checks the models on small instances and TLAPS proves every invariant, action
property and refinement the runs check, for every value of the constants and
under the conditions that "Proofs" names; liveness is TLC's alone.

Paths in this file are relative to `src/marketsense/`.

## Inventory

| component | state it keeps | operations | talks to | what makes it correct |
|---|---|---|---|---|
| Event bus, `bus/outbox.py` | `outbox`, `consumer_offsets`, `dead_letters` | `publish`, `drain`, `reset` | every agent; publishers write in their own transaction | no event skipped, in order, at least once; a poison event leaves a dead letter and does not wedge the stream |
| Request budget, `net/budget.py` | tokens, streak of 401/403, breaker, probe flag | `acquire`, the three `record_*`, `snapshot` | the NSE client | rate bound, rest after a ban, one probe, recovery |
| NSE client, `net/nse_client.py` | cookie session, validators | `get`, `get_json` | budget, NSE, all agents that fetch | each grant is reported; `get` ends |
| Feeds, `agents/a1_ingestion/{poller,backfill,parse,feeds}.py` | `filings`, `feed_state`, next due times | `run_pass`, `poll_feed`, catch-up, `ms backfill` | client, bus | nothing published is missed; no feed starves |
| Documents, `agents/a1_ingestion/documents.py` | `documents`, files by content hash | `drain` | client, file system | bounded requests, honoured backoff, a `fetched` row has its file, no starvation |
| Classification A2, `agents/a2_docintel/` | `filing_classifications` | consumer of `filing.received`, rules, merge, floors | bus, LLM gateway | an auditor's resignation always blocks; floors survive the model |
| LLM gateway, `llm/client.py` | none | engine order, validation, one retry | A2 | never stops the pipeline; deep-queue mode stays off the slow model |
| A3 fundamental | documents on disk, `financials_quarterly`, `scores` | backfill, loader, `score_all` | client, database | a misfiled quarter never wins over right ones the guard can tell; sound arithmetic |
| A4 technical | `price_daily`, `scores` | `ingest_day`, `ingest_indices_day`, `score_all` | client, database | each day asked for until stored; sound arithmetic |
| A5 flow | surveillance, deals, `scores` | `ingest_all`, `score_all` | client, database | sound arithmetic |
| A6 risk and pledge | verdicts in `scores`, `promoter_pledge` | `assess_all`; `sync_pending` | client, A7 | a veto reaches the signal; a pledge is never underread; each symbol gets its turn |
| A7 fusion | `signals` | `issue_all`, hysteresis, levels, size | A3-A6, bus | stance and verdict belong together; no drift; sized to the stop |
| A8 alerts, `agents/a8_alerts/engine.py` | `alerts` | consumer, `raise_alert`, `digest` | bus, Telegram, webhook | nothing material lost, push rate bounded, overflow in a digest |
| Supervisor, `supervisor.py` | timers, `_digest_done`, `_eod_done_for` | the loop, end-of-day chain, digests, master sync | all of the above | each job once a day; no stage on stale inputs; one failure does not stop the rest |
| Securities master, `universe/` | `securities`, aliases, `holidays`, the live calendar | daily sync, `resolve` | client, A1 symbol resolution | an old symbol resolves to its company; no holiday is forgotten |
| Point-in-time reads, `db/pit.py` | none | queries with `as_of` | A7, backtest, API | past reads are fixed |
| Tracker, backtest | `signal_performance` | `measure`, walk-forward | database | no hindsight |
| HTTP API, CLI, screener import, evaluation scripts | none of their own | read mostly | database | outside these models |

The hard behaviours are: events published in transactions of several processes;
a drain that is three transactions per event, killed between any two; drains,
replays and backfills in parallel processes; a token bucket and a breaker
shared by threads, with retries and cookie bootstraps on top; state kept in
memory (validators, `_digest_done`, `_eod_done_for`, the live calendar) next to
state that is committed; a push that no transaction can take back; a feed that
forgets; prices that appear late; a chain of stages that any failure cuts
short; rows of different nights fused into one stance; answers that lag behind
their announcement; renames in chains; documents that arrive out of order;
timestamps drawn before the commit that shows them. `PROJECT.json` lists each
at its line, with the properties that watch it.

## Modules

| module | models | state and actions |
|---|---|---|
| `EventDelivery` | what the bus promises: each consumer takes the committed events in order and none is passed over | abstract specification |
| `EventBus` | `publish`, commit and rollback, `drain`/`_handle_one`, dead letter, acknowledgement, `reset` | `stream` is the committed `outbox` rows, `tx` what an open transaction has flushed, `nextId` the id sequence, `offset` the `consumer_offsets` rows. `Fetch` is the select, `HandlerSucceeds` / `HandlerRaises` one attempt, `WriteDeadLetter`, `ReadOffset`, `WriteOffset` the transactions after it, `DrainDies` a crash or a database error. `settled` is history |
| `RequestBudget` | `net/budget.py`, one action per method, as each holds the lock | times are counted in ticks and tokens in units of `TicksPerMinute`, so all is integer; `flight` says whether a caller has an unreported grant, `meter` and `sinceAuth` are history |
| `NSEClient` | `NSEClient.get` on top of `RequestBudget` | `pc` walks through acquire, session, request, backoff; each NSE answer (ok, 401/403, 404, 5xx, transport error) is an action |
| `FeedIngest` | RSS poll and API catch-up of the ingest thread, `ms backfill` | a fetch and its commit are separate steps, and the dedup select is part of the fetch, so that the other process can come in between; `validator` is the version the held ETag stands for, `DaysPass` takes announcements out of the two days the catch-up asks for |
| `DocumentQueue` | `documents.drain` | rows with status, attempts and a `waiting` flag for `next_attempt_at` in the future; `Gets` counts the requests of one `get`, up to `Retries` whichever way it ends; `FetchBody` and `WriteFile` write the file, `CommitFetched` the row, and both a crash and a write error can separate them |
| `AlertPipeline` | the two consumers from `filing.received` to an alert | takes the bus at the strength `EventBus` shows: in order, at least once, with `MAX_ATTEMPTS` and dead letters; `hour` is the sliding hour of pushes |
| `Triage` | one filing through the rules, the gateway and the merge | a text is the set of patterns it matches; `RulesFinal`, `Backlog`, `ToModel` are the three ways of `classify_filing`, `ValidReply`, `InvalidReply`, `LLMUnavailable` what an engine answers, `Merge` and `NoModel` the end |
| `DailyJob` | what the supervisor promises of a job "once per trading day" | abstract specification |
| `DigestSchedule` | `_maybe_digest` and `digest` | time in slots of four hours: 08:15 lies in slot 2, 16:30 in slot 4, and 20 hours are five slots, which keeps the order of all the instants the code compares |
| `Supervisor` | the daily jobs of the loop, on top of `DigestSchedule` | `SyncMaster` on the monotonic clock; `EodNotUp`, `EodIngest`, `EodIngestFails` the price ingest, `EodStage` and `EodStageRaises` the scoring stages one by one; `LoopDies` is the failing commit of `_record_run`, `LoopRestarts` what a new process has forgotten, `HostBoots` the same with a monotonic clock that begins anew |
| `Fusion` | one symbol through the nights: A3-A5 score rows, A6's verdict, A7's stances | `ScoreNight`, `AssessNight`, `IssueNight` in the chain's order, `NightEnds` at any point in it; `DayPasses` changes facts and events. `fused` is history |
| `Scoring` | the arithmetic of A3, A4, A5, the event axis, levels and size, the pledge parser | one computation on one sample |
| `PledgeSync` | the nightly pledge pass | `StartPledgePass` is `pending_symbols`, then one action per outcome of `sync_symbol`; `newer` says whether a filing postdates the row |
| `SecuritiesMaster` | the daily sync and `resolve` | three commits one after the other, each of which may fail; renames and holidays happen on NSE's side between any two |
| `ResultsLoader` | one company's results filings on their way into `financials_quarterly`, misfiled up or down, on both bases | `Fetch` live, `BackfillSymbol` later and in another order, `LoadAll` over all documents; `quarter` maps each row to the filing it is from |
| `PriceHistory` | daily bars, the measurement of signals, the backtest's forward return | `IngestDay` of any day, in any order; `Measure` writes each row once |
| `PointInTime` | reads as of a past moment | `Begin`, `Commit`, `Rollback` of the inserting transactions, which draw `observed_at` at `Begin`; `Release` changes the model version that classifications carry and reads ask for |

`MC_<module>` holds the instances for TLC, `<module>_proofs` the theorems:
`Agents_proofs` those of `Fusion`, `Triage` and `Scoring`, `NSEClient_proofs`
those of `RequestBudget` too, `Records_proofs` those of `PointInTime`,
`ResultsLoader`, `PriceHistory` and `SecuritiesMaster`, and `Supervisor_proofs`
those of `DigestSchedule` too.

`NSEClient` extends `RequestBudget` and uses its operators as its own
sub-actions; `Supervisor` extends `DigestSchedule` likewise and adds what a
death and the clock do to the rest of the loop. `EventBus` and `AlertPipeline`
instantiate `EventDelivery`, `Supervisor` instantiates `DailyJob` three times.
`MC_Agents` puts the eight modules of the agents side by side and runs one of
them per behaviour, the part being chosen in the initial state, so that one run
checks them all without multiplying their states. A definition marked "Fault:"
is a wrong version of the one that follows it - a dropped guard, an off-by-one,
a swapped order. No specification uses them; put in the place of the right one,
each makes the property it was written for fail, so that the property is known
to speak about that line of code.

Data is abstract throughout: a payload is an id, a PDF is a path and whether
the file is whole, a text is the patterns it matches, a bar is its day. Not
abstract is control: each early return, each exception that is caught and by
whom, and what is committed with what.

Some choices deserve their reason.

- `EventBus` separates `ReadOffset` from `WriteOffset`, because `_handle_one`
  acknowledges in a read-modify-write without a lock.
- `settled` is set at the handler's success. The handler commits before it
  returns, so this is the commit.
- `FeedIngest` shows a window of the newest items, because an RSS file does.
  The API catch-up sees yesterday and today, and no row without an attachment
  and a `seq_id`.
- In `AlertPipeline` one action, `HandlerRaises`, ends a handler at any point
  before its commit, also between push and commit.
- The audit record calls `budget.snapshot()`, which refills the bucket.
  `Snapshot` is an action of `RequestBudget`. `NSEClient` leaves it out: a
  refill now or at the next `acquire` gives the same tokens.
- The end-of-day chain runs inside one pass of the loop. `Supervisor` lets no
  other job of the loop and no slot pass while `stage` is not 0, but a death
  may come before any stage.
- `Fusion` keeps a set of A3 rows, since several share the `as_of` of their
  quarter and `ORDER BY as_of LIMIT 1` returns any of them. An assessment is
  certain for a symbol scored or under surveillance, and open for one A4
  scored two nights ago, because the code's window is 48 hours and weekends
  are longer.
- `Triage` takes texts of at most three patterns, which covers every pair of
  rules with a qualifier. A routine pattern or an authoritative feed ends the
  matching before the rules, and the properties say so.
- A deferred or exhausted `get` of `DocumentQueue` may have sent requests; the
  documents in `Barred` have a URL that always answers 401 or 403.
- The rows of `ResultsLoader` hold a filing's number and no column of it, since
  the upsert takes every column of the new row. An instance without a revenue
  is left out: the guard does not judge it.
- The event axis reads the most material rows up to a limit, and of rows that
  tie at the limit any (`MostMaterial`). The forensic signs of a quarter become
  flags by the sign of its profit before tax (`Asks`).
- `Scoring` counts in tenths of a point and rounds down where the code rounds
  to one decimal; monotony is not affected, and `SizedToStop` allows for the
  rounding of the size.
- The prints of A5 (`ingest_fiidii`, `ingest_deals`) insert rows that nobody
  else writes, each once per day, and are not modelled. Surveillance rows are:
  they are never deleted, so that `FactsChange` only adds to them.

## Runs

Bounds are named constants of the modules. Where nothing else is said, a run
finishes in seconds and deadlock is checked.

| run | instance | shows |
|---|---|---|
| `bus_delivery` | 2 publishers whose transactions overlap but commit in id order (`InIdOrder`, an action constraint), 2 drains of one consumer name, batch 2 of at most 3, `MaxId` 4, event 2 poison, 1 crash, 1 replay while quiet | nothing is skipped; poison leaves evidence; the bus implements `EventDelivery` (a minute and a half) |
| `bus_liveness` | 1 drain per name, 2 crashes, 1 replay, fair loop | every committed event is settled, also behind a poison event; only the tail is redelivered |
| `bus_gap` | 2 publishers, commits in any order | *violated*: a lower id that commits later is skipped |
| `budget_shared` | 2 threads, 3 tokens a minute, threshold 2, cooldown 3 ticks, flights up to 2 ticks | rate, single probe, rest after a ban |
| `client_budget` | 1 thread, 3 attempts, a session that expires, backoff of a tick per attempt, NSE well again at some point | `get` reports every grant and always returns; the breaker closes once NSE answers |
| `feed_store` | 2 feeds, 2 items each, one of them without attachment and `seq_id`, window 1 so that items scroll out, midnights, 1 failing transaction, 1 `ms backfill`, 1 restart | a validator covers only what is stored as long as inserts commit; every announcement the API can key is stored, by the catch-up at the latest, unless it leaves the two days of the catch-up first; no feed starves (about two minutes) |
| `feed_validator` | window 2, 1 backfill | *violated*: the validator survives the rollback |
| `docs_queue` | 3 documents, two with one file and one barred, limit 2, 2 attempts of up to 2 requests, 1 `get` deferred after a request, 1 crash, 1 write error | bounded requests, backoff, `fetched` implies a file; every document settles unless one ahead of it is barred |
| `alerts_pipeline` | 5 filings of all severities, quota 1, 2 attempts, 2 faults, both channels | nothing material lost, pushes bounded but for faults; every material filing is alerted on or dead-lettered |
| `supervisor_day` | 3 days of which the outer 2 are trading days, 2 alerts, a digest that shows 1, 1 failure, any number of failing downloads, 1 restart with or without the host, which was up for 2 slots | digests, chain and master sync: once a day and life, a bhavcopy asked for until it is stored or midnight comes, no stage on another day's inputs, a master sync within a day of the last or of the boot, no high alert within a look-back left out unless a digest raises or newer ones fill it (two minutes) |
| `agents` | 3 nights of the default profile; 3 scored symbols at a limit of 2; 2 companies, 3 symbols and 2 renames; every text of up to 3 of 7 patterns in 3 feeds; 2 quarters on 2 bases, a revenue on each and 3 filings of which 1 misfiled; 4 days; 1 filing under 2 model versions at 4 moments; about sixteen thousand samples of the arithmetic | the twelve properties of the agents (three minutes) |
| `triage_floor` | the triage part of `agents` | *violated*: the model's category discards the rule's floor |

**What the agents' properties say.** `DefaultHeedsRisk`: when a night's chain is
through, the latest signal of the default profile heeds what A6 would find that
night. `LatestWithinHysteresis`: the stored row never strays from the latest
result by more than the hysteresis, in however small steps. `ScoresSound`: no
combination of absent and extreme measures takes a score out of its range, no
worse input makes a better score - one more bad filing as long as the limits of
the event axis leave room for it - and a position loses one per cent of the
capital at its stop. `PledgeNeverUnderread`: whichever unit a preparer used, a
pledge above the thresholds is noticed. `EveryPledgeChecked`, `RefreshStored`:
each live symbol gets its row, and a filing announced before NSE lists its
record is not forgotten. `KnownSymbolsResolve`, `HolidaysKept`: renames, missed
syncs, restarts and the turn of the year lose neither a symbol nor a holiday.
`AuditorAlwaysBlocks`: whatever else a text matches and whatever the model
says. `MisfilesNeverWin`: in whichever order originals, revisions and
cumulatives arrive, and misfiled up or down; it asks that for each right
document of the row most documents of the other quarters, of either basis,
misfiled ones included, have a revenue from 3/5 to 3 times its own. That is
what the guard can tell: a right 100 and a misfiled 1000 are as far from a
median of 550. `NoHindsight`, `PastReadsFixed`: no measurement opens before its
signal, no late row changes a past read, which depends on the model version
alone.

**Why the bounds are enough.** The faults these modules look for need two
actors and one fault. `MaxId` 4 lets a second, partial batch follow a full one.
`MaxCrashes`, `MaxResets`, `MaxRestarts`, `MaxBackfills`, `MaxFailures`,
`MaxWriteErrors` and `MaxFaults` are one or two: one to reach a state, a second
where a retry of the retry differs. `MaxItems` 2 with a window of 1 lets an
item scroll out. `MaxDocs` 3 with a limit of 2 leaves a document for the next
cycle, `Retries` 2 and `MaxAttempts` 2 (3 and 4 in the code) tell the first
request of a `get` from the last and the first rung from the last, and `Limit`
2 of 3 symbols does the same for the pledge pass. Five filings fill a quota of
one and go over it twice. Three days hold two working days and a closed one
between; a digest that shows one of two alerts can be crowded. Three nights let
a verdict, a score and a held row come from three different ones. Two renames
make a chain. Three filings of two quarters hold a misfile, its revision and a
quarter to compare them with, on the same basis or the other; that a minority
of misfiles does not move the median takes four filings or more, and that
revenues vary, more of them: both are the theorem's. Each read as of a moment
is per filing, so that one filing and two versions suffice. `OwnLimit` 2 and
`PeerLimit` 1 (10 and 8) are less than the three events of a day. Four days
hold a signal, a gap and the longer window. Counters that only measure
(`meter`, `sinceAuth`, `sinceOpened`, `accrued`) stop at the value beyond which
the code no longer tells them apart. The proofs take the bounds away where it
matters most.

`CHECK_DEADLOCK FALSE` is said for `supervisor_day`, whose calendar ends on the
last day, and for `agents` and `triage_floor`, whose parts end when their
filings, days or moments do.

## Fairness

The supervisor loops for ever and each iteration drains every consumer, polls
what is due and drains documents (`supervisor.py:95-124`); an exception in a
component is caught by `_record_run`. Weak fairness of the drain step, the
thread step, the poll step and the clock follows. The chain of each trading
night runs the pledge pass (`supervisor.py:215`), hence the weak fairness of
`PledgeStep`; that of `RecordListed` says that NSE lists what was filed. No
fairness is assumed of a publisher, of a fault, or of a handler's success.

Strong fairness stands for the world in four places, each where an action is
enabled again and again and disabled in between:

- NSE does not defer one kind of work for ever: `PollBody` of a feed, the
  catch-up, `Answer` for a document that is not `Barred`. The budget refuses
  only until the bucket refills or the breaker has rested, and `client_budget`
  shows it does. Of a barred document each `get` may end deferred: its answers
  open the breaker.
- `Pass` in `NSEClient`: time goes on between two `get`s.
- `GetStart("archives")`: the loop asks again and not only for hosts that
  need cookies.
- `StartPass` and `CatchUpFetch` in `FeedIngest`: one thread takes turns.

A crash and a restart are bounded in every liveness run: a process that dies
before each commit stores nothing, and nothing in the code prevents that.

## Proofs

| theorem | of | from |
|---|---|---|
| `BusSafety`, `BusEvidence` | `NoEventSkipped` and `PoisonLeavesEvidence` always hold | `CommitsInOrder`, no live resets |
| `BusImplementsDelivery` | `Spec => DeliverySpec` | the same |
| `BusRedeliversTail` | `OnlyTailRedelivered` always holds, with overlapping publishers and live resets too | `OneDrainPerName` |
| `BudgetRate`, `BudgetSingleProbe`, `BudgetRests` | the rate bound, one probe, the rest after a ban | the constants' assumptions, as all that follow |
| `ClientRate`, `ClientLands` | the rate bound is the client's too, bootstraps and retries included; a grant is reported before `get` sleeps or returns | |
| `QueueStores`, `QueueBoundsRequests`, `QueueHonoursBackoff` | a `fetched` row has a file; requests per document are bounded by the rungs, crashes, write errors and deferred `get`s; backoff is honoured | |
| `ValidatorsCovered` | `ValidatorCoversCommitted` | |
| `PipelineLosesNothing`, `PushesWithinQuota` | `NothingMaterialLost`, `PushesBounded` | |
| `PipelineDelivers` | `Spec => DeliveredInOrder`: A2 and A8 each see the delivery of `EventDelivery` | |
| `PricesAskedFor`, `StancesFresh`, `MasterTried` | the three invariants of the loop's daily jobs | |
| `DigestsComplete` | `OverflowDigested` | |
| `LoopImplementsDailyJobs` | `Spec => DailyJobs`: digests and chain implement `DailyJob` | |
| `DefaultHeeds`, `WithinHysteresis` | the two invariants of `Fusion` | |
| `AuditorBlocks` | `AuditorAlwaysBlocks` | |
| `ScoringCorrect`, `PledgeRead` | `ScoresSound`, `PledgeNeverUnderread` | |
| `PastReads` | `PastReadsFixed`, a property of steps | |
| `LoadedRight` | `MisfilesNeverWin`, a property of steps | `Steady` |
| `SymbolsResolve` | `KnownSymbolsResolve` | |
| `HolidaysStay`, `MeasuredHonestly` | `HolidaysKept`, `NoHindsight` | |
| `BusTypes`, `BudgetTypes`, `QueueTypes`, `PipelineTypes`, `PitTypes` | the type invariants; those of the other modules are part of the invariants above | |

`CommitsInOrder` says that of two open transactions the one with the lower ids
commits first, which is so if one process publishes or if transactions do not
overlap, and `LiveResets = FALSE` that replays wait for drains to end. Both are
needed: `bus_gap` is the counterexample without the first, and one publisher
with `LiveResets = TRUE` without the second. The code enforces neither, so the
theorem says exactly under which operating rule the bus keeps its promise.
`OneDrainPerName` says that no two processes drain under one consumer name:
with two, the slower one holds events the other has acknowledged. `Steady` says
that a company's revenues on one basis differ by a factor of at most five and a
misfiled one, up or down, by more than five from all of them, which is what the
guard's constant takes for granted (`agents/a3_fundamental/loader.py:94`);
`MC_Agents` has TLC evaluate it for the instance of the run.

**The bus.** `NoEventSkipped` alone is not inductive: the step that writes the
offset could hide an event if the batch had left one out. `BusInvariant` adds
that ids appear in order (`IdsInOrder`), that a fetched batch covers each
unsettled event below any of its members (`BatchCovers`), that the head is
settled by the time of its acknowledgement (`HeadSettled`), that a settled
poison event has its dead letter (`PoisonSettledDead`), and that an idle drain
holds nothing (`IdleEmpty`). Two drains of one name are allowed: each may move
the offset back, and redelivery is all that follows.

**The budget.** The rate follows from `MeterMatchesBucket`: the meter an
observer would keep and the tokens together never exceed the bucket. The rest
after a ban needs `OpenIffBurned` and `OldFlights`: a flight that took off
before the breaker opened lands within `MaxFlight`, which is less than the
cooldown (120 s against 300 s), so no late answer of the old epoch meets the
probe.

**The client.** Each step of the client is a budget action conjoined with
changes to its own variables, by the way the module is written, so the budget's
theorems carry over (`ClientUsesBudget`). What the client itself adds is that
no path of `get` keeps a grant to itself: `EveryFlightLands` says where in
`get` a flight may be out.

**The feeds.** As long as nothing failed and no other process wrote, the
ingest thread is the only writer, so that what it found missing when it fetched
is missing still when it inserts (`OneWriter`) and what it did not find missing
is stored, because a key names its item (`KeysNameItems`); `BodyAtHand` says
that of the feed being inserted.

**The queue.** `RungsAccounted` ties the requests counted to the `get`s in
`attempts`, in the crash or write error that lost one, and in those that ended
deferred after a request; `FileOpened` says that the path of a document about to
be committed exists; `CycleIsDue` that a cycle holds only documents that were
due.

**The pipeline.** The invariant follows each filing: what is behind the first
offset is classified or dead, what is classified is in the stream the second
consumer reads, and what is behind the second offset was settled there. An
offset moves by one and only at an acknowledgement, so both streams are
delivered as `EventDelivery` says, which is what `BusImplementsDelivery` shows
of the bus. For the quota, a push whose row is not committed is the one in hand
or cost a fault, and those committed were fewer than the quota when the last
was sent.

**The loop.** `AskedUntilKept` needs that a marked day is a stored day and that
no slot passes over a due chain whose prices nobody asked for;
`StancesOnFreshInputs` that within the chain the stages before the present one
have today's date and those behind it do not have a later one. For the
refinement each job's count is tied to its mark: a job done today in this life
has a count at most the lives, one not done less. `OverflowDigested` holds
because every digest whose slot is over has been sent unless one is `missed`
(`DigestsSent`), a digest of a trading day looks back at the alert's slot, and
what it did not show had as many newer alerts as it shows.

**Fusion.** `DefaultHeedsRisk` turns on an arithmetic fact: in the default
profile two of A3, A4 and A5 cover the floor of 40, so that a signal is fused
each night once two agents have scored, and all those symbols are assessed the
same night. In the short profile A3 weighs nothing and the same fails.

**Scoring.** Each part of a score is bounded and monotone in its measure; a
part that cannot be taken leaves with its weight, which a division rounds. The
points of flags and of event rows are sums over sets. What such a sum is for
every set follows from a smallest counterexample, with the library's theorem
that `<` on the naturals is well-founded (`Least`, `Smallest`, `SumsExist`,
`SumsTake`): a sum exists, is unique and takes its elements in any order.

**Triage.** A text of a resigning auditor that is neither routine nor settled
by its feed meets a rule of the highest materiality whatever else it matches,
and no reply of a model is asked for a final rule's hit (`AuditorFinal`).

**The master.** A symbol that was in use is free only for who had it, so there
is a map from the symbols in use to their owners which the rows, the aliases,
the rename history and all that was ever known agree with
(`SymbolsOwned`, `TablesOwned`); a list, row by row (`UpsertSound`), keeps it so
and keeps every symbol in the row or among the aliases, or ends with an error
and is not committed. The theorem does not need `MayReturn = FALSE`.

**The misfile guard.** If most documents have a revenue in a range, so has
their median (`MedianWithin`). What is misfiled is more than five times as much
as each right number of its row, or less than a fifth (`Bounds`), and so
farther from a median between 3/5 and 3 times of it: of a right and a misfiled
document the guard keeps the right one whichever is older (`GuardTells`), and
from the first right one on it keeps one (`DedupedRight`).

**Records.** `PastReadsFixed` holds because a row drawn before a moment either
has committed or is an open transaction of that moment, and because what a live
read saw is kept for its version whatever is released since (`SeenStays`);
`NoHindsight` because a measured row is never rewritten and the first bar on or
after the signal only becomes earlier as bars are added, never earlier than the
signal.

Only model-checked is liveness: `EveryEventSettles`, `BreakerRecovers`,
`GetReturns`, `EveryAnnouncementStored`, `NoFeedStarves`,
`EveryDocumentSettles`, `MaterialAlerted`, `EveryPledgeChecked` and
`RefreshStored`. It takes fairness, and so `ENABLED`, which the prover does not
reason about. The library's induction theorems cannot be used either, since
they take an operator; where a proof needs induction over data - a sum, a list
of companies, the documents on the disk - it argues from a least
counterexample.

## Findings

Three runs end in a counterexample; `PROJECT.json` quotes the line of the
repository that says otherwise.

1. `bus_gap`: outbox ids are drawn at flush and visible at commit, so a
   publisher that commits late (`ms backfill` next to `ingest`) loses events.
2. `feed_validator`: the ETag is kept though the insert was rolled back, so the
   next poll is a 304 over filings that are not in the table.
3. `triage_floor`: the rule's floor does not survive a confident model that
   prefers another category.

The modules define more properties which the repository's words claim and which
do not hold; each fails when it is named in the cfg of its module's run.

- `FetchedIsWhole` (`docs_queue`): a write that stops half way leaves a
  truncated file, which the next cycle takes for the stored body
  (`agents/a1_ingestion/documents.py:126`).
- `DeepQueueSparesLocal` (`agents`): the retry after an invalid reply drops
  `prefer_online` and may call the slow local model (`llm/client.py:187`,
  against `:112`).
- `ReplayIsLive` (`agents`): a release with a new model version sees none of
  the classifications of the old one, and its own are of a later time than any
  past moment, so that every past read loses what the live one saw
  (`db/pit.py:85`, against `:73-74`). Within a version a classification's
  transaction stays open while the model is asked, so that a replay as of a
  moment in between also sees a row the live read did not.
- `ExcessOverSameDays` (`agents`): stock and index count their own bars; with a
  day missing in one, the excess compares different days
  (`performance/tracker.py:71`, against `:5`).
- `BacktestEntersAsLive` (`agents`): the backtest enters at the close it
  decided on, the live record at the next (`backtest/walkforward.py:83`).
- `RevisionWins` (`agents`): a backfilled original gets the higher
  `Document.id` and replaces its revision
  (`agents/a3_fundamental/loader.py:81-82`).
- `RightMedianSuffices` (`agents`): a misfiled number wins though all documents
  of the other quarters are right. The median mixes the bases: between a right
  50 and a misfiled 500 a consolidated 1000 decides for the latter. And a
  number misfiled downwards may be nearer to it: right 1000, misfiled 62,
  median 200 (`agents/a3_fundamental/loader.py:95-101`, against `:90-91`).
- `PastSymbolsResolve` (`agents`): of a chain of renames before the first sync
  only the last old symbol becomes an alias
  (`universe/securities_master.py:193`, against `:163-169`).
- `ShortHeedsRisk` (`agents`, with the short profile): with A3 and A4 alone the
  short profile covers 35 of 40, nothing is fused, and the last signal before
  a veto stands (`agents/a7_fusion/engine.py:72`, against `:12`).
- `NoDayMissed` (`supervisor_day`): if the downloads are deferred, refused or
  raise until midnight, today is another day and no pass asks for the old one
  (`supervisor.py:171-177`, against `:188-189`). `AskedUntilKept` is what is
  left: a day is not given up before.

Others are visible in the condition a property carries, or follow from changing
an instance as said.

- A replay during a drain is undone by the drain's acknowledgement: with
  `LiveResets = TRUE`, `NoEventSkipped` fails (`bus/outbox.py:136`).
- A half-open `acquire` that finds no token leaves the probe flag up for ever
  (`net/budget.py:77`): with `PerMinute = 3`, `TicksPerMinute = 6`,
  `Cooldown = 6`, `SessionMaxAge = 7`, `BreakerRecovers` fails. Failing probes
  must outrun the refill; at the default 30 a minute they do not.
- A refused cookie bootstrap is taken for a transport error
  (`net/nse_client.py:172`): `BootstrapRefused` retries, and `get` may report
  "exhausted" without a request for its url. The docstring at
  `net/nse_client.py:55-59` calls that "deferred".
- The bootstrap request has no audit record (`net/nse_client.py:112`, against
  `:24`).
- Only announcements have a catch-up (`supervisor.py:138`, against `:33-36`):
  `EveryAnnouncementStored` is not true of the other feeds.
- An announcement without attachment gets one key from RSS and another from the
  API (`agents/a1_ingestion/backfill.py:105`, against `:11-13`).
- The hourly quota counts rows that Telegram accepted
  (`agents/a8_alerts/engine.py:184`, against `:14`): `PushesBounded` needs
  `TelegramOn`, and the webhook alone is not limited.
- A crash between push and commit sends a message twice and logs it once
  (`agents/a8_alerts/engine.py:200`).
- An alert of Friday evening is in no digest, since Monday's looks back 20
  hours, and one that newer alerts crowd out of the text is in none either
  (`agents/a8_alerts/engine.py:264`, `:278`, against `:14-16`, `:262-263`):
  `OverflowDigested` asks `Timely` and not `Crowded`.
- A digest or a stage of the chain that raises is not tried again that day
  (`supervisor.py:153`, `:192`); a database error in `_record_run` itself, which
  "never raises", ends the process (`supervisor.py:49`).
- On a host that has been up for less than a day the first master sync waits
  for the rest of it, though `supervisor.py:98-99` says it runs immediately.
  A reboot restarts `time.monotonic` and so the wait: nearly two days can lie
  between two syncs, and a host booted every day is never synced.
  `MasterTriedDaily` says a day from the last sync or the last boot.
- A bhavcopy that appears after midnight is never ingested by the loop.
- A document whose URL always answers 401 or 403 may end deferred each time,
  which counts no attempt and ends the cycle, so that it heads the queue for
  ever and the documents behind it wait; its requests are not bounded by the
  ladder (`agents/a1_ingestion/documents.py:80-86`,
  `net/nse_client.py:147-151`, `:182-187`). `EveryDocumentSettles` asks that no
  barred document be ahead, `LadderBoundsRequests` counts the deferred `get`s.
- The catch-up asks for yesterday and today (`supervisor.py:141`,
  `agents/a1_ingestion/backfill.py:59-65`): what scrolls out of the RSS file
  during a longer outage is stored by `ms backfill` or not at all. It refuses a
  row without attachment and `seq_id` (`:106-107`).
- Of more than ten filings of a company, or eight of its peers, the most
  material are read: one more mildly bad one of higher materiality displaces a
  very bad one and raises the score (`agents/a7_fusion/engine.py:107-108`,
  `:170-171`). A profit that turns into a loss sheds the flags that are shares
  of it, which may outweigh the flag of the loss
  (`agents/a3_fundamental/engine.py:108-120`). `WorseNeverHelps` leaves both
  out.
- A quarter without a broadcast time shows in the backtest 45 days after its
  end, whether it had been broadcast or not, and a revision moves the time of
  its row, so that a past read loses the quarter
  (`backtest/walkforward.py:77`, against `:20-21`).
- The name-change file may bring an old name before the equity list shows the
  new one; when it does, the sync adds the same alias without a look at those
  it has and fails on the unique key, each day again
  (`universe/securities_master.py:114-116`, `:212-222`). `SecuritiesMaster`
  keeps no names: the aliases of the rename history follow the symbols.
- An A7 row is compared with the stored one, so `_latest_scores` may pick any
  of several A3 rows of one quarter (`agents/a7_fusion/engine.py:193`).
- Surveillance rows are never closed: a company once in GSM stays blocked
  (`agents/a6_risk/engine.py:68`).
- A symbol renamed back takes an alias it has already and wedges the whole
  sync, holidays included (`universe/securities_master.py:101`): with
  `MayReturn = TRUE` and `MaxRenames = 3` a sync may
  find no order of the lists in which it ends.
- A declared holiday that NSE withdraws stays (`core/clock.py:157`).
- A pledge row stored between the announcement of a new record and its listing
  postdates the announcement, and the new record waits for the next quarter
  (`agents/a6_risk/pledge.py:210`): `RefreshStored` asks that the row be
  current. A second "none" meets the unique key every night (`:160`). Stuck
  symbols that fill the limit starve the rest: `EveryPledgeChecked` asks that
  they leave room.
- The misfile guard needs another quarter, and revenues more than five times
  apart; chains of smaller steps, a majority of misfiled quarters and a missing
  revenue pass it (`agents/a3_fundamental/loader.py:88-102`).
- With own events saturated, the double clamp lets a peer's event move the axis
  when an own one no longer does (`agents/a7_fusion/engine.py:344`).
- A text with a routine phrase is routine even if an auditor resigns in it
  (`agents/a2_docintel/taxonomy.py:272`): `AuditorAlwaysBlocks` excludes it.

## Plan

Done: the spine from NSE to the phone, the daily jobs of the supervisor, and
the agents from documents and prices to the signal and its record.

What is left, in the order of its worth:

1. A composition of `EventBus` and `AlertPipeline`, the latter shown to hold on
   the former's steps instead of its promise.
2. `Triage` in place of `Severity` in `AlertPipeline`.
3. The signal consumer of A8 and the nightly event `signal.issued`.

## Not modelled

PDF text extraction and the context search in XBRL are string matching. The
indicators of A4 (averages, RSI, ATR, ADX) and the ratios of A3 are numeric
series without order or concurrency; `Scoring` takes them as inputs. So are the
price thresholds of A6. The thesis text, the confidence and the labels of
scores decide nothing. The backtest keeps no state: which quarters it reads is
one comparison of times, and its aggregation and the tracker's are one pass of
averages. The session states of `core/clock.py` depend on the time of day alone
and are read by the poller's cadence, which `FeedIngest` leaves open, and by
the API. The HTTP API only reads. The models of the schema are declarations:
their defaults and unique keys are part of the modules whose tables they
constrain. Migrations, configuration and logging hold no behaviour. The
screener import and the evaluation scripts run by hand.
