----------------------------- MODULE FeedIngest -----------------------------
(***************************************************************************)
(* A1: the RSS poller, the hourly API catch-up of the same thread, and a   *)
(* `ms backfill` run from another process, all writing the filings table   *)
(* (marketsense/agents/a1_ingestion/poller.py and backfill.py).            *)
(*                                                                         *)
(* The n-th disclosure of feed f is <<f, n>>.  A feed's RSS file shows its *)
(* newest Window disclosures, and its ETag changes with each of them.      *)
(***************************************************************************)
EXTENDS Integers, Sequences, SequencesExt

CONSTANTS
  FeedOrder,        \* FEEDS, in the order a pass polls them
  ApiFeed,          \* "announcements": the feed the JSON API also serves
  Attached,         \* disclosures that carry an attachment URL
  Numbered,         \* disclosures to which the API gives a seq_id
  Window,           \* items an RSS file holds
  MaxItems,         \* bound: disclosures per feed
  MaxFailures,      \* bound: transactions that fail for reasons of their own
  MaxBackfills,     \* bound: runs of ms backfill
  MaxRestarts       \* bound: restarts of the ingest process

Feeds == Range(FeedOrder)
Items == Feeds \X (1..MaxItems)

ASSUME FeedAssumption ==
  /\ FeedOrder \in Seq(Feeds)
  /\ ApiFeed \in Feeds
  /\ Attached \subseteq Items
  /\ Numbered \subseteq Items
  /\ Window \in Nat \ {0}
  /\ MaxItems \in Nat
  /\ MaxFailures \in Nat
  /\ MaxBackfills \in Nat
  /\ MaxRestarts \in Nat

VARIABLES
  broadcast,    \* [Feeds -> disclosures NSE has published]
  aged,         \* announcements published before yesterday: 1..aged
  rows,         \* committed filings, as [item, key, by] records
  validator,    \* [Feeds -> version of the ETag held in memory, or None]
  due,          \* feeds whose _next_due has passed
  queue,        \* feeds still to poll in this run_pass
  pc,           \* where the ingest thread is
  todo,         \* rows its open transaction is about to insert
  cliPc,        \* where ms backfill is
  cliTodo,      \* rows the transaction of ms backfill is about to insert
  failures, backfills, restarts

threadVars == <<validator, due, queue, pc, todo>>
cliVars == <<cliPc, cliTodo, backfills>>
vars == <<broadcast, aged, rows, threadVars, cliVars, failures, restarts>>

None == -1

Init ==
  /\ broadcast = [f \in Feeds |-> 0]
  /\ aged = 0
  /\ rows = {}
  /\ validator = [f \in Feeds |-> None]
  /\ due = Feeds
  /\ queue = <<>>
  /\ pc = "idle"
  /\ todo = {}
  /\ cliPc = "idle"
  /\ cliTodo = {}
  /\ failures = 0
  /\ backfills = 0
  /\ restarts = 0

-----------------------------------------------------------------------------
(* Natural keys and the two dedup checks.                                   *)

\* A row is told from its double by the process that wrote it.
RssRow(i) ==
  [item |-> i, by |-> "ingest",
   key |-> <<IF i \in Attached THEN "url" ELSE "hash", i>>]
ApiRow(i, process) ==
  [item |-> i, by |-> process,
   key |-> <<IF i \in Attached THEN "url" ELSE "seq", i>>]

Keys(R) == {r.key : r \in R}

\* The select before each insert: only rows whose key is not stored yet.
Unseen(R) == {r \in R : r.key \notin Keys(rows)}

\* The unique indexes of the filings table refuse the transaction.
Conflicts(R) == Keys(R) \cap Keys(rows) # {}

Shown(f, v) == {<<f, n>> : n \in {k \in 1..v : k > v - Window}}

\* Fault: the API is asked for no more than the RSS file shows.
ApiShowsWindow(from) == {i \in Shown(ApiFeed, broadcast[ApiFeed]) : i[2] > from}

\* The announcements the API lists, but for the oldest ones.
ApiShows(from) == {<<ApiFeed, n>> : n \in (from + 1)..broadcast[ApiFeed]}

\* The catch-up asks for yesterday and today, ms backfill for what it is told
\* to; a row with neither attachment nor seq_id is refused.
ApiRows(process) ==
  {ApiRow(i, process) :
     i \in ApiShows(IF process = "ingest" THEN aged ELSE 0) \cap (Attached \cup Numbered)}

-----------------------------------------------------------------------------
(* NSE and the clock.                                                       *)

Broadcast(f) ==
  /\ broadcast[f] < MaxItems
  /\ broadcast' = [broadcast EXCEPT ![f] = @ + 1]
  /\ UNCHANGED <<aged, rows, threadVars, cliVars, failures, restarts>>

\* Midnight: announcements leave the two days the catch-up asks for.
DaysPass ==
  /\ aged' \in (aged + 1)..broadcast[ApiFeed]
  /\ UNCHANGED <<broadcast, rows, threadVars, cliVars, failures, restarts>>

BecomeDue(f) ==
  /\ f \notin due
  /\ due' = due \cup {f}
  /\ UNCHANGED <<broadcast, aged, rows, validator, queue, pc, todo, cliVars, failures, restarts>>

-----------------------------------------------------------------------------
(* run_pass and poll_feed.                                                  *)

StartPass ==
  /\ pc = "idle"
  /\ due # {}
  /\ queue' = SelectSeq(FeedOrder, LAMBDA f : f \in due)
  /\ pc' = "poll"
  /\ UNCHANGED <<broadcast, aged, rows, validator, due, todo, cliVars, failures, restarts>>

\* _reschedule and on to the next feed of the pass.
PollDone ==
  /\ due' = due \ {Head(queue)}
  /\ queue' = Tail(queue)
  /\ pc' = IF Len(queue) = 1 THEN "idle" ELSE "poll"

\* Fault: a refused feed is not rescheduled.
SkippedStaysDue ==
  /\ pc = "poll"
  /\ queue' = Tail(queue)
  /\ pc' = IF Len(queue) = 1 THEN "idle" ELSE "poll"
  /\ UNCHANGED <<broadcast, aged, rows, validator, due, todo, cliVars, failures, restarts>>

\* NSEUnavailable, or a 304.
PollSkipped ==
  /\ pc = "poll"
  /\ PollDone
  /\ UNCHANGED <<broadcast, aged, rows, validator, todo, cliVars, failures, restarts>>

\* A 200: get() stores the new validators before it returns the body.
PollBody ==
  /\ pc = "poll"
  /\ LET f == Head(queue) IN
       /\ validator[f] # broadcast[f]
       /\ validator' = [validator EXCEPT ![f] = broadcast[f]]
       /\ todo' = Unseen({RssRow(i) : i \in Shown(f, broadcast[f])})
  /\ pc' = "insert"
  /\ UNCHANGED <<broadcast, aged, rows, due, queue, cliVars, failures, restarts>>

InsertCommits ==
  /\ pc = "insert"
  /\ ~Conflicts(todo)
  /\ rows' = rows \cup todo
  /\ todo' = {}
  /\ PollDone
  /\ UNCHANGED <<broadcast, aged, validator, cliVars, failures, restarts>>

\* A conflict, or a failure of its own: parse, DataError, lost connection.
Fails(R) ==
  \/ Conflicts(R) /\ UNCHANGED failures
  \/ failures < MaxFailures /\ failures' = failures + 1

\* The exception leaves poll_feed and ends the whole pass; nothing is
\* rescheduled.
InsertRaises ==
  /\ pc = "insert"
  /\ Fails(todo)
  /\ todo' = {}
  /\ queue' = <<>>
  /\ pc' = "idle"
  /\ UNCHANGED <<broadcast, aged, rows, validator, due, cliVars, restarts>>

-----------------------------------------------------------------------------
(* backfill_announcements, as the hourly catch-up and as ms backfill.  A    *)
(* window that NSE refuses changes nothing and is not an action.            *)

CatchUpFetch ==
  /\ pc = "idle"
  /\ todo' = Unseen(ApiRows("ingest"))
  /\ pc' = "catchup"
  /\ UNCHANGED <<broadcast, aged, rows, validator, due, queue, cliVars, failures, restarts>>

CatchUpCommits ==
  /\ pc = "catchup"
  /\ ~Conflicts(todo)
  /\ rows' = rows \cup todo
  /\ todo' = {}
  /\ pc' = "idle"
  /\ UNCHANGED <<broadcast, aged, validator, due, queue, cliVars, failures, restarts>>

CatchUpRaises ==
  /\ pc = "catchup"
  /\ Fails(todo)
  /\ todo' = {}
  /\ pc' = "idle"
  /\ UNCHANGED <<broadcast, aged, rows, validator, due, queue, cliVars, restarts>>

CliFetch ==
  /\ cliPc = "idle"
  /\ backfills < MaxBackfills
  /\ backfills' = backfills + 1
  /\ cliTodo' = Unseen(ApiRows("cli"))
  /\ cliPc' = "insert"
  /\ UNCHANGED <<broadcast, aged, rows, threadVars, failures, restarts>>

\* Its transaction commits, or dies on a key the ingest thread took.
CliEnds ==
  /\ cliPc = "insert"
  /\ rows' = IF Conflicts(cliTodo) THEN rows ELSE rows \cup cliTodo
  /\ cliTodo' = {}
  /\ cliPc' = "idle"
  /\ UNCHANGED <<broadcast, aged, threadVars, backfills, failures, restarts>>

-----------------------------------------------------------------------------
\* Fault: the validators outlive the process.
RestartKeepsValidators ==
  /\ restarts < MaxRestarts
  /\ restarts' = restarts + 1
  /\ due' = Feeds
  /\ queue' = <<>>
  /\ pc' = "idle"
  /\ todo' = {}
  /\ UNCHANGED <<broadcast, aged, rows, validator, cliVars, failures>>

\* The ingest process dies and starts again: memory is gone, every feed is due.
Restart ==
  /\ restarts < MaxRestarts
  /\ restarts' = restarts + 1
  /\ validator' = [f \in Feeds |-> None]
  /\ due' = Feeds
  /\ queue' = <<>>
  /\ pc' = "idle"
  /\ todo' = {}
  /\ UNCHANGED <<broadcast, aged, rows, cliVars, failures>>

CatchUpEnds == CatchUpCommits \/ CatchUpRaises
PollStep == PollSkipped \/ PollBody \/ InsertCommits \/ InsertRaises

Next ==
  \/ \E f \in Feeds : Broadcast(f) \/ BecomeDue(f)
  \/ DaysPass
  \/ StartPass \/ PollStep
  \/ CatchUpFetch \/ CatchUpEnds
  \/ CliFetch \/ CliEnds
  \/ Restart

Spec == Init /\ [][Next]_vars

\* The supervisor loop gives the poller and the hourly catch-up their turn
\* again and again (supervisor.py:104, 116-118), schedules come due, and NSE
\* serves every feed and the API now and then.
FairSpec ==
  /\ Spec
  /\ WF_vars(PollStep) /\ WF_vars(CatchUpEnds)
  /\ SF_vars(StartPass) /\ SF_vars(CatchUpFetch)
  /\ \A f \in Feeds : WF_vars(BecomeDue(f))
  /\ \A f \in Feeds : SF_vars(PollBody /\ Head(queue) = f)

-----------------------------------------------------------------------------
TypeOK ==
  /\ broadcast \in [Feeds -> 0..MaxItems]
  /\ aged \in 0..broadcast[ApiFeed]
  /\ rows \subseteq {RssRow(i) : i \in Items}
             \cup {ApiRow(i, p) : i \in Items, p \in {"ingest", "cli"}}
  /\ pc \in {"idle", "poll"} => todo = {}
  /\ cliPc = "idle" => cliTodo = {}
  /\ validator \in [Feeds -> None..MaxItems]
  /\ due \subseteq Feeds
  /\ queue \in Seq(Feeds)
  /\ pc \in {"poll", "insert"} <=> queue # <<>>
  /\ pc \in {"idle", "poll", "insert", "catchup"}
  /\ cliPc \in {"idle", "insert"}

Stored == {r.item : r \in rows}

\* "304 - content is empty, use your cache" (nse_client.py:78): when the held
\* validator will make NSE answer 304, the table already has what it covers.
ValidatorCoversStored ==
  \A f \in Feeds :
    validator[f] # None /\ ~(pc = "insert" /\ Head(queue) = f) =>
      Shown(f, validator[f]) \subseteq Stored

\* It holds as long as every insert commits, whatever restarts come between a
\* fetch and its commit.
ValidatorCoversCommitted == failures = 0 /\ backfills = 0 => ValidatorCoversStored

\* The catch-up closes the RSS gap: every announcement that the API can key is
\* stored in the end, however it scrolled by, collided with a backfill or met
\* a failing insert, unless the two days of the catch-up pass first.
EveryAnnouncementStored ==
  \A n \in 1..MaxItems :
    <<ApiFeed, n>> \in Attached \cup Numbered =>
      (broadcast[ApiFeed] >= n ~> <<ApiFeed, n>> \in Stored \/ n <= aged)

\* No feed stays due for ever: an exception in one feed's poll does not starve
\* the feeds behind it.
NoFeedStarves == \A f \in Feeds : f \in due ~> f \notin due
=============================================================================
