----------------------------- MODULE PledgeSync -----------------------------
(***************************************************************************)
(* The nightly pledge refresh (agents/a6_risk/pledge.py): which symbols it *)
(* asks NSE about, and what their answers leave in promoter_pledge.        *)
(*                                                                         *)
(* A record is a shareholding-pattern submission, numbered as NSE lists    *)
(* them; record 0 stands for "none usable".  What the instance says        *)
(* (parse_shp_xbrl) is in Scoring; here a record is readable or not.       *)
(***************************************************************************)
EXTENDS Integers, FiniteSets, Sequences, SequencesExt

CONSTANTS
  Symbols,          \* scored symbols
  Listed,           \* those with a usable record from the start
  Dead,             \* those whose requests always fail (404)
  Active,           \* those that may have encumbrance or Reg-31 filings
  Limit,            \* symbols per pass
  MaxRecords,       \* bound: records per symbol
  MaxStops          \* bound: passes cut short

ASSUME PledgeAssumption ==
  /\ Listed \cup Dead \cup Active \subseteq Symbols
  /\ Limit \in Nat \ {0}
  /\ MaxRecords \in Nat
  /\ MaxStops \in Nat

VARIABLES
  listed,       \* [Symbols -> newest usable record in NSE's answer]
  filings,      \* [Symbols -> shareholding-pattern filings announced, not yet listed]
  activity,     \* symbols with encumbrance or Reg-31 filings
  records,      \* [Symbols -> record ids in promoter_pledge]
  newer,        \* symbols whose newest shareholding filing postdates their row
  todo,         \* the rest of the pass, a sequence
  stops

pledgeVars == <<listed, filings, activity, records, newer, todo, stops>>

PledgeInit ==
  /\ listed = [s \in Symbols |-> IF s \in Listed THEN 1 ELSE 0]
  /\ filings = [s \in Symbols |-> 0]
  /\ activity = {}
  /\ records = [s \in Symbols |-> {}]
  /\ newer = {}
  /\ todo = <<>>
  /\ stops = 0

-----------------------------------------------------------------------------
\* NSE's side.  The feed announces a filing; its record may be listed later.
FilingSeen(s) ==
  /\ listed[s] + filings[s] < MaxRecords
  /\ filings' = [filings EXCEPT ![s] = @ + 1]
  /\ newer' = newer \cup {s}
  /\ UNCHANGED <<listed, activity, records, todo, stops>>

RecordListed(s) ==
  /\ filings[s] > 0
  /\ filings' = [filings EXCEPT ![s] = @ - 1]
  /\ listed' = [listed EXCEPT ![s] = @ + 1]
  /\ UNCHANGED <<activity, records, newer, todo, stops>>

ActivitySeen(s) ==
  /\ s \in Active
  /\ activity' = activity \cup {s}
  /\ UNCHANGED <<listed, filings, records, newer, todo, stops>>

-----------------------------------------------------------------------------
\* pending_symbols: activity without a row, then the quarterly refresh, then
\* the cold start; the database gives each list in an order of its own.
HasRow(s) == records[s] # {}

Rank(s) ==
  CASE s \in activity /\ ~HasRow(s) -> 1
    [] s \in newer -> 2
    [] OTHER -> 3

Pending == newer \cup {s \in Symbols : ~HasRow(s)}

InPriorityOrder(q) == \A i, j \in DOMAIN q : i < j => Rank(q[i]) <= Rank(q[j])

StartPledgePass ==
  /\ todo = <<>>
  /\ Pending # {}
  /\ \E q \in SetToSeqs(Pending) :
       InPriorityOrder(q) /\ todo' = SubSeq(q, 1, IF Limit < Len(q) THEN Limit ELSE Len(q))
  /\ UNCHANGED <<listed, filings, activity, records, newer, stops>>

\* A row is added: it postdates every filing seen so far.
Store(s, record) ==
  /\ records' = [records EXCEPT ![s] = @ \cup {record}]
  /\ newer' = newer \ {s}

\* sync_symbol, then the commit: "stored" or "unparseable".
SyncStores ==
  /\ todo # <<>>
  /\ LET s == Head(todo)
     IN  /\ s \notin Dead
         /\ listed[s] # 0 /\ listed[s] \notin records[s]
         /\ Store(s, listed[s])
  /\ todo' = Tail(todo)
  /\ UNCHANGED <<listed, filings, activity, stops>>

\* Fault: an unchanged answer counts as a refresh.
DupRefreshes ==
  /\ todo # <<>>
  /\ LET s == Head(todo)
     IN  s \notin Dead /\ listed[s] # 0 /\ listed[s] \in records[s] /\ newer' = newer \ {s}
  /\ todo' = Tail(todo)
  /\ UNCHANGED <<listed, filings, activity, records, stops>>

\* "dup": the row keeps its observed_at, so the symbol stays pending.
SyncDup ==
  /\ todo # <<>>
  /\ LET s == Head(todo)
     IN  s \notin Dead /\ listed[s] # 0 /\ listed[s] \in records[s]
  /\ todo' = Tail(todo)
  /\ UNCHANGED <<listed, filings, activity, records, newer, stops>>

\* "no_shp": a sentinel, which the unique key refuses the second time.
SyncSentinel ==
  /\ todo # <<>>
  /\ LET s == Head(todo)
     IN  /\ s \notin Dead
         /\ listed[s] = 0
         /\ IF 0 \in records[s] THEN UNCHANGED <<records, newer>> ELSE Store(s, 0)
  /\ todo' = Tail(todo)
  /\ UNCHANGED <<listed, filings, activity, stops>>

\* Fault: the failing symbol is tried again.
SkippedAgain ==
  /\ todo # <<>>
  /\ Head(todo) \in Dead
  /\ UNCHANGED pledgeVars

\* A 404 skips the symbol, without a row.
SyncSkipped ==
  /\ todo # <<>>
  /\ Head(todo) \in Dead
  /\ todo' = Tail(todo)
  /\ UNCHANGED <<listed, filings, activity, records, newer, stops>>

\* The breaker, the 25 minutes or a restart end the pass; a budget refusal
\* only waits and is a stutter.
PassCutShort ==
  /\ todo # <<>>
  /\ stops < MaxStops
  /\ stops' = stops + 1
  /\ todo' = <<>>
  /\ UNCHANGED <<listed, filings, activity, records, newer>>

PledgeStep ==
  StartPledgePass \/ SyncStores \/ SyncDup \/ SyncSentinel \/ SyncSkipped

PledgeNext ==
  \/ PledgeStep \/ PassCutShort
  \/ \E s \in Symbols : FilingSeen(s) \/ RecordListed(s) \/ ActivitySeen(s)

\* The chain runs every trading night, and NSE lists what was filed.
PledgeFairness ==
  /\ WF_pledgeVars(PledgeStep)
  /\ \A s \in Symbols : WF_pledgeVars(RecordListed(s))

PledgeSpec == PledgeInit /\ [][PledgeNext]_pledgeVars /\ PledgeFairness

-----------------------------------------------------------------------------
PledgeTypeOK ==
  /\ listed \in [Symbols -> 0..MaxRecords]
  /\ filings \in [Symbols -> 0..MaxRecords]
  /\ activity \subseteq Symbols
  /\ \A s \in Symbols : records[s] \subseteq 0..listed[s]
  /\ newer \subseteq Symbols
  /\ Len(todo) <= Limit
  /\ stops \in 0..MaxStops

\* Once the passes run, every scored symbol gets its row though some are
\* skipped or come round unchanged night after night, as long as those leave
\* room in the limit.
EveryPledgeChecked == \A s \in Symbols \ Dead : todo # <<>> ~> HasRow(s)

\* "the event-driven quarterly refresh" (pledge.py:194-195): while the row is
\* current, a filing announced before NSE lists its record is not forgotten by
\* the passes that still find the old one.
RefreshStored ==
  \A s \in Symbols \ Dead : \A n \in 1..MaxRecords :
    (listed[s] = n /\ n \in records[s] /\ filings[s] = 1 /\ s \in newer)
      ~> (filings[s] > 1 \/ \E m \in (n + 1)..MaxRecords : m \in records[s])
=============================================================================
