--------------------------- MODULE AlertPipeline ---------------------------
(***************************************************************************)
(* From a stored filing to an alert: A2 classifies each filing.received    *)
(* event, A8 alerts on each filing.classified event                        *)
(* (agents/a2_docintel/consumer.py and agents/a8_alerts/engine.py).  One   *)
(* thread drains both consumers in turn (supervisor.py:105-109).           *)
(*                                                                         *)
(* The bus is taken at the strength EventBus gives it: events in order, an *)
(* offset per consumer, redelivery after a crash, MAX_ATTEMPTS, dead       *)
(* letters.  Filing k is the k-th filing.received event.                   *)
(***************************************************************************)
EXTENDS Integers, Sequences, FiniteSets

CONSTANTS
  MaxFilings,       \* bound: filings
  Severity,         \* [Filings -> "high" (materiality >= 8), "medium", "low"]
  TelegramOn,       \* a bot token is configured and Telegram answers 200
  WebhookOn,        \* a webhook is configured and answers 2xx
  MaxHigh,          \* alert_max_high_per_hour
  MaxAttempts,      \* MAX_ATTEMPTS of the bus
  MaxFaults         \* bound: handlers that raise and processes that die

Filings == 1..MaxFilings

ASSUME AlertAssumption ==
  /\ MaxFilings \in Nat
  /\ Severity \in [Filings -> {"high", "medium", "low"}]
  /\ TelegramOn \in BOOLEAN
  /\ WebhookOn \in BOOLEAN
  /\ MaxHigh \in Nat \ {0}
  /\ MaxAttempts \in Nat \ {0}
  /\ MaxFaults \in Nat

VARIABLES
  received,     \* filing.received events committed so far
  acked2,       \* A2's offset in that stream
  classified,   \* filings with a filing_classifications row
  stream,       \* the filing.classified stream: a sequence of filings
  acked8,       \* A8's offset in that stream
  logged,       \* [Filings -> alerts rows]
  hour,         \* pushes of the last hour, oldest first
  dead,         \* <<consumer, filing>> pairs with a dead_letters row
  pc,           \* where the thread is
  attempt,      \* attempt number of the event being handled
  faults

a2Vars == <<acked2, classified, stream>>
a8Vars == <<acked8, logged, hour>>
vars == <<received, a2Vars, a8Vars, dead, pc, attempt, faults>>

Init ==
  /\ received = 0
  /\ acked2 = 0
  /\ classified = {}
  /\ stream = <<>>
  /\ acked8 = 0
  /\ logged = [f \in Filings |-> 0]
  /\ hour = <<>>
  /\ dead = {}
  /\ pc = "a2"
  /\ attempt = 1
  /\ faults = 0

\* A1 commits a filing and its event.
Receive ==
  /\ received < MaxFilings
  /\ received' = received + 1
  /\ UNCHANGED <<a2Vars, a8Vars, dead, pc, attempt, faults>>

-----------------------------------------------------------------------------
(* A2: handle() of the filing.received consumer.                            *)

\* The row and its event commit together; a redelivered event finds the row.
Classify ==
  /\ pc = "a2"
  /\ acked2 < received
  /\ LET f == acked2 + 1 IN
       IF f \in classified
         THEN UNCHANGED <<classified, stream>>
         ELSE /\ classified' = classified \cup {f}
              /\ stream' = Append(stream, f)
  /\ pc' = "a2ack"
  /\ UNCHANGED <<received, acked2, a8Vars, dead, attempt, faults>>

Ack2 ==
  /\ pc = "a2ack"
  /\ acked2' = acked2 + 1
  /\ pc' = "a2"
  /\ attempt' = 1
  /\ UNCHANGED <<received, classified, stream, a8Vars, dead, faults>>

A2Drained ==
  /\ pc = "a2"
  /\ acked2 = received
  /\ pc' = "a8"
  /\ UNCHANGED <<received, a2Vars, a8Vars, dead, attempt, faults>>

-----------------------------------------------------------------------------
(* A8: handle() of the filing.classified consumer, and raise_alert().       *)

Current == stream[acked8 + 1]

\* _high_count_last_hour: rows of the last hour whose telegram channel says
\* "sent".
HighCount == Cardinality({i \in DOMAIN hour : hour[i].recorded /\ hour[i].telegram})

\* Fault: the quota admits one more.
QuotaSpentLate == HighCount > MaxHigh

QuotaSpent == HighCount >= MaxHigh

\* Routine, or materiality below 6.
Ignore ==
  /\ pc = "a8" /\ acked8 < Len(stream)
  /\ Severity[Current] = "low"
  /\ pc' = "a8ack"
  /\ UNCHANGED <<received, a2Vars, a8Vars, dead, attempt, faults>>

\* Medium, or high over the quota: an alerts row and no push.
LogOnly ==
  /\ pc = "a8" /\ acked8 < Len(stream)
  /\ Severity[Current] = "medium" \/ (Severity[Current] = "high" /\ QuotaSpent)
  /\ logged' = [logged EXCEPT ![Current] = @ + 1]
  /\ pc' = "a8ack"
  /\ UNCHANGED <<received, a2Vars, acked8, hour, dead, attempt, faults>>

\* The messages leave before the alerts row is committed.
Push ==
  /\ pc = "a8" /\ acked8 < Len(stream)
  /\ Severity[Current] = "high" /\ ~QuotaSpent
  /\ hour' = Append(hour, [telegram |-> TelegramOn, webhook |-> WebhookOn,
                           recorded |-> FALSE])
  /\ pc' = "a8commit"
  /\ UNCHANGED <<received, a2Vars, acked8, logged, dead, attempt, faults>>

\* Fault: the handler returns without committing.
PushForgotten ==
  /\ pc = "a8commit"
  /\ pc' = "a8ack"
  /\ UNCHANGED <<received, a2Vars, a8Vars, dead, attempt, faults>>

CommitAlert ==
  /\ pc = "a8commit"
  /\ logged' = [logged EXCEPT ![Current] = @ + 1]
  /\ hour' = [hour EXCEPT ![Len(hour)].recorded = TRUE]
  /\ pc' = "a8ack"
  /\ UNCHANGED <<received, a2Vars, acked8, dead, attempt, faults>>

\* Fault: the acknowledgement is of the whole topic.
Ack8ToEnd ==
  /\ pc = "a8ack"
  /\ acked8' = Len(stream)
  /\ pc' = "a8"
  /\ attempt' = 1
  /\ UNCHANGED <<received, a2Vars, logged, hour, dead, faults>>

Ack8 ==
  /\ pc = "a8ack"
  /\ acked8' = acked8 + 1
  /\ pc' = "a8"
  /\ attempt' = 1
  /\ UNCHANGED <<received, a2Vars, logged, hour, dead, faults>>

\* The loop sleeps and comes round to A2.
A8Drained ==
  /\ pc = "a8"
  /\ acked8 = Len(stream)
  /\ pc' = "a2"
  /\ UNCHANGED <<received, a2Vars, a8Vars, dead, attempt, faults>>

\* An hour has passed since the oldest push; no push takes that long itself.
Expire ==
  /\ hour # <<>>
  /\ pc = "a8commit" => Len(hour) > 1
  /\ hour' = Tail(hour)
  /\ UNCHANGED <<received, a2Vars, acked8, logged, dead, pc, attempt, faults>>

-----------------------------------------------------------------------------
(* Faults of the environment.                                               *)

HandlingA2 == pc = "a2" /\ acked2 < received
HandlingA8 == pc \in {"a8", "a8commit"} /\ acked8 < Len(stream)

\* The handler raises - the database, mostly - and its transaction is rolled
\* back: again, or a dead letter.
HandlerRaises ==
  /\ HandlingA2 \/ HandlingA8
  /\ faults < MaxFaults
  /\ faults' = faults + 1
  /\ IF attempt < MaxAttempts
       THEN /\ attempt' = attempt + 1
            /\ pc' = IF HandlingA2 THEN "a2" ELSE "a8"
            /\ UNCHANGED dead
       ELSE /\ dead' = dead \cup
                 {IF HandlingA2 THEN <<"a2", acked2 + 1>> ELSE <<"a8", Current>>}
            /\ pc' = IF HandlingA2 THEN "a2ack" ELSE "a8ack"
            /\ UNCHANGED attempt
  /\ UNCHANGED <<received, a2Vars, a8Vars>>

\* The process dies and starts again with A2.
Crash ==
  /\ faults < MaxFaults
  /\ faults' = faults + 1
  /\ pc' = "a2"
  /\ attempt' = 1
  /\ UNCHANGED <<received, a2Vars, a8Vars, dead>>

ThreadStep ==
  \/ Classify \/ Ack2 \/ A2Drained
  \/ Ignore \/ LogOnly \/ Push \/ CommitAlert \/ Ack8 \/ A8Drained

Next == Receive \/ ThreadStep \/ Expire \/ HandlerRaises \/ Crash

Spec == Init /\ [][Next]_vars

\* The supervisor loop drains both consumers for ever.
FairSpec == Spec /\ WF_vars(ThreadStep)

-----------------------------------------------------------------------------
TypeOK ==
  /\ received \in 0..MaxFilings
  /\ acked2 \in 0..received
  /\ classified \subseteq 1..received
  /\ stream \in Seq(Filings)
  /\ acked8 \in 0..Len(stream)
  /\ logged \in [Filings -> Nat]
  /\ hour \in Seq([telegram : BOOLEAN, webhook : BOOLEAN, recorded : BOOLEAN])
  /\ dead \subseteq {"a2", "a8"} \X Filings
  /\ pc \in {"a2", "a2ack", "a8", "a8commit", "a8ack"}
  /\ attempt \in 1..MaxAttempts
  /\ faults \in 0..MaxFaults

\* A material filing that both offsets have passed has an alert, or a dead
\* letter that says why not.
Settled(f) ==
  \/ logged[f] > 0
  \/ <<"a2", f>> \in dead
  \/ <<"a8", f>> \in dead

NothingMaterialLost ==
  \A f \in Filings : Severity[f] # "low" /\ f <= acked2 =>
    \/ Settled(f)
    \/ \E i \in (acked8 + 1)..Len(stream) : stream[i] = f

\* "At most alert_max_high_per_hour high pushes" (engine.py:14), and one more
\* for each fault that hit between a push and its commit.  It takes Telegram:
\* the quota counts rows that say "sent" for it, so without it pushes to the
\* webhook are not limited.
PushesBounded ==
  TelegramOn =>
    Cardinality({i \in DOMAIN hour : hour[i].telegram \/ hour[i].webhook})
      <= MaxHigh + faults

\* What each consumer sees of the bus is the delivery bus/outbox.py promises:
\* A2's stream is the filing.received events, A8's the filing.classified ones,
\* and an event is settled when the offset has passed it.
A2Delivery == INSTANCE EventDelivery WITH
  Consumers <- {"a2"}, stream <- 1..received,
  settled <- [c \in {"a2"} |-> 1..acked2]

A8Delivery == INSTANCE EventDelivery WITH
  Consumers <- {"a8"}, stream <- 1..Len(stream),
  settled <- [c \in {"a8"} |-> 1..acked8]

DeliveredInOrder == A2Delivery!Spec /\ A8Delivery!Spec

\* Every material filing is alerted on, or dead-lettered, in the end.
MaterialAlerted ==
  \A f \in Filings : Severity[f] # "low" /\ received >= f ~> Settled(f)
=============================================================================
