------------------------------ MODULE EventBus ------------------------------
(***************************************************************************)
(* The Postgres outbox used as an event bus (marketsense/bus/outbox.py):   *)
(* publish() flushes a row inside the caller's transaction, Consumer.drain *)
(* polls the rows above its offset, retries a failing handler, dead-       *)
(* letters it, and acknowledges each event in a transaction of its own.    *)
(*                                                                         *)
(* One topic is modelled.  Events on other topics use up ids of the same   *)
(* sequence and are invisible here, exactly as an aborted transaction is.  *)
(***************************************************************************)
EXTENDS Integers, FiniteSets

CONSTANTS
  Publishers,       \* processes that publish on the topic
  Consumers,        \* consumer names: the key of a ConsumerOffset row
  Workers,          \* processes that run drain(), each under one name
  NameOf,           \* [Workers -> Consumers]
  Poison,           \* event ids whose handler always raises
  BatchSize,        \* Consumer.batch_size
  MaxEvents,        \* drain(max_events)
  MaxAttempts,      \* MAX_ATTEMPTS
  LiveResets,       \* TRUE: reset() may be called while a drain is running
  MaxId,            \* bound: outbox ids
  MaxCrashes,       \* bound: drains that die
  MaxResets         \* bound: reset() calls

ASSUME BusAssumption ==
  /\ NameOf \in [Workers -> Consumers]
  /\ Poison \subseteq Nat
  /\ BatchSize \in Nat \ {0}
  /\ MaxEvents \in Nat \ {0}
  /\ MaxAttempts \in Nat \ {0}
  /\ LiveResets \in BOOLEAN
  /\ MaxId \in Nat
  /\ MaxCrashes \in Nat
  /\ MaxResets \in Nat

VARIABLES
  nextId,       \* next value of the bigserial sequence
  tx,           \* [Publishers -> ids flushed by the open transaction]
  stream,       \* ids of the committed outbox rows
  offset,       \* [Consumers -> last_acked_id]
  deadLetters,  \* [Consumers -> ids with a dead_letters row]
  pc,           \* [Workers -> where drain() is]
  batch,        \* [Workers -> events fetched and not yet acknowledged]
  attempt,      \* [Workers -> attempt number of the event being handled]
  processed,    \* [Workers -> events processed by this drain()]
  seen,         \* [Workers -> last_acked_id as read by the ack transaction]
  settled,      \* history: [Consumers -> ids handled or dead-lettered since
                \* the last rewind below them]
  crashes, resets

busVars == <<nextId, tx, stream>>
drainVars == <<pc, batch, attempt, processed, seen>>
vars == <<nextId, tx, stream, offset, deadLetters, pc, batch, attempt,
          processed, seen, settled, crashes, resets>>

Stages == {"idle", "fetch", "handle", "dead", "ack", "write"}

Init ==
  /\ nextId = 1
  /\ tx = [p \in Publishers |-> {}]
  /\ stream = {}
  /\ offset = [c \in Consumers |-> 0]
  /\ deadLetters = [c \in Consumers |-> {}]
  /\ pc = [w \in Workers |-> "idle"]
  /\ batch = [w \in Workers |-> {}]
  /\ attempt = [w \in Workers |-> 1]
  /\ processed = [w \in Workers |-> 0]
  /\ seen = [w \in Workers |-> 0]
  /\ settled = [c \in Consumers |-> {}]
  /\ crashes = 0
  /\ resets = 0

-----------------------------------------------------------------------------
(* The publishing transaction.                                             *)

\* publish(): the flush draws the id; the row is not visible yet.
Publish(p) ==
  /\ nextId <= MaxId
  /\ tx' = [tx EXCEPT ![p] = @ \cup {nextId}]
  /\ nextId' = nextId + 1
  /\ UNCHANGED <<stream, offset, deadLetters, drainVars, settled, crashes, resets>>

\* The caller commits: every row of the transaction appears at once.
Commit(p) ==
  /\ tx[p] # {}
  /\ stream' = stream \cup tx[p]
  /\ tx' = [tx EXCEPT ![p] = {}]
  /\ UNCHANGED <<nextId, offset, deadLetters, drainVars, settled, crashes, resets>>

\* The caller rolls back (or the ids went to another topic): a gap remains.
Abort(p) ==
  /\ tx[p] # {}
  /\ tx' = [tx EXCEPT ![p] = {}]
  /\ UNCHANGED <<nextId, stream, offset, deadLetters, drainVars, settled, crashes, resets>>

-----------------------------------------------------------------------------
(* Consumer.drain and Consumer._handle_one.                                *)

\* Fault: the select takes the offset's own row again (>= for >).
PendingInclusive(c) == {e \in stream : e >= offset[c]}

Pending(c) == {e \in stream : e > offset[c]}

\* Fault: the rows come newest first.
Newest(S, n) ==
  {e \in S : Cardinality({f \in S : f > e}) < n}

\* The n lowest ids of S, or all of S when it has fewer.
Lowest(S, n) ==
  {e \in S : Cardinality({f \in S : f < e}) < n}

FetchLimit(w) ==
  IF BatchSize < MaxEvents - processed[w] THEN BatchSize
                                          ELSE MaxEvents - processed[w]

IsHead(w, e) == e \in batch[w] /\ \A f \in batch[w] : e <= f

StartDrain(w) ==
  /\ pc[w] = "idle"
  /\ pc' = [pc EXCEPT ![w] = "fetch"]
  /\ processed' = [processed EXCEPT ![w] = 0]
  /\ UNCHANGED <<busVars, offset, deadLetters, batch, attempt, seen, settled,
                 crashes, resets>>

\* The select above the offset, ordered by id, limited; empty: drain returns.
Fetch(w) ==
  /\ pc[w] = "fetch"
  /\ batch' = [batch EXCEPT ![w] = Lowest(Pending(NameOf[w]), FetchLimit(w))]
  /\ pc' = [pc EXCEPT ![w] = IF Pending(NameOf[w]) = {} THEN "idle" ELSE "handle"]
  /\ attempt' = [attempt EXCEPT ![w] = 1]
  /\ UNCHANGED <<busVars, offset, deadLetters, processed, seen, settled,
                 crashes, resets>>

HandlerSucceeds(w) ==
  /\ pc[w] = "handle"
  /\ \E e \in batch[w] :
       /\ IsHead(w, e)
       /\ e \notin Poison
       /\ settled' = [settled EXCEPT ![NameOf[w]] = @ \cup {e}]
  /\ pc' = [pc EXCEPT ![w] = "ack"]
  /\ UNCHANGED <<busVars, offset, deadLetters, batch, attempt, processed, seen,
                 crashes, resets>>

RaisesForever(w) ==
  /\ pc[w] = "handle"
  /\ attempt' = [attempt EXCEPT ![w] = IF @ < MaxAttempts THEN @ + 1 ELSE 1]
  /\ UNCHANGED <<busVars, offset, deadLetters, pc, batch, processed, seen,
                 settled, crashes, resets>>

RaisesAndForgets(w) ==
  /\ pc[w] = "handle"
  /\ attempt' = [attempt EXCEPT ![w] = IF @ < MaxAttempts THEN @ + 1 ELSE @]
  /\ pc' = [pc EXCEPT ![w] = IF attempt[w] < MaxAttempts THEN "handle" ELSE "ack"]
  /\ UNCHANGED <<busVars, offset, deadLetters, batch, processed, seen, settled,
                 crashes, resets>>

\* The handler raises: another attempt, or the for loop's else branch.
HandlerRaises(w) ==
  /\ pc[w] = "handle"
  /\ attempt' = [attempt EXCEPT ![w] = IF @ < MaxAttempts THEN @ + 1 ELSE @]
  /\ pc' = [pc EXCEPT ![w] = IF attempt[w] < MaxAttempts THEN "handle" ELSE "dead"]
  /\ UNCHANGED <<busVars, offset, deadLetters, batch, processed, seen, settled,
                 crashes, resets>>

WriteDeadLetter(w) ==
  /\ pc[w] = "dead"
  /\ \E e \in batch[w] :
       /\ IsHead(w, e)
       /\ deadLetters' = [deadLetters EXCEPT ![NameOf[w]] = @ \cup {e}]
       /\ settled' = [settled EXCEPT ![NameOf[w]] = @ \cup {e}]
  /\ pc' = [pc EXCEPT ![w] = "ack"]
  /\ UNCHANGED <<busVars, offset, batch, attempt, processed, seen, crashes, resets>>

\* The ack transaction reads the offset row ...
ReadOffset(w) ==
  /\ pc[w] = "ack"
  /\ seen' = [seen EXCEPT ![w] = offset[NameOf[w]]]
  /\ pc' = [pc EXCEPT ![w] = "write"]
  /\ UNCHANGED <<busVars, offset, deadLetters, batch, attempt, processed, settled,
                 crashes, resets>>

\* Fault: the first acknowledgement of a batch acknowledges all of it.
AckWholeBatch(w) ==
  /\ pc[w] = "write"
  /\ \E e \in batch[w], last \in batch[w] :
       /\ IsHead(w, e)
       /\ \A f \in batch[w] : f <= last
       /\ offset' = [offset EXCEPT ![NameOf[w]] = IF last > seen[w] THEN last ELSE @]
       /\ batch' = [batch EXCEPT ![w] = @ \ {e}]
       /\ pc' = [pc EXCEPT ![w] =
                   IF batch[w] # {e} THEN "handle"
                   ELSE IF processed[w] + 1 < MaxEvents THEN "fetch" ELSE "idle"]
  /\ processed' = [processed EXCEPT ![w] = @ + 1]
  /\ attempt' = [attempt EXCEPT ![w] = 1]
  /\ UNCHANGED <<busVars, deadLetters, seen, settled, crashes, resets>>

\* ... and commits the new mark if the event is above what it read.
WriteOffset(w) ==
  /\ pc[w] = "write"
  /\ \E e \in batch[w] :
       /\ IsHead(w, e)
       /\ offset' = [offset EXCEPT ![NameOf[w]] = IF e > seen[w] THEN e ELSE @]
       /\ batch' = [batch EXCEPT ![w] = @ \ {e}]
       /\ pc' = [pc EXCEPT ![w] =
                   IF batch[w] # {e} THEN "handle"
                   ELSE IF processed[w] + 1 < MaxEvents THEN "fetch" ELSE "idle"]
  /\ processed' = [processed EXCEPT ![w] = @ + 1]
  /\ attempt' = [attempt EXCEPT ![w] = 1]
  /\ UNCHANGED <<busVars, deadLetters, seen, settled, crashes, resets>>

\* The process is killed, or a database error leaves drain() as an exception.
DrainDies(w) ==
  /\ crashes < MaxCrashes
  /\ pc[w] # "idle"
  /\ pc' = [pc EXCEPT ![w] = "idle"]
  /\ batch' = [batch EXCEPT ![w] = {}]
  /\ crashes' = crashes + 1
  /\ UNCHANGED <<busVars, offset, deadLetters, attempt, processed, seen, settled, resets>>

\* reset(to): the replay entry point, called from a process of its own.
Quiet(c) == \A w \in Workers : NameOf[w] = c => pc[w] = "idle"

Reset(c, to) ==
  /\ resets < MaxResets
  /\ LiveResets \/ Quiet(c)
  /\ to < offset[c]
  /\ offset' = [offset EXCEPT ![c] = to]
  /\ settled' = [settled EXCEPT ![c] = {e \in @ : e <= to}]
  /\ resets' = resets + 1
  /\ UNCHANGED <<busVars, deadLetters, drainVars, crashes>>

-----------------------------------------------------------------------------
WorkerStep(w) ==
  \/ StartDrain(w) \/ Fetch(w)
  \/ HandlerSucceeds(w) \/ HandlerRaises(w) \/ WriteDeadLetter(w)
  \/ ReadOffset(w) \/ WriteOffset(w)

Next ==
  \/ \E p \in Publishers : Publish(p) \/ Commit(p) \/ Abort(p)
  \/ \E w \in Workers : WorkerStep(w) \/ DrainDies(w)
  \/ \E c \in Consumers, to \in 0..MaxId : Reset(c, to)

Spec == Init /\ [][Next]_vars

\* The supervisor loop calls drain() for ever (supervisor.py:95-122); nothing
\* obliges a publisher to publish, a handler to succeed or a drain to die.
FairSpec == Spec /\ \A w \in Workers : WF_vars(WorkerStep(w))

-----------------------------------------------------------------------------
TypeOK ==
  /\ nextId \in Nat \ {0}
  /\ tx \in [Publishers -> SUBSET Nat]
  /\ stream \in SUBSET Nat
  /\ offset \in [Consumers -> Nat]
  /\ deadLetters \in [Consumers -> SUBSET Nat]
  /\ pc \in [Workers -> Stages]
  /\ batch \in [Workers -> SUBSET Nat]
  /\ attempt \in [Workers -> 1..MaxAttempts]
  /\ processed \in [Workers -> Nat]
  /\ seen \in [Workers -> Nat]
  /\ settled \in [Consumers -> SUBSET Nat]
  /\ crashes \in Nat
  /\ resets \in Nat

-----------------------------------------------------------------------------
(* Safety.                                                                 *)

\* The acknowledged prefix hides no unsettled event: an id at or below a
\* consumer's offset that is in the stream was handled or dead-lettered.
\* drain() never looks below the offset again, so a breach loses the event.
NoEventSkipped ==
  \A c \in Consumers : \A e \in stream : e <= offset[c] => e \in settled[c]

\* An event whose handler can never succeed passes the offset only after its
\* dead_letters row is committed, whatever crash separates the two.
PoisonLeavesEvidence ==
  \A c \in Consumers :
    \A e \in stream \cap Poison : e <= offset[c] => e \in deadLetters[c]

\* "A crash mid-batch re-delivers only the unacked tail": with one drain per
\* name the event given to a handler is always above the offset.
OnlyTailRedelivered ==
  \A w \in Workers : pc[w] = "handle" =>
    \A e \in batch[w] : IsHead(w, e) => e > offset[NameOf[w]]

\* The bus implements ordered, gap-free, at-least-once delivery.
Delivery == INSTANCE EventDelivery WITH stream <- stream, settled <- settled
DeliverySpec == Delivery!Spec

-----------------------------------------------------------------------------
(* Liveness.                                                               *)

\* One bad event must not wedge the stream: every committed event is settled
\* by every drained consumer, those behind a poison event included.
EveryEventSettles ==
  \A w \in Workers, e \in 1..MaxId :
    e \in stream ~> e \in settled[NameOf[w]]

-----------------------------------------------------------------------------
(* The inductive invariant behind the safety properties.                   *)

\* What the code leaves to its callers: of two open transactions the one with
\* the lower ids commits first.  One publishing process, or transactions that
\* do not overlap, are cases of it.
InIdOrder ==
  \A p, q \in Publishers : p # q /\ Commit(p) => \A e \in tx[p], f \in tx[q] : e < f

CommitsInOrder == [][InIdOrder]_vars

\* Ids are drawn in order, and an open transaction holds ids above every
\* committed one and above every offset.
IdsInOrder ==
  /\ \A e \in stream : e < nextId
  /\ \A c \in Consumers : offset[c] < nextId
  /\ \A p \in Publishers : \A e \in tx[p] :
       /\ e < nextId
       /\ \A f \in stream : f < e
       /\ \A c \in Consumers : offset[c] < e

\* What a drain has fetched covers every unsettled event up to each of its
\* members, so that acknowledging a member leaves nothing behind.
BatchCovers ==
  \A w \in Workers : \A f \in batch[w] :
    f \in stream /\ \A e \in stream \ settled[NameOf[w]] : e <= f => e \in batch[w]

\* By the time of the acknowledgement the event itself is settled.
HeadSettled ==
  \A w \in Workers : pc[w] \in {"ack", "write"} =>
    \A e \in batch[w] : IsHead(w, e) =>
      /\ e \in settled[NameOf[w]]
      /\ e \in Poison => e \in deadLetters[NameOf[w]]

PoisonSettledDead ==
  \A c \in Consumers : settled[c] \cap Poison \subseteq deadLetters[c]

IdleEmpty == \A w \in Workers : pc[w] \in {"idle", "fetch"} => batch[w] = {}

BusInvariant ==
  /\ TypeOK
  /\ IdsInOrder
  /\ NoEventSkipped
  /\ BatchCovers
  /\ HeadSettled
  /\ PoisonSettledDead
  /\ IdleEmpty
=============================================================================
