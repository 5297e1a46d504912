-------------------------- MODULE EventBus_proofs --------------------------
(***************************************************************************)
(* For every number of publishers, events, drains, crashes and replays: if *)
(* publishing transactions commit in the order of their ids and replays    *)
(* are issued while no drain of that consumer runs, the outbox never skips *)
(* an event, and implements EventDelivery.                                 *)
(***************************************************************************)
EXTENDS EventBus, FiniteSetTheorems, TLAPS

\* The select ... order by id limit n: what it returns is closed downwards.
LEMMA LowestClosed ==
  ASSUME NEW S \in SUBSET Nat, NEW n \in Int,
         NEW f \in Lowest(S, n), NEW e \in S, e <= f
  PROVE  e \in Lowest(S, n)
<1> DEFINE E == {g \in S : g < e}
           F == {g \in S : g < f}
<1>0. f \in Nat /\ e \in Nat /\ \A g \in S : g \in Nat
  BY DEF Lowest
<1>1. IsFiniteSet(F)
  <2>1. IsFiniteSet(0..f)
    BY <1>0, FS_Interval
  <2>2. ASSUME NEW g \in F
        PROVE  g \in 0..f
    <3>1. g \in S /\ g < f
      OBVIOUS
    <3>2. g \in Nat
      BY <1>0, <3>1
    <3> QED BY <1>0, <3>1, <3>2
  <2> QED BY <2>1, <2>2, FS_Subset
<1>2. ASSUME NEW g \in E
      PROVE  g \in F
  <2>1. g \in S /\ g < e
    OBVIOUS
  <2>2. g < f
    BY <1>0, <2>1
  <2> QED BY <2>1, <2>2
<1>3. IsFiniteSet(E) /\ Cardinality(E) <= Cardinality(F)
  BY <1>1, <1>2, FS_Subset
<1>4. Cardinality(F) < n
  BY DEF Lowest
<1>5. Cardinality(E) \in Nat /\ Cardinality(F) \in Nat
  BY <1>1, <1>3, FS_CardinalityType
<1>6. Cardinality(E) < n
  BY <1>3, <1>4, <1>5
<1> QED BY <1>6 DEF Lowest

LEMMA InitInvariant == Init => BusInvariant
<1> USE BusAssumption
<1> SUFFICES ASSUME Init PROVE BusInvariant
  OBVIOUS
<1>1. TypeOK
  BY DEF Init, TypeOK, Stages
<1>2. IdsInOrder /\ NoEventSkipped /\ BatchCovers
  BY DEF Init, IdsInOrder, NoEventSkipped, BatchCovers
<1>3. HeadSettled /\ PoisonSettledDead /\ IdleEmpty
  BY DEF Init, HeadSettled, PoisonSettledDead, IdleEmpty
<1> QED BY <1>1, <1>2, <1>3 DEF BusInvariant

(* One lemma per action: each assumes the invariant and proves its          *)
(* conjuncts in the next state, together where the action leaves the        *)
(* variables they speak of alone.                                           *)

LEMMA PublishPreserves ==
  ASSUME BusInvariant, NEW p \in Publishers, Publish(p)
  PROVE  BusInvariant'
<1> USE BusAssumption DEF BusInvariant, Publish, busVars, drainVars
<1>1. TypeOK'
  BY DEF TypeOK, Stages
<1>2. IdsInOrder'
  BY DEF TypeOK, IdsInOrder
<1>3. NoEventSkipped' /\ BatchCovers'
  BY DEF NoEventSkipped, BatchCovers
<1>4. HeadSettled'
  BY DEF HeadSettled, IsHead
<1>5. PoisonSettledDead' /\ IdleEmpty'
  BY DEF PoisonSettledDead, IdleEmpty
<1> QED BY <1>1, <1>2, <1>3, <1>4, <1>5

\* The step that needs commits in order: nothing else open is below this one.
LEMMA CommitPreserves ==
  ASSUME InIdOrder, BusInvariant, NEW p \in Publishers, Commit(p)
  PROVE  BusInvariant'
<1> USE BusAssumption DEF BusInvariant, Commit, busVars, drainVars
<1>1. TypeOK'
  BY DEF TypeOK, Stages
<1>2. IdsInOrder'
  BY DEF TypeOK, IdsInOrder, InIdOrder
<1>3. NoEventSkipped'
  BY DEF TypeOK, NoEventSkipped, IdsInOrder
<1>4. BatchCovers'
  BY DEF TypeOK, BatchCovers, IdsInOrder
<1>5. HeadSettled'
  BY DEF HeadSettled, IsHead
<1>6. PoisonSettledDead' /\ IdleEmpty'
  BY DEF PoisonSettledDead, IdleEmpty
<1> QED BY <1>1, <1>2, <1>3, <1>4, <1>5, <1>6

LEMMA AbortPreserves ==
  ASSUME BusInvariant, NEW p \in Publishers, Abort(p)
  PROVE  BusInvariant'
<1> USE BusAssumption DEF BusInvariant, Abort, busVars, drainVars
<1>1. TypeOK'
  BY DEF TypeOK, Stages
<1>2. IdsInOrder'
  BY DEF TypeOK, IdsInOrder
<1>3. NoEventSkipped' /\ BatchCovers'
  BY DEF NoEventSkipped, BatchCovers
<1>4. HeadSettled'
  BY DEF HeadSettled, IsHead
<1>5. PoisonSettledDead' /\ IdleEmpty'
  BY DEF PoisonSettledDead, IdleEmpty
<1> QED BY <1>1, <1>2, <1>3, <1>4, <1>5

LEMMA StartDrainPreserves ==
  ASSUME BusInvariant, NEW w \in Workers, StartDrain(w)
  PROVE  BusInvariant'
<1> USE BusAssumption DEF BusInvariant, StartDrain, busVars, drainVars
<1>1. TypeOK'
  BY DEF TypeOK, Stages
<1>2. IdsInOrder' /\ NoEventSkipped' /\ BatchCovers'
  BY DEF IdsInOrder, NoEventSkipped, BatchCovers
<1>3. HeadSettled'
  BY DEF TypeOK, HeadSettled, IsHead
<1>4. PoisonSettledDead'
  BY DEF PoisonSettledDead
<1>5. IdleEmpty'
  BY DEF TypeOK, IdleEmpty
<1> QED BY <1>1, <1>2, <1>3, <1>4, <1>5

LEMMA FetchPreserves ==
  ASSUME BusInvariant, NEW w \in Workers, Fetch(w)
  PROVE  BusInvariant'
<1> USE BusAssumption DEF BusInvariant, Fetch, busVars, drainVars
<1>1. TypeOK'
  <2>1. Lowest(Pending(NameOf[w]), FetchLimit(w)) \in SUBSET Nat
    BY DEF TypeOK, Lowest, Pending
  <2>2. batch' \in [Workers -> SUBSET Nat]
    BY <2>1 DEF TypeOK
  <2> QED BY <2>2 DEF TypeOK, Stages
<1>2. IdsInOrder' /\ NoEventSkipped'
  BY DEF IdsInOrder, NoEventSkipped
<1>3. BatchCovers'
  <2> SUFFICES ASSUME NEW v \in Workers, NEW f \in batch'[v]
               PROVE  /\ f \in stream
                      /\ \A e \in stream \ settled[NameOf[v]] :
                           e <= f => e \in batch'[v]
    BY DEF BatchCovers
  <2>1. CASE v # w
    BY <2>1 DEF TypeOK, BatchCovers
  <2>2. CASE v = w
    <3> DEFINE P == Pending(NameOf[w])
    <3>1. batch'[w] = Lowest(P, FetchLimit(w))
      BY DEF TypeOK
    <3>2. f \in stream
      BY <2>2, <3>1 DEF Lowest, Pending
    <3>3. ASSUME NEW e \in stream \ settled[NameOf[w]], e <= f
          PROVE  e \in batch'[w]
      <4>0. NameOf[w] \in Consumers /\ e \in Nat /\ offset[NameOf[w]] \in Nat
        BY DEF TypeOK
      <4>1. e \in P
        BY <4>0 DEF NoEventSkipped, Pending
      <4>2. P \in SUBSET Nat /\ f \in Lowest(P, FetchLimit(w))
        BY <2>2, <3>1 DEF TypeOK, Pending
      <4>3. FetchLimit(w) \in Int
        BY DEF TypeOK, FetchLimit
      <4> QED BY <3>1, <3>3, <4>1, <4>2, <4>3, LowestClosed
    <3> QED BY <2>2, <3>2, <3>3
  <2> QED BY <2>1, <2>2
<1>4. HeadSettled'
  BY DEF TypeOK, HeadSettled, IsHead, IdleEmpty
<1>5. PoisonSettledDead'
  BY DEF PoisonSettledDead
<1>6. IdleEmpty'
  BY DEF TypeOK, IdleEmpty, Lowest
<1> QED BY <1>1, <1>2, <1>3, <1>4, <1>5, <1>6


LEMMA HandlerSucceedsPreserves ==
  ASSUME BusInvariant, NEW w \in Workers, HandlerSucceeds(w)
  PROVE  BusInvariant'
<1> USE BusAssumption DEF BusInvariant, HandlerSucceeds, busVars, drainVars
<1>a. PICK e \in batch[w] :
        /\ IsHead(w, e)
        /\ e \notin Poison
        /\ settled' = [settled EXCEPT ![NameOf[w]] = @ \cup {e}]
  OBVIOUS
<1>b. e \in Nat /\ NameOf[w] \in Consumers
  BY DEF TypeOK
<1>1. TypeOK'
  BY <1>a, <1>b DEF TypeOK, Stages
<1>2. IdsInOrder' /\ NoEventSkipped'
  BY <1>a, <1>b DEF TypeOK, IdsInOrder, NoEventSkipped
<1>3. BatchCovers'
  BY <1>a, <1>b DEF TypeOK, BatchCovers
<1>4. HeadSettled'
  <2> SUFFICES ASSUME NEW v \in Workers, pc'[v] \in {"ack", "write"},
                      NEW f \in batch[v], IsHead(v, f)
               PROVE  /\ f \in settled'[NameOf[v]]
                      /\ f \in Poison => f \in deadLetters'[NameOf[v]]
    BY DEF HeadSettled, IsHead
  <2>1. CASE v = w
    <3>1. f = e
      BY <1>a, <2>1 DEF TypeOK, IsHead
    <3> QED BY <1>a, <1>b, <2>1, <3>1 DEF TypeOK
  <2>2. CASE v # w
    BY <1>a, <1>b, <2>2 DEF TypeOK, HeadSettled
  <2> QED BY <2>1, <2>2
<1>5. PoisonSettledDead'
  BY <1>a, <1>b DEF TypeOK, PoisonSettledDead
<1>6. IdleEmpty'
  BY DEF TypeOK, IdleEmpty
<1> QED BY <1>1, <1>2, <1>3, <1>4, <1>5, <1>6

LEMMA HandlerRaisesPreserves ==
  ASSUME BusInvariant, NEW w \in Workers, HandlerRaises(w)
  PROVE  BusInvariant'
<1> USE BusAssumption DEF BusInvariant, HandlerRaises, busVars, drainVars
<1>1. TypeOK'
  BY DEF TypeOK, Stages
<1>2. IdsInOrder' /\ NoEventSkipped' /\ BatchCovers'
  BY DEF IdsInOrder, NoEventSkipped, BatchCovers
<1>3. HeadSettled'
  BY DEF TypeOK, HeadSettled, IsHead
<1>4. PoisonSettledDead'
  BY DEF PoisonSettledDead
<1>5. IdleEmpty'
  BY DEF TypeOK, IdleEmpty
<1> QED BY <1>1, <1>2, <1>3, <1>4, <1>5

LEMMA WriteDeadLetterPreserves ==
  ASSUME BusInvariant, NEW w \in Workers, WriteDeadLetter(w)
  PROVE  BusInvariant'
<1> USE BusAssumption DEF BusInvariant, WriteDeadLetter, busVars, drainVars
<1>a. PICK e \in batch[w] :
        /\ IsHead(w, e)
        /\ deadLetters' = [deadLetters EXCEPT ![NameOf[w]] = @ \cup {e}]
        /\ settled' = [settled EXCEPT ![NameOf[w]] = @ \cup {e}]
  OBVIOUS
<1>b. e \in Nat /\ NameOf[w] \in Consumers
  BY DEF TypeOK
<1>1. TypeOK'
  BY <1>a, <1>b DEF TypeOK, Stages
<1>2. IdsInOrder' /\ NoEventSkipped'
  BY <1>a, <1>b DEF TypeOK, IdsInOrder, NoEventSkipped
<1>3. BatchCovers'
  BY <1>a, <1>b DEF TypeOK, BatchCovers
<1>4. HeadSettled'
  <2> SUFFICES ASSUME NEW v \in Workers, pc'[v] \in {"ack", "write"},
                      NEW f \in batch[v], IsHead(v, f)
               PROVE  /\ f \in settled'[NameOf[v]]
                      /\ f \in Poison => f \in deadLetters'[NameOf[v]]
    BY DEF HeadSettled, IsHead
  <2>1. CASE v = w
    <3>1. f = e
      BY <1>a, <2>1 DEF TypeOK, IsHead
    <3> QED BY <1>a, <1>b, <2>1, <3>1 DEF TypeOK
  <2>2. CASE v # w
    BY <1>a, <1>b, <2>2 DEF TypeOK, HeadSettled
  <2> QED BY <2>1, <2>2
<1>5. PoisonSettledDead'
  BY <1>a, <1>b DEF TypeOK, PoisonSettledDead
<1>6. IdleEmpty'
  BY DEF TypeOK, IdleEmpty
<1> QED BY <1>1, <1>2, <1>3, <1>4, <1>5, <1>6

LEMMA ReadOffsetPreserves ==
  ASSUME BusInvariant, NEW w \in Workers, ReadOffset(w)
  PROVE  BusInvariant'
<1> USE BusAssumption DEF BusInvariant, ReadOffset, busVars, drainVars
<1>1. TypeOK'
  BY DEF TypeOK, Stages
<1>2. IdsInOrder' /\ NoEventSkipped' /\ BatchCovers'
  BY DEF IdsInOrder, NoEventSkipped, BatchCovers
<1>3. HeadSettled'
  BY DEF TypeOK, HeadSettled, IsHead
<1>4. PoisonSettledDead'
  BY DEF PoisonSettledDead
<1>5. IdleEmpty'
  BY DEF TypeOK, IdleEmpty
<1> QED BY <1>1, <1>2, <1>3, <1>4, <1>5

\* The step that moves the offset: below its event the batch has nothing left.
LEMMA WriteOffsetPreserves ==
  ASSUME BusInvariant, NEW w \in Workers, WriteOffset(w)
  PROVE  BusInvariant'
<1> USE BusAssumption DEF BusInvariant, WriteOffset, busVars, drainVars
<1>a. PICK e \in batch[w] :
        /\ IsHead(w, e)
        /\ offset' = [offset EXCEPT ![NameOf[w]] = IF e > seen[w] THEN e ELSE @]
        /\ batch' = [batch EXCEPT ![w] = @ \ {e}]
        /\ pc' = [pc EXCEPT ![w] =
                    IF batch[w] # {e} THEN "handle"
                    ELSE IF processed[w] + 1 < MaxEvents THEN "fetch" ELSE "idle"]
  OBVIOUS
<1>b. e \in Nat /\ NameOf[w] \in Consumers
  BY DEF TypeOK
<1>c. e \in stream /\ e \in settled[NameOf[w]]
  BY <1>a DEF BatchCovers, HeadSettled
<1>1. TypeOK'
  BY <1>a, <1>b DEF TypeOK, Stages
<1>2. IdsInOrder'
  BY <1>a, <1>b, <1>c DEF TypeOK, IdsInOrder
<1>3. NoEventSkipped'
  <2> SUFFICES ASSUME NEW c \in Consumers, NEW f \in stream, f <= offset'[c]
               PROVE  f \in settled[c]
    BY DEF NoEventSkipped
  <2>1. CASE offset'[c] = offset[c]
    BY <2>1 DEF NoEventSkipped
  <2>2. CASE c = NameOf[w] /\ offset'[c] = e
    <3>1. f \notin settled[c] => f \in batch[w]
      BY <1>a, <2>2 DEF BatchCovers
    <3>2. f \notin settled[c] => f = e
      BY <1>a, <1>b, <2>2, <3>1 DEF TypeOK, IsHead
    <3> QED BY <1>c, <2>2, <3>2
  <2> QED BY <1>a, <1>b, <2>1, <2>2 DEF TypeOK
<1>4. BatchCovers'
  BY <1>a, <1>b, <1>c DEF TypeOK, BatchCovers
<1>5. HeadSettled'
  BY <1>a, <1>b DEF TypeOK, HeadSettled, IsHead
<1>6. PoisonSettledDead'
  BY DEF PoisonSettledDead
<1>7. IdleEmpty'
  BY <1>a, <1>b DEF TypeOK, IdleEmpty
<1> QED BY <1>1, <1>2, <1>3, <1>4, <1>5, <1>6, <1>7

LEMMA DrainDiesPreserves ==
  ASSUME BusInvariant, NEW w \in Workers, DrainDies(w)
  PROVE  BusInvariant'
<1> USE BusAssumption DEF BusInvariant, DrainDies, busVars, drainVars
<1>1. TypeOK'
  BY DEF TypeOK, Stages
<1>2. IdsInOrder' /\ NoEventSkipped' /\ BatchCovers'
  BY DEF TypeOK, IdsInOrder, NoEventSkipped, BatchCovers
<1>3. HeadSettled'
  BY DEF TypeOK, HeadSettled, IsHead
<1>4. PoisonSettledDead'
  BY DEF PoisonSettledDead
<1>5. IdleEmpty'
  BY DEF TypeOK, IdleEmpty
<1> QED BY <1>1, <1>2, <1>3, <1>4, <1>5

\* The step that needs quiet replays: no batch holds events that come back.
LEMMA ResetPreserves ==
  ASSUME ~LiveResets, BusInvariant, NEW c \in Consumers, NEW to \in Nat, Reset(c, to)
  PROVE  BusInvariant'
<1> USE BusAssumption DEF BusInvariant, Reset, busVars, drainVars
<1>a. \A w \in Workers : NameOf[w] = c => batch[w] = {}
  BY DEF Quiet, IdleEmpty
<1>1. TypeOK'
  BY DEF TypeOK, Stages
<1>2. IdsInOrder' /\ NoEventSkipped'
  BY DEF TypeOK, IdsInOrder, NoEventSkipped
<1>3. BatchCovers' /\ HeadSettled'
  BY <1>a DEF TypeOK, BatchCovers, HeadSettled, IsHead
<1>4. PoisonSettledDead' /\ IdleEmpty'
  BY DEF TypeOK, PoisonSettledDead, IdleEmpty
<1> QED BY <1>1, <1>2, <1>3, <1>4

(* The invariant is inductive.                                             *)
LEMMA StepInvariant ==
  ASSUME [InIdOrder]_vars, ~LiveResets, BusInvariant, [Next]_vars
  PROVE  BusInvariant'
<1>1. ASSUME NEW p \in Publishers, Publish(p) \/ Commit(p) \/ Abort(p)
      PROVE  BusInvariant'
  <2>1. CASE Commit(p)
    <3>1. CASE InIdOrder
      BY <2>1, <3>1, CommitPreserves
    <3>2. CASE UNCHANGED vars
      BY <2>1, <3>2 DEF vars, BusInvariant, TypeOK, Commit
    <3> QED BY <3>1, <3>2
  <2> QED BY <1>1, <2>1, PublishPreserves, AbortPreserves
<1>2. ASSUME NEW w \in Workers, WorkerStep(w) \/ DrainDies(w)
      PROVE  BusInvariant'
  BY <1>2, StartDrainPreserves, FetchPreserves, HandlerSucceedsPreserves,
     HandlerRaisesPreserves, WriteDeadLetterPreserves, ReadOffsetPreserves,
     WriteOffsetPreserves, DrainDiesPreserves DEF WorkerStep
<1>3. ASSUME NEW c \in Consumers, NEW to \in 0..MaxId, Reset(c, to)
      PROVE  BusInvariant'
  BY <1>3, ResetPreserves, BusAssumption
<1>4. CASE UNCHANGED vars
  BY <1>4 DEF vars, BusInvariant, TypeOK, IdsInOrder, NoEventSkipped, BatchCovers,
     HeadSettled, IsHead, PoisonSettledDead, IdleEmpty
<1> QED BY <1>1, <1>2, <1>3, <1>4 DEF Next

LEMMA BusInductive ==
  ASSUME ~LiveResets
  PROVE  Spec /\ CommitsInOrder => []BusInvariant
<1>1. BusInvariant /\ [Next]_vars /\ [InIdOrder]_vars => BusInvariant'
  BY StepInvariant
<1> QED BY <1>1, InitInvariant, PTL DEF Spec, CommitsInOrder

(* Whatever the numbers of publishers, events, drains, crashes and quiet     *)
(* replays, no acknowledgement passes an unsettled event (outbox.py:93-138)  *)
(* as long as commits come in the order of the ids.                          *)
THEOREM BusSafety ==
  ASSUME ~LiveResets
  PROVE  Spec /\ CommitsInOrder => []NoEventSkipped
<1>1. BusInvariant => NoEventSkipped
  BY DEF BusInvariant
<1> QED BY <1>1, BusInductive, PTL

(* Under the same two conditions no acknowledgement passes a poison event    *)
(* that has no dead_letters row (outbox.py:125-137).                         *)
THEOREM BusEvidence ==
  ASSUME ~LiveResets
  PROVE  Spec /\ CommitsInOrder => []PoisonLeavesEvidence
<1>1. BusInvariant => PoisonLeavesEvidence
  BY DEF BusInvariant, NoEventSkipped, PoisonSettledDead, PoisonLeavesEvidence
<1> QED BY <1>1, BusInductive, PTL

(* Each step of the outbox is a step of EventDelivery or leaves it alone.  *)
LEMMA StepRefines ==
  ASSUME [InIdOrder]_vars, ~LiveResets, BusInvariant, [Next]_vars
  PROVE  [Delivery!Next]_<<stream, settled>>
<1> USE BusAssumption DEF BusInvariant, busVars, drainVars
<1>1. ASSUME NEW p \in Publishers, Commit(p)
      PROVE  Delivery!Append
  <2>1. \A e \in stream' \ stream, f \in stream : f < e
    BY <1>1 DEF Commit, IdsInOrder
  <2> QED BY <1>1, <2>1 DEF Commit, Delivery!Append
<1>2. ASSUME NEW w \in Workers, NEW e \in batch[w], IsHead(w, e), UNCHANGED stream,
             settled' = [settled EXCEPT ![NameOf[w]] = @ \cup {e}]
      PROVE  [Delivery!Next]_<<stream, settled>>
  <2> DEFINE c == NameOf[w]
  <2>1. c \in Consumers /\ e \in stream /\ settled \in [Consumers -> SUBSET Nat]
    BY DEF TypeOK, BatchCovers
  <2>2. CASE e \in settled[c]
    BY <1>2, <2>1, <2>2
  <2>3. CASE e \notin settled[c]
    <3>1. ASSUME NEW f \in stream \ settled[c]
          PROVE  e <= f
      <4>1. f \in Nat /\ e \in Nat
        BY <2>1 DEF TypeOK
      <4>2. f <= e => f \in batch[w]
        BY DEF BatchCovers
      <4> QED BY <1>2, <4>1, <4>2 DEF IsHead
    <3>2. Delivery!Settle(c)
      BY <1>2, <2>1, <2>3, <3>1 DEF Delivery!Settle
    <3> QED BY <2>1, <3>2 DEF Delivery!Next
  <2> QED BY <2>2, <2>3
<1>3. ASSUME NEW w \in Workers, HandlerSucceeds(w) \/ WriteDeadLetter(w)
      PROVE  [Delivery!Next]_<<stream, settled>>
  BY <1>2, <1>3 DEF HandlerSucceeds, WriteDeadLetter
<1>4. ASSUME NEW c \in Consumers, NEW to \in 0..MaxId, Reset(c, to)
      PROVE  Delivery!Rewind(c)
  BY <1>4 DEF Reset, Delivery!Rewind, TypeOK
<1>5. ASSUME NEW p \in Publishers, Publish(p) \/ Abort(p)
      PROVE  UNCHANGED <<stream, settled>>
  BY <1>5 DEF Publish, Abort
<1>6. ASSUME NEW w \in Workers,
             \/ StartDrain(w) \/ Fetch(w) \/ HandlerRaises(w)
             \/ ReadOffset(w) \/ WriteOffset(w) \/ DrainDies(w)
      PROVE  UNCHANGED <<stream, settled>>
  BY <1>6 DEF StartDrain, Fetch, HandlerRaises, ReadOffset, WriteOffset, DrainDies
<1>7. CASE UNCHANGED vars
  BY <1>7 DEF vars
<1> QED BY <1>1, <1>3, <1>4, <1>5, <1>6, <1>7 DEF Next, WorkerStep, Delivery!Next

(* Under the same two conditions the outbox implements ordered, gap-free,  *)
(* at-least-once delivery.                                                 *)
THEOREM BusImplementsDelivery ==
  ASSUME ~LiveResets
  PROVE  Spec /\ CommitsInOrder => DeliverySpec
<1>1. Init => Delivery!Init
  BY DEF Init, Delivery!Init
<1>2. BusInvariant /\ [Next]_vars /\ [InIdOrder]_vars
        => [Delivery!Next]_<<stream, settled>>
  BY StepRefines
<1> QED
  BY <1>1, <1>2, BusInductive, PTL DEF Spec, CommitsInOrder, DeliverySpec, Delivery!Spec

-----------------------------------------------------------------------------
(* What needs neither condition.                                           *)

LEMMA TypesStep == TypeOK /\ [Next]_vars => TypeOK'
<1> SUFFICES ASSUME TypeOK, [Next]_vars PROVE TypeOK'
  OBVIOUS
<1> USE BusAssumption DEF TypeOK, busVars, drainVars, Stages
<1>1. ASSUME NEW p \in Publishers, Publish(p) PROVE TypeOK'
  BY <1>1 DEF Publish
<1>2. ASSUME NEW p \in Publishers, Commit(p) \/ Abort(p) PROVE TypeOK'
  <2>1. CASE Commit(p)
    BY <2>1 DEF Commit
  <2>2. CASE Abort(p)
    BY <2>2 DEF Abort
  <2> QED BY <1>2, <2>1, <2>2
<1>3. ASSUME NEW w \in Workers, StartDrain(w) PROVE TypeOK'
  BY <1>3 DEF StartDrain
<1>4. ASSUME NEW w \in Workers, Fetch(w) PROVE TypeOK'
  <2>1. Lowest(Pending(NameOf[w]), FetchLimit(w)) \in SUBSET Nat
    BY DEF Lowest, Pending
  <2>2. batch' \in [Workers -> SUBSET Nat]
    BY <1>4, <2>1 DEF Fetch
  <2> QED BY <1>4, <2>2 DEF Fetch
<1>5. ASSUME NEW w \in Workers, HandlerSucceeds(w) PROVE TypeOK'
  BY <1>5 DEF HandlerSucceeds
<1>6. ASSUME NEW w \in Workers, HandlerRaises(w) PROVE TypeOK'
  BY <1>6 DEF HandlerRaises
<1>7. ASSUME NEW w \in Workers, WriteDeadLetter(w) PROVE TypeOK'
  BY <1>7 DEF WriteDeadLetter
<1>8. ASSUME NEW w \in Workers, ReadOffset(w) PROVE TypeOK'
  BY <1>8 DEF ReadOffset
<1>9. ASSUME NEW w \in Workers, WriteOffset(w) PROVE TypeOK'
  BY <1>9 DEF WriteOffset
<1>10. ASSUME NEW w \in Workers, DrainDies(w) PROVE TypeOK'
  BY <1>10 DEF DrainDies
<1>11. ASSUME NEW c \in Consumers, NEW to \in 0..MaxId, Reset(c, to) PROVE TypeOK'
  BY <1>11 DEF Reset
<1>12. CASE UNCHANGED vars
  BY <1>12 DEF vars
<1> QED
  BY <1>1, <1>2, <1>3, <1>4, <1>5, <1>6, <1>7, <1>8, <1>9, <1>10, <1>11, <1>12
  DEF Next, WorkerStep

(* The outbox, its offsets and its dead letters have the types of the     *)
(* tables (db/models.py), in whatever order transactions commit.           *)
THEOREM BusTypes == Spec => []TypeOK
<1>1. Init => TypeOK
  BY InitInvariant DEF BusInvariant
<1> QED BY <1>1, TypesStep, PTL DEF Spec

(* All that a drain still holds is above the offset, if no other process   *)
(* drains under its name.                                                  *)
OneDrainPerName == \A v, w \in Workers : NameOf[v] = NameOf[w] => v = w

BatchAhead == \A w \in Workers : \A e \in batch[w] : e > offset[NameOf[w]]

LEMMA AheadStep ==
  ASSUME OneDrainPerName
  PROVE  TypeOK /\ BatchAhead /\ [Next]_vars => BatchAhead'
<1> SUFFICES ASSUME TypeOK, BatchAhead, [Next]_vars PROVE BatchAhead'
  OBVIOUS
<1> USE BusAssumption DEF TypeOK, BatchAhead, busVars, drainVars
<1>1. ASSUME NEW p \in Publishers, Publish(p) \/ Commit(p) \/ Abort(p) PROVE BatchAhead'
  BY <1>1 DEF Publish, Commit, Abort
<1>2. ASSUME NEW w \in Workers, Fetch(w) PROVE BatchAhead'
  BY <1>2 DEF Fetch, Lowest, Pending
<1>3. ASSUME NEW w \in Workers,
             \/ StartDrain(w) \/ HandlerSucceeds(w) \/ HandlerRaises(w)
             \/ WriteDeadLetter(w) \/ ReadOffset(w)
      PROVE  BatchAhead'
  BY <1>3 DEF StartDrain, HandlerSucceeds, HandlerRaises, WriteDeadLetter, ReadOffset
<1>4. ASSUME NEW w \in Workers, WriteOffset(w) PROVE BatchAhead'
  <2> SUFFICES ASSUME NEW v \in Workers, NEW f \in batch'[v] PROVE f > offset'[NameOf[v]]
    OBVIOUS
  <2>1. PICK e \in batch[w] :
          /\ \A g \in batch[w] : e <= g
          /\ offset' = [offset EXCEPT ![NameOf[w]] = IF e > seen[w] THEN e ELSE @]
          /\ batch' = [batch EXCEPT ![w] = @ \ {e}]
    BY <1>4 DEF WriteOffset, IsHead
  <2>2. CASE v = w
    <3>1. f \in batch[w] /\ f # e /\ f \in Nat /\ e \in Nat /\ e <= f
      BY <2>1, <2>2
    <3>2. e > offset[NameOf[w]] /\ f > offset[NameOf[w]]
      BY <3>1
    <3> QED BY <2>1, <2>2, <3>1, <3>2
  <2>3. CASE v # w
    <3>1. NameOf[v] # NameOf[w]
      BY <2>3 DEF OneDrainPerName
    <3> QED BY <2>1, <2>3, <3>1
  <2> QED BY <2>2, <2>3
<1>5. ASSUME NEW w \in Workers, DrainDies(w) PROVE BatchAhead'
  BY <1>5 DEF DrainDies
<1>6. ASSUME NEW c \in Consumers, NEW to \in 0..MaxId, Reset(c, to) PROVE BatchAhead'
  <2>1. to \in Nat /\ to < offset[c] /\ offset' = [offset EXCEPT ![c] = to] /\ batch' = batch
    BY <1>6 DEF Reset
  <2> SUFFICES ASSUME NEW v \in Workers, NEW f \in batch[v] PROVE f > offset'[NameOf[v]]
    BY <2>1
  <2>2. f \in Nat /\ f > offset[NameOf[v]] /\ offset[NameOf[v]] \in Nat
    OBVIOUS
  <2> QED BY <2>1, <2>2
<1>7. CASE UNCHANGED vars
  BY <1>7 DEF vars
<1> QED BY <1>1, <1>2, <1>3, <1>4, <1>5, <1>6, <1>7 DEF Next, WorkerStep

(* A crash in the middle of a batch redelivers only what is not            *)
(* acknowledged (outbox.py:81-84), with overlapping publishers and replays *)
(* during a drain too, as long as each consumer name has one drain.        *)
THEOREM BusRedeliversTail ==
  ASSUME OneDrainPerName
  PROVE  Spec => []OnlyTailRedelivered
<1>1. Init => BatchAhead
  BY DEF Init, BatchAhead
<1>2. BatchAhead => OnlyTailRedelivered
  BY DEF BatchAhead, OnlyTailRedelivered
<1> QED BY <1>1, <1>2, AheadStep, BusTypes, PTL DEF Spec
=============================================================================
