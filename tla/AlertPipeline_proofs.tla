------------------------- MODULE AlertPipeline_proofs -------------------------
(***************************************************************************)
(* No material filing falls between the two consumers, and no more than    *)
(* the hour's quota is pushed, for any number of filings of any severities *)
(* and any number of faults; both consumers see the delivery that          *)
(* EventDelivery describes.                                                *)
(***************************************************************************)
EXTENDS AlertPipeline, SequenceTheorems, FiniteSetTheorems, TLAPS

\* What an offset has passed is classified or dead, what is classified is on
\* the stream, and what A8's offset has passed is settled.
Accounted ==
  /\ \A f \in 1..acked2 : f \in classified \/ <<"a2", f>> \in dead
  /\ \A f \in classified : \E i \in 1..Len(stream) : stream[i] = f
  /\ \A i \in 1..acked8 : Severity[stream[i]] = "low" \/ Settled(stream[i])

\* The same of the event in hand, between its handling and its
\* acknowledgement.
InHand ==
  /\ pc = "a2ack" =>
       /\ acked2 < received
       /\ acked2 + 1 \in classified \/ <<"a2", acked2 + 1>> \in dead
  /\ pc \in {"a8commit", "a8ack"} => acked8 < Len(stream)
  /\ pc = "a8commit" => hour # <<>>
  /\ pc = "a8ack" => Severity[Current] = "low" \/ Settled(Current)

PipelineInvariant == TypeOK /\ Accounted /\ InHand

LEMMA LastOf ==
  ASSUME NEW R, NEW s \in Seq(R), s # <<>>
  PROVE  Len(s) \in 1..Len(s) /\ s[Len(s)] \in R
OBVIOUS

LEMMA TailOf ==
  ASSUME NEW R, NEW s \in Seq(R), s # <<>>
  PROVE  Tail(s) \in Seq(R) /\ (Len(s) > 1 => Tail(s) # <<>>)
<1>1. Tail(s) \in Seq(R) /\ Len(Tail(s)) = Len(s) - 1
  BY HeadTailProperties
<1>2. Len(s) > 1 => Len(Tail(s)) # 0
  BY <1>1
<1>3. Len(<<>>) = 0
  OBVIOUS
<1> QED BY <1>1, <1>2, <1>3

LEMMA PipelineInit == Init => PipelineInvariant
BY AlertAssumption DEF Init, PipelineInvariant, TypeOK, Accounted, InHand

LEMMA ReceiveKeeps ==
  ASSUME PipelineInvariant, Receive PROVE PipelineInvariant'
<1>1. TypeOK'
  BY AlertAssumption DEF Receive, a2Vars, a8Vars, PipelineInvariant, TypeOK
<1>2. InHand'
  BY DEF Receive, a2Vars, a8Vars, PipelineInvariant, TypeOK, InHand, Settled, Current
<1> QED BY <1>1, <1>2 DEF Receive, a2Vars, a8Vars, PipelineInvariant, Accounted, Settled

LEMMA ClassifyKeeps ==
  ASSUME PipelineInvariant, Classify PROVE PipelineInvariant'
<1>1. CASE acked2 + 1 \in classified
  BY <1>1, AlertAssumption DEF Classify, a8Vars, PipelineInvariant, TypeOK, Accounted, InHand, Settled, Current
<1>2. CASE acked2 + 1 \notin classified
  <2>1. /\ classified' = classified \cup {acked2 + 1}
        /\ stream' = Append(stream, acked2 + 1)
        /\ acked2 + 1 \in 1..received
        /\ acked2 + 1 \in Filings
        /\ pc' = "a2ack"
        /\ UNCHANGED <<received, acked2, acked8, logged, hour, dead, attempt, faults>>
    BY <1>2, AlertAssumption DEF Classify, a8Vars, PipelineInvariant, TypeOK, Filings
  <2>2. TypeOK'
    BY <2>1 DEF PipelineInvariant, TypeOK
  <2>3. /\ Len(stream') = Len(stream) + 1
        /\ \A i \in 1..Len(stream) : stream'[i] = stream[i]
        /\ stream'[Len(stream) + 1] = acked2 + 1
    BY <2>1 DEF PipelineInvariant, TypeOK
  <2>4. Accounted'
    <3>1. \A f \in classified' : \E i \in 1..Len(stream') : stream'[i] = f
      BY <2>1, <2>3 DEF PipelineInvariant, Accounted, TypeOK
    <3>2. \A i \in 1..acked8' : Severity[stream'[i]] = "low" \/ (Settled(stream[i]))'
      <4> SUFFICES ASSUME NEW i \in 1..acked8
                   PROVE  Severity[stream'[i]] = "low" \/ (Settled(stream[i]))'
        BY <2>1
      <4>1. i \in 1..Len(stream)
        BY DEF PipelineInvariant, TypeOK
      <4>2. stream'[i] = stream[i]
        BY <4>1, <2>3
      <4>3. Severity[stream[i]] = "low" \/ Settled(stream[i])
        BY DEF PipelineInvariant, Accounted
      <4> QED BY <2>1, <4>2, <4>3 DEF Settled
    <3> QED BY <2>1, <3>1, <3>2 DEF PipelineInvariant, Accounted
  <2> QED BY <2>1, <2>2, <2>4 DEF PipelineInvariant, TypeOK, InHand
<1> QED BY <1>1, <1>2

LEMMA BetweenKeeps ==
  ASSUME PipelineInvariant, Ack2 \/ A2Drained \/ A8Drained \/ Ignore
  PROVE PipelineInvariant'
<1>1. CASE Ack2
  <2>1. TypeOK'
    BY <1>1, AlertAssumption DEF Ack2, a8Vars, PipelineInvariant, TypeOK, InHand
  <2>2. \A f \in 1..acked2' : f \in classified' \/ <<"a2", f>> \in dead'
    <3> SUFFICES ASSUME NEW f \in 1..acked2'
                 PROVE  f \in classified \/ <<"a2", f>> \in dead
      BY <1>1 DEF Ack2, a8Vars
    <3>1. f \in 1..acked2 \/ f = acked2 + 1
      BY <1>1 DEF Ack2, PipelineInvariant, TypeOK
    <3> QED BY <1>1, <3>1 DEF Ack2, PipelineInvariant, Accounted, InHand
  <2> QED BY <1>1, <2>1, <2>2 DEF Ack2, a8Vars, PipelineInvariant, Accounted, InHand, Settled
<1>2. CASE A2Drained
  BY <1>2 DEF A2Drained, a2Vars, a8Vars, PipelineInvariant, TypeOK, Accounted, InHand, Settled, Current
<1>3. CASE A8Drained
  BY <1>3 DEF A8Drained, a2Vars, a8Vars, PipelineInvariant, TypeOK, Accounted, InHand, Settled, Current
<1>4. CASE Ignore
  BY <1>4 DEF Ignore, a2Vars, a8Vars, PipelineInvariant, TypeOK, Accounted, InHand, Settled, Current
<1> QED BY <1>1, <1>2, <1>3, <1>4

\* A row is written for the event in hand.
LEMMA LogKeeps ==
  ASSUME PipelineInvariant, acked8 < Len(stream),
         logged' = [logged EXCEPT ![Current] = @ + 1],
         UNCHANGED <<received, acked2, classified, stream, acked8, dead, attempt, faults>>,
         pc' = "a8ack", hour' \in Seq([telegram : BOOLEAN, webhook : BOOLEAN, recorded : BOOLEAN])
  PROVE  PipelineInvariant'
<1>1. Current \in Filings /\ Current' = Current
  BY DEF PipelineInvariant, TypeOK, Current
<1>2. logged' \in [Filings -> Nat]
  BY <1>1 DEF PipelineInvariant, TypeOK
<1>3. TypeOK'
  BY <1>2 DEF PipelineInvariant, TypeOK
<1>4. logged'[Current] > 0 /\ \A f \in Filings : logged[f] > 0 => logged'[f] > 0
  BY <1>1 DEF PipelineInvariant, TypeOK
<1>5. Accounted'
  BY <1>4 DEF PipelineInvariant, TypeOK, Accounted, Settled
<1>6. InHand'
  BY <1>1, <1>4 DEF InHand, Settled
<1> QED BY <1>3, <1>5, <1>6 DEF PipelineInvariant

LEMMA AlertKeeps ==
  ASSUME PipelineInvariant, LogOnly \/ CommitAlert PROVE PipelineInvariant'
<1>1. /\ acked8 < Len(stream)
      /\ logged' = [logged EXCEPT ![Current] = @ + 1]
      /\ UNCHANGED <<received, acked2, classified, stream, acked8, dead, attempt, faults>>
      /\ pc' = "a8ack"
  BY DEF LogOnly, CommitAlert, a2Vars, PipelineInvariant, InHand
<1>2. hour' \in Seq([telegram : BOOLEAN, webhook : BOOLEAN, recorded : BOOLEAN])
  <2>1. CASE LogOnly
    BY <2>1 DEF LogOnly, PipelineInvariant, TypeOK
  <2>2. CASE CommitAlert
    <3>1. Len(hour) \in 1..Len(hour) /\ hour[Len(hour)] \in [telegram : BOOLEAN, webhook : BOOLEAN, recorded : BOOLEAN]
      BY <2>2, LastOf DEF CommitAlert, PipelineInvariant, TypeOK, InHand
    <3>2. [hour[Len(hour)] EXCEPT !.recorded = TRUE] \in [telegram : BOOLEAN, webhook : BOOLEAN, recorded : BOOLEAN]
      BY <3>1
    <3> QED BY <2>2, <3>1, <3>2 DEF CommitAlert, PipelineInvariant, TypeOK
  <2> QED BY <2>1, <2>2
<1> QED BY <1>1, <1>2, LogKeeps

LEMMA PushKeeps ==
  ASSUME PipelineInvariant, Push PROVE PipelineInvariant'
<1>1. /\ hour' \in Seq([telegram : BOOLEAN, webhook : BOOLEAN, recorded : BOOLEAN])
      /\ hour' # <<>>
  BY AlertAssumption DEF Push, PipelineInvariant, TypeOK
<1> QED
  BY <1>1 DEF Push, a2Vars, PipelineInvariant, TypeOK, Accounted, InHand, Settled

\* What is settled stays settled, and A8's next event is the one after.
LEMMA Ack8Keeps ==
  ASSUME PipelineInvariant, Ack8 PROVE PipelineInvariant'
<1>1. TypeOK'
  BY AlertAssumption DEF Ack8, a2Vars, PipelineInvariant, TypeOK, InHand
<1>2. Accounted'
  <2>1. ASSUME NEW i \in 1..acked8' PROVE Severity[stream[i]] = "low" \/ Settled(stream[i])
    <3>1. i \in 1..acked8 \/ i = acked8 + 1
      BY DEF Ack8, PipelineInvariant, TypeOK
    <3> QED BY <3>1 DEF Ack8, PipelineInvariant, Accounted, InHand, Current
  <2> QED BY <2>1 DEF Ack8, a2Vars, PipelineInvariant, Accounted, Settled
<1> QED BY <1>1, <1>2 DEF Ack8, PipelineInvariant, InHand

LEMMA WorldKeeps ==
  ASSUME PipelineInvariant, Expire \/ Crash PROVE PipelineInvariant'
<1>1. CASE Expire
  <2>1. /\ hour' \in Seq([telegram : BOOLEAN, webhook : BOOLEAN, recorded : BOOLEAN])
        /\ pc = "a8commit" => hour' # <<>>
    BY <1>1, TailOf DEF Expire, PipelineInvariant, TypeOK
  <2> QED BY <1>1, <2>1 DEF Expire, a2Vars, PipelineInvariant, TypeOK, Accounted, InHand, Settled, Current
<1>2. CASE Crash
  <2>1. TypeOK'
    BY <1>2, AlertAssumption DEF Crash, a2Vars, a8Vars, PipelineInvariant, TypeOK
  <2> QED BY <1>2, <2>1 DEF Crash, a2Vars, a8Vars, PipelineInvariant, Accounted, InHand, Settled
<1> QED BY <1>1, <1>2

\* The last attempt leaves a dead letter for the event the offset passes.
LEMMA RaiseKeeps ==
  ASSUME PipelineInvariant, HandlerRaises PROVE PipelineInvariant'
<1>1. /\ acked2 + 1 \in Filings \/ ~HandlingA2
      /\ Current \in Filings \/ HandlingA2
  <2>1. HandlingA2 => acked2 + 1 \in Filings
    BY AlertAssumption DEF HandlingA2, PipelineInvariant, TypeOK, Filings
  <2>2. HandlingA8 => acked8 + 1 \in 1..Len(stream)
    BY DEF HandlingA8, PipelineInvariant, TypeOK
  <2>3. HandlingA8 => Current \in Filings
    BY <2>2 DEF PipelineInvariant, TypeOK, Current
  <2> QED BY <2>1, <2>3 DEF HandlerRaises
<1>2. TypeOK'
  BY <1>1, AlertAssumption DEF HandlerRaises, HandlingA2, HandlingA8, a2Vars, a8Vars, PipelineInvariant, TypeOK
<1>3. dead \subseteq dead'
  BY DEF HandlerRaises
<1>4. Accounted'
  BY <1>3 DEF HandlerRaises, a2Vars, a8Vars, PipelineInvariant, Accounted, Settled
<1>5. InHand'
  BY <1>3 DEF HandlerRaises, HandlingA2, HandlingA8, a2Vars, a8Vars, PipelineInvariant, TypeOK, InHand, Settled, Current
<1> QED BY <1>2, <1>4, <1>5 DEF PipelineInvariant

LEMMA PipelineStep == PipelineInvariant /\ [Next]_vars => PipelineInvariant'
<1>1. ASSUME PipelineInvariant, UNCHANGED vars PROVE PipelineInvariant'
  BY <1>1 DEF vars, a2Vars, a8Vars, PipelineInvariant, TypeOK, Accounted, InHand, Settled, Current
<1> QED
  BY <1>1, ReceiveKeeps, ClassifyKeeps, BetweenKeeps, AlertKeeps, PushKeeps, Ack8Keeps,
     WorldKeeps, RaiseKeeps DEF Next, ThreadStep

-----------------------------------------------------------------------------
\* The state, offsets and stream of the two consumers have the types the code
\* gives them (consumer.py and a8_alerts/engine.py).
THEOREM PipelineTypes == Spec => []TypeOK
<1>1. PipelineInvariant => TypeOK
  BY DEF PipelineInvariant
<1> QED BY <1>1, PipelineInit, PipelineStep, PTL DEF Spec

\* A material filing both offsets have passed has its alert or a dead letter;
\* until then it is still ahead of A8 (consumer.py:17-59, engine.py:209-282).
THEOREM PipelineLosesNothing == Spec => []NothingMaterialLost
<1>1. PipelineInvariant => NothingMaterialLost
  <2> SUFFICES ASSUME PipelineInvariant, NEW f \in Filings,
                      Severity[f] # "low", f <= acked2, ~Settled(f)
               PROVE  \E i \in (acked8 + 1)..Len(stream) : stream[i] = f
    BY DEF NothingMaterialLost
  <2>1. f \in classified
    BY AlertAssumption DEF PipelineInvariant, TypeOK, Accounted, Settled, Filings
  <2>2. PICK i \in 1..Len(stream) : stream[i] = f
    BY <2>1 DEF PipelineInvariant, Accounted
  <2>3. i \notin 1..acked8
    BY <2>2 DEF PipelineInvariant, Accounted
  <2> QED BY <2>2, <2>3 DEF PipelineInvariant, TypeOK
<1> QED BY <1>1, PipelineInit, PipelineStep, PTL DEF Spec
-----------------------------------------------------------------------------
(* The quota.  Each push of the last hour has its row but those a fault    *)
(* cut off from their commit, and the one in flight.                       *)
Pushes == [telegram : BOOLEAN, webhook : BOOLEAN, recorded : BOOLEAN]

Unrecorded(s) == {i \in 1..Len(s) : ~s[i].recorded}

Recorded(s) == {i \in 1..Len(s) : s[i].recorded}

InFlight == IF pc = "a8commit" THEN 1 ELSE 0

QuotaInvariant ==
  /\ \A i \in 1..Len(hour) : hour[i].telegram
  /\ Cardinality(Unrecorded(hour)) <= faults + InFlight
  /\ pc = "a8commit" => ~hour[Len(hour)].recorded
  /\ Len(hour) <= MaxHigh + faults

LEMMA UpTo ==
  ASSUME NEW n \in Nat PROVE IsFiniteSet(1..n) /\ Cardinality(1..n) = n
<1>1. IsFiniteSet(1..n) /\ Cardinality(1..n) = IF 1 > n THEN 0 ELSE n - 1 + 1
  BY FS_Interval
<1>2. (IF 1 > n THEN 0 ELSE n - 1 + 1) = n
  OBVIOUS
<1> QED BY <1>1, <1>2

LEMMA Parts ==
  ASSUME NEW s \in Seq(Pushes)
  PROVE  /\ IsFiniteSet(Unrecorded(s)) /\ IsFiniteSet(Recorded(s))
         /\ Cardinality(Unrecorded(s)) \in Nat /\ Cardinality(Recorded(s)) \in Nat
         /\ Cardinality(Recorded(s)) + Cardinality(Unrecorded(s)) = Len(s)
<1> DEFINE All == 1..Len(s)
<1>1. IsFiniteSet(All) /\ Cardinality(All) = Len(s) /\ Len(s) \in Nat
  <2>1. Len(s) \in Nat
    OBVIOUS
  <2> QED BY <2>1, UpTo
<1>2. IsFiniteSet(Unrecorded(s)) /\ IsFiniteSet(Recorded(s))
  <2>1. Unrecorded(s) \subseteq All /\ Recorded(s) \subseteq All
    BY DEF Unrecorded, Recorded
  <2> QED BY <1>1, <2>1, FS_Subset
<1>3. Recorded(s) \cup Unrecorded(s) = All /\ Recorded(s) \cap Unrecorded(s) = {}
  BY DEF Recorded, Unrecorded
<1>4. Cardinality(Unrecorded(s)) \in Nat /\ Cardinality(Recorded(s)) \in Nat
  BY <1>2, FS_CardinalityType
<1>5. Cardinality(Recorded(s) \cup Unrecorded(s))
        = Cardinality(Recorded(s)) + Cardinality(Unrecorded(s))
            - Cardinality(Recorded(s) \cap Unrecorded(s))
  BY <1>2, FS_Union
<1>6. Cardinality(Recorded(s) \cap Unrecorded(s)) = 0
  BY <1>3, FS_EmptySet
<1>7. Cardinality(All) = Cardinality(Recorded(s)) + Cardinality(Unrecorded(s)) - 0
  BY <1>3, <1>5, <1>6
<1> QED BY <1>1, <1>2, <1>4, <1>7

LEMMA CountAppend ==
  ASSUME NEW s \in Seq(Pushes), NEW e \in Pushes, ~e.recorded
  PROVE  Cardinality(Unrecorded(Append(s, e))) = Cardinality(Unrecorded(s)) + 1
<1>1. Unrecorded(Append(s, e)) = Unrecorded(s) \cup {Len(s) + 1}
  BY DEF Unrecorded
<1>2. Len(s) + 1 \notin Unrecorded(s)
  BY DEF Unrecorded
<1> QED BY <1>1, <1>2, Parts, FS_AddElement

LEMMA CountMark ==
  ASSUME NEW s \in Seq(Pushes), s # <<>>, ~s[Len(s)].recorded,
         NEW t, t = [s EXCEPT ![Len(s)].recorded = TRUE]
  PROVE  /\ Len(t) = Len(s) /\ \A i \in 1..Len(s) : t[i].telegram = s[i].telegram
         /\ Cardinality(Unrecorded(t)) = Cardinality(Unrecorded(s)) - 1
<1>0. Len(s) \in 1..Len(s)
  BY LastOf
<1>1. /\ Len(t) = Len(s) /\ t[Len(s)].recorded = TRUE
      /\ t[Len(s)].telegram = s[Len(s)].telegram
      /\ \A i \in 1..Len(s) : i # Len(s) => t[i] = s[i]
  <2>1. s[Len(s)] \in Pushes
    BY <1>0
  <2> QED BY <1>0, <2>1 DEF Pushes
<1>2. Unrecorded(t) = Unrecorded(s) \ {Len(s)} /\ Len(s) \in Unrecorded(s)
  BY <1>0, <1>1 DEF Unrecorded
<1> QED BY <1>1, <1>2, Parts, FS_RemoveElement

LEMMA CountTail ==
  ASSUME NEW s \in Seq(Pushes), s # <<>>
  PROVE  /\ Len(Tail(s)) = Len(s) - 1
         /\ \A i \in 1..(Len(s) - 1) : Tail(s)[i] = s[i + 1]
         /\ Cardinality(Unrecorded(Tail(s))) <= Cardinality(Unrecorded(s))
<1> DEFINE U == Unrecorded(Tail(s))
           f == [i \in U |-> i + 1]
<1>1. /\ Tail(s) \in Seq(Pushes) /\ Len(Tail(s)) = Len(s) - 1 /\ Len(s) \in Nat
      /\ \A i \in 1..(Len(s) - 1) : Tail(s)[i] = s[i + 1]
  BY HeadTailProperties
<1>2. \A i \in U : i \in Nat /\ i + 1 \in Unrecorded(s)
  BY <1>1 DEF Unrecorded
<1>3. f \in Injection(U, Unrecorded(s))
  BY <1>2 DEF Injection, IsInjective
<1>4. Cardinality(U) <= Cardinality(Unrecorded(s))
  BY <1>3, Parts, FS_Injection
<1> QED BY <1>1, <1>4

LEMMA QuotaInit == TelegramOn /\ Init => QuotaInvariant
<1> SUFFICES ASSUME TelegramOn, Init PROVE QuotaInvariant
  OBVIOUS
<1>1. Unrecorded(hour) = {} /\ Len(hour) = 0
  BY DEF Init, Unrecorded
<1> QED BY <1>1, FS_EmptySet, AlertAssumption DEF Init, QuotaInvariant, InFlight

LEMMA PushWithinQuota ==
  ASSUME TelegramOn, PipelineInvariant, QuotaInvariant, Push PROVE QuotaInvariant'
<1> DEFINE e == [telegram |-> TelegramOn, webhook |-> WebhookOn, recorded |-> FALSE]
<1>0. /\ hour \in Seq(Pushes) /\ e \in Pushes /\ MaxHigh \in Nat /\ faults \in Nat
      /\ hour' = Append(hour, e) /\ pc = "a8" /\ pc' = "a8commit" /\ faults' = faults
  BY AlertAssumption DEF Push, PipelineInvariant, TypeOK, Pushes
<1>1. Recorded(hour) = {i \in DOMAIN hour : hour[i].recorded /\ hour[i].telegram}
  BY <1>0 DEF Recorded, QuotaInvariant
<1>2. Cardinality(Recorded(hour)) < MaxHigh
  <2>1. Cardinality(Recorded(hour)) \in Nat
    BY <1>0, Parts
  <2>2. ~(Cardinality(Recorded(hour)) >= MaxHigh)
    BY <1>1 DEF Push, QuotaSpent, HighCount
  <2> QED BY <1>0, <2>1, <2>2
<1>3. Cardinality(Unrecorded(hour)) <= faults
  BY <1>0 DEF QuotaInvariant, InFlight
<1>4. Len(hour') = Len(hour) + 1 /\ Len(hour') <= MaxHigh + faults
  BY <1>0, <1>2, <1>3, Parts
<1>5. Cardinality(Unrecorded(hour')) <= faults + 1
  BY <1>0, <1>3, Parts, CountAppend
<1>6. (\A i \in 1..Len(hour') : hour'[i].telegram) /\ ~hour'[Len(hour')].recorded
  BY <1>0, <1>4 DEF QuotaInvariant
<1> QED BY <1>0, <1>4, <1>5, <1>6 DEF QuotaInvariant, InFlight

LEMMA CommitWithinQuota ==
  ASSUME PipelineInvariant, QuotaInvariant, CommitAlert PROVE QuotaInvariant'
<1>0. /\ hour \in Seq(Pushes) /\ hour # <<>> /\ faults \in Nat
      /\ ~hour[Len(hour)].recorded
      /\ hour' = [hour EXCEPT ![Len(hour)].recorded = TRUE]
      /\ pc = "a8commit" /\ pc' = "a8ack" /\ faults' = faults
  BY AlertAssumption DEF CommitAlert, PipelineInvariant, TypeOK, InHand, QuotaInvariant, Pushes
<1>1. /\ Len(hour') = Len(hour) /\ \A i \in 1..Len(hour) : hour'[i].telegram = hour[i].telegram
      /\ Cardinality(Unrecorded(hour')) = Cardinality(Unrecorded(hour)) - 1
  BY <1>0, CountMark
<1>2. Cardinality(Unrecorded(hour')) <= faults
  BY <1>0, <1>1, Parts DEF QuotaInvariant, InFlight
<1> QED BY <1>0, <1>1, <1>2 DEF QuotaInvariant, InFlight

LEMMA ExpireWithinQuota ==
  ASSUME PipelineInvariant, QuotaInvariant, Expire PROVE QuotaInvariant'
<1>0. /\ hour \in Seq(Pushes) /\ hour # <<>> /\ faults \in Nat /\ MaxHigh \in Nat
      /\ hour' = Tail(hour) /\ pc' = pc /\ faults' = faults
      /\ pc = "a8commit" => Len(hour) > 1
  BY AlertAssumption DEF Expire, PipelineInvariant, TypeOK, Pushes
<1>1. /\ Len(hour') = Len(hour) - 1 /\ Len(hour) \in Nat
      /\ \A i \in 1..(Len(hour) - 1) : hour'[i] = hour[i + 1]
      /\ Cardinality(Unrecorded(hour')) <= Cardinality(Unrecorded(hour))
  BY <1>0, CountTail
<1>2. hour' \in Seq(Pushes)
  BY <1>0, TailOf
<1>3. Cardinality(Unrecorded(hour')) <= faults + InFlight
  <2>1. Cardinality(Unrecorded(hour')) \in Nat /\ Cardinality(Unrecorded(hour)) \in Nat
    BY <1>0, <1>2, Parts
  <2>2. Cardinality(Unrecorded(hour)) <= faults + InFlight /\ InFlight \in Nat
    BY DEF QuotaInvariant, InFlight
  <2> QED BY <1>0, <1>1, <2>1, <2>2
<1>4. \A i \in 1..Len(hour') : hour'[i].telegram
  BY <1>1 DEF QuotaInvariant
<1>5. pc = "a8commit" => ~hour'[Len(hour')].recorded
  <2>1. pc = "a8commit" => Len(hour) - 1 \in 1..(Len(hour) - 1) /\ Len(hour) - 1 + 1 = Len(hour)
    BY <1>0, <1>1
  <2> QED BY <1>1, <2>1 DEF QuotaInvariant
<1>6. Len(hour') <= MaxHigh + faults
  BY <1>0, <1>1 DEF QuotaInvariant
<1> QED BY <1>0, <1>3, <1>4, <1>5, <1>6 DEF QuotaInvariant, InFlight

\* A fault makes room for the push it cut off.
LEMMA FaultWithinQuota ==
  ASSUME PipelineInvariant, QuotaInvariant, HandlerRaises \/ Crash PROVE QuotaInvariant'
<1>0. /\ hour' = hour /\ faults' = faults + 1 /\ faults \in Nat /\ pc' # "a8commit"
      /\ hour \in Seq(Pushes) /\ MaxHigh \in Nat
  BY AlertAssumption DEF HandlerRaises, HandlingA2, HandlingA8, Crash, a8Vars,
     PipelineInvariant, TypeOK, Pushes
<1>1. Cardinality(Unrecorded(hour)) <= faults + 1
  BY <1>0, Parts DEF QuotaInvariant, InFlight
<1> QED BY <1>0, <1>1, Parts DEF QuotaInvariant, InFlight

LEMMA QuotaStep ==
  TelegramOn /\ PipelineInvariant /\ QuotaInvariant /\ [Next]_vars => QuotaInvariant'
<1> SUFFICES ASSUME TelegramOn, PipelineInvariant, QuotaInvariant, [Next]_vars
             PROVE  QuotaInvariant'
  OBVIOUS
<1>1. CASE \/ UNCHANGED vars \/ Receive \/ Classify \/ Ack2 \/ A2Drained \/ Ignore
           \/ LogOnly \/ Ack8 \/ A8Drained
  <2>1. UNCHANGED <<hour, faults>> /\ (pc' = "a8commit" <=> pc = "a8commit")
    BY <1>1 DEF vars, a8Vars, Receive, Classify, Ack2, A2Drained, Ignore, LogOnly, Ack8,
       A8Drained
  <2> QED BY <2>1 DEF QuotaInvariant, InFlight
<1> QED
  BY <1>1, PushWithinQuota, CommitWithinQuota, ExpireWithinQuota, FaultWithinQuota
  DEF Next, ThreadStep

\* With Telegram on, no hour holds more high pushes than the quota and one for
\* each fault between a push and its commit, however many filings there are
\* and whenever the hour is over (a8_alerts/engine.py:179-212).
THEOREM PushesWithinQuota == Spec => []PushesBounded
<1>1. ASSUME TelegramOn, PipelineInvariant, QuotaInvariant PROVE PushesBounded
  <2> DEFINE Pushed == {i \in DOMAIN hour : hour[i].telegram \/ hour[i].webhook}
  <2>1. hour \in Seq(Pushes) /\ MaxHigh \in Nat /\ faults \in Nat
    BY <1>1, AlertAssumption DEF PipelineInvariant, TypeOK, Pushes
  <2>2. Pushed \subseteq 1..Len(hour) /\ Len(hour) \in Nat
    BY <2>1
  <2>3. Cardinality(Pushed) <= Len(hour) /\ Cardinality(Pushed) \in Nat
    <3>1. IsFiniteSet(1..Len(hour)) /\ Cardinality(1..Len(hour)) = Len(hour)
      BY <2>2, UpTo
    <3>2. IsFiniteSet(Pushed) /\ Cardinality(Pushed) <= Cardinality(1..Len(hour))
      BY <2>2, <3>1, FS_Subset
    <3> QED BY <3>1, <3>2, FS_CardinalityType
  <2>4. Cardinality(Pushed) <= MaxHigh + faults
    BY <1>1, <2>1, <2>2, <2>3 DEF QuotaInvariant
  <2> QED BY <2>4 DEF PushesBounded
<1>2. ~TelegramOn => PushesBounded
  BY DEF PushesBounded
<1>3. CASE TelegramOn
  <2>1. Init => PipelineInvariant /\ QuotaInvariant
    BY <1>3, PipelineInit, QuotaInit
  <2>2. PipelineInvariant /\ QuotaInvariant /\ [Next]_vars
          => PipelineInvariant' /\ QuotaInvariant'
    BY <1>3, PipelineStep, QuotaStep
  <2>3. PipelineInvariant /\ QuotaInvariant => PushesBounded
    BY <1>1, <1>3
  <2> QED BY <2>1, <2>2, <2>3, PTL DEF Spec
<1>4. CASE ~TelegramOn
  <2>1. PushesBounded
    BY <1>2, <1>4
  <2> QED BY <2>1, PTL
<1> QED BY <1>3, <1>4

-----------------------------------------------------------------------------
(* Each of the two consumers sees the delivery EventDelivery describes.    *)

\* An offset moves past one event, which the stream holds.
LEMMA OneFurther ==
  ASSUME NEW n \in Nat, NEW m \in Nat, m < n
  PROVE  /\ m + 1 \in (1..n) \ (1..m)
         /\ \A k \in (1..n) \ (1..m) : m + 1 <= k
         /\ 1..(m + 1) = (1..m) \cup {m + 1}
OBVIOUS

LEMMA A2Step ==
  PipelineInvariant /\ [Next]_vars
    => [A2Delivery!Next]_<<1..received, [c \in {"a2"} |-> 1..acked2]>>
<1> SUFFICES ASSUME PipelineInvariant, [Next]_vars
             PROVE  [A2Delivery!Next]_<<1..received, [c \in {"a2"} |-> 1..acked2]>>
  OBVIOUS
<1>1. received \in Nat /\ acked2 \in Nat
  BY AlertAssumption DEF PipelineInvariant, TypeOK
<1>2. CASE Receive
  <2>1. received' = received + 1 /\ acked2' = acked2
    BY <1>2 DEF Receive, a2Vars
  <2>2. A2Delivery!Append
    BY <1>1, <2>1 DEF A2Delivery!Append
  <2> QED BY <2>2 DEF A2Delivery!Next
<1>3. CASE Ack2
  <2>1. received' = received /\ acked2' = acked2 + 1 /\ acked2 < received
    BY <1>3 DEF Ack2, PipelineInvariant, InHand
  <2>2. /\ acked2 + 1 \in (1..received) \ (1..acked2)
        /\ \A k \in (1..received) \ (1..acked2) : acked2 + 1 <= k
        /\ 1..acked2' = (1..acked2) \cup {acked2 + 1}
    BY <1>1, <2>1, OneFurther
  <2>3. [c \in {"a2"} |-> 1..acked2']
          = [[c \in {"a2"} |-> 1..acked2] EXCEPT !["a2"] = @ \cup {acked2 + 1}]
    BY <2>2
  <2>4. A2Delivery!Settle("a2")
    BY <2>1, <2>2, <2>3, Zenon DEF A2Delivery!Settle
  <2> QED BY <2>4 DEF A2Delivery!Next
<1>4. CASE UNCHANGED <<received, acked2>>
  BY <1>4
<1>5. Receive \/ Ack2 \/ UNCHANGED <<received, acked2>>
  BY DEF Next, ThreadStep, Classify, A2Drained, Ignore, LogOnly, Push, CommitAlert, Ack8,
         A8Drained, Expire, HandlerRaises, Crash, vars, a2Vars, a8Vars
<1> QED BY <1>2, <1>3, <1>4, <1>5

LEMMA A8Step ==
  PipelineInvariant /\ [Next]_vars
    => [A8Delivery!Next]_<<1..Len(stream), [c \in {"a8"} |-> 1..acked8]>>
<1> SUFFICES ASSUME PipelineInvariant, [Next]_vars
             PROVE  [A8Delivery!Next]_<<1..Len(stream), [c \in {"a8"} |-> 1..acked8]>>
  OBVIOUS
<1>1. Len(stream) \in Nat /\ acked8 \in Nat /\ stream \in Seq(Filings)
  BY DEF PipelineInvariant, TypeOK
<1>2. CASE Classify /\ stream' = Append(stream, acked2 + 1)
  <2>1. acked2 + 1 \in Filings
    BY <1>2, AlertAssumption DEF Classify, PipelineInvariant, TypeOK, Filings
  <2>2. Len(stream') = Len(stream) + 1 /\ acked8' = acked8
    BY <1>1, <1>2, <2>1 DEF Classify, a8Vars
  <2>3. A8Delivery!Append
    BY <1>1, <2>2 DEF A8Delivery!Append
  <2> QED BY <2>3 DEF A8Delivery!Next
<1>3. CASE Ack8
  <2>1. stream' = stream /\ acked8' = acked8 + 1 /\ acked8 < Len(stream)
    BY <1>3 DEF Ack8, a2Vars, PipelineInvariant, InHand
  <2>2. /\ acked8 + 1 \in (1..Len(stream)) \ (1..acked8)
        /\ \A k \in (1..Len(stream)) \ (1..acked8) : acked8 + 1 <= k
        /\ 1..acked8' = (1..acked8) \cup {acked8 + 1}
    BY <1>1, <2>1, OneFurther
  <2>3. [c \in {"a8"} |-> 1..acked8']
          = [[c \in {"a8"} |-> 1..acked8] EXCEPT !["a8"] = @ \cup {acked8 + 1}]
    BY <2>2
  <2>4. A8Delivery!Settle("a8")
    BY <2>1, <2>2, <2>3, Zenon DEF A8Delivery!Settle
  <2> QED BY <2>4 DEF A8Delivery!Next
<1>4. CASE UNCHANGED <<stream, acked8>>
  BY <1>4
<1>5. \/ Classify /\ stream' = Append(stream, acked2 + 1)
      \/ Ack8
      \/ UNCHANGED <<stream, acked8>>
  BY DEF Next, ThreadStep, Receive, Classify, Ack2, A2Drained, Ignore, LogOnly, Push,
         CommitAlert, A8Drained, Expire, HandlerRaises, Crash, vars, a2Vars, a8Vars
<1> QED BY <1>2, <1>3, <1>4, <1>5

\* Handlers that raise, dead letters and deaths of the process included, A2
\* and A8 each take the events of their stream in order and pass over none
\* (bus/outbox.py:53-137 as consumer.py and a8_alerts/engine.py use it).
THEOREM PipelineDelivers == Spec => DeliveredInOrder
<1>1. Init => A2Delivery!Init /\ A8Delivery!Init
  BY DEF Init, A2Delivery!Init, A8Delivery!Init
<1> QED
  BY <1>1, PipelineInit, PipelineStep, A2Step, A8Step, PTL
  DEF Spec, DeliveredInOrder, A2Delivery!Spec, A8Delivery!Spec
=============================================================================
