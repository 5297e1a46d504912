-------------------------- MODULE Supervisor_proofs -------------------------
(***************************************************************************)
(* The loop's promises for any calendar, any host uptime and any number of *)
(* days, alerts, failures and restarts.                                    *)
(***************************************************************************)
EXTENDS Supervisor, FiniteSetTheorems, TLAPS

(* The inductive invariant, in four parts.                                 *)
LoopTypes ==
  /\ now \in Nat
  /\ done \in [Kinds -> Int]
  /\ count \in [Kinds -> Nat]
  /\ lives \in Nat
  /\ eodCount \in Nat
  /\ eodDone \in Int
  /\ stage \in 0..5
  /\ scored \in [Agents -> Int]
  /\ booted \in Int
  /\ booted <= now
  /\ lastSync \in Int
  /\ tried \in Int
  /\ tried <= now

\* A job not marked today has begun fewer times than the process has lived.
CountedRuns ==
  /\ \A k \in Kinds : /\ count[k] <= lives
                      /\ up /\ done[k] # Today => count[k] < lives
  /\ eodCount <= lives
  /\ up /\ eodDone # Today => eodCount < lives

\* The stages already run today, and the order of all of them.
StagesInOrder ==
  /\ stage # 0 => Today \in kept
  /\ stage > 1 => scored["a4"] = Today
  /\ stage > 2 => scored["a3"] = Today
  /\ stage > 3 => scored["a5"] = Today
  /\ stage > 4 => scored["a6"] = Today
  /\ \A a \in Agents : scored[a] <= Today
  /\ \A a \in Agents : scored[a] # Never => scored[a] \in kept
  /\ scored["a3"] <= scored["a4"]
  /\ scored["a5"] <= scored["a3"]
  /\ scored["a6"] <= scored["a5"]
  /\ scored["a7"] <= scored["a6"]

\* A day is marked after its prices are stored.
PricesKept ==
  /\ published \subseteq TradingDays
  /\ \A d \in published : d <= Today
  /\ AskedUntilKept

\* The sync timer stands where the process or its last sync put it.
TimerSet == lastSync = 0 \/ (tried # Never /\ lastSync = tried - booted)

LoopInvariant == LoopTypes /\ CountedRuns /\ StagesInOrder /\ PricesKept /\ TimerSet

LEMMA ConstantTypes ==
  /\ Days \in Nat /\ HostUp \in Nat /\ TradingDays \subseteq Nat
  /\ SlotsPerDay = 6 /\ EodHour = 5 /\ Never = -1
BY DigestAssumption, SupervisorAssumption DEF SlotsPerDay, EodHour, Never

LEMMA DayTurns ==
  ASSUME NEW n \in Nat
  PROVE  /\ n \div 6 \in Nat
         /\ (n + 1) \div 6 = n \div 6 \/ ((n + 1) \div 6 = n \div 6 + 1 /\ n % 6 = 5)
OBVIOUS

LEMMA InitLoop == Init => LoopInvariant
<1> SUFFICES ASSUME Init PROVE LoopInvariant
  OBVIOUS
<1> USE ConstantTypes DEF Init, DigestInit
<1>1. LoopTypes
  BY DEF LoopTypes
<1>2. Today = 0
  BY DEF Today
<1>3. CountedRuns
  BY <1>2 DEF CountedRuns
<1>4. StagesInOrder
  BY <1>2 DEF StagesInOrder, Agents
<1>5. PricesKept /\ TimerSet
  BY DEF PricesKept, AskedUntilKept, TimerSet
<1> QED BY <1>1, <1>3, <1>4, <1>5 DEF LoopInvariant

LEMMA TodayNat == ASSUME LoopTypes PROVE Today \in Nat
BY DayTurns, ConstantTypes DEF LoopTypes, Today

(* One lemma per group of actions.                                         *)
LEMMA SyncPreserves ==
  ASSUME LoopInvariant, SyncMaster PROVE LoopInvariant'
<1> USE DEF LoopInvariant, SyncMaster, digestVars, eodVars
<1>0. Today' = Today
  BY DEF Today
<1>1. Monotonic \in Int /\ LoopTypes' /\ TimerSet'
  BY ConstantTypes DEF LoopTypes, TimerSet, Monotonic
<1>2. CountedRuns' /\ StagesInOrder' /\ PricesKept'
  BY <1>0 DEF CountedRuns, StagesInOrder, PricesKept, AskedUntilKept
<1> QED BY <1>1, <1>2

LEMMA PublishPreserves ==
  ASSUME LoopInvariant, PublishPrices PROVE LoopInvariant'
<1> USE DEF LoopInvariant, PublishPrices, digestVars, syncVars
<1>0. Today' = Today /\ Today \in Nat
  BY TodayNat DEF Today
<1>1. LoopTypes' /\ TimerSet' /\ CountedRuns' /\ StagesInOrder'
  BY <1>0 DEF LoopTypes, TimerSet, CountedRuns, StagesInOrder
<1>2. PricesKept'
  BY <1>0 DEF PricesKept, AskedUntilKept
<1> QED BY <1>1, <1>2

LEMMA IngestPreserves ==
  ASSUME LoopInvariant, EodIngest \/ EodIngestFails PROVE LoopInvariant'
<1> USE DEF LoopInvariant
<1>0. Today' = Today /\ Today \in Nat
  BY TodayNat DEF Today, EodIngest, EodIngestFails, digestVars
<1>1. CASE EodIngest
  <2> USE <1>1 DEF EodIngest, EodDue, digestVars, syncVars
  <2>1. LoopTypes' /\ TimerSet'
    BY <1>0 DEF LoopTypes, TimerSet
  <2>2. CountedRuns'
    BY <1>0 DEF CountedRuns, LoopTypes
  <2>3. StagesInOrder'
    BY <1>0 DEF StagesInOrder
  <2>4. kept' = kept \cup {Today} /\ refused' = refused \ {Today}
        /\ published' = published /\ missed' = missed /\ eodDone' = Today
    OBVIOUS
  <2>5. PricesKept'
    <3> HIDE DEF EodIngest, EodDue
    <3> QED BY <1>0, <2>4 DEF PricesKept, AskedUntilKept
  <2> QED BY <2>1, <2>2, <2>3, <2>5
<1>2. CASE EodIngestFails
  <2> USE <1>2 DEF EodIngestFails, EodDue, syncVars, digestVars
  <2>1. LoopTypes' /\ TimerSet' /\ CountedRuns'
    BY <1>0 DEF LoopTypes, TimerSet, CountedRuns
  <2>2. kept \subseteq kept' /\ refused \subseteq refused'
    OBVIOUS
  <2>3. StagesInOrder'
    BY <1>0, <2>2 DEF StagesInOrder
  <2>4. PricesKept'
    BY <1>0, <2>2 DEF PricesKept, AskedUntilKept
  <2> QED BY <2>1, <2>3, <2>4
<1> QED BY <1>1, <1>2

LEMMA StagePreserves ==
  ASSUME LoopInvariant, EodStage PROVE LoopInvariant'
<1> USE DEF LoopInvariant, EodStage, digestVars, syncVars
<1>0. Today' = Today /\ Today \in Nat
  BY TodayNat DEF Today
<1>1. stage \in 1..5 /\ stage' \in 0..5 /\ (stage' # 0 => stage' = stage + 1)
  BY DEF LoopTypes, NextStage, Chain
<1>2. Chain[stage] \in Agents
  BY <1>1 DEF Chain, Agents
<1>3. scored' \in [Agents -> Int]
  BY <1>0, <1>2 DEF LoopTypes
<1>4. LoopTypes' /\ TimerSet' /\ CountedRuns' /\ PricesKept'
  BY <1>0, <1>1, <1>3 DEF LoopTypes, TimerSet, CountedRuns, PricesKept, AskedUntilKept
<1>5. StagesInOrder'
  <2>1. /\ stage = 1 => Chain[stage] = "a4"
        /\ stage = 2 => Chain[stage] = "a3"
        /\ stage = 3 => Chain[stage] = "a5"
        /\ stage = 4 => Chain[stage] = "a6"
        /\ stage = 5 => Chain[stage] = "a7"
    BY DEF Chain
  <2>2. \A a \in Agents : scored'[a] = IF a = Chain[stage] THEN Today ELSE scored[a]
    BY <1>2 DEF LoopTypes
  <2>3. /\ \A a \in Agents : scored'[a] <= Today'
        /\ \A a \in Agents : scored'[a] # Never => scored'[a] \in kept'
    BY <1>0, <1>1, <2>2 DEF StagesInOrder
  <2>4. /\ scored'["a3"] <= scored'["a4"] /\ scored'["a5"] <= scored'["a3"]
        /\ scored'["a6"] <= scored'["a5"] /\ scored'["a7"] <= scored'["a6"]
    BY <1>0, <1>1, <2>1, <2>2 DEF StagesInOrder, LoopTypes, Agents
  <2>5. /\ stage' # 0 => Today' \in kept'
        /\ stage' > 1 => scored'["a4"] = Today'
        /\ stage' > 2 => scored'["a3"] = Today'
        /\ stage' > 3 => scored'["a5"] = Today'
        /\ stage' > 4 => scored'["a6"] = Today'
    BY <1>0, <1>1, <2>1, <2>2 DEF StagesInOrder, LoopTypes, Agents
  <2> QED BY <2>3, <2>4, <2>5 DEF StagesInOrder
<1> QED BY <1>4, <1>5

LEMMA StageRaisesPreserves ==
  ASSUME LoopInvariant, EodStageRaises PROVE LoopInvariant'
<1> USE DEF LoopInvariant, EodStageRaises, syncVars
<1>0. Today' = Today
  BY DEF Today
<1>1. LoopTypes' /\ TimerSet' /\ CountedRuns' /\ PricesKept' /\ StagesInOrder'
  BY <1>0 DEF LoopTypes, TimerSet, CountedRuns, PricesKept, AskedUntilKept, StagesInOrder
<1> QED BY <1>1

LEMMA DigestPreserves ==
  ASSUME LoopInvariant, DigestStep PROVE LoopInvariant'
<1> USE DEF LoopInvariant, eodVars, syncVars
<1>0. Today' = Today /\ Today \in Nat
  BY TodayNat DEF DigestStep, Today, RaiseHigh, SendDigest, DigestRaises
<1>1. /\ done' \in [Kinds -> Int] /\ count' \in [Kinds -> Nat]
      /\ UNCHANGED <<now, up, lives>>
      /\ \A k \in Kinds : /\ count'[k] <= lives
                          /\ up /\ done'[k] # Today => count'[k] < lives
  <2>1. CASE RaiseHigh
    BY <2>1 DEF RaiseHigh, LoopTypes, CountedRuns
  <2>2. ASSUME NEW k \in Kinds, SendDigest(k) \/ DigestRaises(k)
        PROVE  /\ UNCHANGED <<now, up, lives>>
               /\ up /\ done[k] # Today
               /\ done' = [done EXCEPT ![k] = Today]
               /\ count' = [count EXCEPT ![k] = @ + 1]
    BY <2>2 DEF SendDigest, DigestRaises, Due
  <2>3. CASE \E k \in Kinds : SendDigest(k) \/ DigestRaises(k)
    BY <2>2, <2>3, <1>0 DEF LoopTypes, CountedRuns
  <2> QED BY <2>1, <2>3 DEF DigestStep
<1>2. missed => missed'
  BY DEF DigestStep, RaiseHigh, SendDigest, DigestRaises
<1>3. LoopTypes' /\ TimerSet' /\ CountedRuns'
  BY <1>0, <1>1 DEF DigestStep, LoopTypes, TimerSet, CountedRuns
<1>4. StagesInOrder' /\ PricesKept'
  BY <1>0, <1>2 DEF DigestStep, StagesInOrder, PricesKept, AskedUntilKept
<1> QED BY <1>3, <1>4

LEMMA DeathPreserves ==
  ASSUME LoopInvariant, LoopDies PROVE LoopInvariant'
<1> USE DEF LoopInvariant, LoopDies, Dies, syncVars
<1>0. Today' = Today
  BY DEF Today
<1>1. LoopTypes' /\ TimerSet' /\ CountedRuns'
  BY <1>0 DEF LoopTypes, TimerSet, CountedRuns
<1>2. StagesInOrder' /\ PricesKept'
  BY <1>0 DEF StagesInOrder, PricesKept, AskedUntilKept
<1> QED BY <1>1, <1>2

LEMMA RestartPreserves ==
  ASSUME LoopInvariant, LoopRestarts \/ HostBoots PROVE LoopInvariant'
<1> USE DEF LoopInvariant, LoopRestarts, HostBoots, Restart
<1>0. Today' = Today
  BY DEF Today
<1>1. LoopTypes' /\ TimerSet'
  BY ConstantTypes DEF LoopTypes, TimerSet
<1>2. CountedRuns'
  BY <1>0 DEF LoopTypes, CountedRuns
<1>3. StagesInOrder' /\ PricesKept'
  BY <1>0 DEF StagesInOrder, PricesKept, AskedUntilKept
<1> QED BY <1>1, <1>2, <1>3

LEMMA PassPreserves ==
  ASSUME LoopInvariant, LoopPass PROVE LoopInvariant'
<1> USE DEF LoopInvariant, LoopPass, Pass, syncVars
<1>1. /\ now \in Nat /\ now' = now + 1 /\ Today \in Nat
      /\ Today' = Today \/ (Today' = Today + 1 /\ now % SlotsPerDay = EodHour)
  BY DayTurns, ConstantTypes DEF LoopTypes, Today
<1>2. (now' \div SlotsPerDay = Today) <=> (Today' = Today)
  BY DEF Today
<1>3. LoopTypes' /\ TimerSet'
  BY <1>1 DEF LoopTypes, TimerSet
<1>4. CountedRuns'
  <2>1. CASE Today' = Today
    BY <2>1, <1>2 DEF CountedRuns
  <2>2. CASE Today' # Today
    BY <2>2, <1>2 DEF CountedRuns
  <2> QED BY <2>1, <2>2
<1>5. StagesInOrder'
  BY <1>1 DEF StagesInOrder, LoopTypes
<1>6. PricesKept'
  <2>1. CASE Today' = Today
    BY <2>1 DEF PricesKept, AskedUntilKept
  <2>2. CASE Today' = Today + 1
    <3>0. published' = published /\ \A d \in published : d \in Nat /\ d <= Today
      <4>1. published \subseteq TradingDays /\ TradingDays \subseteq Nat
        BY ConstantTypes DEF PricesKept
      <4> QED BY <4>1 DEF PricesKept
    <3>1. ASSUME ~missed', Today \in published PROVE Today \in kept \cup refused
      <4>1. up /\ Today \in TradingDays /\ \A k \in Kinds : ~Due(k)
        BY <3>1 DEF PricesKept
      <4>2. now % SlotsPerDay >= EodHour
        BY <1>1, <2>2, ConstantTypes
      <4>3. eodDone = Today \/ Today \in refused
        BY <3>1, <4>1, <4>2 DEF EodDue
      <4> QED BY <4>3, <1>1, ConstantTypes DEF PricesKept, AskedUntilKept
    <3>2. ASSUME ~missed', NEW d \in published, d < Today' PROVE d \in kept \cup refused
      <4>1. d \in Nat /\ (d < Today \/ d = Today)
        <5> HIDE DEF Pass, LoopPass, LoopInvariant
        <5> QED BY <3>0, <3>2, <2>2, <1>1
      <4> QED BY <4>1, <3>1, <3>2 DEF PricesKept, AskedUntilKept
    <3>3. AskedUntilKept'
      BY <3>2 DEF PricesKept, AskedUntilKept
    <3>4. \A d \in published' : d <= Today'
      <4> HIDE DEF Pass, LoopPass, LoopInvariant
      <4> QED BY <3>0, <1>1, <2>2
    <3> QED BY <3>3, <3>4 DEF PricesKept
  <2> QED BY <1>1, <2>1, <2>2
<1> QED BY <1>3, <1>4, <1>5, <1>6

LEMMA LoopInductive == LoopInvariant /\ [Next]_vars => LoopInvariant'
<1> SUFFICES ASSUME LoopInvariant, [Next]_vars PROVE LoopInvariant'
  OBVIOUS
<1>1. CASE UNCHANGED vars
  BY <1>1 DEF vars, digestVars, eodVars, syncVars, LoopInvariant, LoopTypes,
     CountedRuns, StagesInOrder, PricesKept, AskedUntilKept, TimerSet, Today
<1>2. CASE EodNotUp
  BY <1>1, <1>2 DEF EodNotUp
<1> QED
  BY <1>1, <1>2, SyncPreserves, PublishPreserves, IngestPreserves, StagePreserves,
     StageRaisesPreserves, DigestPreserves, DeathPreserves, RestartPreserves,
     PassPreserves DEF Next

(* Types, dates and counts of the loop's daily jobs, for ever               *)
(* (supervisor.py:95-231).                                                 *)
THEOREM LoopCorrect == Spec => []LoopInvariant
BY InitLoop, LoopInductive, PTL DEF Spec

(* A day is marked only once its prices are stored, and a bhavcopy up on   *)
(* its own evening and not stored by midnight was asked for in vain or the *)
(* process was down (supervisor.py:188-192).                               *)
THEOREM PricesAskedFor == Spec => []AskedUntilKept
<1>1. LoopInvariant => AskedUntilKept
  BY DEF LoopInvariant, PricesKept
<1> QED BY <1>1, LoopCorrect, PTL

(* Stances are issued on the day's own scores and verdicts                 *)
(* (supervisor.py:218-231).                                                *)
THEOREM StancesFresh == Spec => []StancesOnFreshInputs
<1>1. ASSUME LoopInvariant PROVE StancesOnFreshInputs
  <2>1. /\ scored["a4"] \in Int /\ scored["a3"] \in Int /\ scored["a5"] \in Int
        /\ scored["a6"] \in Int /\ scored["a7"] \in Int
    BY <1>1 DEF LoopInvariant, LoopTypes, Agents
  <2>2. ASSUME NEW i \in 1..5, NEW j \in 1..5, i < j
        PROVE  scored[Chain[j]] <= scored[Chain[i]]
    <3>1. /\ Chain[1] = "a4" /\ Chain[2] = "a3" /\ Chain[3] = "a5"
          /\ Chain[4] = "a6" /\ Chain[5] = "a7"
      BY DEF Chain
    <3>2. i \in {1, 2, 3, 4} /\ j \in {2, 3, 4, 5}
      BY <2>2
    <3> QED BY <1>1, <2>1, <2>2, <3>1, <3>2 DEF LoopInvariant, StagesInOrder
  <2>3. Len(Chain) = 5
    BY DEF Chain
  <2> QED BY <1>1, <2>2, <2>3 DEF StancesOnFreshInputs, LoopInvariant, StagesInOrder
<1> QED BY <1>1, LoopCorrect, PTL

(* The securities master is asked for daily, process restarts or not, and  *)
(* within a day of each boot of the host (supervisor.py:78, :100-102).     *)
THEOREM MasterTried == Spec => []MasterTriedDaily
<1>1. LoopInvariant => MasterTriedDaily
  BY ConstantTypes DEF LoopInvariant, LoopTypes, TimerSet, MasterTriedDaily, SyncDue, Monotonic
<1> QED BY <1>1, LoopCorrect, PTL
-----------------------------------------------------------------------------
(* The refinement: each job, with its history counters for the abstract    *)
(* ones, is a DailyJob.  A step of the loop is a run of one job, a new     *)
(* life, a new day or a stutter.                                           *)
LEMMA LoopStep ==
  ASSUME LoopInvariant, [Next]_vars, NEW k \in Kinds
  PROVE  /\ \/ UNCHANGED <<Today, count[k], lives>>
            \/ /\ Today \in TradingDays /\ count[k] < lives
               /\ count[k]' = count[k] + 1 /\ UNCHANGED <<Today, lives>>
            \/ lives' = lives + 1 /\ UNCHANGED <<Today, count[k]>>
            \/ Today' = Today + 1 /\ count[k]' = 0 /\ lives' = 1
         /\ \/ UNCHANGED <<Today, eodCount, lives>>
            \/ /\ Today \in TradingDays /\ eodCount < lives
               /\ eodCount' = eodCount + 1 /\ UNCHANGED <<Today, lives>>
            \/ lives' = lives + 1 /\ UNCHANGED <<Today, eodCount>>
            \/ Today' = Today + 1 /\ eodCount' = 0 /\ lives' = 1
<1> USE DEF digestVars, eodVars, syncVars
<1>1. CASE UNCHANGED vars \/ SyncMaster \/ PublishPrices \/ EodNotUp
             \/ EodIngestFails \/ EodStage \/ EodStageRaises \/ LoopDies
  BY <1>1 DEF vars, Today, SyncMaster, PublishPrices, EodNotUp, EodIngestFails,
     EodStage, EodStageRaises, LoopDies, Dies
<1>2. CASE EodIngest
  BY <1>2 DEF EodIngest, EodDue, Today, LoopInvariant, CountedRuns
<1>3. CASE DigestStep
  <2>1. CASE RaiseHigh
    BY <1>3, <2>1 DEF DigestStep, RaiseHigh, Today
  <2>2. ASSUME NEW j \in Kinds, SendDigest(j) \/ DigestRaises(j)
        PROVE  /\ UNCHANGED <<now, lives>>
               /\ Today \in TradingDays
               /\ up /\ done[j] # Today
               /\ count' = [count EXCEPT ![j] = @ + 1]
    BY <2>2 DEF SendDigest, DigestRaises, Due
  <2>3. CASE \E j \in Kinds : SendDigest(j) \/ DigestRaises(j)
    BY <1>3, <2>2, <2>3 DEF DigestStep, Today, LoopInvariant, LoopTypes, CountedRuns
  <2> QED BY <1>3, <2>1, <2>3 DEF DigestStep
<1>4. CASE LoopRestarts \/ HostBoots
  BY <1>4 DEF LoopRestarts, HostBoots, Restart, Today
<1>5. CASE LoopPass
  <2>1. Today' = Today \/ Today' = Today + 1
    BY <1>5, DayTurns, ConstantTypes DEF LoopPass, Pass, Today, LoopInvariant, LoopTypes
  <2>2. (now' \div SlotsPerDay = Today) <=> (Today' = Today)
    BY DEF Today
  <2>3. CASE Today' = Today
    BY <1>5, <2>2, <2>3 DEF LoopPass, Pass
  <2>4. CASE Today' # Today
    BY <1>5, <2>1, <2>2, <2>4 DEF LoopPass, Pass
  <2> QED BY <2>3, <2>4
<1> QED BY <1>1, <1>2, <1>3, <1>4, <1>5 DEF Next

LEMMA JobsBegin == Init => PreOpen!Init /\ PostClose!Init /\ EndOfDay!Init
BY ConstantTypes DEF Init, DigestInit, Today, Kinds, PreOpen!Init, PostClose!Init, EndOfDay!Init

LEMMA JobsStep ==
  LoopInvariant /\ [Next]_vars =>
    /\ [PreOpen!Next]_(PreOpen!jobVars)
    /\ [PostClose!Next]_(PostClose!jobVars)
    /\ [EndOfDay!Next]_(EndOfDay!jobVars)
<1> SUFFICES ASSUME LoopInvariant, [Next]_vars
             PROVE  /\ [PreOpen!Next]_(PreOpen!jobVars)
                    /\ [PostClose!Next]_(PostClose!jobVars)
                    /\ [EndOfDay!Next]_(EndOfDay!jobVars)
  OBVIOUS
<1>0. "pre_open" \in Kinds /\ "post_close" \in Kinds
  BY DEF Kinds
<1>1. [PreOpen!Next]_(PreOpen!jobVars)
  BY <1>0, LoopStep DEF PreOpen!Next, PreOpen!Run, PreOpen!NewLife, PreOpen!NewDay, PreOpen!jobVars
<1>2. [PostClose!Next]_(PostClose!jobVars)
  BY <1>0, LoopStep DEF PostClose!Next, PostClose!Run, PostClose!NewLife, PostClose!NewDay, PostClose!jobVars
<1>3. [EndOfDay!Next]_(EndOfDay!jobVars)
  BY <1>0, LoopStep DEF EndOfDay!Next, EndOfDay!Run, EndOfDay!NewLife, EndOfDay!NewDay, EndOfDay!jobVars
<1> QED BY <1>1, <1>2, <1>3

(* The digests and the end-of-day chain are once-per-trading-day jobs      *)
(* (supervisor.py:144, :163).                                              *)
THEOREM LoopImplementsDailyJobs == Spec => DailyJobs
<1>1. Spec => PreOpen!Spec /\ PostClose!Spec /\ EndOfDay!Spec
  BY JobsBegin, JobsStep, LoopCorrect, PTL
     DEF Spec, PreOpen!Spec, PostClose!Spec, EndOfDay!Spec
<1> QED BY <1>1 DEF DailyJobs
-----------------------------------------------------------------------------
(* The digests.  What a digest reports, the alerts that wait for one, and  *)
(* the digests already sent; LoopInvariant gives the types.                *)

LEMMA InitDigests == Init => DigestInvariant
<1> SUFFICES ASSUME Init PROVE DigestInvariant
  OBVIOUS
<1> USE ConstantTypes DEF Init, DigestInit
<1>1. DigestsSent
  <2> SUFFICES ASSUME NEW d \in TradingDays, NEW k \in Kinds, 6 * d + HourOf[k] < 0
               PROVE  FALSE
    BY DEF DigestsSent
  <2>1. d \in Nat /\ HourOf[k] \in Nat
    BY DEF Kinds, HourOf
  <2> QED BY <2>1
<1>2. MarkedSent /\ OverflowDigested
  BY DEF MarkedSent, OverflowDigested
<1>3. PastDated
  BY FS_EmptySet DEF PastDated
<1> QED BY <1>1, <1>2, <1>3 DEF DigestInvariant

LEMMA SlotOfDay ==
  ASSUME NEW n \in Nat
  PROVE  n = 6 * (n \div 6) + (n % 6) /\ n \div 6 \in Nat /\ n % 6 \in 0..5
OBVIOUS

\* More alerts can only crowd an alert further.
LEMMA CrowdGrows ==
  ASSUME NEW a, IsFiniteSet(alerts'), alerts \subseteq alerts', Crowded(a)
  PROVE  Crowded(a)'
<1> DEFINE Newer(S) == {b \in S : b.id > a.id /\ b.at <= a.at + LookBack}
<1>1. Newer(alerts) \subseteq Newer(alerts') /\ Newer(alerts') \subseteq alerts'
  OBVIOUS
<1>2. IsFiniteSet(Newer(alerts')) /\ IsFiniteSet(Newer(alerts))
  BY <1>1, FS_Subset
<1>3. Cardinality(Newer(alerts)) <= Cardinality(Newer(alerts'))
  BY <1>1, <1>2, FS_Subset
<1>4. Cardinality(Newer(alerts)) \in Nat /\ Cardinality(Newer(alerts')) \in Nat
  BY <1>2, FS_CardinalityType
<1>5. Cardinality(Newer(alerts)) >= Shown
  BY DEF Crowded
<1>6. Cardinality(Newer(alerts')) >= Shown
  BY <1>3, <1>4, <1>5, DigestAssumption
<1> HIDE DEF Newer
<1> QED BY <1>6 DEF Crowded, Newer

\* An alert in the window that newer ones leave room for is shown.
LEMMA RoomIsUsed ==
  ASSUME now \in Nat, PastDated, NEW a \in alerts, a.at >= now - LookBack, ~Crowded(a)
  PROVE  a \in Gathered
<1> DEFINE Above == {b \in Recent : b.id > a.id}
           Newer == {b \in alerts : b.id > a.id /\ b.at <= a.at + LookBack}
<1>1. a \in Recent
  BY DEF Recent
<1>2. ASSUME NEW b \in Above PROVE b \in Newer
  <2>1. b \in alerts /\ b.id > a.id /\ b.at \in Nat /\ b.at <= now /\ a.at \in Nat
    BY DEF Recent, PastDated
  <2>2. b.at <= a.at + LookBack
    BY <2>1 DEF LookBack
  <2> QED BY <2>1, <2>2
<1>3. IsFiniteSet(Newer) /\ Newer \subseteq alerts
  BY FS_Subset DEF PastDated
<1>4. IsFiniteSet(Above) /\ Cardinality(Above) <= Cardinality(Newer)
  BY <1>2, <1>3, FS_Subset
<1>5. Cardinality(Above) \in Nat /\ Cardinality(Newer) \in Nat
  BY <1>3, <1>4, FS_CardinalityType
<1>6. ~(Cardinality(Newer) >= Shown)
  BY DEF Crowded
<1>7. Cardinality(Above) < Shown
  BY <1>4, <1>5, <1>6, DigestAssumption
<1> HIDE DEF Newer
<1> QED BY <1>1, <1>7 DEF Gathered, Above

\* No digest has passed since the alert: it is still in the window.
LEMMA WindowHolds ==
  ASSUME now \in Nat, lastDigest \in Int, ~missed, DigestsSent, PastDated,
         NEW a \in alerts, Timely(a), ~(a.at < lastDigest)
  PROVE  a.at >= now - LookBack
<1>1. a.at \in Nat
  BY DEF PastDated
<1>2. PICK d \in TradingDays : a.at \in (6 * d - 3)..(6 * d + 3)
  BY ConstantTypes DEF Timely, HourOf, LookBack
<1>3. d \in Nat /\ "pre_open" \in Kinds /\ "post_close" \in Kinds
  BY ConstantTypes DEF Kinds
<1>4. /\ 6 * d + 2 < now => 6 * d + 2 <= lastDigest
      /\ 6 * d + 4 < now => 6 * d + 4 <= lastDigest
  BY <1>3, ConstantTypes DEF DigestsSent, HourOf
<1> QED BY <1>1, <1>2, <1>3, <1>4 DEF LookBack

\* The steps that touch none of it.
LEMMA DigestsUndisturbed ==
  ASSUME DigestInvariant, UNCHANGED <<now, alerts, done, reported, lastDigest, missed>>
  PROVE  DigestInvariant'
BY DEF DigestInvariant, DigestsSent, MarkedSent, PastDated, OverflowDigested, Timely, Crowded

LEMMA RaiseHighDigests ==
  ASSUME LoopInvariant, lastDigest \in Int, DigestInvariant, RaiseHigh
  PROVE  DigestInvariant'
<1> USE DEF DigestInvariant, RaiseHigh
<1>0. now \in Nat
  BY DEF LoopInvariant, LoopTypes
<1>1. DigestsSent' /\ MarkedSent'
  BY DEF DigestsSent, MarkedSent
<1>2. PastDated'
  <2>1. IsFiniteSet(alerts')
    BY FS_AddElement DEF PastDated
  <2> QED BY <1>0, <2>1 DEF PastDated
<1>3. OverflowDigested'
  <2> SUFFICES ASSUME ~missed, NEW a \in alerts', a.at < lastDigest, Timely(a)', ~Crowded(a)'
               PROVE  a.id \in reported
    BY DEF OverflowDigested
  <2>1. a \in alerts
    BY <1>0 DEF PastDated
  <2>2. Timely(a) /\ ~Crowded(a)
    BY <1>2, CrowdGrows DEF Timely, PastDated
  <2> QED BY <2>1, <2>2 DEF OverflowDigested
<1> QED BY <1>1, <1>2, <1>3

LEMMA SendDigestDigests ==
  ASSUME LoopInvariant, lastDigest \in Int, DigestInvariant,
         NEW k \in Kinds, SendDigest(k)
  PROVE  DigestInvariant'
<1> USE DEF DigestInvariant, SendDigest
<1>0. now \in Nat /\ lastDigest <= now
  BY DEF LoopInvariant, LoopTypes, PastDated
<1>1. DigestsSent'
  BY <1>0, ConstantTypes DEF DigestsSent, Kinds, HourOf
<1>2. MarkedSent'
  <2> SUFFICES ASSUME ~missed, NEW j \in Kinds, done'[j] # Never
               PROVE  SlotsPerDay * done'[j] + HourOf[j] <= now
    BY DEF MarkedSent
  <2>1. done \in [Kinds -> Int] /\ HourOf[j] \in Nat
    BY DEF LoopInvariant, LoopTypes, Kinds, HourOf
  <2>2. CASE j = k
    <3>1. now = 6 * (now \div 6) + (now % 6) /\ now \div 6 \in Nat /\ now % 6 \in Nat
      BY <1>0, SlotOfDay
    <3>2. done'[j] = now \div 6
      BY <2>1, <2>2, ConstantTypes DEF Today
    <3>3. now % 6 >= HourOf[j]
      BY <2>2, ConstantTypes DEF Due
    <3> HIDE DEF SendDigest
    <3> QED BY <2>1, <3>1, <3>2, <3>3, ConstantTypes
  <2>3. CASE j # k
    <3>1. done'[j] = done[j]
      BY <2>1, <2>3
    <3>2. SlotsPerDay * done[j] + HourOf[j] <= lastDigest
      BY <2>3, <3>1 DEF MarkedSent
    <3> QED BY <1>0, <2>1, <3>1, <3>2, ConstantTypes
  <2> QED BY <2>2, <2>3
<1>3. PastDated'
  BY <1>0 DEF PastDated
<1>4. OverflowDigested'
  <2> SUFFICES ASSUME ~missed, NEW a \in alerts, Timely(a)', ~Crowded(a)'
               PROVE  a.id \in reported'
    BY DEF OverflowDigested
  <2>1. Timely(a) /\ ~Crowded(a)
    BY DEF Timely, Crowded
  <2>2. CASE a.at < lastDigest
    BY <2>1, <2>2 DEF OverflowDigested
  <2>3. CASE ~(a.at < lastDigest)
    BY <1>0, <2>1, <2>3, WindowHolds, RoomIsUsed
  <2> QED BY <2>2, <2>3
<1> QED BY <1>1, <1>2, <1>3, <1>4

LEMMA PassDigests ==
  ASSUME LoopInvariant, lastDigest \in Int, DigestInvariant, Pass
  PROVE  DigestInvariant'
<1> USE DEF DigestInvariant
<1>0. /\ now \in Nat /\ now' = now + 1 /\ (~missed' => ~missed /\ up)
      /\ UNCHANGED <<alerts, done, reported, lastDigest>>
      /\ \A k \in Kinds : ~Due(k)
  BY DEF LoopInvariant, LoopTypes, Pass
<1>1. DigestsSent'
  <2> SUFFICES ASSUME ~missed, up, NEW d \in TradingDays, NEW k \in Kinds,
                      SlotsPerDay * d + HourOf[k] < now + 1
               PROVE  SlotsPerDay * d + HourOf[k] <= lastDigest
    BY <1>0 DEF DigestsSent
  <2>1. d \in Nat /\ HourOf[k] \in {2, 4}
    BY ConstantTypes DEF Kinds, HourOf
  <2>2. CASE SlotsPerDay * d + HourOf[k] < now
    BY <2>2 DEF DigestsSent
  <2>3. CASE SlotsPerDay * d + HourOf[k] = now
    <3>1. now \div 6 = d /\ now % 6 = HourOf[k]
      BY <1>0, <2>1, <2>3, ConstantTypes
    <3>2. done[k] = d
      BY <1>0, <2>1, <3>1, ConstantTypes DEF Due, Today
    <3> QED BY <2>1, <3>2, ConstantTypes DEF MarkedSent
  <2> QED BY <1>0, <2>1, <2>2, <2>3, ConstantTypes
<1>2. MarkedSent'
  BY <1>0 DEF MarkedSent
<1>3. PastDated'
  BY <1>0 DEF PastDated
<1>4. OverflowDigested'
  BY <1>0 DEF OverflowDigested, Timely, Crowded
<1> QED BY <1>1, <1>2, <1>3, <1>4

LEMMA LastDigestInt ==
  ASSUME LoopInvariant, lastDigest \in Int, [Next]_vars PROVE lastDigest' \in Int
BY DEF LoopInvariant, LoopTypes, vars, digestVars, Next, SyncMaster, PublishPrices, EodNotUp,
   EodIngest, EodIngestFails, EodStage, EodStageRaises, DigestStep, RaiseHigh, SendDigest,
   DigestRaises, LoopDies, Dies, LoopRestarts, HostBoots, Restart, LoopPass, Pass

LEMMA DigestInductive ==
  ASSUME LoopInvariant, lastDigest \in Int, DigestInvariant, [Next]_vars
  PROVE  DigestInvariant'
<1>1. CASE UNCHANGED vars \/ SyncMaster \/ PublishPrices \/ EodNotUp \/ EodIngest
             \/ EodIngestFails \/ EodStage \/ EodStageRaises \/ LoopDies
  <2>1. UNCHANGED <<now, alerts, done, reported, lastDigest, missed>>
    BY <1>1 DEF vars, digestVars, SyncMaster, PublishPrices, EodNotUp, EodIngest,
       EodIngestFails, EodStage, EodStageRaises, LoopDies, Dies
  <2> QED BY <2>1, DigestsUndisturbed
<1>2. ASSUME NEW k \in Kinds, DigestRaises(k) PROVE DigestInvariant'
  BY <1>2 DEF DigestRaises, DigestInvariant, DigestsSent, MarkedSent, PastDated, OverflowDigested
<1>3. CASE LoopRestarts \/ HostBoots
  <2>1. /\ UNCHANGED <<now, alerts, reported, lastDigest, missed>>
        /\ \A k \in Kinds : done'[k] = Never
    BY <1>3 DEF LoopRestarts, HostBoots, Restart
  <2> QED BY <2>1 DEF DigestInvariant, DigestsSent, MarkedSent, PastDated, OverflowDigested,
          Timely, Crowded
<1>4. CASE LoopPass
  BY <1>4, PassDigests DEF LoopPass
<1>5. CASE DigestStep
  BY <1>5, <1>2, RaiseHighDigests, SendDigestDigests DEF DigestStep
<1> QED BY <1>1, <1>3, <1>4, <1>5 DEF Next

(* Whatever the calendar, the number of alerts and the restarts, as long as *)
(* no digest raised and no slot passed with the process down, a high alert *)
(* of a trading day's window that newer ones leave room for is shown in a  *)
(* digest (agents/a8_alerts/engine.py:14-16, :261-292).                    *)
THEOREM DigestsComplete == Spec => []OverflowDigested
<1> DEFINE Inv == LoopInvariant /\ lastDigest \in Int /\ DigestInvariant
<1>1. Init => Inv
  BY InitLoop, InitDigests DEF Init, DigestInit, Never
<1>2. Inv /\ [Next]_vars => Inv'
  BY LoopInductive, LastDigestInt, DigestInductive
<1>3. Inv => OverflowDigested
  BY DEF DigestInvariant
<1> QED BY <1>1, <1>2, <1>3, PTL DEF Spec
=============================================================================
