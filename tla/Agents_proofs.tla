---------------------------- MODULE Agents_proofs ----------------------------
(***************************************************************************)
(* The agents' promises for every input: what Fusion issues, what Triage   *)
(* stores and what Scoring computes.                                       *)
(***************************************************************************)
EXTENDS Fusion, Triage, Scoring, FiniteSetTheorems, WellFoundedInduction, TLAPS

-----------------------------------------------------------------------------
(* Fusion.  For every set of scores, events and facts and any number of    *)
(* nights: the latest signal of the default profile heeds what A6 would    *)
(* find, and the latest signal of any profile is within the hysteresis of  *)
(* the latest result.                                                      *)
(*                                                                         *)
(* The first takes three facts about the weights and the nights, kept in   *)
(* the invariant: a symbol with a signal has scores of two of the three    *)
(* agents and keeps them; two of them always carry the floor; and one of   *)
(* them is A3 or A5, whose symbols A6 assesses every night.                *)

FusionTypes ==
  /\ rows3 \subseteq ScoreValues
  /\ score \in [{"a4", "a5"} -> ScoreValues \cup {None}]
  /\ event \in EventValues \cup {None}
  /\ verdict \in {"unassessed", "clear", "penalty", "hard_block"}
  /\ phase \in {"day", "score", "assess", "issue", "issued"}
  /\ \A p \in Profiles : signal[p].conviction \in Int
  /\ DOMAIN signal = Profiles

\* Two agents have scored the symbol.
TwoScored ==
  \/ rows3 # {} /\ score["a4"] # None
  \/ rows3 # {} /\ score["a5"] # None
  \/ score["a4"] # None /\ score["a5"] # None

SignalsScored == \A p \in Profiles : signal[p] # NoSignal => TwoScored

\* Once assessed, the verdict is tonight's for a symbol with two scores.
VerdictOfTonight == phase \in {"issue", "issued"} /\ TwoScored => verdict = Verdict(facts)

\* What issuing leaves behind.
LatestNear ==
  \A p \in Profiles :
    phase = "issued" /\ TwoScored /\ fused[p] # NoSignal => Near(signal[p], fused[p])

LatestHeeds ==
  \A p \in Profiles :
    (p = "default" /\ phase = "issued" /\ TwoScored) =>
      /\ verdict = "hard_block" => signal[p].stance = "suppressed"
      /\ verdict = "penalty" => signal[p].stance \notin {"buy", "accumulate"}

FusionInvariant ==
  FusionTypes /\ SignalsScored /\ VerdictOfTonight /\ LatestNear /\ LatestHeeds

\* issue_all's test of coverage.
LEMMA HasCount ==
  FusionTypes => (Cardinality(Has) < 2 <=> ~TwoScored) /\ (Cardinality(Has) >= 2 <=> TwoScored)
<1> SUFFICES ASSUME FusionTypes
             PROVE  (Cardinality(Has) < 2 <=> ~TwoScored) /\ (Cardinality(Has) >= 2 <=> TwoScored)
  OBVIOUS
<1> DEFINE three == rows3 # {}
           four == score["a4"] # None
           five == score["a5"] # None
<1>1. Has = (IF three THEN {"a3"} ELSE {}) \cup (IF four THEN {"a4"} ELSE {})
              \cup (IF five THEN {"a5"} ELSE {})
  BY DEF Has
<1>2. /\ Cardinality({}) = 0
      /\ \A x : Cardinality({x}) = 1
  BY FS_EmptySet, FS_Singleton
<1>3. \A x, y : x # y => Cardinality({x, y}) = 2
  <2> SUFFICES ASSUME NEW x, NEW y, x # y PROVE Cardinality({x, y}) = 2
    OBVIOUS
  <2>1. IsFiniteSet({x}) /\ Cardinality({x}) = 1
    BY FS_Singleton
  <2>2. Cardinality({x} \cup {y}) = 2
    BY <2>1, FS_AddElement
  <2>3. {x} \cup {y} = {x, y}
    OBVIOUS
  <2> QED BY <2>2, <2>3
<1>4. Cardinality({"a3", "a4", "a5"}) = 3
  <2>1. IsFiniteSet({"a3"}) /\ Cardinality({"a3"}) = 1
    BY FS_Singleton
  <2>2. IsFiniteSet({"a3"} \cup {"a4"}) /\ Cardinality({"a3"} \cup {"a4"}) = 2
    BY <2>1, FS_AddElement
  <2>3. Cardinality(({"a3"} \cup {"a4"}) \cup {"a5"}) = 3
    BY <2>2, FS_AddElement
  <2>4. ({"a3"} \cup {"a4"}) \cup {"a5"} = {"a3", "a4", "a5"}
    OBVIOUS
  <2> QED BY <2>3, <2>4
<1>5. CASE three /\ four /\ five
  <2>1. Has = {"a3", "a4", "a5"}
    BY <1>1, <1>5
  <2>2. TwoScored
    BY <1>5 DEF TwoScored
  <2> QED BY <2>1, <2>2, <1>4
<1>6. CASE three /\ four /\ ~five
  <2>1. Has = {"a3", "a4"}
    BY <1>1, <1>6
  <2>2. Cardinality({"a3", "a4"}) = 2
    BY <1>3
  <2>3. TwoScored
    BY <1>6 DEF TwoScored
  <2> QED BY <2>1, <2>2, <2>3
<1>7. CASE three /\ ~four /\ five
  <2>1. Has = {"a3", "a5"}
    BY <1>1, <1>7
  <2>2. Cardinality({"a3", "a5"}) = 2
    BY <1>3
  <2>3. TwoScored
    BY <1>7 DEF TwoScored
  <2> QED BY <2>1, <2>2, <2>3
<1>8. CASE ~three /\ four /\ five
  <2>1. Has = {"a4", "a5"}
    BY <1>1, <1>8
  <2>2. Cardinality({"a4", "a5"}) = 2
    BY <1>3
  <2>3. TwoScored
    BY <1>8 DEF TwoScored
  <2> QED BY <2>1, <2>2, <2>3
<1>9. CASE ~TwoScored
  <2>1. Has = {} \/ \E x : Has = {x}
    BY <1>1, <1>9 DEF TwoScored
  <2>2. Cardinality(Has) = 0 \/ Cardinality(Has) = 1
    BY <2>1, <1>2
  <2> QED BY <2>2, <1>9
<1>10. TwoScored => (three /\ four) \/ (three /\ five) \/ (four /\ five)
  BY DEF TwoScored
<1> QED BY <1>5, <1>6, <1>7, <1>8, <1>9, <1>10, Zenon

\* weighted_fusion stays on the scale.
LEMMA MeanOnScale ==
  ASSUME FusionTypes, NEW p \in Profiles, NEW values \in Values
  PROVE  WeightedFusion(values, WeightsOf[p]) \in Int
<1> DEFINE w == WeightsOf[p]
<1> USE FusionAssumption DEF None
<1>1. PICK three \in IF rows3 = {} THEN {None} ELSE rows3 :
        values = [a3 |-> three, a4 |-> score["a4"], a5 |-> score["a5"], event |-> event]
  BY DEF Values
<1>2. three \in Int /\ score["a4"] \in Int /\ score["a5"] \in Int /\ event \in Int
  <2>1. three \in Int
    BY <1>1 DEF FusionTypes
  <2>2. \A a \in {"a4", "a5"} : score[a] \in ScoreValues \cup {None}
    BY DEF FusionTypes
  <2>3. score["a4"] \in ScoreValues \cup {-1} /\ score["a5"] \in ScoreValues \cup {-1}
    BY <2>2
  <2>4. event \in EventValues \cup {-1}
    BY DEF FusionTypes
  <2>5. \A x : x \in ScoreValues \cup EventValues \cup {-1} => x \in Int
    OBVIOUS
  <2> QED BY <2>1, <2>3, <2>4, <2>5
<1>3. /\ values["a3"] \in Int /\ values["a4"] \in Int
      /\ values["a5"] \in Int /\ values["event"] \in Int
  BY <1>1, <1>2
<1>a. p = "default" \/ p = "short"
  OBVIOUS
<1>b. /\ w["a3"] \in Int /\ w["a4"] \in Int /\ w["a5"] \in Int /\ w["event"] \in Int
  BY <1>a DEF WeightsOf
<1>c. /\ Weight(values, w, "a3") \in Int /\ Weight(values, w, "a4") \in Int
      /\ Weight(values, w, "a5") \in Int /\ Weight(values, w, "event") \in Int
  BY <1>b DEF Weight
<1>d. Covered(values, w) \in Int /\ Points(values, w) \in Int
  <2> DEFINE t3 == Weight(values, w, "a3") * values["a3"]
             t4 == Weight(values, w, "a4") * values["a4"]
             t5 == Weight(values, w, "a5") * values["a5"]
             te == Weight(values, w, "event") * values["event"]
  <2>1. t3 \in Int /\ t4 \in Int /\ t5 \in Int /\ te \in Int
    BY <1>3, <1>c
  <2>2. Points(values, w) = t3 + t4 + t5 + te
    BY DEF Points
  <2> HIDE DEF t3, t4, t5, te
  <2>3. Points(values, w) \in Int
    BY <2>1, <2>2
  <2>4. Covered(values, w) \in Int
    BY <1>c DEF Covered
  <2> QED BY <2>3, <2>4
<1>4. CASE Covered(values, w) < Floor
  BY <1>4 DEF WeightedFusion, None
<1>5. CASE ~(Covered(values, w) < Floor)
  <2>1. 2 * Covered(values, w) > 0
    BY <1>d, <1>5 DEF Floor
  <2>2. (2 * Points(values, w) + Covered(values, w)) \div (2 * Covered(values, w)) \in Int
    BY <1>d, <2>1
  <2> QED BY <1>5, <2>2 DEF WeightedFusion
<1> QED BY <1>4, <1>5

\* Any two agents carry the floor of the default profile.
LEMMA DefaultCovered ==
  ASSUME FusionTypes, TwoScored, NEW values \in Values
  PROVE  WeightedFusion(values, WeightsOf["default"]) # None
<1> DEFINE w == WeightsOf["default"]
<1> USE FusionAssumption
<1>1. PICK three \in IF rows3 = {} THEN {None} ELSE rows3 :
        values = [a3 |-> three, a4 |-> score["a4"], a5 |-> score["a5"], event |-> event]
  BY DEF Values
<1>2. w["a3"] = 30 /\ w["a4"] = 25 /\ w["a5"] = 20 /\ w["event"] = 25
  BY DEF WeightsOf
<1>3. \A x \in ScoreValues \cup EventValues : x \in 0..100 /\ x # None
  BY DEF None
<1>4. /\ three = None <=> rows3 = {}
      /\ three \in ScoreValues \cup {None}
  BY <1>3 DEF FusionTypes
<1>5. score["a4"] \in ScoreValues \cup {None} /\ score["a5"] \in ScoreValues \cup {None}
      /\ event \in EventValues \cup {None}
  BY DEF FusionTypes
<1>6. /\ Weight(values, w, "a3") = (IF rows3 = {} THEN 0 ELSE 30)
      /\ Weight(values, w, "a4") = (IF score["a4"] = None THEN 0 ELSE 25)
      /\ Weight(values, w, "a5") = (IF score["a5"] = None THEN 0 ELSE 20)
      /\ Weight(values, w, "event") = (IF event = None THEN 0 ELSE 25)
  BY <1>1, <1>2, <1>4 DEF Weight
<1>7. Covered(values, w) \in Nat /\ Covered(values, w) >= 45
  BY <1>6 DEF Covered, TwoScored
<1>8. Points(values, w) \in Nat
  <2>1. Weight(values, w, "a3") * values["a3"] \in Nat
    BY <1>1, <1>3, <1>4, <1>6
  <2>2. Weight(values, w, "a4") * values["a4"] \in Nat
    <3>1. values["a4"] = score["a4"]
      BY <1>1
    <3>2. values["a4"] = None \/ values["a4"] \in Nat
      <4>1. score["a4"] \in ScoreValues \/ score["a4"] = None
        BY <1>5
      <4>2. \A x \in ScoreValues : x \in Nat
        OBVIOUS
      <4> QED BY <4>1, <4>2, <3>1, Zenon
    <3>3. CASE values["a4"] = None
      BY <3>1, <3>3, <1>6 DEF None
    <3>4. CASE values["a4"] \in Nat
      BY <3>1, <3>4, <1>6
    <3> QED BY <3>2, <3>3, <3>4
  <2>3. Weight(values, w, "a5") * values["a5"] \in Nat
    <3>1. values["a5"] = score["a5"]
      BY <1>1
    <3>2. values["a5"] = None \/ values["a5"] \in Nat
      <4>1. score["a5"] \in ScoreValues \/ score["a5"] = None
        BY <1>5
      <4>2. \A x \in ScoreValues : x \in Nat
        OBVIOUS
      <4> QED BY <4>1, <4>2, <3>1, Zenon
    <3>3. CASE values["a5"] = None
      BY <3>1, <3>3, <1>6 DEF None
    <3>4. CASE values["a5"] \in Nat
      BY <3>1, <3>4, <1>6
    <3> QED BY <3>2, <3>3, <3>4
  <2>4. Weight(values, w, "event") * values["event"] \in Nat
    BY <1>1, <1>3, <1>5, <1>6
  <2> QED BY <2>1, <2>2, <2>3, <2>4 DEF Points
<1>9. (2 * Points(values, w) + Covered(values, w)) \div (2 * Covered(values, w)) \in Nat
  BY <1>7, <1>8
<1> QED BY <1>7, <1>9 DEF WeightedFusion, Floor, None

\* What fuse_symbol makes of the verdict.
LEMMA FuseHeeds ==
  ASSUME FusionTypes, NEW p \in Profiles, NEW r \in FuseSymbol(p)
  PROVE  /\ r.conviction \in Int
         /\ r # NoSignal /\ verdict = "hard_block" => r.stance = "suppressed"
         /\ verdict = "penalty" => r.stance \notin {"buy", "accumulate"}
         /\ p = "default" /\ TwoScored => r # NoSignal
<1> DEFINE mean(v) == WeightedFusion(v, WeightsOf[p])
<1>1. PICK v \in Values :
        r = IF mean(v) = None THEN NoSignal
            ELSE [stance |-> Stance(RiskAdjusted(mean(v), verdict), verdict),
                  conviction |-> RiskAdjusted(mean(v), verdict)]
  BY DEF FuseSymbol
<1>2. mean(v) \in Int
  BY MeanOnScale
<1>3. p = "default" /\ TwoScored => mean(v) # None
  BY DefaultCovered
<1> HIDE DEF mean
<1>4. RiskAdjusted(mean(v), verdict) \in Int
  BY <1>2 DEF RiskAdjusted, PenaltyCap
<1>5. verdict = "hard_block" =>
        Stance(RiskAdjusted(mean(v), verdict), verdict) = "suppressed"
  BY DEF Stance
<1>6. verdict = "penalty" =>
        Stance(RiskAdjusted(mean(v), verdict), verdict) \notin {"buy", "accumulate"}
  <2> SUFFICES ASSUME verdict = "penalty"
               PROVE  Stance(RiskAdjusted(mean(v), verdict), verdict) \notin {"buy", "accumulate"}
    OBVIOUS
  <2>1. RiskAdjusted(mean(v), verdict) <= 55
    BY <1>2 DEF RiskAdjusted, PenaltyCap
  <2> QED BY <2>1, <1>4 DEF Stance
<1>7. \A c, st : [stance |-> st, conviction |-> c] = NoSignal => st = "none"
  BY DEF NoSignal
<1>8. Stance(RiskAdjusted(mean(v), verdict), verdict) # "none"
  BY <1>4 DEF Stance
<1>9. CASE mean(v) = None
  BY <1>1, <1>3, <1>9 DEF NoSignal, None
<1>10. CASE mean(v) # None
  BY <1>1, <1>4, <1>5, <1>6, <1>7, <1>8, <1>10
<1> QED BY <1>9, <1>10

-----------------------------------------------------------------------------
LEMMA InitFusion == FusionInit => FusionInvariant
<1> SUFFICES ASSUME FusionInit PROVE FusionInvariant
  OBVIOUS
<1> USE DEF FusionInit, None
<1>1. FusionTypes
  BY DEF FusionTypes, NoSignal
<1>2. SignalsScored /\ VerdictOfTonight /\ LatestNear /\ LatestHeeds
  BY DEF SignalsScored, VerdictOfTonight, LatestNear, LatestHeeds
<1> QED BY <1>1, <1>2 DEF FusionInvariant

LEMMA DayPreserves ==
  ASSUME FusionInvariant, DayPasses \/ NightEnds
  PROVE  FusionInvariant'
<1> USE DEF FusionInvariant
<1>1. UNCHANGED <<rows3, score, verdict, signal, fused>> /\ phase' \in {"score", "day"}
  BY DEF DayPasses, NightEnds
<1>2. FusionTypes'
  BY <1>1 DEF FusionTypes, DayPasses, NightEnds
<1>3. TwoScored' = TwoScored
  BY <1>1 DEF TwoScored
<1>4. SignalsScored' /\ VerdictOfTonight' /\ LatestNear' /\ LatestHeeds'
  BY <1>1, <1>3 DEF SignalsScored, VerdictOfTonight, LatestNear, LatestHeeds
<1> QED BY <1>2, <1>4

\* No agent takes its score back.
LEMMA ScorePreserves ==
  ASSUME FusionInvariant, ScoreNight
  PROVE  FusionInvariant'
<1> USE DEF FusionInvariant, ScoreNight, A3ScoreAll, A4ScoreAll, A5ScoreAll
<1>1. PICK four \in ScoreValues \cup {None}, five \in ScoreValues \cup {None} :
        /\ score["a5"] # None => five # None
        /\ score' = [a4 |-> IF four = None THEN score["a4"] ELSE four, a5 |-> five]
  OBVIOUS
<1>2. score'["a4"] = (IF four = None THEN score["a4"] ELSE four) /\ score'["a5"] = five
  BY <1>1
<1>3. FusionTypes'
  <2>1. score["a4"] \in ScoreValues \cup {None}
    BY DEF FusionTypes
  <2>2. score' \in [{"a4", "a5"} -> ScoreValues \cup {None}]
    BY <1>1, <2>1
  <2>3. rows3' \subseteq ScoreValues
    BY DEF FusionTypes
  <2> QED BY <2>2, <2>3 DEF FusionTypes
<1>4. TwoScored => TwoScored'
  BY <1>1, <1>2 DEF TwoScored
<1>5. SignalsScored' /\ VerdictOfTonight' /\ LatestNear' /\ LatestHeeds'
  BY <1>4 DEF SignalsScored, VerdictOfTonight, LatestNear, LatestHeeds
<1> QED BY <1>3, <1>5

\* Two scores leave assess_all no choice.
LEMMA AssessPreserves ==
  ASSUME FusionInvariant, AssessNight
  PROVE  FusionInvariant'
<1> USE DEF FusionInvariant, AssessNight
<1>1. TwoScored => verdict' = Verdict(facts)
  BY DEF TwoScored, Assessed
<1>2. FusionTypes'
  BY DEF FusionTypes, Verdict
<1>3. TwoScored' = TwoScored
  BY DEF TwoScored
<1>4. SignalsScored' /\ VerdictOfTonight' /\ LatestNear' /\ LatestHeeds'
  BY <1>1, <1>3 DEF SignalsScored, VerdictOfTonight, LatestNear, LatestHeeds
<1> QED BY <1>2, <1>4

LEMMA IssuePreserves ==
  ASSUME FusionInvariant, IssueNight
  PROVE  FusionInvariant'
<1> USE DEF FusionInvariant, IssueNight
<1>1. TwoScored' = TwoScored
  BY DEF TwoScored
<1>2. VerdictOfTonight'
  BY <1>1 DEF VerdictOfTonight
<1>3. CASE ~TwoScored
  <2>1. UNCHANGED <<signal, fused>>
    BY <1>3, HasCount
  <2>2. FusionTypes'
    BY <2>1 DEF FusionTypes
  <2>3. SignalsScored' /\ LatestNear' /\ LatestHeeds'
    BY <1>1, <1>3, <2>1 DEF SignalsScored, LatestNear, LatestHeeds
  <2> QED BY <1>2, <2>2, <2>3
<1>4. CASE TwoScored
  <2>1. PICK results \in [Profiles -> UNION {FuseSymbol(p) : p \in Profiles}] :
          /\ \A p \in Profiles : results[p] \in FuseSymbol(p)
          /\ signal' = [p \in Profiles |-> Issued(p, results[p])]
          /\ fused' = results
    BY <1>4, HasCount
  <2>2. ASSUME NEW p \in Profiles
        PROVE  /\ results[p].conviction \in Int
               /\ results[p] # NoSignal /\ verdict = "hard_block" =>
                    results[p].stance = "suppressed"
               /\ verdict = "penalty" => results[p].stance \notin {"buy", "accumulate"}
               /\ p = "default" => results[p] # NoSignal
    BY <1>4, <2>1, FuseHeeds
  <2>3. ASSUME NEW p \in Profiles
        PROVE  /\ signal'[p] \in {signal[p], results[p]}
               /\ results[p] # NoSignal => Near(signal'[p], results[p])
    <3>1. signal'[p] = Issued(p, results[p])
      BY <2>1
    <3>2. Near(results[p], results[p])
      <4>1. results[p].conviction - results[p].conviction \in (-8)..8
        BY <2>2
      <4> QED BY <4>1 DEF Near, Hysteresis
    <3> QED BY <3>1, <3>2 DEF Issued, Held
  <2>4. FusionTypes'
    <3>1. \A p \in Profiles : signal'[p].conviction \in Int
      BY <2>2, <2>3 DEF FusionTypes
    <3> QED BY <2>1, <3>1 DEF FusionTypes
  <2>5. SignalsScored'
    BY <1>1, <1>4 DEF SignalsScored
  <2>6. LatestNear'
    BY <2>1, <2>3 DEF LatestNear
  <2>7. LatestHeeds'
    BY <2>2, <2>3 DEF LatestHeeds, Near
  <2> QED BY <1>2, <2>4, <2>5, <2>6, <2>7
<1> QED BY <1>3, <1>4

LEMMA StepFusion == FusionInvariant /\ [FusionNext]_fusionVars => FusionInvariant'
<1> SUFFICES ASSUME FusionInvariant, [FusionNext]_fusionVars PROVE FusionInvariant'
  OBVIOUS
<1>1. CASE UNCHANGED fusionVars
  BY <1>1 DEF fusionVars, FusionInvariant, FusionTypes, SignalsScored, VerdictOfTonight,
              LatestNear, LatestHeeds, TwoScored
<1> QED BY <1>1, DayPreserves, ScorePreserves, AssessPreserves, IssuePreserves DEF FusionNext

(* Types, the verdict of the night and what issuing leaves, for ever.       *)
THEOREM FusionCorrect == FusionSpec => []FusionInvariant
BY InitFusion, StepFusion, PTL DEF FusionSpec

(* A blocked symbol is suppressed, and a penalised one neither bought nor   *)
(* accumulated, in the default profile (a7 engine.py:12-14), whatever the   *)
(* agents score and however often the chain stops half way.                 *)
THEOREM DefaultHeeds ==
  ASSUME "default" \in Profiles
  PROVE  FusionSpec => []DefaultHeedsRisk
<1>1. ASSUME FusionInvariant PROVE DefaultHeedsRisk
  <2> SUFFICES ASSUME phase = "issued", signal["default"] # NoSignal
               PROVE  /\ facts \cap HardFacts # {} => signal["default"].stance = "suppressed"
                      /\ facts # {} => signal["default"].stance \notin {"buy", "accumulate"}
    BY DEF DefaultHeedsRisk, Heeds
  <2>1. TwoScored
    BY <1>1 DEF FusionInvariant, SignalsScored
  <2>2. verdict = Verdict(facts)
    BY <1>1, <2>1 DEF FusionInvariant, VerdictOfTonight
  <2>3. /\ verdict = "hard_block" => signal["default"].stance = "suppressed"
        /\ verdict = "penalty" => signal["default"].stance \notin {"buy", "accumulate"}
    BY <1>1, <2>1 DEF FusionInvariant, LatestHeeds
  <2> QED BY <2>2, <2>3 DEF Verdict
<1> QED BY <1>1, FusionCorrect, PTL

(* The latest row never strays from the latest result (a7 engine.py:15).    *)
THEOREM WithinHysteresis == FusionSpec => []LatestWithinHysteresis
<1>1. FusionInvariant => LatestWithinHysteresis
  BY HasCount DEF FusionInvariant, LatestNear, LatestWithinHysteresis
<1> QED BY <1>1, FusionCorrect, PTL
-----------------------------------------------------------------------------
(* Triage.  A resigning auditor is the most material hit there is, it is   *)
(* final, and so the models are never asked.                               *)

\* The first rule, and that no other is as material.
LEMMA RuleTable ==
  /\ 1 \in DOMAIN Rules /\ DOMAIN Rules \subseteq Nat
  /\ Rules[1] = <<"auditor_resigns", "auditor_resignation", 9, 95>>
  /\ \A i \in DOMAIN Rules : i # 1 => Rules[i][3] \in 0..7
BY DEF Rules

\* Qualifying a hit never makes it more material.
LEMMA QualifiedHit ==
  ASSUME NEW text, NEW i \in DOMAIN Rules, i # 1
  PROVE  Material(i, text) \in 0..7
<1>1. \/ Qualified(Rules[i], text).materiality = 3
      \/ Qualified(Rules[i], text).materiality = 0
      \/ Qualified(Rules[i], text).materiality = Rules[i][3]
  BY DEF Qualified, Hit, NoHit
<1> QED BY <1>1, RuleTable DEF Material

LEMMA AuditorHit ==
  ASSUME AuditorResigns
  PROVE  TheHit = Hit("auditor_resignation", 9, 95, FALSE)
<1> DEFINE text == filing.text
           H == Hit("auditor_resignation", 9, 95, FALSE)
           Top(i) == \A j \in HitRules(text) :
                       \/ Material(j, text) < Material(i, text)
                       \/ Material(j, text) = Material(i, text) /\ i <= j
<1>1. Qualified(Rules[1], text) = H /\ Material(1, text) = 9 /\ H # NoHit
  BY RuleTable DEF AuditorResigns, NonStatutory, Qualified, Material, Hit, NoHit
<1>2. 1 \in HitRules(text) /\ HitRules(text) \subseteq DOMAIN Rules
  <2>1. Rules[1][1] = "auditor_resigns" /\ "auditor_resigns" \in text
    BY RuleTable DEF AuditorResigns
  <2>2. Rules[1][1] \in text /\ Qualified(Rules[1], text) # NoHit
    BY <1>1, <2>1, Zenon
  <2> HIDE DEF H, text
  <2> QED BY <2>2, RuleTable, Zenon DEF HitRules
<1>3. Top(1)
  <2> SUFFICES ASSUME NEW j \in HitRules(text), j # 1
               PROVE  Material(j, text) < Material(1, text)
    BY <1>1
  <2> QED BY <1>1, <1>2, QualifiedHit
<1>4. \A i \in HitRules(text) : Top(i) => i = 1
  BY <1>1, <1>2, QualifiedHit
<1>5. (CHOOSE i \in HitRules(text) : Top(i)) = 1
  <2> HIDE DEF Top
  <2> QED BY <1>2, <1>3, <1>4
<1>6. Best(text) = H
  BY <1>1, <1>5 DEF Best
<1>7. text # {} /\ "routine" \notin text /\ filing.feed \notin Authoritative
  BY DEF AuditorResigns
<1> QED BY <1>2, <1>6, <1>7 DEF TheHit, ClassifyByRules

AuditorFinal ==
  AuditorResigns =>
    \/ pc2 = "rules"
    \/ pc2 = "done" /\ row.category = "auditor_resignation" /\ row.materiality >= 9

LEMMA AuditorFloor == ApplyFloor("auditor_resignation", 9) = 9
<1>1. ASSUME NEW x \in Nat PROVE Max({x, x}) = x
  BY DEF Max
<1>2. "auditor_resignation" \in DOMAIN Floors /\ Floors["auditor_resignation"] = 9
  BY DEF Floors
<1> QED BY <1>1, <1>2 DEF ApplyFloor

LEMMA TriageStep == AuditorFinal /\ [TriageNext]_triageVars => AuditorFinal'
<1> SUFFICES ASSUME AuditorFinal, [TriageNext]_triageVars, AuditorResigns'
             PROVE  AuditorFinal'
  BY DEF AuditorFinal
<1>1. filing' = filing /\ AuditorResigns
  <2>1. filing' = filing
    BY DEF triageVars, TriageNext, RulesFinal, Backlog, ToModel, ValidReply, InvalidReply,
       LLMUnavailable, NoModel, Merge, WithoutModel, Classified
  <2> QED BY <2>1 DEF AuditorResigns
<1>2. TheHit = Hit("auditor_resignation", 9, 95, FALSE) /\ ~NotFinal
  BY <1>1, AuditorHit DEF Hit, NotFinal, RuleFinalConfidence
<1>3. CASE RulesFinal
  <2>1. /\ pc2' = "done"
        /\ row' = Hit("auditor_resignation", ApplyFloor("auditor_resignation", 9), 95, FALSE)
    BY <1>2, <1>3 DEF RulesFinal, Classified, Hit
  <2> QED BY <2>1, AuditorFloor DEF AuditorFinal, Hit
<1>4. CASE UNCHANGED triageVars
  BY <1>1, <1>4 DEF AuditorFinal, triageVars
<1>5. ~(Backlog \/ ToModel)
  BY <1>2 DEF Backlog, ToModel
<1>6. ~(ValidReply \/ InvalidReply \/ LLMUnavailable \/ NoModel \/ Merge)
  BY <1>1 DEF AuditorFinal, ValidReply, InvalidReply, LLMUnavailable, NoModel, Merge
<1> QED BY <1>3, <1>4, <1>5, <1>6 DEF TriageNext

(* Whatever else the announcement of a resigning auditor matches, and        *)
(* whatever the models would say, it is stored as a resignation of           *)
(* materiality nine (a2_docintel/taxonomy.py:242-298, classifier.py:11-12).  *)
THEOREM AuditorBlocks == TriageSpec => []AuditorAlwaysBlocks
<1>1. TriageInit => AuditorFinal
  BY DEF TriageInit, AuditorFinal
<1>2. AuditorFinal => AuditorAlwaysBlocks
  BY DEF AuditorFinal, AuditorAlwaysBlocks
<1> QED BY <1>1, <1>2, TriageStep, PTL DEF TriageSpec
-----------------------------------------------------------------------------
(* Finite sums.  MapThenSumSet adds the values of a set's elements in the  *)
(* order CHOOSE takes them.  That the order does not matter is shown by    *)
(* taking a smallest set for which it would: the naturals' order is well   *)
(* founded, so that there is one.                                          *)

Below == {p \in Nat \X Nat : p[1] < p[2]}

LEMMA Least ==
  ASSUME NEW T \in SUBSET Nat, T # {} PROVE \E n \in T : \A m \in T : n <= m
<1>0. OpToRel(<, Nat) = Below
  BY Zenon DEF OpToRel, Below
<1>1. IsWellFoundedOn(Below, Nat)
  BY <1>0, NatLessThanWellFounded, Zenon
<1>2. \E n \in T : \A m \in T : <<m, n>> \notin Below
  BY <1>1, WFMin
<1>3. PICK n \in T : \A m \in T : <<m, n>> \notin Below
  BY <1>2
<1>4. \A m \in T : n <= m
  <2> TAKE m \in T
  <2>1. <<m, n>> \in Nat \X Nat /\ <<m, n>>[1] = m /\ <<m, n>>[2] = n
    OBVIOUS
  <2>2. ~(m < n)
    BY <2>1, <1>3 DEF Below
  <2> QED BY <2>2
<1> QED BY <1>4

LEMMA Smallest ==
  ASSUME NEW S, IsFiniteSet(S), NEW B \in SUBSET (SUBSET S), B # {}
  PROVE  \E s \in B : \A t \in B : Cardinality(s) <= Cardinality(t)
<1> DEFINE T == {Cardinality(s) : s \in B}
<1>1. T \in SUBSET Nat /\ T # {}
  BY FS_Subset, FS_CardinalityType
<1>2. \E n \in T : \A m \in T : n <= m
  BY <1>1, Least
<1> QED BY <1>2

Pick(s) == CHOOSE x \in s : TRUE

Sums(it, W, S) ==
  it = [s \in SUBSET S |-> IF s = {} THEN 0 ELSE W[Pick(s)] + it[s \ {Pick(s)}]]

LEMMA Smaller ==
  ASSUME NEW S, IsFiniteSet(S), NEW s \in SUBSET S, NEW x \in s
  PROVE  /\ IsFiniteSet(s) /\ IsFiniteSet(s \ {x}) /\ s \ {x} \in SUBSET S
         /\ Cardinality(s) \in Nat /\ Cardinality(s \ {x}) = Cardinality(s) - 1
         /\ Cardinality(s \ {x}) \in Nat
<1>1. IsFiniteSet(s)
  BY FS_Subset
<1> QED BY <1>1, FS_RemoveElement, FS_CardinalityType

LEMMA PickIn == ASSUME NEW s, s # {} PROVE Pick(s) \in s
BY DEF Pick

\* What is left of a smallest set with a property has it no longer.
LEMMA Minimal ==
  ASSUME NEW S, IsFiniteSet(S), NEW B \in SUBSET (SUBSET S), NEW s \in B,
         \A t \in B : Cardinality(s) <= Cardinality(t), NEW x \in s
  PROVE  s \ {x} \in SUBSET S /\ s \ {x} \notin B
<1>1. s \in SUBSET S
  OBVIOUS
<1>2. /\ s \ {x} \in SUBSET S /\ Cardinality(s) \in Nat
      /\ Cardinality(s \ {x}) = Cardinality(s) - 1
  BY <1>1, Smaller
<1>3. ~(Cardinality(s) <= Cardinality(s \ {x}))
  BY <1>2
<1> QED BY <1>2, <1>3

LEMMA SumsExist ==
  ASSUME NEW S, IsFiniteSet(S), NEW W \in [S -> Int]
  PROVE  \E it : Sums(it, W, S)
<1> DEFINE Layer(n) == {s \in SUBSET S : Cardinality(s) <= n}
           Rec(g, n) == \A s \in Layer(n) :
                          g[s] = IF s = {} THEN 0 ELSE W[Pick(s)] + g[s \ {Pick(s)}]
           Good(n) == \E g \in [Layer(n) -> Int] : Rec(g, n)
           Bad == {n \in Nat : ~Good(n)}
<1>1. Good(0)
  <2> DEFINE g == [s \in Layer(0) |-> 0]
  <2>1. ASSUME NEW s \in Layer(0) PROVE s = {}
    <3>1. IsFiniteSet(s) /\ Cardinality(s) \in Nat /\ Cardinality(s) <= 0
      BY FS_Subset, FS_CardinalityType
    <3> QED BY <3>1, FS_EmptySet
  <2>2. g \in [Layer(0) -> Int] /\ Rec(g, 0)
    BY <2>1
  <2> QED BY <2>2
<1>2. ASSUME NEW n \in Nat, Good(n) PROVE Good(n + 1)
  <2>1. PICK g \in [Layer(n) -> Int] : Rec(g, n)
    BY <1>2
  <2> DEFINE h == [s \in Layer(n + 1) |->
                     IF s = {} THEN 0 ELSE W[Pick(s)] + g[s \ {Pick(s)}]]
  <2>2. ASSUME NEW s \in Layer(n + 1), s # {}
        PROVE  /\ Pick(s) \in S /\ s \ {Pick(s)} \in Layer(n)
               /\ s \ {Pick(s)} \in Layer(n + 1)
    <3>1. Pick(s) \in s
      BY <2>2, PickIn
    <3>2. /\ s \ {Pick(s)} \in SUBSET S /\ Cardinality(s \ {Pick(s)}) = Cardinality(s) - 1
          /\ Cardinality(s) \in Nat /\ Cardinality(s) <= n + 1
      BY <3>1, Smaller
    <3> QED BY <3>1, <3>2
  <2>3. h \in [Layer(n + 1) -> Int]
    <3>1. ASSUME NEW s \in Layer(n + 1), s # {} PROVE W[Pick(s)] + g[s \ {Pick(s)}] \in Int
      <4>1. W[Pick(s)] \in Int /\ g[s \ {Pick(s)}] \in Int
        BY <2>2, <3>1
      <4> QED BY <4>1
    <3> QED BY <3>1
  <2>4. \A s \in Layer(n) : h[s] = g[s]
    <3>1. \A s \in Layer(n) : s \in Layer(n + 1)
      BY FS_Subset, FS_CardinalityType
    <3> QED BY <2>1, <3>1
  <2>5. Rec(h, n + 1)
    <3> SUFFICES ASSUME NEW s \in Layer(n + 1), s # {}
                 PROVE  h[s] = W[Pick(s)] + h[s \ {Pick(s)}]
      OBVIOUS
    <3> QED BY <2>2, <2>4
  <2> HIDE DEF h, Layer
  <2> QED BY <2>3, <2>5
<1>3. Bad = {}
  <2> SUFFICES ASSUME Bad # {} PROVE FALSE
    OBVIOUS
  <2> HIDE DEF Good
  <2>1. PICK n \in Bad : \A m \in Bad : n <= m
    BY Least
  <2>2. n \in Nat /\ n # 0 /\ n - 1 \in Nat /\ n - 1 \notin Bad
    BY <1>1, <2>1
  <2>3. Good(n - 1) /\ (n - 1) + 1 = n
    BY <2>2
  <2> QED BY <1>2, <2>1, <2>2, <2>3
<1> DEFINE c == Cardinality(S)
<1>4. c \in Nat /\ Layer(c) = SUBSET S
  BY FS_CardinalityType, FS_Subset
<1>5. PICK g \in [Layer(c) -> Int] : Rec(g, c)
  BY <1>3, <1>4
<1>6. Sums(g, W, S)
  <2>1. g \in [SUBSET S -> Int] /\ \A s \in SUBSET S : g[s] = IF s = {} THEN 0 ELSE W[Pick(s)] + g[s \ {Pick(s)}]
    BY <1>4, <1>5
  <2> QED BY <2>1 DEF Sums
<1> QED BY <1>6

LEMMA SumsStep ==
  ASSUME NEW S, NEW W, NEW it, Sums(it, W, S), NEW s \in SUBSET S
  PROVE  it[s] = IF s = {} THEN 0 ELSE W[Pick(s)] + it[s \ {Pick(s)}]
BY DEF Sums

LEMMA SumsEmpty ==
  ASSUME NEW S, NEW W, NEW it, Sums(it, W, S) PROVE it[{}] = 0
<1>1. {} \in SUBSET S
  OBVIOUS
<1> QED BY <1>1, SumsStep

LEMMA SumsInt ==
  ASSUME NEW S, IsFiniteSet(S), NEW W \in [S -> Int], NEW it, Sums(it, W, S)
  PROVE  \A s \in SUBSET S : it[s] \in Int
<1> DEFINE B == {s \in SUBSET S : it[s] \notin Int}
<1> SUFFICES ASSUME B # {} PROVE FALSE
  OBVIOUS
<1>1. PICK s \in B : \A t \in B : Cardinality(s) <= Cardinality(t)
  BY Smallest
<1>2. s \in SUBSET S /\ it[s] \notin Int
  OBVIOUS
<1>3. s # {}
  BY <1>2, SumsEmpty
<1>4. Pick(s) \in s /\ it[s] = W[Pick(s)] + it[s \ {Pick(s)}]
  BY <1>2, <1>3, PickIn, SumsStep
<1>5. s \ {Pick(s)} \in SUBSET S /\ s \ {Pick(s)} \notin B
  <2> HIDE DEF B
  <2>1. B \in SUBSET (SUBSET S)
    BY DEF B
  <2> QED BY <1>1, <1>4, <2>1, Minimal
<1> QED BY <1>2, <1>4, <1>5

\* A sum of a part, whatever set it is taken in.
LEMMA SumsAgree ==
  ASSUME NEW S, IsFiniteSet(S), NEW W \in [S -> Int], NEW it, Sums(it, W, S),
         NEW U \in SUBSET S, NEW V \in [U -> Int], \A x \in U : V[x] = W[x],
         NEW jt, Sums(jt, V, U)
  PROVE  \A s \in SUBSET U : jt[s] = it[s]
<1> DEFINE B == {s \in SUBSET U : jt[s] # it[s]}
<1> SUFFICES ASSUME B # {} PROVE FALSE
  OBVIOUS
<1>0. IsFiniteSet(U)
  BY FS_Subset
<1>1. PICK s \in B : \A t \in B : Cardinality(s) <= Cardinality(t)
  BY <1>0, Smallest
<1>2. s \in SUBSET U /\ s \in SUBSET S /\ jt[s] # it[s]
  OBVIOUS
<1>3. s # {}
  BY <1>2, SumsEmpty
<1>4. /\ Pick(s) \in s /\ it[s] = W[Pick(s)] + it[s \ {Pick(s)}]
      /\ jt[s] = V[Pick(s)] + jt[s \ {Pick(s)}]
  BY <1>2, <1>3, PickIn, SumsStep
<1>5. s \ {Pick(s)} \in SUBSET U /\ s \ {Pick(s)} \notin B
  <2> HIDE DEF B
  <2>1. B \in SUBSET (SUBSET U)
    BY DEF B
  <2> QED BY <1>0, <1>1, <1>4, <2>1, Minimal
<1> QED BY <1>1, <1>2, <1>4, <1>5

\* The elements may be added in any order.
LEMMA SumsTake ==
  ASSUME NEW S, IsFiniteSet(S), NEW W \in [S -> Int], NEW it, Sums(it, W, S)
  PROVE  \A s \in SUBSET S : \A x \in s : it[s] = W[x] + it[s \ {x}]
<1> DEFINE B == {s \in SUBSET S : \E x \in s : it[s] # W[x] + it[s \ {x}]}
<1> SUFFICES ASSUME B # {} PROVE FALSE
  OBVIOUS
<1>1. PICK s \in B : \A t \in B : Cardinality(s) <= Cardinality(t)
  BY Smallest
<1>2. PICK x \in s : it[s] # W[x] + it[s \ {x}]
  BY <1>1
<1> DEFINE p == Pick(s)
           rest == (s \ {p}) \ {x}
<1>3. p \in s /\ it[s] = W[p] + it[s \ {p}]
  BY <1>1, <1>2, PickIn, SumsStep
<1>4. p # x
  BY <1>2, <1>3
<1> HIDE DEF p
<1>5. /\ s \ {p} \in SUBSET S /\ s \ {p} \notin B
      /\ s \ {x} \in SUBSET S /\ s \ {x} \notin B
  <2> HIDE DEF B
  <2>1. B \in SUBSET (SUBSET S)
    BY DEF B
  <2> QED BY <1>1, <1>2, <1>3, <2>1, Minimal
<1>6. it[s \ {p}] = W[x] + it[rest]
  BY <1>2, <1>4, <1>5
<1>7. (s \ {x}) \ {p} = rest
  OBVIOUS
<1>8. it[s \ {x}] = W[p] + it[rest]
  BY <1>3, <1>4, <1>5, <1>7
<1>9. W[p] \in Int /\ W[x] \in Int /\ it[rest] \in Int
  BY <1>1, <1>3, SumsInt
<1> QED BY <1>2, <1>3, <1>6, <1>8, <1>9

\* t is the sum of W over S.
IsSum(t, W, S) == \E it : Sums(it, W, S) /\ t = it[S]

LEMMA SumOfNone ==
  ASSUME NEW W, NEW t, IsSum(t, W, {})
  PROVE  t = 0
BY SumsEmpty DEF IsSum

LEMMA SumType ==
  ASSUME NEW S, IsFiniteSet(S), NEW W \in [S -> Int], NEW t, IsSum(t, W, S)
  PROVE  t \in Int
BY SumsInt DEF IsSum

LEMMA SumWith ==
  ASSUME NEW S, IsFiniteSet(S), NEW W \in [S -> Int], NEW t, IsSum(t, W, S),
         NEW x \in S, NEW U, U = S \ {x},
         NEW V \in [U -> Int], \A y \in U : V[y] = W[y], NEW u, IsSum(u, V, U)
  PROVE  t = W[x] + u
<1>1. PICK it : Sums(it, W, S) /\ t = it[S]
  BY DEF IsSum
<1>2. PICK jt : Sums(jt, V, U) /\ u = jt[U]
  BY DEF IsSum
<1>3. jt[U] = it[U]
  <2>1. U \in SUBSET S /\ U \in SUBSET U
    OBVIOUS
  <2> QED BY <1>1, <1>2, <2>1, SumsAgree
<1>4. it[S] = W[x] + it[U]
  BY <1>1, SumsTake
<1> QED BY <1>1, <1>2, <1>3, <1>4

LEMMA SumOfNats ==
  ASSUME NEW S, IsFiniteSet(S), NEW W \in [S -> Nat], NEW t, IsSum(t, W, S)
  PROVE  t \in Nat
<1>0. W \in [S -> Int]
  OBVIOUS
<1>1. PICK it : Sums(it, W, S) /\ t = it[S]
  BY DEF IsSum
<1> DEFINE B == {s \in SUBSET S : it[s] \notin Nat}
<1>3. B = {}
  <2> SUFFICES ASSUME B # {} PROVE FALSE
    OBVIOUS
  <2>1. PICK s \in B : \A r \in B : Cardinality(s) <= Cardinality(r)
    BY Smallest
  <2>2. s \in SUBSET S /\ it[s] \notin Nat
    OBVIOUS
  <2>3. s # {}
    BY <1>1, <2>2, SumsEmpty
  <2>4. Pick(s) \in s /\ it[s] = W[Pick(s)] + it[s \ {Pick(s)}]
    BY <1>1, <2>2, <2>3, PickIn, SumsStep
  <2>5. s \ {Pick(s)} \in SUBSET S /\ s \ {Pick(s)} \notin B
    <3> HIDE DEF B
    <3>1. B \in SUBSET (SUBSET S)
      BY DEF B
    <3> QED BY <2>1, <2>4, <3>1, Minimal
  <2> QED BY <2>2, <2>4, <2>5
<1> QED BY <1>1, <1>3

LEMMA StrengthSum ==
  ASSUME NEW S, IsFiniteSet(S), \A x \in S : Strength(x) \in Int
  PROVE  IsSum(MapThenSumSet(Strength, S), [x \in S |-> Strength(x)], S)
<1> DEFINE W == [x \in S |-> Strength(x)]
           Body(it) == [s \in SUBSET S |->
                         IF s = {} THEN 0
                         ELSE Strength(CHOOSE x \in s : TRUE) + it[s \ {CHOOSE x \in s : TRUE}]]
           sum == CHOOSE it : it = Body(it)
<1>1. MapThenSumSet(Strength, S) = sum[S]
  BY Zenon DEF MapThenSumSet, MapThenFoldSet
<1>2. ASSUME NEW it PROVE Sums(it, W, S) <=> it = Body(it)
  <2>1. ASSUME NEW s \in SUBSET S, s # {} PROVE W[Pick(s)] = Strength(Pick(s))
    BY <2>1, PickIn
  <2>2. [s \in SUBSET S |-> IF s = {} THEN 0 ELSE W[Pick(s)] + it[s \ {Pick(s)}]] = Body(it)
    BY <2>1 DEF Pick
  <2> HIDE DEF W, Body
  <2> QED BY <2>2 DEF Sums
<1>3. W \in [S -> Int]
  OBVIOUS
<1> HIDE DEF W, Body
<1>4. \E it : it = Body(it)
  BY <1>2, <1>3, SumsExist
<1>5. sum = Body(sum)
  BY <1>4
<1> HIDE DEF sum
<1> QED BY <1>1, <1>2, <1>5 DEF IsSum, W

LEMMA FlagSum ==
  ASSUME NEW S, IsFiniteSet(S), S \subseteq DOMAIN FlagCost
  PROVE  IsSum(MapThenSumSet(LAMBDA f : FlagCost[f], S), [x \in S |-> FlagCost[x]], S)
<1> DEFINE W == [x \in S |-> FlagCost[x]]
           Body(it) == [s \in SUBSET S |->
                         IF s = {} THEN 0
                         ELSE FlagCost[CHOOSE x \in s : TRUE] + it[s \ {CHOOSE x \in s : TRUE}]]
           sum == CHOOSE it : it = Body(it)
<1>1. MapThenSumSet(LAMBDA f : FlagCost[f], S) = sum[S]
  BY Zenon DEF MapThenSumSet, MapThenFoldSet
<1>2. ASSUME NEW it PROVE Sums(it, W, S) <=> it = Body(it)
  <2>1. ASSUME NEW s \in SUBSET S, s # {} PROVE W[Pick(s)] = FlagCost[Pick(s)]
    BY <2>1, PickIn
  <2>2. [s \in SUBSET S |-> IF s = {} THEN 0 ELSE W[Pick(s)] + it[s \ {Pick(s)}]] = Body(it)
    BY <2>1 DEF Pick
  <2> HIDE DEF W, Body
  <2> QED BY <2>2 DEF Sums
<1>3. W \in [S -> Int]
  BY DEF FlagCost
<1> HIDE DEF W, Body
<1>4. \E it : it = Body(it)
  BY <1>2, <1>3, SumsExist
<1>5. sum = Body(sum)
  BY <1>4
<1> HIDE DEF sum
<1> QED BY <1>1, <1>2, <1>5 DEF IsSum, W
-----------------------------------------------------------------------------
(* Scoring.  The result is the one that the sample's agent computes of it, *)
(* for any measures: the promises are those of the operators.              *)

Larger(x, y) == IF x >= y THEN x ELSE y
Lesser(x, y) == IF x <= y THEN x ELSE y
Between(l, h, x) == IF x < l THEN l ELSE IF x > h THEN h ELSE x

LEMMA MaxOfTwo ==
  ASSUME NEW x \in Int, NEW y \in Int PROVE Max({x, y}) = Larger(x, y)
BY DEF Max, Larger

LEMMA MinOfTwo ==
  ASSUME NEW x \in Int, NEW y \in Int PROVE Min({x, y}) = Lesser(x, y)
BY DEF Min, Lesser

LEMMA Clamps ==
  ASSUME NEW l \in Int, NEW h \in Int, l <= h, NEW x \in Int
  PROVE  Clamp(l, h, x) = Between(l, h, x)
<1>1. Min({h, x}) = Lesser(h, x) /\ Lesser(h, x) \in Int
  BY MinOfTwo DEF Lesser
<1>2. Max({l, Lesser(h, x)}) = Larger(l, Lesser(h, x))
  BY <1>1, MaxOfTwo
<1>3. Clamp(l, h, x) = Larger(l, Lesser(h, x))
  BY <1>1, <1>2 DEF Clamp
<1> QED BY <1>3 DEF Larger, Lesser, Between

LEMMA AbsentFar == Absent \in Nat /\ Absent > 1000 * 1000
BY SMT DEF Absent

LEMMA PercentsAreInts == \A g \in Percents : g \in Int /\ g # Absent
BY PercentsAssumption

LEMMA PricesAreCounts == \A x \in Prices : x \in Nat /\ x # 0
BY PricesAssumption

Samples == Quarters \cup Bars \cup Flows \cup Days \cup Setups \cup Patterns

Computed ==
  /\ sample.kind = "a3" => result[1] = FundamentalScore(sample)
  /\ sample.kind = "a4" => result[1] = TechnicalScore(sample)
  /\ sample.kind = "a5" => result[1] = FlowScore(sample)
  /\ sample.kind = "event" => result[1] \in EventAxes(sample.events)
  /\ sample.kind = "a6" => result[1] = PledgeVerdict(ParseShp(Instance(sample)))
  /\ sample.kind = "a7" => result[1] = Size(sample)

ScoringInvariant == sample \in Samples /\ (result # <<>> => result = <<result[1]>> /\ Computed)

LEMMA KindOf ==
  ASSUME NEW x \in Samples
  PROVE  /\ x.kind = "a3" => x \in Quarters
         /\ x.kind = "a4" => x \in Bars
         /\ x.kind = "a5" => x \in Flows
         /\ x.kind = "event" => x \in Days
         /\ x.kind = "a6" => x \in Patterns
         /\ x.kind = "a7" => x \in Setups
<1>1. /\ x \in Quarters => x.kind = "a3"
      /\ x \in Bars => x.kind = "a4"
      /\ x \in Flows => x.kind = "a5"
      /\ x \in Days => x.kind = "event"
      /\ x \in Patterns => x.kind = "a6"
      /\ x \in Setups => x.kind = "a7"
  BY DEF Quarters, Bars, Flows, Days, Patterns, Setups
<1> QED BY <1>1 DEF Samples

LEMMA ScoringTyped == ScoringSpec => []ScoringInvariant
<1>1. ScoringInit => ScoringInvariant
  BY DEF ScoringInit, ScoringInvariant, Samples
<1>2. ScoringInvariant /\ [Compute]_scoringVars => ScoringInvariant'
  <2> SUFFICES ASSUME ScoringInvariant, [Compute]_scoringVars PROVE ScoringInvariant'
    OBVIOUS
  <2>1. CASE Compute
    <3>1. sample' = sample
      BY <2>1 DEF Compute
    <3>2. PICK v \in Outcomes(sample) : result' = <<v>>
      BY <2>1, Zenon DEF Compute
    <3>3. result'[1] = v /\ result' = <<result'[1]>>
      BY <3>2
    <3>4. v \in CASE sample.kind = "a3" -> {FundamentalScore(sample)}
                  [] sample.kind = "a4" -> {TechnicalScore(sample)}
                  [] sample.kind = "a5" -> {FlowScore(sample)}
                  [] sample.kind = "event" -> EventAxes(sample.events)
                  [] sample.kind = "a6" -> {PledgeVerdict(ParseShp(Instance(sample)))}
                  [] sample.kind = "a7" -> {Size(sample)}
      BY Zenon DEF Outcomes
    <3>5. Computed'
      BY <3>1, <3>3, <3>4, Zenon DEF Computed
    <3> QED BY <3>1, <3>3, <3>5 DEF ScoringInvariant
  <2>2. CASE UNCHANGED scoringVars
    BY <2>2 DEF ScoringInvariant, scoringVars, Computed
  <2> QED BY <2>1, <2>2
<1> QED BY <1>1, <1>2, PTL DEF ScoringSpec

-----------------------------------------------------------------------------
\* A3.
LEMMA GrowthBounds ==
  ASSUME NEW g \in Growths
  PROVE  GrowthPoints(g) \in 0..200
<1>1. CASE g = Absent
  BY <1>1 DEF GrowthPoints
<1>2. CASE g # Absent
  <2>1. g \in Int
    BY <1>2, PercentsAreInts DEF Growths
  <2>2. Clamp(0, 200, 100 + 4 * g) = Between(0, 200, 100 + 4 * g)
    BY <2>1, Clamps
  <2> QED BY <1>2, <2>1, <2>2 DEF GrowthPoints, Between
<1> QED BY <1>1, <1>2

LEMMA GrowthMonotone ==
  ASSUME NEW g \in Percents, NEW h \in Percents, g <= h
  PROVE  GrowthPoints(g) <= GrowthPoints(h)
<1>1. g \in Int /\ h \in Int /\ g # Absent /\ h # Absent
  BY PercentsAreInts
<1>2. /\ Clamp(0, 200, 100 + 4 * g) = Between(0, 200, 100 + 4 * g)
      /\ Clamp(0, 200, 100 + 4 * h) = Between(0, 200, 100 + 4 * h)
  BY <1>1, Clamps
<1> QED BY <1>1, <1>2 DEF GrowthPoints, Between

MarginPoints(m, t) == Min({250, Clamp(0, 150, 6 * m) + Trajectory[t]})

LEMMA MarginBounds ==
  ASSUME NEW m \in Percents, NEW t \in DOMAIN Trajectory
  PROVE  MarginPoints(m, t) \in 0..250
<1>1. Trajectory[t] \in 0..100
  BY DEF Trajectory
<1> DEFINE c == Clamp(0, 150, 6 * m)
           s == c + Trajectory[t]
<1>2. c \in Int /\ 0 <= c /\ c <= 150
  <2>1. m \in Int
    BY PercentsAreInts
  <2>2. c = Between(0, 150, 6 * m)
    BY <2>1, Clamps
  <2> QED BY <2>1, <2>2 DEF Between
<1> HIDE DEF c
<1>3. s \in Nat
  BY <1>1, <1>2
<1>4. MarginPoints(m, t) = Min({250, s})
  BY DEF MarginPoints, c
<1> HIDE DEF s
<1>5. Min({250, s}) = Lesser(250, s)
  BY <1>3, MinOfTwo
<1> QED BY <1>3, <1>4, <1>5 DEF Lesser

LEMMA MarginMonotone ==
  ASSUME NEW m \in Percents, NEW n \in Percents, m <= n, NEW t \in DOMAIN Trajectory
  PROVE  MarginPoints(m, t) <= MarginPoints(n, t)
<1>1. Trajectory[t] \in 0..100
  BY DEF Trajectory
<1> DEFINE c == Clamp(0, 150, 6 * m)
           d == Clamp(0, 150, 6 * n)
           s == c + Trajectory[t]
           u == d + Trajectory[t]
<1>2. c \in Int /\ d \in Int /\ c <= d
  <2>1. m \in Int /\ n \in Int
    BY PercentsAreInts
  <2>2. c = Between(0, 150, 6 * m) /\ d = Between(0, 150, 6 * n)
    BY <2>1, Clamps
  <2> QED BY <2>1, <2>2 DEF Between
<1> HIDE DEF c, d
<1>3. s \in Int /\ u \in Int /\ s <= u
  BY <1>1, <1>2
<1>4. MarginPoints(m, t) = Min({250, s}) /\ MarginPoints(n, t) = Min({250, u})
  BY DEF MarginPoints, c, d
<1> HIDE DEF s, u
<1>5. Min({250, s}) = Lesser(250, s) /\ Min({250, u}) = Lesser(250, u)
  BY <1>3, MinOfTwo
<1> QED BY <1>3, <1>4, <1>5 DEF Lesser

\* One more forensic flag costs its points.
FlagPoints(F) == MapThenSumSet(LAMBDA f : FlagCost[f], F)

LEMMA FlagsFinite ==
  ASSUME NEW F \in SUBSET DOMAIN FlagCost
  PROVE  IsFiniteSet(F)
<1>1. DOMAIN FlagCost = {"other_income_high"} \cup {"other_income_mild"} \cup {"tax_rate"}
                          \cup {"exceptional"} \cup {"finance_burden"} \cup {"loss"}
  BY DEF FlagCost
<1>2. /\ IsFiniteSet({"other_income_high"}) /\ IsFiniteSet({"other_income_mild"})
      /\ IsFiniteSet({"tax_rate"}) /\ IsFiniteSet({"exceptional"})
      /\ IsFiniteSet({"finance_burden"}) /\ IsFiniteSet({"loss"})
  BY FS_Singleton
<1>3. IsFiniteSet(DOMAIN FlagCost)
  <2>1. IsFiniteSet({"other_income_high"} \cup {"other_income_mild"})
    BY <1>2, FS_Union
  <2>2. IsFiniteSet({"other_income_high"} \cup {"other_income_mild"} \cup {"tax_rate"})
    BY <1>2, <2>1, FS_Union
  <2>3. IsFiniteSet({"other_income_high"} \cup {"other_income_mild"} \cup {"tax_rate"}
                      \cup {"exceptional"})
    BY <1>2, <2>2, FS_Union
  <2>4. IsFiniteSet({"other_income_high"} \cup {"other_income_mild"} \cup {"tax_rate"}
                      \cup {"exceptional"} \cup {"finance_burden"})
    BY <1>2, <2>3, FS_Union
  <2>5. IsFiniteSet({"other_income_high"} \cup {"other_income_mild"} \cup {"tax_rate"}
                      \cup {"exceptional"} \cup {"finance_burden"} \cup {"loss"})
    BY <1>2, <2>4, FS_Union
  <2> QED BY <1>1, <2>5, Zenon
<1> QED BY <1>3, FS_Subset

LEMMA FlagBounds ==
  ASSUME NEW F \in SUBSET DOMAIN FlagCost
  PROVE  FlagPoints(F) \in Nat
<1> DEFINE W == [x \in F |-> FlagCost[x]]
<1>1. W \in [F -> Nat]
  BY DEF FlagCost
<1>2. IsFiniteSet(F) /\ IsSum(FlagPoints(F), W, F)
  BY FlagsFinite, FlagSum DEF FlagPoints
<1> HIDE DEF W
<1> QED BY <1>1, <1>2, SumOfNats

LEMMA FlagMonotone ==
  ASSUME NEW F \in SUBSET DOMAIN FlagCost, NEW f \in DOMAIN FlagCost
  PROVE  FlagPoints(F) <= FlagPoints(F \cup {f})
<1>1. FlagPoints(F) \in Nat
  BY FlagBounds
<1>2. CASE f \in F
  <2>1. F \cup {f} = F
    BY <1>2
  <2> QED BY <1>1, <2>1
<1>3. CASE f \notin F
  <2> DEFINE G == F \cup {f}
             W == [x \in G |-> FlagCost[x]]
             V == [x \in F |-> FlagCost[x]]
  <2>1. W \in [G -> Int] /\ V \in [F -> Int] /\ W[f] \in Nat /\ \A y \in F : V[y] = W[y]
    BY DEF FlagCost
  <2>2. f \in G /\ F = G \ {f} /\ G \in SUBSET DOMAIN FlagCost
    BY <1>3
  <2>3. IsFiniteSet(G) /\ IsSum(FlagPoints(G), W, G) /\ IsSum(FlagPoints(F), V, F)
    BY <2>2, FlagsFinite, FlagSum DEF FlagPoints
  <2> HIDE DEF G, W, V
  <2>4. FlagPoints(G) = W[f] + FlagPoints(F)
    BY <2>1, <2>2, <2>3, SumWith
  <2> QED BY <1>1, <2>1, <2>4 DEF G
<1> QED BY <1>2, <1>3

LEMMA QualityBounds ==
  ASSUME NEW q, q.signs \in SUBSET DOMAIN FlagCost
  PROVE  Quality(q) \in 0..350
<1> DEFINE t == FlagPoints(Flags(q))
<1>1. t \in Nat
  BY FlagBounds DEF Flags
<1>2. Quality(q) = Max({0, 350 - t})
  BY DEF Quality, FlagPoints
<1> HIDE DEF t
<1>3. Max({0, 350 - t}) = IF 0 >= 350 - t THEN 0 ELSE 350 - t
  BY <1>1, MaxOfTwo DEF Larger
<1> QED BY <1>1, <1>2, <1>3

LEMMA QualityMonotone ==
  ASSUME NEW q, q.signs \in SUBSET DOMAIN FlagCost, NEW r, NEW f \in DOMAIN FlagCost,
         r.signs = q.signs \cup {f}, r.pbt = q.pbt
  PROVE  Quality(r) <= Quality(q)
<1> DEFINE t == FlagPoints(Flags(q))
           u == FlagPoints(Flags(r))
<1>1. t \in Nat /\ u \in Nat /\ t <= u
  <2>1. /\ Flags(q) \in SUBSET DOMAIN FlagCost /\ Flags(r) \in SUBSET DOMAIN FlagCost
        /\ Flags(r) = Flags(q) \/ Flags(r) = Flags(q) \cup {f}
    BY DEF Flags
  <2>2. FlagPoints(Flags(q)) <= FlagPoints(Flags(q) \cup {f})
    BY <2>1, FlagMonotone
  <2>3. t \in Nat /\ u \in Nat
    BY <2>1, FlagBounds
  <2> QED BY <2>1, <2>2, <2>3
<1>2. Quality(q) = Max({0, 350 - t}) /\ Quality(r) = Max({0, 350 - u})
  BY DEF Quality, FlagPoints
<1> HIDE DEF t, u
<1>3. /\ Max({0, 350 - t}) = IF 0 >= 350 - t THEN 0 ELSE 350 - t
      /\ Max({0, 350 - u}) = IF 0 >= 350 - u THEN 0 ELSE 350 - u
  BY <1>1, MaxOfTwo DEF Larger
<1> QED BY <1>1, <1>2, <1>3

LEMMA ScaledMonotone ==
  ASSUME NEW a \in Int, NEW b \in Int, a <= b, NEW c \in {35, 60, 75, 100}
  PROVE  (100 * a) \div c <= (100 * b) \div c
<1>1. CASE c = 35 BY <1>1
<1>2. CASE c = 60 BY <1>2
<1>3. CASE c = 75 BY <1>3
<1>4. CASE c = 100 BY <1>4
<1> QED BY <1>1, <1>2, <1>3, <1>4

\* A quarter with any signs: with one more it need not be one of the sampled.
AnyQuarters == [kind : {"a3"}, revenue : Growths, pat : Growths, margin : Growths,
                trajectory : DOMAIN Trajectory, pbt : {-1, 0, 1},
                signs : SUBSET DOMAIN FlagCost]

LEMMA QuartersAreSome == Quarters \subseteq AnyQuarters
BY DEF Quarters, AnyQuarters, Trajectory, FlagCost

LEMMA QuarterParts ==
  ASSUME NEW q \in AnyQuarters
  PROVE  /\ Growth(q) = Absent \/ Growth(q) \in 0..400
         /\ Margin(q) = Absent \/ Margin(q) \in 0..250
         /\ Quality(q) \in 0..350
<1>1. /\ q.revenue \in Growths /\ q.pat \in Growths /\ q.margin \in Growths
      /\ q.trajectory \in DOMAIN Trajectory /\ q.signs \in SUBSET DOMAIN FlagCost
  BY DEF AnyQuarters, Trajectory, FlagCost
<1>2. GrowthPoints(q.revenue) \in 0..200 /\ GrowthPoints(q.pat) \in 0..200
  BY <1>1, GrowthBounds
<1>3. q.margin # Absent => Margin(q) = MarginPoints(q.margin, q.trajectory)
                           /\ q.margin \in Percents
  BY <1>1 DEF Margin, MarginPoints, Growths
<1>4. q.margin # Absent => Margin(q) \in 0..250
  <2> SUFFICES ASSUME q.margin # Absent PROVE Margin(q) \in 0..250
    OBVIOUS
  <2>1. MarginPoints(q.margin, q.trajectory) \in 0..250
    BY <1>1, <1>3, MarginBounds
  <2> QED BY <1>3, <2>1
<1>5. q.margin = Absent => Margin(q) = Absent
  BY DEF Margin
<1>6. Growth(q) = Absent \/ Growth(q) = GrowthPoints(q.revenue) + GrowthPoints(q.pat)
  BY DEF Growth
<1>7. Quality(q) \in 0..350
  BY <1>1, QualityBounds
<1>8. GrowthPoints(q.revenue) + GrowthPoints(q.pat) \in 0..400
  <2> DEFINE x == GrowthPoints(q.revenue)
             y == GrowthPoints(q.pat)
  <2> HIDE DEF x, y
  <2>1. x \in 0..200 /\ y \in 0..200
    BY <1>2 DEF x, y
  <2>2. x + y \in 0..400
    BY <2>1
  <2> QED BY <2>2 DEF x, y
<1>9. Growth(q) = Absent \/ Growth(q) \in 0..400
  BY <1>6, <1>8, Zenon
<1>10. Margin(q) = Absent \/ Margin(q) \in 0..250
  BY <1>4, <1>5, Zenon
<1> QED BY <1>7, <1>9, <1>10, Zenon

FundamentalParts(q) == Earned(Growth(q)) + Earned(Margin(q)) + Quality(q)
FundamentalWeight(q) == Carried(Growth(q), 40) + Carried(Margin(q), 25) + 35

LEMMA FundamentalIs ==
  ASSUME NEW q \in AnyQuarters
  PROVE  /\ FundamentalScore(q) = (100 * FundamentalParts(q)) \div FundamentalWeight(q)
         /\ FundamentalWeight(q) \in {35, 60, 75, 100}
         /\ FundamentalParts(q) \in 0..(10 * FundamentalWeight(q))
<1>1. FundamentalScore(q) = (100 * FundamentalParts(q)) \div FundamentalWeight(q)
  BY DEF FundamentalScore, FundamentalParts, FundamentalWeight
<1>2. /\ Earned(Growth(q)) \in 0..(10 * Carried(Growth(q), 40))
      /\ Carried(Growth(q), 40) \in {0, 40}
  BY QuarterParts, AbsentFar DEF Earned, Carried
<1>3. /\ Earned(Margin(q)) \in 0..(10 * Carried(Margin(q), 25))
      /\ Carried(Margin(q), 25) \in {0, 25}
  BY QuarterParts, AbsentFar DEF Earned, Carried
<1> QED BY <1>1, <1>2, <1>3, QuarterParts DEF FundamentalParts, FundamentalWeight

LEMMA FundamentalRange ==
  ASSUME NEW q \in AnyQuarters PROVE FundamentalScore(q) \in 0..1000
<1> DEFINE c == FundamentalWeight(q)
           t == FundamentalParts(q)
<1>1. FundamentalScore(q) = (100 * t) \div c /\ c \in {35, 60, 75, 100} /\ t \in 0..(10 * c)
  BY FundamentalIs
<1> HIDE DEF c, t
<1>2. CASE c = 35 BY <1>1, <1>2
<1>3. CASE c = 60 BY <1>1, <1>3
<1>4. CASE c = 75 BY <1>1, <1>4
<1>5. CASE c = 100 BY <1>1, <1>5
<1> QED BY <1>1, <1>2, <1>3, <1>4, <1>5

LEMMA FundamentalLess ==
  ASSUME NEW q \in AnyQuarters, NEW r \in AnyQuarters,
         FundamentalWeight(r) = FundamentalWeight(q),
         FundamentalParts(r) <= FundamentalParts(q)
  PROVE  FundamentalScore(r) <= FundamentalScore(q)
<1>1. /\ FundamentalScore(q) = (100 * FundamentalParts(q)) \div FundamentalWeight(q)
      /\ FundamentalScore(r) = (100 * FundamentalParts(r)) \div FundamentalWeight(q)
      /\ FundamentalWeight(q) \in {35, 60, 75, 100}
      /\ FundamentalParts(q) \in Int /\ FundamentalParts(r) \in Int
  BY FundamentalIs
<1> QED BY <1>1, ScaledMonotone

LEMMA WorseRevenue ==
  ASSUME NEW q \in AnyQuarters, q.revenue # Absent, NEW g \in Percents, g < q.revenue
  PROVE  FundamentalScore([q EXCEPT !.revenue = g]) <= FundamentalScore(q)
<1> DEFINE r == [q EXCEPT !.revenue = g]
<1>1. /\ r \in AnyQuarters /\ r.revenue = g /\ r.pat = q.pat /\ r.margin = q.margin
      /\ r.trajectory = q.trajectory /\ r.signs = q.signs /\ r.pbt = q.pbt
  BY DEF AnyQuarters, Growths
<1>2. q.revenue \in Percents /\ g # Absent /\ q.pat \in Growths
  BY PercentsAssumption DEF AnyQuarters, Growths
<1> HIDE DEF r
<1>3. Margin(r) = Margin(q) /\ Quality(r) = Quality(q)
  BY <1>1 DEF Margin, Quality, Flags
<1>4. /\ Growth(q) = GrowthPoints(q.revenue) + GrowthPoints(q.pat)
      /\ Growth(r) = GrowthPoints(g) + GrowthPoints(q.pat)
  BY <1>1, <1>2 DEF Growth
<1>5. /\ GrowthPoints(g) <= GrowthPoints(q.revenue) /\ GrowthPoints(g) \in 0..200
      /\ GrowthPoints(q.revenue) \in 0..200 /\ GrowthPoints(q.pat) \in 0..200
  <2>1. g \in Int /\ q.revenue \in Int
    BY <1>2, PercentsAreInts
  <2>2. g <= q.revenue /\ g \in Growths /\ q.revenue \in Growths
    BY <1>2, <2>1 DEF Growths
  <2>3. GrowthPoints(g) <= GrowthPoints(q.revenue)
    BY <1>2, <2>2, GrowthMonotone
  <2>4. /\ GrowthPoints(g) \in 0..200 /\ GrowthPoints(q.revenue) \in 0..200
        /\ GrowthPoints(q.pat) \in 0..200
    BY <1>2, <2>2, GrowthBounds
  <2> QED BY <2>3, <2>4
<1>6. Growth(r) # Absent /\ Growth(q) # Absent /\ Growth(r) <= Growth(q)
  <2> DEFINE x == GrowthPoints(g)
             y == GrowthPoints(q.revenue)
             z == GrowthPoints(q.pat)
  <2>1. Growth(r) = x + z /\ Growth(q) = y + z
    BY <1>4
  <2>2. x \in 0..200 /\ y \in 0..200 /\ z \in 0..200 /\ x <= y
    BY <1>5
  <2> HIDE DEF x, y, z
  <2>3. Growth(r) \in 0..400 /\ Growth(q) \in 0..400 /\ Growth(r) <= Growth(q)
    BY <2>1, <2>2
  <2> QED BY <2>3, AbsentFar
<1>7. Growth(r) \in Int /\ Growth(q) \in Int /\ Earned(Margin(q)) \in Int /\ Quality(q) \in Int
  <2>1. Growth(r) \in Int /\ Growth(q) \in Int /\ Quality(q) \in Int
    BY <1>1, <1>6, QuarterParts
  <2>2. Margin(q) = Absent \/ Margin(q) \in Int
    BY QuarterParts
  <2> QED BY <2>1, <2>2 DEF Earned
<1>8. FundamentalWeight(r) = FundamentalWeight(q) /\ FundamentalParts(r) <= FundamentalParts(q)
  <2>1. Earned(Growth(r)) = Growth(r) /\ Earned(Growth(q)) = Growth(q)
    BY <1>6 DEF Earned
  <2>2. FundamentalWeight(r) = FundamentalWeight(q)
    BY <1>3, <1>6 DEF FundamentalWeight, Carried
  <2> QED BY <1>3, <1>6, <1>7, <2>1, <2>2 DEF FundamentalParts
<1> QED BY <1>1, <1>8, FundamentalLess DEF r

LEMMA WorseMargin ==
  ASSUME NEW q \in AnyQuarters, q.margin # Absent, NEW g \in Percents, g < q.margin
  PROVE  FundamentalScore([q EXCEPT !.margin = g]) <= FundamentalScore(q)
<1> DEFINE r == [q EXCEPT !.margin = g]
<1>1. /\ r \in AnyQuarters /\ r.margin = g /\ r.pat = q.pat /\ r.revenue = q.revenue
      /\ r.trajectory = q.trajectory /\ r.signs = q.signs /\ r.pbt = q.pbt
  BY DEF AnyQuarters, Growths
<1>2. q.margin \in Percents /\ g # Absent /\ q.trajectory \in DOMAIN Trajectory
  BY PercentsAssumption DEF AnyQuarters, Growths
<1> HIDE DEF r
<1>3. Growth(r) = Growth(q) /\ Quality(r) = Quality(q)
  BY <1>1 DEF Growth, Quality, Flags
<1>4. /\ Margin(q) = MarginPoints(q.margin, q.trajectory)
      /\ Margin(r) = MarginPoints(g, q.trajectory)
  BY <1>1, <1>2 DEF Margin, MarginPoints
<1>5. /\ Margin(r) <= Margin(q) /\ Margin(r) \in 0..250 /\ Margin(q) \in 0..250
  <2>0. g \in Int /\ q.margin \in Int
    BY <1>2, PercentsAreInts
  <2>1. g <= q.margin
    BY <2>0
  <2> QED BY <1>2, <1>4, <2>1, MarginMonotone, MarginBounds
<1>6. Earned(Growth(q)) \in Int /\ Quality(q) \in Int
  BY QuarterParts DEF Earned
<1>7. FundamentalWeight(r) = FundamentalWeight(q) /\ FundamentalParts(r) <= FundamentalParts(q)
  <2>1. Margin(r) # Absent /\ Margin(q) # Absent
    BY <1>5, AbsentFar
  <2>2. Earned(Margin(r)) = Margin(r) /\ Earned(Margin(q)) = Margin(q)
    BY <2>1 DEF Earned
  <2>3. FundamentalWeight(r) = FundamentalWeight(q)
    BY <1>3, <2>1 DEF FundamentalWeight, Carried
  <2> DEFINE x == Margin(r)
             y == Margin(q)
             g2 == Earned(Growth(q))
             w == Quality(q)
  <2>4. FundamentalParts(r) = g2 + x + w /\ FundamentalParts(q) = g2 + y + w
    BY <1>3, <2>2 DEF FundamentalParts
  <2>5. x \in Int /\ y \in Int /\ x <= y /\ g2 \in Int /\ w \in Int
    BY <1>5, <1>6
  <2> HIDE DEF x, y, g2, w
  <2> QED BY <2>3, <2>4, <2>5
<1> QED BY <1>1, <1>7, FundamentalLess DEF r

LEMMA OneMoreFlag ==
  ASSUME NEW q \in AnyQuarters, NEW f \in DOMAIN FlagCost
  PROVE  FundamentalScore([q EXCEPT !.signs = @ \cup {f}]) <= FundamentalScore(q)
<1> DEFINE r == [q EXCEPT !.signs = @ \cup {f}]
<1>1. /\ r \in AnyQuarters /\ r.signs = q.signs \cup {f} /\ r.pat = q.pat /\ r.pbt = q.pbt
      /\ r.revenue = q.revenue /\ r.trajectory = q.trajectory /\ r.margin = q.margin
      /\ q.signs \in SUBSET DOMAIN FlagCost
  BY DEF AnyQuarters
<1> HIDE DEF r
<1>2. Growth(r) = Growth(q) /\ Margin(r) = Margin(q)
  BY <1>1 DEF Growth, Margin
<1>3. Quality(r) <= Quality(q) /\ Quality(r) \in Int /\ Quality(q) \in Int
  BY <1>1, QualityMonotone, QuarterParts
<1>4. Earned(Growth(q)) \in Int /\ Earned(Margin(q)) \in Int
  BY QuarterParts DEF Earned
<1>5. FundamentalWeight(r) = FundamentalWeight(q) /\ FundamentalParts(r) <= FundamentalParts(q)
  BY <1>2, <1>3, <1>4 DEF FundamentalParts, FundamentalWeight
<1> QED BY <1>1, <1>5, FundamentalLess DEF r

-----------------------------------------------------------------------------
\* A4.
LEMMA BarParts ==
  ASSUME NEW b \in Bars
  PROVE  /\ 60 * b.above \in 0..300
         /\ Momentum(b) \in 0..200
         /\ RelativeStrength(b) \in 0..200
         /\ Volume(b) \in 0..150
         /\ (15 * b.position) \div 10 \in 0..150
<1>1. /\ b.above \in {0, 3, 5} /\ b.position \in {0, 50, 100}
      /\ b.rsi \in {0, 60, 100, Absent} /\ b.adx \in {"none", "up", "down"}
      /\ b.excess \in Growths /\ b.volume \in {-5, 0, 5, Absent}
  BY DEF Bars
<1>2. Momentum(b) \in 0..200
  <2>1. ASSUME b.rsi # Absent
        PROVE  Max({0, 100 - (5 * Distance(b.rsi, 60)) \div 2}) \in 0..100
    <3>1. b.rsi \in {0, 60, 100}
      BY <1>1, <2>1
    <3>2. Distance(b.rsi, 60) = Larger(b.rsi - 60, 60 - b.rsi)
      BY <3>1, MaxOfTwo DEF Distance
    <3>3. Distance(b.rsi, 60) \in {0, 40, 60}
      BY <3>1, <3>2 DEF Larger
    <3> DEFINE d == 100 - (5 * Distance(b.rsi, 60)) \div 2
    <3>4. d \in Int /\ d <= 100
      BY <3>3
    <3> HIDE DEF d
    <3>5. Max({0, d}) = Larger(0, d)
      BY <3>4, MaxOfTwo
    <3>6. Max({0, d}) \in 0..100
      BY <3>4, <3>5 DEF Larger
    <3> QED BY <3>6 DEF d
  <2>2. [none |-> 0, up |-> 100, down |-> 20][b.adx] \in 0..100
    BY <1>1
  <2> QED BY <2>1, <2>2 DEF Momentum
<1>3. RelativeStrength(b) \in 0..200
  <2>1. CASE b.excess = Absent
    BY <2>1 DEF RelativeStrength
  <2>2. CASE b.excess # Absent
    <3>1. b.excess \in Int
      BY <1>1, <2>2, PercentsAreInts DEF Growths
    <3> DEFINE c == Clamp(0, 200, 100 + 10 * b.excess)
    <3>2. c = Between(0, 200, 100 + 10 * b.excess)
      BY <3>1, Clamps
    <3> QED BY <2>2, <3>1, <3>2 DEF RelativeStrength, Between
  <2> QED BY <2>1, <2>2
<1>4. Volume(b) \in 0..150
  <2> DEFINE c == Clamp(0, 100, 50 + 25 * b.volume)
             v == (IF b.volume = Absent THEN 75 ELSE c)
                    + (IF b.delivery = "rising" THEN 50 ELSE 0)
  <2>1. b.volume # Absent => c \in Int /\ 0 <= c /\ c <= 100
    <3> SUFFICES ASSUME b.volume # Absent PROVE c \in Int /\ 0 <= c /\ c <= 100
      OBVIOUS
    <3>1. b.volume \in Int
      BY <1>1
    <3>2. c = Between(0, 100, 50 + 25 * b.volume)
      BY <3>1, Clamps
    <3> QED BY <3>1, <3>2 DEF Between
  <2> HIDE DEF c
  <2>2. v \in Nat
    <3>1. CASE b.volume = Absent
      BY <3>1
    <3>2. CASE b.volume # Absent
      BY <2>1, <3>2
    <3> QED BY <3>1, <3>2
  <2>3. Volume(b) = Min({150, v})
    BY DEF Volume, c
  <2> HIDE DEF v
  <2>4. Min({150, v}) = Lesser(150, v)
    BY <2>2, MinOfTwo
  <2> QED BY <2>2, <2>3, <2>4 DEF Lesser
<1> QED BY <1>1, <1>2, <1>3, <1>4

LEMMA TechnicalRange ==
  ASSUME NEW b \in Bars PROVE TechnicalScore(b) \in 0..1000
<1> DEFINE t == 60 * b.above
           m == Momentum(b)
           s == RelativeStrength(b)
           v == Volume(b)
           p == (15 * b.position) \div 10
<1>1. t \in 0..300 /\ m \in 0..200 /\ s \in 0..200 /\ v \in 0..150 /\ p \in 0..150
  BY BarParts
<1>2. TechnicalScore(b) = t + m + s + v + p
  BY DEF TechnicalScore
<1> HIDE DEF t, m, s, v, p
<1> QED BY <1>1, <1>2

LEMMA WorseReturn ==
  ASSUME NEW b \in Bars, b.excess # Absent, NEW g \in Percents, g < b.excess
  PROVE  TechnicalScore([b EXCEPT !.excess = g]) <= TechnicalScore(b)
<1> DEFINE c == [b EXCEPT !.excess = g]
<1>1. /\ c \in Bars /\ c.excess = g /\ c.above = b.above /\ c.rsi = b.rsi /\ c.adx = b.adx
      /\ c.volume = b.volume /\ c.delivery = b.delivery /\ c.position = b.position
  BY DEF Bars, Growths
<1>2. b.excess \in Percents /\ g # Absent
  BY PercentsAssumption DEF Bars, Growths
<1> HIDE DEF c
<1>3. RelativeStrength(c) <= RelativeStrength(b)
  <2>1. g \in Int /\ b.excess \in Int
    BY <1>2, PercentsAreInts
  <2>2. /\ Clamp(0, 200, 100 + 10 * g) = Between(0, 200, 100 + 10 * g)
        /\ Clamp(0, 200, 100 + 10 * b.excess) = Between(0, 200, 100 + 10 * b.excess)
    BY <2>1, Clamps
  <2>3. Between(0, 200, 100 + 10 * g) <= Between(0, 200, 100 + 10 * b.excess)
    BY <2>1 DEF Between
  <2> QED BY <1>1, <1>2, <2>2, <2>3 DEF RelativeStrength
<1>4. Momentum(c) = Momentum(b) /\ Volume(c) = Volume(b)
  BY <1>1 DEF Momentum, Volume
<1>5. TechnicalScore(c) <= TechnicalScore(b)
  <2> DEFINE t == 60 * b.above
             m == Momentum(b)
             s == RelativeStrength(b)
             u == RelativeStrength(c)
             v == Volume(b)
             p == (15 * b.position) \div 10
  <2>1. /\ t \in 0..300 /\ m \in 0..200 /\ s \in 0..200 /\ v \in 0..150 /\ p \in 0..150
        /\ u \in 0..200
    BY <1>1, BarParts
  <2>2. TechnicalScore(b) = t + m + s + v + p /\ TechnicalScore(c) = t + m + u + v + p
    BY <1>1, <1>4 DEF TechnicalScore
  <2>3. u <= s
    BY <1>3
  <2> HIDE DEF t, m, s, u, v, p
  <2> QED BY <2>1, <2>2, <2>3
<1> QED BY <1>5 DEF c

-----------------------------------------------------------------------------
\* A5.
FlowParts(f) == Earned(Deals(f)) + Earned(Promoter(f)) + Insiders(f) + Surveilled(f)
FlowWeight(f) == Carried(Deals(f), 35) + Carried(Promoter(f), 25) + 15 + 25

LEMMA FlowPartBounds ==
  ASSUME NEW f \in Flows
  PROVE  /\ f.deals = Absent => Deals(f) = Absent
         /\ f.deals # Absent => Deals(f) \in 0..350
         /\ f.promoter = Absent => Promoter(f) = Absent
         /\ f.promoter # Absent => Promoter(f) \in 0..250
         /\ Insiders(f) \in 0..150
         /\ Surveilled(f) \in {0, 50, 100, 250}
<1>1. /\ f.deals \in Growths /\ f.promoter \in Growths /\ f.insiders \in {0, 1, 12}
      /\ f.frameworks \in SUBSET {"gsm", "asm_lt", "asm_st"}
  BY DEF Flows
<1>2. f.deals # Absent => Deals(f) \in 0..350
  <2> SUFFICES ASSUME f.deals # Absent PROVE Deals(f) \in 0..350
    OBVIOUS
  <2> DEFINE c == Clamp(-50, 50, f.deals)
  <2>1. f.deals \in Int
    BY <1>1, PercentsAreInts DEF Growths
  <2>2. c \in Int /\ -50 <= c /\ c <= 50
    <3>1. c = Between(-50, 50, f.deals)
      BY <2>1, Clamps
    <3> QED BY <2>1, <3>1 DEF Between
  <2> HIDE DEF c
  <2>3. 175 + (7 * c) \div 2 \in 0..350
    BY <2>2
  <2> QED BY <2>3 DEF Deals, c
<1>3. f.promoter # Absent => Promoter(f) \in 0..250
  <2> SUFFICES ASSUME f.promoter # Absent PROVE Promoter(f) \in 0..250
    OBVIOUS
  <2>1. f.promoter \in Int
    BY <1>1, PercentsAreInts DEF Growths
  <2> DEFINE c == Clamp(0, 250, 125 + 5 * f.promoter)
  <2>2. c = Between(0, 250, 125 + 5 * f.promoter)
    BY <2>1, Clamps
  <2> QED BY <2>1, <2>2 DEF Promoter, Between
<1>4. Insiders(f) \in 0..150
  <2> DEFINE n == 75 + (15 * f.insiders) \div 2
  <2>1. n \in Nat
    BY <1>1
  <2>2. Insiders(f) = Min({150, n})
    BY DEF Insiders
  <2> HIDE DEF n
  <2>3. Min({150, n}) = Lesser(150, n)
    BY <2>1, MinOfTwo
  <2> QED BY <2>1, <2>2, <2>3 DEF Lesser
<1>5. Surveilled(f) \in {0, 50, 100, 250}
  BY DEF Surveilled
<1> QED BY <1>2, <1>3, <1>4, <1>5 DEF Deals, Promoter

LEMMA FlowIs ==
  ASSUME NEW f \in Flows
  PROVE  /\ FlowScore(f) = (100 * FlowParts(f)) \div FlowWeight(f)
         /\ FlowWeight(f) \in {40, 65, 75, 100}
         /\ FlowParts(f) \in 0..(10 * FlowWeight(f))
<1>1. FlowScore(f) = (100 * FlowParts(f)) \div FlowWeight(f)
  BY DEF FlowScore, FlowParts, FlowWeight
<1>2. /\ Earned(Deals(f)) \in 0..(10 * Carried(Deals(f), 35))
      /\ Carried(Deals(f), 35) \in {0, 35}
  BY FlowPartBounds, AbsentFar DEF Earned, Carried
<1>3. /\ Earned(Promoter(f)) \in 0..(10 * Carried(Promoter(f), 25))
      /\ Carried(Promoter(f), 25) \in {0, 25}
  BY FlowPartBounds, AbsentFar DEF Earned, Carried
<1> QED BY <1>1, <1>2, <1>3, FlowPartBounds DEF FlowParts, FlowWeight

LEMMA FlowRange ==
  ASSUME NEW f \in Flows PROVE FlowScore(f) \in 0..1000
<1> DEFINE c == FlowWeight(f)
           t == FlowParts(f)
<1>1. FlowScore(f) = (100 * t) \div c /\ c \in {40, 65, 75, 100} /\ t \in 0..(10 * c)
  BY FlowIs
<1> HIDE DEF c, t
<1>2. CASE c = 40 BY <1>1, <1>2
<1>3. CASE c = 65 BY <1>1, <1>3
<1>4. CASE c = 75 BY <1>1, <1>4
<1>5. CASE c = 100 BY <1>1, <1>5
<1> QED BY <1>1, <1>2, <1>3, <1>4, <1>5

LEMMA FlowLess ==
  ASSUME NEW f \in Flows, NEW h \in Flows, FlowWeight(h) = FlowWeight(f),
         FlowParts(h) <= FlowParts(f)
  PROVE  FlowScore(h) <= FlowScore(f)
<1> DEFINE c == FlowWeight(f)
           t == FlowParts(f)
           u == FlowParts(h)
<1>1. /\ FlowScore(f) = (100 * t) \div c /\ FlowScore(h) = (100 * u) \div c
      /\ c \in {40, 65, 75, 100} /\ t \in Int /\ u \in Int /\ u <= t
  BY FlowIs
<1> HIDE DEF c, t, u
<1>2. CASE c = 40 BY <1>1, <1>2
<1>3. CASE c = 65 BY <1>1, <1>3
<1>4. CASE c = 75 BY <1>1, <1>4
<1>5. CASE c = 100 BY <1>1, <1>5
<1> QED BY <1>1, <1>2, <1>3, <1>4, <1>5

LEMMA PromoterSells ==
  ASSUME NEW f \in Flows, f.promoter # Absent, NEW g \in Percents, g < f.promoter
  PROVE  FlowScore([f EXCEPT !.promoter = g]) <= FlowScore(f)
<1> DEFINE h == [f EXCEPT !.promoter = g]
<1>1. /\ h \in Flows /\ h.promoter = g /\ h.deals = f.deals
      /\ h.insiders = f.insiders /\ h.frameworks = f.frameworks
  BY DEF Flows, Growths
<1>2. f.promoter \in Percents /\ g # Absent
  BY PercentsAssumption DEF Flows, Growths
<1> HIDE DEF h
<1>3. Promoter(h) <= Promoter(f)
  <2>1. g \in Int /\ f.promoter \in Int
    BY <1>2, PercentsAreInts
  <2>2. /\ Clamp(0, 250, 125 + 5 * g) = Between(0, 250, 125 + 5 * g)
        /\ Clamp(0, 250, 125 + 5 * f.promoter) = Between(0, 250, 125 + 5 * f.promoter)
    BY <2>1, Clamps
  <2>3. Between(0, 250, 125 + 5 * g) <= Between(0, 250, 125 + 5 * f.promoter)
    BY <2>1 DEF Between
  <2> QED BY <1>1, <1>2, <2>2, <2>3 DEF Promoter
<1>4. Deals(h) = Deals(f) /\ Insiders(h) = Insiders(f) /\ Surveilled(h) = Surveilled(f)
  BY <1>1 DEF Deals, Insiders, Surveilled
<1>5. Promoter(h) \in 0..250 /\ Promoter(f) \in 0..250
  BY <1>1, <1>2, FlowPartBounds
<1>6. FlowWeight(h) = FlowWeight(f)
  BY <1>4, <1>5, AbsentFar DEF FlowWeight, Carried
<1>7. FlowParts(h) <= FlowParts(f)
  <2>1. Earned(Promoter(h)) = Promoter(h) /\ Earned(Promoter(f)) = Promoter(f)
    BY <1>5, AbsentFar DEF Earned
  <2>2. Earned(Deals(f)) \in Int
    BY FlowPartBounds DEF Earned
  <2> DEFINE x == Promoter(h)
             y == Promoter(f)
             d == Earned(Deals(f))
             n == Insiders(f)
             s == Surveilled(f)
  <2>3. FlowParts(h) = d + x + n + s /\ FlowParts(f) = d + y + n + s
    BY <1>4, <2>1 DEF FlowParts
  <2>4. x \in Int /\ y \in Int /\ x <= y /\ d \in Int /\ n \in Int /\ s \in Int
    BY <1>3, <1>5, <2>2, FlowPartBounds
  <2> HIDE DEF x, y, d, n, s
  <2> QED BY <2>3, <2>4
<1> QED BY <1>1, <1>6, <1>7, FlowLess DEF h

LEMMA WorseDeals ==
  ASSUME NEW f \in Flows, f.deals # Absent, NEW g \in Percents, g < f.deals
  PROVE  FlowScore([f EXCEPT !.deals = g]) <= FlowScore(f)
<1> DEFINE h == [f EXCEPT !.deals = g]
<1>1. /\ h \in Flows /\ h.deals = g /\ h.promoter = f.promoter
      /\ h.insiders = f.insiders /\ h.frameworks = f.frameworks
  BY DEF Flows, Growths
<1>2. f.deals \in Percents /\ g # Absent
  BY PercentsAssumption DEF Flows, Growths
<1> HIDE DEF h
<1>3. Deals(h) <= Deals(f)
  <2> DEFINE c == Clamp(-50, 50, g)
             d == Clamp(-50, 50, f.deals)
  <2>0. g \in Int /\ f.deals \in Int
    BY <1>2, PercentsAreInts
  <2>1. c \in Int /\ d \in Int /\ c <= d
    <3>1. c = Between(-50, 50, g) /\ d = Between(-50, 50, f.deals)
      BY <2>0, Clamps
    <3> QED BY <2>0, <3>1 DEF Between
  <2>2. Deals(h) = 175 + (7 * c) \div 2 /\ Deals(f) = 175 + (7 * d) \div 2
    BY <1>1, <1>2 DEF Deals
  <2> HIDE DEF c, d
  <2> QED BY <2>1, <2>2
<1>4. Promoter(h) = Promoter(f) /\ Insiders(h) = Insiders(f) /\ Surveilled(h) = Surveilled(f)
  BY <1>1 DEF Promoter, Insiders, Surveilled
<1>5. Deals(h) \in 0..350 /\ Deals(f) \in 0..350
  BY <1>1, <1>2, FlowPartBounds
<1>6. FlowWeight(h) = FlowWeight(f)
  BY <1>4, <1>5, AbsentFar DEF FlowWeight, Carried
<1>7. FlowParts(h) <= FlowParts(f)
  <2>1. Earned(Deals(h)) = Deals(h) /\ Earned(Deals(f)) = Deals(f)
    BY <1>5, AbsentFar DEF Earned
  <2>2. Earned(Promoter(f)) \in Int
    BY FlowPartBounds DEF Earned
  <2> DEFINE x == Deals(h)
             y == Deals(f)
             e == Earned(Promoter(f))
             n == Insiders(f)
             s == Surveilled(f)
  <2>3. FlowParts(h) = x + e + n + s /\ FlowParts(f) = y + e + n + s
    BY <1>4, <2>1 DEF FlowParts
  <2>4. x \in Int /\ y \in Int /\ x <= y /\ e \in Int /\ n \in Int /\ s \in Int
    BY <1>3, <1>5, <2>2, FlowPartBounds
  <2> HIDE DEF x, y, e, n, s
  <2> QED BY <2>3, <2>4
<1> QED BY <1>1, <1>6, <1>7, FlowLess DEF h

LEMMA OneMoreFramework ==
  ASSUME NEW f \in Flows, NEW x \in {"gsm", "asm_lt", "asm_st"}
  PROVE  FlowScore([f EXCEPT !.frameworks = @ \cup {x}]) <= FlowScore(f)
<1> DEFINE h == [f EXCEPT !.frameworks = @ \cup {x}]
<1>1. /\ h \in Flows /\ h.frameworks = f.frameworks \cup {x} /\ h.deals = f.deals
      /\ h.insiders = f.insiders /\ h.promoter = f.promoter
      /\ f.frameworks \in SUBSET {"gsm", "asm_lt", "asm_st"}
  BY DEF Flows
<1> HIDE DEF h
<1>2. Surveilled(h) <= Surveilled(f)
  <2>1. CASE "gsm" \in h.frameworks
    BY <2>1, FlowPartBounds DEF Surveilled
  <2>2. CASE "gsm" \notin h.frameworks /\ "asm_lt" \in h.frameworks
    BY <1>1, <2>2 DEF Surveilled
  <2>3. CASE "gsm" \notin h.frameworks /\ "asm_lt" \notin h.frameworks
    <3>1. h.frameworks = {"asm_st"} /\ (f.frameworks = {"asm_st"} \/ f.frameworks = {})
      BY <1>1, <2>3
    <3> QED BY <3>1 DEF Surveilled
  <2> QED BY <2>1, <2>2, <2>3
<1>3. Promoter(h) = Promoter(f) /\ Insiders(h) = Insiders(f) /\ Deals(h) = Deals(f)
  BY <1>1 DEF Promoter, Insiders, Deals
<1>4. FlowWeight(h) = FlowWeight(f)
  BY <1>3 DEF FlowWeight
<1>5. FlowParts(h) <= FlowParts(f)
  <2>1. Earned(Promoter(f)) \in Int /\ Earned(Deals(f)) \in Int
    BY FlowPartBounds DEF Earned
  <2>2. Surveilled(h) \in Int /\ Surveilled(f) \in Int /\ Insiders(f) \in Int
    BY <1>1, FlowPartBounds
  <2> QED BY <1>2, <1>3, <2>1, <2>2 DEF FlowParts
<1> QED BY <1>1, <1>4, <1>5, FlowLess DEF h

-----------------------------------------------------------------------------
\* The event axis.  An event that counts pulls its side's sum towards its sign.
LEMMA EventStrength ==
  ASSUME NEW e \in EventRows, Counts(e)
  PROVE  /\ Strength(e) \in Int
         /\ e.sentiment < 0 => Strength(e) <= 0
         /\ e.sentiment > 0 => Strength(e) >= 0
<1>1. /\ e.age \in {0, 20} /\ e.materiality \in {5, 9} /\ e.confidence = 90
      /\ e.sentiment \in {-1, 1}
  BY DEF EventRows, Counts
<1>2. Decay(0) = 8 /\ Decay(20) = 2
  <2>1. 3 - (0 \div 10) = 3 /\ 3 - (20 \div 10) = 1 /\ 2 ^ 3 = 8 /\ 2 ^ 1 = 2
    OBVIOUS
  <2> QED BY <2>1 DEF Decay
<1>3. \/ Strength(e) = 8 * 5 * 90 * e.sentiment \/ Strength(e) = 8 * 9 * 90 * e.sentiment
      \/ Strength(e) = 2 * 5 * 90 * e.sentiment \/ Strength(e) = 2 * 9 * 90 * e.sentiment
  BY <1>1, <1>2 DEF Strength
<1> QED BY <1>1, <1>3

LEMMA RowsFinite ==
  ASSUME NEW x \in Days, NEW rows \in SUBSET x.events
  PROVE  IsFiniteSet(rows)
<1>1. PICK c \in EventRows, d \in EventRows, e \in EventRows : x.events = {c, d, e}
  BY DEF Days
<1>2. IsFiniteSet({c}) /\ {c, d} = {c} \cup {d} /\ {c, d, e} = {c, d} \cup {e}
  BY FS_Singleton
<1>3. IsFiniteSet({c, d, e})
  <2>1. IsFiniteSet({c, d})
    BY <1>2, FS_AddElement
  <2> QED BY <1>2, <2>1, FS_AddElement
<1> QED BY <1>1, <1>3, FS_Subset

LEMMA RowsSum ==
  ASSUME NEW rows, IsFiniteSet(rows), \A r \in rows : r \in EventRows /\ Counts(r)
  PROVE  MapThenSumSet(Strength, rows) \in Int
<1> DEFINE W == [r \in rows |-> Strength(r)]
           t == MapThenSumSet(Strength, rows)
<1>1. W \in [rows -> Int] /\ IsSum(t, W, rows)
  BY EventStrength, StrengthSum
<1> HIDE DEF W, t
<1>2. t \in Int
  BY <1>1, SumType
<1> QED BY <1>2 DEF t

LEMMA RowAdds ==
  ASSUME NEW rows, IsFiniteSet(rows), \A r \in rows : r \in EventRows /\ Counts(r),
         NEW e \in EventRows, Counts(e), e \notin rows
  PROVE  MapThenSumSet(Strength, rows \cup {e}) = Strength(e) + MapThenSumSet(Strength, rows)
<1> DEFINE more == rows \cup {e}
           W == [r \in more |-> Strength(r)]
           V == [r \in rows |-> Strength(r)]
           t == MapThenSumSet(Strength, more)
           u == MapThenSumSet(Strength, rows)
<1>1. IsFiniteSet(more)
  BY FS_AddElement
<1>2. \A r \in more : r \in EventRows /\ Counts(r)
  OBVIOUS
<1>3. /\ W \in [more -> Int] /\ V \in [rows -> Int] /\ W[e] = Strength(e)
      /\ \A r \in rows : V[r] = W[r]
  BY <1>2, EventStrength
<1>4. e \in more /\ rows = more \ {e}
  OBVIOUS
<1>5. IsSum(t, W, more) /\ IsSum(u, V, rows)
  <2> HIDE DEF more
  <2> QED BY <1>1, <1>2, EventStrength, StrengthSum
<1>6. t = W[e] + u
  <2> HIDE DEF t, u, W, V, more
  <2> QED BY <1>1, <1>3, <1>4, <1>5, SumWith
<1> QED BY <1>3, <1>6 DEF t, u, more

LEMMA OneMoreRow ==
  ASSUME NEW rows, IsFiniteSet(rows), \A r \in rows : r \in EventRows /\ Counts(r),
         NEW e \in EventRows, Counts(e), e.sentiment < 0
  PROVE  /\ IsFiniteSet(rows \cup {e})
         /\ MapThenSumSet(Strength, rows \cup {e}) \in Int
         /\ MapThenSumSet(Strength, rows \cup {e}) <= MapThenSumSet(Strength, rows)
<1> DEFINE t == MapThenSumSet(Strength, rows \cup {e})
           u == MapThenSumSet(Strength, rows)
<1>1. IsFiniteSet(rows \cup {e}) /\ \A r \in rows \cup {e} : r \in EventRows /\ Counts(r)
  BY FS_AddElement
<1>2. t \in Int /\ u \in Int
  BY <1>1, RowsSum
<1>3. t <= u
  <2>1. CASE e \in rows
    <3>1. rows \cup {e} = rows
      BY <2>1
    <3> QED BY <1>2, <3>1
  <2>2. CASE e \notin rows
    <3>1. t = Strength(e) + u /\ Strength(e) \in Int /\ Strength(e) <= 0
      BY <2>2, RowAdds, EventStrength
    <3> HIDE DEF t, u
    <3> QED BY <1>2, <3>1
  <2> QED BY <2>1, <2>2
<1> QED BY <1>1, <1>2, <1>3

LEMMA ScoresOf ==
  ASSUME NEW rows, MapThenSumSet(Strength, rows) \in Int
  PROVE  EventScore(rows) \in 0..1000 /\ PeerEventScore(rows) \in 0..1000
<1> DEFINE t == MapThenSumSet(Strength, rows)
           x == 500 + (t \div 16)
           y == 500 + ((35 * t) \div 1600)
<1>1. EventScore(rows) = Clamp(0, 1000, x) /\ PeerEventScore(rows) = Clamp(0, 1000, y)
  BY DEF EventScore, PeerEventScore
<1>2. t \in Int
  OBVIOUS
<1> HIDE DEF t
<1>3. x \in Int /\ y \in Int
  BY <1>2
<1> HIDE DEF x, y
<1>4. Clamp(0, 1000, x) = Between(0, 1000, x) /\ Clamp(0, 1000, y) = Between(0, 1000, y)
  BY <1>3, Clamps
<1>5. Between(0, 1000, x) \in 0..1000 /\ Between(0, 1000, y) \in 0..1000
  BY <1>3 DEF Between
<1>6. EventScore(rows) \in 0..1000
  BY <1>1, <1>4, <1>5
<1>7. PeerEventScore(rows) \in 0..1000
  BY <1>1, <1>4, <1>5
<1> QED BY <1>6, <1>7

LEMMA ScoresLess ==
  ASSUME NEW rows, NEW more,
         MapThenSumSet(Strength, rows) \in Int, MapThenSumSet(Strength, more) \in Int,
         MapThenSumSet(Strength, more) <= MapThenSumSet(Strength, rows)
  PROVE  EventScore(more) <= EventScore(rows) /\ PeerEventScore(more) <= PeerEventScore(rows)
<1> DEFINE t == MapThenSumSet(Strength, rows)
           u == MapThenSumSet(Strength, more)
           x(n) == 500 + (n \div 16)
           y(n) == 500 + ((35 * n) \div 1600)
<1>1. /\ EventScore(rows) = Clamp(0, 1000, x(t)) /\ EventScore(more) = Clamp(0, 1000, x(u))
      /\ PeerEventScore(rows) = Clamp(0, 1000, y(t)) /\ PeerEventScore(more) = Clamp(0, 1000, y(u))
  BY DEF EventScore, PeerEventScore
<1>2. t \in Int /\ u \in Int /\ u <= t
  OBVIOUS
<1> HIDE DEF t, u
<1>3. /\ x(t) \in Int /\ x(u) \in Int /\ x(u) <= x(t)
      /\ y(t) \in Int /\ y(u) \in Int /\ y(u) <= y(t)
  BY <1>2
<1> HIDE DEF x, y
<1>4. \A n \in Int : Clamp(0, 1000, n) = Between(0, 1000, n)
  BY Clamps
<1>5. \A m, n \in Int : m <= n => Between(0, 1000, m) <= Between(0, 1000, n)
  BY DEF Between
<1> QED BY <1>1, <1>3, <1>4, <1>5

\* What is read of a day's events.
IsRead(rows, events) ==
  rows \subseteq events /\ IsFiniteSet(rows) /\ \A r \in rows : r \in EventRows /\ Counts(r)

LEMMA AreRead ==
  ASSUME NEW x \in Days,
         NEW own \in MostMaterial(OwnRows(x.events), OwnLimit),
         NEW peers \in MostMaterial(PeerRows(x.events), PeerLimit)
  PROVE  IsRead(own, OwnRows(x.events)) /\ IsRead(peers, PeerRows(x.events))
<1>1. x.events \subseteq EventRows
  BY DEF Days
<1>2. own \subseteq OwnRows(x.events) /\ peers \subseteq PeerRows(x.events)
  BY DEF MostMaterial
<1>3. own \in SUBSET x.events /\ peers \in SUBSET x.events
  BY <1>2 DEF OwnRows, PeerRows
<1>4. IsFiniteSet(own) /\ IsFiniteSet(peers)
  BY <1>3, RowsFinite
<1> QED BY <1>1, <1>2, <1>4 DEF IsRead, OwnRows, PeerRows

LEMMA AxisRange ==
  ASSUME NEW x \in Days, NEW v \in EventAxes(x.events)
  PROVE  v \in (0..1000) \cup {Absent}
<1>1. PICK own \in MostMaterial(OwnRows(x.events), OwnLimit),
           peers \in MostMaterial(PeerRows(x.events), PeerLimit) : v = EventAxis(own, peers)
  BY DEF EventAxes
<1>2. /\ MapThenSumSet(Strength, own) \in Int
      /\ MapThenSumSet(Strength, peers) \in Int
  BY AreRead, RowsSum DEF IsRead
<1>3. EventScore(own) \in 0..1000 /\ PeerEventScore(peers) \in 0..1000
  BY <1>2, ScoresOf
<1> DEFINE n == EventScore(own) + PeerEventScore(peers) - 500
<1>4. v = Absent \/ v = Clamp(0, 1000, n)
  BY <1>1 DEF EventAxis
<1>5. n \in Int
  <2> DEFINE x1 == EventScore(own)
             x2 == PeerEventScore(peers)
  <2>1. x1 \in 0..1000 /\ x2 \in 0..1000 /\ n = x1 + x2 - 500
    BY <1>3
  <2> HIDE DEF x1, x2, n
  <2> QED BY <2>1
<1> HIDE DEF n
<1>6. Clamp(0, 1000, n) = Between(0, 1000, n)
  BY <1>5, Clamps
<1>7. Clamp(0, 1000, n) \in 0..1000
  BY <1>5, <1>6 DEF Between
<1> QED BY <1>4, <1>7

\* Rows of less strength on either side make no better axis.
LEMMA AxisLess ==
  ASSUME NEW own, NEW peers, NEW own2, NEW peers2, own \cup peers # {}, own2 \cup peers2 # {},
         MapThenSumSet(Strength, own) \in Int, MapThenSumSet(Strength, peers) \in Int,
         MapThenSumSet(Strength, own2) \in Int, MapThenSumSet(Strength, peers2) \in Int,
         MapThenSumSet(Strength, own2) <= MapThenSumSet(Strength, own),
         MapThenSumSet(Strength, peers2) <= MapThenSumSet(Strength, peers)
  PROVE  EventAxis(own2, peers2) <= EventAxis(own, peers)
<1> DEFINE m == EventScore(own2) + PeerEventScore(peers2) - 500
           n == EventScore(own) + PeerEventScore(peers) - 500
<1>1. EventAxis(own2, peers2) = Clamp(0, 1000, m) /\ EventAxis(own, peers) = Clamp(0, 1000, n)
  BY DEF EventAxis
<1>2. m \in Int /\ n \in Int /\ m <= n
  <2> DEFINE x1 == EventScore(own)
             x2 == PeerEventScore(peers)
             y1 == EventScore(own2)
             y2 == PeerEventScore(peers2)
  <2>1. y1 <= x1 /\ y2 <= x2
    BY ScoresLess
  <2>2. x1 \in 0..1000 /\ x2 \in 0..1000 /\ y1 \in 0..1000 /\ y2 \in 0..1000
    BY ScoresOf
  <2>3. n = x1 + x2 - 500 /\ m = y1 + y2 - 500
    OBVIOUS
  <2> HIDE DEF x1, x2, y1, y2, m, n
  <2> QED BY <2>1, <2>2, <2>3
<1> HIDE DEF m, n
<1>3. Clamp(0, 1000, m) = Between(0, 1000, m) /\ Clamp(0, 1000, n) = Between(0, 1000, n)
  BY <1>2, Clamps
<1>4. Clamp(0, 1000, m) <= Clamp(0, 1000, n)
  BY <1>2, <1>3 DEF Between
<1> QED BY <1>1, <1>4

\* Below the limit all rows are read.
LEMMA BelowLimit ==
  ASSUME NEW rows, IsFiniteSet(rows), NEW n \in Nat, Cardinality(rows) <= n,
         NEW top \in MostMaterial(rows, n)
  PROVE  top = rows
<1>1. Cardinality(rows) \in Nat
  BY FS_CardinalityType
<1>2. Min({n, Cardinality(rows)}) = Cardinality(rows)
  BY <1>1, MinOfTwo DEF Lesser
<1>3. top \in SUBSET rows /\ Cardinality(top) = Cardinality(rows)
  BY <1>2 DEF MostMaterial
<1> QED BY <1>3, FS_Subset

LEMMA BadNews ==
  ASSUME NEW x \in Days, NEW v \in EventAxes(x.events), v # Absent,
         NEW e \in EventRows, e.sentiment < 0, AllRead(x.events \cup {e}),
         NEW u \in EventAxes(x.events \cup {e})
  PROVE  u <= v
<1> DEFINE own == OwnRows(x.events)
           peers == PeerRows(x.events)
           own2 == OwnRows(x.events \cup {e})
           peers2 == PeerRows(x.events \cup {e})
<1>1. x.events \subseteq EventRows
  BY DEF Days
<1>2. /\ IsFiniteSet(own) /\ IsFiniteSet(peers)
      /\ \A r \in own : r \in EventRows /\ Counts(r)
      /\ \A r \in peers : r \in EventRows /\ Counts(r)
  BY <1>1, RowsFinite DEF OwnRows, PeerRows
<1>3. /\ MapThenSumSet(Strength, own) \in Int /\ MapThenSumSet(Strength, peers) \in Int
  BY <1>2, RowsSum
<1>4. \/ own2 = own /\ peers2 = peers
      \/ Counts(e) /\ own2 = own \cup {e} /\ peers2 = peers
      \/ Counts(e) /\ own2 = own /\ peers2 = peers \cup {e}
  <2>1. e.peer \in BOOLEAN
    BY DEF EventRows
  <2> QED BY <2>1 DEF OwnRows, PeerRows
<1>a. own \subseteq own2 /\ peers \subseteq peers2
  BY <1>4
<1>b. Cardinality(own2) <= OwnLimit /\ Cardinality(peers2) <= PeerLimit
  BY DEF AllRead
<1> HIDE DEF own, peers, own2, peers2
<1>c. IsFiniteSet(own2) /\ IsFiniteSet(peers2)
  BY <1>2, <1>4, FS_AddElement
<1>d. Cardinality(own) <= OwnLimit /\ Cardinality(peers) <= PeerLimit
  <2>1. Cardinality(own) <= Cardinality(own2) /\ Cardinality(peers) <= Cardinality(peers2)
    BY <1>a, <1>c, FS_Subset
  <2>2. /\ Cardinality(own) \in Nat /\ Cardinality(own2) \in Nat
        /\ Cardinality(peers) \in Nat /\ Cardinality(peers2) \in Nat
    BY <1>2, <1>c, FS_CardinalityType
  <2> QED BY <1>b, <2>1, <2>2, LimitAssumption
<1>5. /\ MapThenSumSet(Strength, own2) \in Int /\ MapThenSumSet(Strength, peers2) \in Int
      /\ MapThenSumSet(Strength, own2) <= MapThenSumSet(Strength, own)
      /\ MapThenSumSet(Strength, peers2) <= MapThenSumSet(Strength, peers)
  <2>1. CASE own2 = own /\ peers2 = peers
    BY <1>3, <2>1
  <2>2. CASE Counts(e) /\ own2 = own \cup {e} /\ peers2 = peers
    BY <1>2, <1>3, <2>2, OneMoreRow
  <2>3. CASE Counts(e) /\ own2 = own /\ peers2 = peers \cup {e}
    BY <1>2, <1>3, <2>3, OneMoreRow
  <2> QED BY <1>4, <2>1, <2>2, <2>3
<1>6. v = EventAxis(own, peers)
  <2>1. PICK o \in MostMaterial(own, OwnLimit), p \in MostMaterial(peers, PeerLimit) :
          v = EventAxis(o, p)
    BY DEF EventAxes, own, peers
  <2> QED BY <1>2, <1>d, <2>1, BelowLimit, LimitAssumption
<1>7. u = EventAxis(own2, peers2)
  <2>1. PICK o \in MostMaterial(own2, OwnLimit), p \in MostMaterial(peers2, PeerLimit) :
          u = EventAxis(o, p)
    BY DEF EventAxes, own2, peers2
  <2> QED BY <1>b, <1>c, <2>1, BelowLimit, LimitAssumption
<1>8. own \cup peers # {} /\ own2 \cup peers2 # {}
  BY <1>6, <1>a DEF EventAxis
<1> QED BY <1>3, <1>5, <1>6, <1>7, <1>8, AxisLess

\* A row that turns bad keeps its place among the most material ones.
Turned(rows, e) == IF e \in rows THEN (rows \ {e}) \cup {TurnBad(e)} ELSE rows

LEMMA TurnedCount ==
  ASSUME NEW rows, IsFiniteSet(rows), NEW e, TurnBad(e) \notin rows
  PROVE  IsFiniteSet(Turned(rows, e)) /\ Cardinality(Turned(rows, e)) = Cardinality(rows)
<1>1. CASE e \notin rows
  BY <1>1 DEF Turned
<1>2. CASE e \in rows
  <2> DEFINE rest == rows \ {e}
  <2>1. IsFiniteSet(rest) /\ Cardinality(rest) = Cardinality(rows) - 1
    BY <1>2, FS_RemoveElement
  <2>2. TurnBad(e) \notin rest /\ Turned(rows, e) = rest \cup {TurnBad(e)}
    BY <1>2 DEF Turned
  <2>3. Cardinality(rows) \in Nat
    BY FS_CardinalityType
  <2> HIDE DEF rest
  <2>4. /\ IsFiniteSet(rest \cup {TurnBad(e)})
        /\ Cardinality(rest \cup {TurnBad(e)}) = Cardinality(rest) + 1
    BY <2>1, <2>2, FS_AddElement
  <2> QED BY <2>1, <2>2, <2>3, <2>4
<1> QED BY <1>1, <1>2

LEMMA TurnedStays ==
  ASSUME NEW rows, IsFiniteSet(rows), NEW n, NEW top \in MostMaterial(rows, n),
         NEW e \in EventRows, TurnBad(e) \notin rows
  PROVE  Turned(top, e) \in MostMaterial(Turned(rows, e), n)
<1>1. top \subseteq rows /\ Cardinality(top) = Min({n, Cardinality(rows)})
  BY DEF MostMaterial
<1>2. IsFiniteSet(top) /\ TurnBad(e) \notin top
  BY <1>1, FS_Subset
<1>3. Cardinality(Turned(top, e)) = Min({n, Cardinality(Turned(rows, e))})
  BY <1>1, <1>2, TurnedCount
<1>4. Turned(top, e) \subseteq Turned(rows, e)
  BY <1>1 DEF Turned
<1>5. TurnBad(e).materiality = e.materiality
  BY DEF TurnBad, EventRows
<1>6. ASSUME NEW d \in Turned(top, e), NEW f \in Turned(rows, e) \ Turned(top, e)
      PROVE  f.materiality <= d.materiality
  <2>1. PICK d2 \in top : d2.materiality = d.materiality
    BY <1>5 DEF Turned
  <2>2. PICK f2 \in rows \ top : f2.materiality = f.materiality
    BY <1>1, <1>2, <1>5 DEF Turned
  <2>3. f2.materiality <= d2.materiality
    BY DEF MostMaterial
  <2> QED BY <2>1, <2>2, <2>3
<1> QED BY <1>3, <1>4, <1>6 DEF MostMaterial

LEMMA TurnedSum ==
  ASSUME NEW rows, IsFiniteSet(rows), \A r \in rows : r \in EventRows /\ Counts(r),
         NEW e \in EventRows, TurnBad(e) \notin rows
  PROVE  /\ MapThenSumSet(Strength, Turned(rows, e)) \in Int
         /\ MapThenSumSet(Strength, Turned(rows, e)) <= MapThenSumSet(Strength, rows)
<1>1. CASE e \notin rows
  BY <1>1, RowsSum DEF Turned
<1>2. CASE e \in rows
  <2> DEFINE rest == rows \ {e}
             d == TurnBad(e)
  <2>1. /\ IsFiniteSet(rest) /\ \A r \in rest : r \in EventRows /\ Counts(r)
        /\ e \notin rest /\ d \notin rest /\ rows = rest \cup {e}
        /\ Turned(rows, e) = rest \cup {d}
    BY <1>2, FS_RemoveElement DEF Turned
  <2>2. /\ d \in EventRows /\ Counts(d) /\ Counts(e) /\ d.sentiment = -1
        /\ d.age = e.age /\ d.materiality = e.materiality /\ d.confidence = e.confidence
    BY <1>2 DEF TurnBad, EventRows, Counts
  <2>3. Strength(d) \in Int /\ Strength(e) \in Int /\ Strength(d) <= Strength(e)
    <3>1. Strength(d) \in Int /\ Strength(d) <= 0 /\ Strength(e) \in Int
      BY <2>2, EventStrength
    <3>2. e.sentiment = -1 \/ e.sentiment = 1
      BY DEF EventRows
    <3>3. CASE e.sentiment = -1
      <4>1. Strength(d) = Strength(e)
        BY <2>2, <3>3 DEF Strength
      <4> QED BY <3>1, <4>1
    <3>4. CASE e.sentiment = 1
      BY <2>2, <3>1, <3>4, EventStrength
    <3> QED BY <3>2, <3>3, <3>4
  <2> DEFINE t == MapThenSumSet(Strength, rest)
  <2>4. t \in Int
    BY <2>1, RowsSum
  <2> HIDE DEF rest, d
  <2>5. /\ MapThenSumSet(Strength, rows) = Strength(e) + t
        /\ MapThenSumSet(Strength, Turned(rows, e)) = Strength(d) + t
    BY <2>1, <2>2, RowAdds
  <2> HIDE DEF t
  <2> QED BY <2>3, <2>4, <2>5
<1> QED BY <1>1, <1>2

LEMMA TurnsBad ==
  ASSUME NEW x \in Days, NEW v \in EventAxes(x.events), v # Absent,
         NEW e \in x.events, TurnBad(e) \notin x.events
  PROVE  \E u \in EventAxes((x.events \ {e}) \cup {TurnBad(e)}) : u <= v
<1> DEFINE worse == (x.events \ {e}) \cup {TurnBad(e)}
<1>1. PICK own \in MostMaterial(OwnRows(x.events), OwnLimit),
           peers \in MostMaterial(PeerRows(x.events), PeerLimit) : v = EventAxis(own, peers)
  BY DEF EventAxes
<1> DEFINE own2 == Turned(own, e)
           peers2 == Turned(peers, e)
<1>2. e \in EventRows /\ IsRead(own, OwnRows(x.events)) /\ IsRead(peers, PeerRows(x.events))
  BY AreRead DEF Days
<1>3. /\ OwnRows(worse) = Turned(OwnRows(x.events), e)
      /\ PeerRows(worse) = Turned(PeerRows(x.events), e)
  <2>1. /\ Counts(TurnBad(e)) <=> Counts(e)
        /\ TurnBad(e).peer = e.peer
    BY <1>2 DEF TurnBad, EventRows, Counts
  <2> QED BY <2>1 DEF OwnRows, PeerRows, Turned
<1>4. /\ IsFiniteSet(OwnRows(x.events)) /\ IsFiniteSet(PeerRows(x.events))
      /\ TurnBad(e) \notin OwnRows(x.events) /\ TurnBad(e) \notin PeerRows(x.events)
  BY RowsFinite DEF OwnRows, PeerRows
<1>5. /\ own2 \in MostMaterial(OwnRows(worse), OwnLimit)
      /\ peers2 \in MostMaterial(PeerRows(worse), PeerLimit)
  BY <1>2, <1>3, <1>4, TurnedStays
<1>6. EventAxis(own2, peers2) \in EventAxes(worse)
  BY <1>5 DEF EventAxes
<1>7. /\ MapThenSumSet(Strength, own) \in Int /\ MapThenSumSet(Strength, peers) \in Int
      /\ MapThenSumSet(Strength, own2) \in Int /\ MapThenSumSet(Strength, peers2) \in Int
      /\ MapThenSumSet(Strength, own2) <= MapThenSumSet(Strength, own)
      /\ MapThenSumSet(Strength, peers2) <= MapThenSumSet(Strength, peers)
  BY <1>2, <1>4, RowsSum, TurnedSum DEF IsRead
<1>8. own \cup peers # {} /\ own2 \cup peers2 # {}
  BY <1>1 DEF EventAxis, Turned
<1> HIDE DEF own2, peers2, worse
<1>9. EventAxis(own2, peers2) <= v
  BY <1>1, <1>7, <1>8, AxisLess
<1> QED BY <1>6, <1>9 DEF worse

-----------------------------------------------------------------------------
\* A7's size and levels.
LEMMA Sized ==
  ASSUME NEW s \in Setups
  PROVE  LET l == Levels(s)
         IN  /\ (2 * Size(s) - 1) * (100 * s.close - l.stop) <= 2000 * s.close
             /\ l.stop < l.entryLow /\ l.entryLow < l.entryHigh
             /\ l.entryHigh < l.targetLow /\ l.targetLow < l.targetHigh
<1>1. s.profile \in {"short", "default"} /\ s.close \in Nat \ {0} /\ s.atr \in Nat \ {0}
  <2>1. s \in [kind : {"a7"}, profile : {"short", "default"}, close : Prices, atr : Prices]
    BY DEF Setups
  <2>2. s.profile \in {"short", "default"} /\ s.close \in Prices /\ s.atr \in Prices
    BY <2>1, Zenon
  <2> QED BY <2>2, PricesAreCounts
<1> DEFINE r == Risk(s)
           z == (2000 * s.close + r) \div (2 * r)
<1>2. /\ s.profile = "short" => r = 150 * s.atr
      /\ s.profile = "default" => r = 300 * s.atr
      /\ r \in Nat \ {0}
  BY <1>1 DEF Risk, Geometry
<1>3. /\ s.profile = "short" => /\ (Geometry[s.profile].low * r) \div 10 = 180 * s.atr
                                 /\ (Geometry[s.profile].high * r) \div 10 = 300 * s.atr
      /\ s.profile = "default" => /\ (Geometry[s.profile].low * r) \div 10 = 600 * s.atr
                                   /\ (Geometry[s.profile].high * r) \div 10 = 1050 * s.atr
  BY <1>1, <1>2 DEF Geometry
<1>4. Size(s) = Min({100, z})
  BY DEF Size
<1> HIDE DEF r
<1>5. 2000 * s.close + r \in Nat /\ 2 * r \in Nat \ {0}
  BY <1>1, <1>2
<1>6. z \in Nat /\ (2 * r) * z <= 2000 * s.close + r
  BY <1>5
<1> HIDE DEF z
<1>7. Size(s) \in Nat /\ Size(s) <= z
  <2>1. Min({100, z}) = Lesser(100, z)
    BY <1>6, MinOfTwo
  <2> QED BY <1>4, <1>6, <2>1 DEF Lesser
<1>8. (2 * r) * Size(s) <= (2 * r) * z
  BY <1>5, <1>6, <1>7
<1>9. (2 * Size(s) - 1) * r = (2 * r) * Size(s) - r
  BY <1>2, <1>7
<1>10. (2 * Size(s) - 1) * r <= 2000 * s.close
  <2> DEFINE m == (2 * r) * Size(s)
             n == (2 * r) * z
             k == (2 * Size(s) - 1) * r
  <2>1. m \in Int /\ n \in Int
    BY <1>2, <1>6, <1>7
  <2>2. k = m - r /\ m <= n /\ n <= 2000 * s.close + r
    BY <1>6, <1>8, <1>9
  <2> HIDE DEF m, n, k
  <2>3. k <= 2000 * s.close
    BY <1>1, <1>2, <2>1, <2>2
  <2> QED BY <2>3 DEF k
<1>11. 100 * s.close - Levels(s).stop = r
  BY <1>1, <1>2 DEF Levels, r
<1>12. /\ Levels(s).stop < Levels(s).entryLow /\ Levels(s).entryLow < Levels(s).entryHigh
       /\ Levels(s).entryHigh < Levels(s).targetLow
       /\ Levels(s).targetLow < Levels(s).targetHigh
  BY <1>1, <1>2, <1>3 DEF Levels, r
<1> QED BY <1>10, <1>11, <1>12

-----------------------------------------------------------------------------
(* The arithmetic as a whole: every score is on its scale, worse measures   *)
(* never make a better one, and the size risks one per cent at the stop     *)
(* (a3 engine.py, a4 engine.py, a5 engine.py, a7 engine.py:242), whatever   *)
(* growth, margins, returns and prices there are.                           *)
THEOREM ScoringCorrect == ScoringSpec => []ScoresSound
<1>1. ASSUME ScoringInvariant PROVE ScoresSound
  <2> USE <1>1 DEF ScoringInvariant
  <2> SUFFICES ASSUME result # <<>> PROVE ScoresSound
    BY DEF ScoresSound, ScoresInRange, WorseNeverHelps, SizedToStop
  <2>1. CASE sample.kind = "a3"
    <3>1. sample \in Quarters /\ sample \in AnyQuarters /\ result[1] = FundamentalScore(sample)
      BY <2>1, KindOf, QuartersAreSome DEF Computed
    <3>a. result[1] \in 0..1000
      BY <3>1, FundamentalRange, Zenon
    <3>2. ScoresInRange /\ SizedToStop
      BY <2>1, <3>a, Zenon DEF ScoresInRange, SizedToStop
    <3>3. WorseNeverHelps
      BY <2>1, <3>1, WorseRevenue, WorseMargin, OneMoreFlag DEF WorseNeverHelps
    <3> QED BY <3>2, <3>3 DEF ScoresSound
  <2>2. CASE sample.kind = "a4"
    <3>1. sample \in Bars /\ result[1] = TechnicalScore(sample)
      BY <2>2, KindOf DEF Computed
    <3>a. result[1] \in 0..1000
      BY <3>1, TechnicalRange, Zenon
    <3>2. ScoresInRange /\ SizedToStop
      BY <2>2, <3>a, Zenon DEF ScoresInRange, SizedToStop
    <3>3. WorseNeverHelps
      BY <2>2, <3>1, WorseReturn DEF WorseNeverHelps
    <3> QED BY <3>2, <3>3 DEF ScoresSound
  <2>3. CASE sample.kind = "a5"
    <3>1. sample \in Flows /\ result[1] = FlowScore(sample)
      BY <2>3, KindOf DEF Computed
    <3>a. result[1] \in 0..1000
      BY <3>1, FlowRange, Zenon
    <3>2. ScoresInRange /\ SizedToStop
      BY <2>3, <3>a, Zenon DEF ScoresInRange, SizedToStop
    <3>3. WorseNeverHelps
      BY <2>3, <3>1, PromoterSells, WorseDeals, OneMoreFramework DEF WorseNeverHelps
    <3> QED BY <3>2, <3>3 DEF ScoresSound
  <2>4. CASE sample.kind = "event"
    <3>1. sample \in Days /\ result[1] \in EventAxes(sample.events)
      BY <2>4, KindOf DEF Computed
    <3>a. result[1] \in (0..1000) \cup {Absent}
      BY <3>1, AxisRange
    <3>2. ScoresInRange /\ SizedToStop
      BY <2>4, <3>a, Zenon DEF ScoresInRange, SizedToStop
    <3>3. result # <<Absent>> => result[1] # Absent
      OBVIOUS
    <3>4. WorseNeverHelps
      BY <2>4, <3>1, <3>3, BadNews, TurnsBad DEF WorseNeverHelps
    <3> QED BY <3>2, <3>4 DEF ScoresSound
  <2>5. CASE sample.kind = "a7"
    <3>1. sample \in Setups /\ result[1] = Size(sample)
      BY <2>5, KindOf DEF Computed
    <3>2. SizedToStop
      BY <3>1, Sized DEF SizedToStop
    <3> QED BY <2>5, <3>2 DEF ScoresSound, ScoresInRange, WorseNeverHelps
  <2>6. CASE sample.kind = "a6"
    BY <2>6 DEF ScoresSound, ScoresInRange, WorseNeverHelps, SizedToStop
  <2>7. sample.kind \in {"a3", "a4", "a5", "event", "a6", "a7"}
    BY DEF Samples, Quarters, Bars, Flows, Days, Setups, Patterns
  <2> QED BY <2>1, <2>2, <2>3, <2>4, <2>5, <2>6, <2>7
<1> QED BY <1>1, ScoringTyped, PTL

\* A pledge t, filed as e with the promoters' half as p in either unit.
LEMMA EitherUnit ==
  ASSUME NEW t \in Int, 0 < t, t <= 10000, NEW u \in {1, 100}, NEW p, p = 5000 * u, NEW e, e = t * u
  PROVE  /\ p # Absent /\ Pct(p) = 5000
         /\ e # Absent /\ Pct(e) \in Int /\ Pct(e) >= t /\ Pct(e) # Absent
<1>0. Absent \in Int /\ Absent > 1000 * 1000
  BY AbsentFar, SMT
<1>1. CASE u = 1
  BY <1>0, <1>1, SMT DEF Pct
<1>2. CASE u = 100
  <2>1. p = 500 * 1000 /\ e = 100 * t
    BY <1>2, SMT
  <2>2. p \div 100 = 5000 /\ e \div 100 = t
    BY <2>1, SMT
  <2>3. Pct(e) = e \/ Pct(e) = t
    BY <2>1, <2>2, SMT DEF Pct
  <2> QED BY <1>0, <2>1, <2>2, <2>3, SMT DEF Pct
<1> QED BY <1>1, <1>2

LEMMA Verdicts ==
  ASSUME NEW parsed, parsed.promoter = 5000, NEW e \in Int, parsed.encumbered = e, e # Absent
  PROVE  /\ e > 2500 => PledgeVerdict(parsed) = "hard_block"
         /\ e > 1000 => PledgeVerdict(parsed) \in {"hard_block", "penalty"}
BY SMT DEF PledgeVerdict

(* A pledge filed in either unit is never read as a smaller one: above a     *)
(* quarter it blocks, above a tenth it is noticed (a6 pledge.py:56).         *)
THEOREM PledgeRead == ScoringSpec => []PledgeNeverUnderread
<1>1. ASSUME ScoringInvariant PROVE PledgeNeverUnderread
  <2> SUFFICES ASSUME sample.kind = "a6", result # <<>>, sample.promoters = TRUE
               PROVE  /\ sample.true > 2500 => result[1] = "hard_block"
                      /\ sample.true > 1000 => result[1] \in {"hard_block", "penalty"}
    BY DEF PledgeNeverUnderread
  <2> DEFINE t == sample.true
             x == Instance(sample)
             parsed == ParseShp(x)
             e == Pct(x.pledged)
  <2>1. sample \in Patterns /\ result[1] = PledgeVerdict(parsed)
    BY <1>1, KindOf DEF ScoringInvariant, Computed
  <2>2. t \in Holdings /\ sample.unit \in {1, 100}
    BY <2>1 DEF Patterns
  <2>3. t \in Int /\ 0 <= t /\ t <= 10000
    <3> HIDE DEF t
    <3>1. Holdings \subseteq 0..10000
      BY HoldingsAssumption
    <3>2. t \in 0..10000
      BY <2>2, <3>1
    <3> QED BY <3>2, SMT
  <2>4. t > 0 => x.promoter = 5000 * sample.unit /\ x.pledged = t * sample.unit
    BY DEF Instance
  <2>5. t > 0 => /\ x.promoter # Absent /\ Pct(x.promoter) = 5000
                 /\ x.pledged # Absent /\ e \in Int /\ e >= t /\ e # Absent
    <3> HIDE DEF x, t
    <3> QED BY <2>2, <2>3, <2>4, EitherUnit
  <2>6. t > 0 => parsed.promoter = 5000 /\ parsed.encumbered = e
    <3> HIDE DEF x
    <3> QED BY <2>5 DEF ParseShp
  <2> HIDE DEF t, x, parsed, e
  <2>7. t > 0 => /\ e > 2500 => PledgeVerdict(parsed) = "hard_block"
                 /\ e > 1000 => PledgeVerdict(parsed) \in {"hard_block", "penalty"}
    BY <2>5, <2>6, Verdicts
  <2>8. /\ t > 2500 => t > 0 /\ e > 2500
        /\ t > 1000 => t > 0 /\ e > 1000
    BY <2>3, <2>5
  <2> QED BY <2>1, <2>7, <2>8 DEF t
<1> QED BY <1>1, ScoringTyped, PTL
=============================================================================
