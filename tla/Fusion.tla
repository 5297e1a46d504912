------------------------------- MODULE Fusion -------------------------------
(***************************************************************************)
(* One symbol through the nights: the scores of A3, A4 and A5, the risk    *)
(* verdict of A6 (agents/a6_risk/engine.py) and the stances A7 issues from *)
(* them (agents/a7_fusion/engine.py).                                      *)
(*                                                                         *)
(* Rows are append-only; what a reader takes for the latest row is all     *)
(* that is kept of them.  Scores and convictions are whole points; the     *)
(* confidence, which decides nothing, is left out.                         *)
(***************************************************************************)
EXTENDS Integers, FiniteSets

CONSTANTS
  Profiles,         \* the profiles issued every night
  ScoreValues,      \* bound: the scores an agent may give
  EventValues,      \* bound: the values of the event axis
  Facts,            \* bound: the facts A6 may meet
  MaxNights         \* bound: nights on which anything new happens


\* profiles.py, the two profiles the supervisor issues.
WeightsOf ==
  [default |-> [a3 |-> 30, a4 |-> 25, a5 |-> 20, event |-> 25],
   short   |-> [a3 |-> 0,  a4 |-> 35, a5 |-> 20, event |-> 45]]

Floor == 40           \* weighted_fusion's floor
Hysteresis == 8
PenaltyCap == 55
None == -1

\* What A6 blocks for and what it penalises.  Surveillance rows are never
\* deleted, and every stage a symbol has ever had still counts.
HardFacts == {"gsm", "asm_lt_stage_2", "illiquid", "penny", "circuit_locked",
              "auditor_resigned", "pledge_over_25"}
PenaltyFacts == {"asm_lt_stage_1", "asm_st", "trade_for_trade", "regulatory",
                 "pledge_over_10", "encumbrance", "microcap"}
SurveillanceFacts == {"gsm", "asm_lt_stage_2", "asm_lt_stage_1", "asm_st"}

ASSUME FusionAssumption ==
  /\ Profiles \subseteq {"default", "short"}
  /\ ScoreValues \subseteq 0..100
  /\ EventValues \subseteq 0..100
  /\ Facts \subseteq HardFacts \cup PenaltyFacts
  /\ MaxNights \in Nat

VARIABLES
  rows3,        \* the A3 scores stored for the latest quarter
  score,        \* [{"a4", "a5"} -> latest score, or None]
  event,        \* the event axis: score of the filings of 30 days, or None
  facts,        \* what A6 would find
  sinceA4,      \* nights since A4 last scored the symbol (2: two or more)
  verdict,      \* label of the latest a6 row, or "unassessed"
  signal,       \* [Profiles -> the latest signals row, or NoSignal]
  fused,        \* history: [Profiles -> what issue_all last fused, or NoSignal]
  phase,        \* where the night's chain is
  nights

fusionVars == <<rows3, score, event, facts, sinceA4, verdict, signal, fused, phase, nights>>

NoSignal == [stance |-> "none", conviction |-> None]

FusionInit ==
  /\ rows3 = {}
  /\ score = [a \in {"a4", "a5"} |-> None]
  /\ event = None
  /\ facts = {}
  /\ sinceA4 = 2
  /\ verdict = "unassessed"
  /\ signal = [p \in Profiles |-> NoSignal]
  /\ fused = [p \in Profiles |-> NoSignal]
  /\ phase = "day"
  /\ nights = 0

-----------------------------------------------------------------------------
\* During the day events arrive and fade and facts change; the filing of a
\* resigning auditor is an event of its own.
FactsChange(new) ==
  /\ facts \cap SurveillanceFacts \subseteq new
  /\ facts' = new

DayPasses ==
  /\ phase = "day"
  /\ nights < MaxNights
  /\ nights' = nights + 1
  /\ event' \in EventValues \cup {None}
  /\ \E new \in SUBSET Facts :
       FactsChange(new) /\ ("auditor_resigned" \in new \ facts => event' # None)
  /\ phase' = "score"
  /\ UNCHANGED <<rows3, score, sinceA4, verdict, signal, fused>>

\* A3 scores every symbol that has results, adding a row for the same quarter
\* or the first of a new one.
A3ScoreAll ==
  \/ rows3 = {} /\ rows3' = {}
  \/ \E s \in ScoreValues : rows3' \in {{s}, rows3 \cup {s}}

\* A4 scores a symbol that traded, None for one that did not.
A4ScoreAll(four) ==
  sinceA4' = IF four # None THEN 0 ELSE IF sinceA4 = 0 THEN 1 ELSE 2

\* A5 scores every symbol it has once found interesting.
A5ScoreAll(five) ==
  score["a5"] # None \/ facts \cap SurveillanceFacts # {} => five # None

\* The three in turn; a chain that raises here ends (NightEnds).
ScoreNight ==
  /\ phase = "score"
  /\ A3ScoreAll
  /\ \E four \in ScoreValues \cup {None}, five \in ScoreValues \cup {None} :
       /\ A4ScoreAll(four) /\ A5ScoreAll(five)
       /\ score' = [a4 |-> IF four = None THEN score["a4"] ELSE four, a5 |-> five]
  /\ phase' = "assess"
  /\ UNCHANGED <<event, facts, verdict, signal, fused, nights>>

-----------------------------------------------------------------------------
\* A6.
Verdict(found) ==
  IF found \cap HardFacts # {} THEN "hard_block"
  ELSE IF found # {} THEN "penalty" ELSE "clear"

\* Fault: only the symbols A4 has scored are assessed.
AssessedA4Only == {sinceA4 = 0}

\* assess_all takes the symbols scored by any agent in the last two days, and
\* those under surveillance; a row of the night before is that recent unless
\* a weekend lies between.
Assessed ==
  IF rows3 # {} \/ score["a5"] # None \/ sinceA4 = 0 \/ facts \cap SurveillanceFacts # {}
  THEN {TRUE}
  ELSE IF sinceA4 = 1 THEN BOOLEAN ELSE {FALSE}

AssessNight ==
  /\ phase = "assess"
  /\ \E assessed \in Assessed : verdict' = IF assessed THEN Verdict(facts) ELSE verdict
  /\ phase' = "issue"
  /\ UNCHANGED <<rows3, score, event, facts, sinceA4, signal, fused, nights>>

-----------------------------------------------------------------------------
\* A7.
Has == {a \in {"a4", "a5"} : score[a] # None} \cup (IF rows3 # {} THEN {"a3"} ELSE {})

\* The axes' values; several A3 rows share the as_of of their quarter, and
\* ORDER BY as_of LIMIT 1 returns any of them.
Values ==
  {[a3 |-> three, a4 |-> score["a4"], a5 |-> score["a5"], event |-> event] :
     three \in IF rows3 = {} THEN {None} ELSE rows3}

\* An axis without a value weighs nothing.
Weight(values, weights, a) == IF values[a] = None THEN 0 ELSE weights[a]

Covered(values, weights) ==
  Weight(values, weights, "a3") + Weight(values, weights, "a4")
    + Weight(values, weights, "a5") + Weight(values, weights, "event")

Points(values, weights) ==
  Weight(values, weights, "a3") * values["a3"] + Weight(values, weights, "a4") * values["a4"]
    + Weight(values, weights, "a5") * values["a5"] + Weight(values, weights, "event") * values["event"]

\* weighted_fusion: the rounded mean over the axes there are, None below the floor.
WeightedFusion(values, weights) ==
  LET total == Covered(values, weights)
  IN  IF total < Floor THEN None
      ELSE (2 * Points(values, weights) + total) \div (2 * total)

Stance(conviction, label) ==
  IF label = "hard_block" THEN "suppressed"
  ELSE CASE conviction >= 70 -> "buy"
         [] conviction \in 60..69 -> "accumulate"
         [] conviction \in 40..59 -> "hold"
         [] conviction \in 25..39 -> "reduce"
         [] OTHER -> "exit"

RiskAdjusted(conviction, label) ==
  IF label = "hard_block" THEN 0
  ELSE IF label = "penalty" THEN (IF conviction < PenaltyCap THEN conviction ELSE PenaltyCap)
  ELSE conviction

\* fuse_symbol: the rows it may return, NoSignal for None.
FuseSymbol(p) ==
  {LET mean == WeightedFusion(values, WeightsOf[p])
       conviction == RiskAdjusted(mean, verdict)
   IN  IF mean = None THEN NoSignal
       ELSE [stance |-> Stance(conviction, verdict), conviction |-> conviction] :
     values \in Values}

Near(row, result) ==
  /\ row.stance = result.stance
  /\ row.conviction - result.conviction \in (-Hysteresis)..Hysteresis

\* Fault: the comparison is with the last result, not the last row.
HeldAgainstLast(p, result) == Near(fused[p], result)

\* The latest row stands for the result: nothing is written.
Held(p, result) == Near(signal[p], result)

Issued(p, result) ==
  IF result = NoSignal \/ Held(p, result) THEN signal[p] ELSE result

IssueNight ==
  /\ phase = "issue"
  /\ IF Cardinality(Has) < 2
       THEN UNCHANGED <<signal, fused>>
       ELSE \E results \in [Profiles -> UNION {FuseSymbol(p) : p \in Profiles}] :
              /\ \A p \in Profiles : results[p] \in FuseSymbol(p)
              /\ signal' = [p \in Profiles |-> Issued(p, results[p])]
              /\ fused' = results
  /\ phase' = "issued"
  /\ UNCHANGED <<rows3, score, event, facts, sinceA4, verdict, nights>>

\* The night is over, or a stage raised and the rest of the chain is skipped.
NightEnds ==
  /\ phase # "day"
  /\ phase' = "day"
  /\ UNCHANGED <<rows3, score, event, facts, sinceA4, verdict, signal, fused, nights>>

FusionNext == DayPasses \/ ScoreNight \/ AssessNight \/ IssueNight \/ NightEnds

FusionSpec == FusionInit /\ [][FusionNext]_fusionVars

-----------------------------------------------------------------------------
FusionTypeOK ==
  /\ rows3 \subseteq ScoreValues
  /\ score \in [{"a4", "a5"} -> ScoreValues \cup {None}]
  /\ event \in EventValues \cup {None}
  /\ facts \subseteq Facts
  /\ sinceA4 \in 0..2
  /\ verdict \in {"unassessed", "clear", "penalty", "hard_block"}
  /\ \A p \in Profiles : signal[p].conviction \in None..100
  /\ phase \in {"day", "score", "assess", "issue", "issued"}
  /\ nights \in 0..MaxNights

\* "A6 hard_block -> stance 'suppressed' ... A6 penalty -> conviction capped at
\* 55" (a7 engine.py:12-14): once the night's chain is through, the latest
\* signal of a profile heeds what A6 would find tonight.
Heeds(p) ==
  phase = "issued" /\ signal[p] # NoSignal =>
    /\ facts \cap HardFacts # {} => signal[p].stance = "suppressed"
    /\ facts # {} => signal[p].stance \notin {"buy", "accumulate"}

\* In the default profile any two score families carry the floor.
DefaultHeedsRisk == Heeds("default")

\* In the short profile they may not: fundamentals weigh nothing there.
ShortHeedsRisk == Heeds("short")

\* "a new signal row is written only when the stance changes or conviction
\* moves" (a7 engine.py:15): however small the steps, the latest row never
\* strays from the latest result, which is the last comparable one.
LatestWithinHysteresis ==
  \A p \in Profiles :
    phase = "issued" /\ Cardinality(Has) >= 2 /\ fused[p] # NoSignal =>
      Near(signal[p], fused[p])
=============================================================================
