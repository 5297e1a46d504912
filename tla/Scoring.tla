------------------------------ MODULE Scoring -------------------------------
(***************************************************************************)
(* The arithmetic of the agents, one computation at a time: how A3, A4 and *)
(* A5 make a score of what they measured, the levels and the size A7 gives *)
(* a signal, and how A6 reads a pledge out of a shareholding pattern.      *)
(*                                                                         *)
(* Points are tenths of a point, growth, margins and returns whole per     *)
(* cents.  The indicators themselves are inputs.                           *)
(***************************************************************************)
EXTENDS Integers, FiniteSets, FiniteSetsExt

CONSTANTS
  Percents,     \* bound: growth rates, margins and returns, in per cent
  Prices,       \* bound: closes and true ranges
  Holdings,     \* bound: pledged shares, in hundredths of a per cent
  OwnLimit,     \* classifications read of the symbol itself: 10
  PeerLimit     \* classifications read of its peers: 8

Absent == 10000000    \* a measure that could not be taken: above all of them

ASSUME PercentsAssumption == Percents \subseteq Int \ {Absent}
ASSUME PricesAssumption == Prices \subseteq Nat \ {0}
ASSUME HoldingsAssumption == Holdings \subseteq 0..10000
ASSUME LimitAssumption == OwnLimit \in Nat \ {0} /\ PeerLimit \in Nat \ {0}

VARIABLES
  sample,       \* what was measured
  result        \* <<>>, then <<what was made of it>>

scoringVars == <<sample, result>>

Clamp(low, high, x) == Max({low, Min({high, x})})

\* A score is scaled to the weight its parts cover: one that could not be taken
\* has neither points nor a weight.
Earned(part) == IF part = Absent THEN 0 ELSE part
Carried(part, weight) == IF part = Absent THEN 0 ELSE weight

-----------------------------------------------------------------------------
\* A3: growth 40, margin 25, quality 35.
GrowthPoints(growth) == IF growth = Absent THEN 100 ELSE Clamp(0, 200, 100 + 4 * growth)

Growth(q) ==
  IF q.revenue = Absent /\ q.pat = Absent THEN Absent
  ELSE GrowthPoints(q.revenue) + GrowthPoints(q.pat)

Trajectory == [first |-> 50, second_up |-> 80, second_down |-> 30, up |-> 100, down |-> 20]

Margin(q) ==
  IF q.margin = Absent THEN Absent
  ELSE Min({250, Clamp(0, 150, 6 * q.margin) + Trajectory[q.trajectory]})

\* More than half of the profit from other income costs 60 more than more than
\* three tenths of it.
FlagCost == [other_income_high |-> 60, other_income_mild |-> 60, tax_rate |-> 80,
             exceptional |-> 80, finance_burden |-> 70, loss |-> 100]

\* Shares of the profit before tax are taken of a profit only, and exceptional
\* items are compared with it unless it is zero or missing.
Asks == [other_income_high |-> {1}, other_income_mild |-> {1}, tax_rate |-> {1},
         exceptional |-> {-1, 1}, finance_burden |-> {-1, 0, 1}, loss |-> {-1, 0, 1}]

Flags(q) == {f \in q.signs : q.pbt \in Asks[f]}

\* Fault: each flag is worth its points.
QualityOfFlags(q) == Min({350, 200 + MapThenSumSet(LAMBDA f : FlagCost[f], Flags(q))})

Quality(q) == Max({0, 350 - MapThenSumSet(LAMBDA f : FlagCost[f], Flags(q))})

FundamentalScore(q) ==
  (100 * (Earned(Growth(q)) + Earned(Margin(q)) + Quality(q)))
    \div (Carried(Growth(q), 40) + Carried(Margin(q), 25) + 35)

-----------------------------------------------------------------------------
\* A4: trend 30, momentum 20, relative strength 20, volume 15, position 15.
Distance(x, y) == Max({x - y, y - x})

Momentum(b) ==
  (IF b.rsi = Absent THEN 0 ELSE Max({0, 100 - (5 * Distance(b.rsi, 60)) \div 2}))
    + [none |-> 0, up |-> 100, down |-> 20][b.adx]

RelativeStrength(b) == IF b.excess = Absent THEN 100 ELSE Clamp(0, 200, 100 + 10 * b.excess)

Volume(b) ==
  Min({150, (IF b.volume = Absent THEN 75 ELSE Clamp(0, 100, 50 + 25 * b.volume))
              + (IF b.delivery = "rising" THEN 50 ELSE 0)})

TechnicalScore(b) ==
  60 * b.above + Momentum(b) + RelativeStrength(b) + Volume(b) + (15 * b.position) \div 10

-----------------------------------------------------------------------------
\* A5: large deals 35, promoter 25, insiders 15, surveillance 25.
Deals(f) == IF f.deals = Absent THEN Absent ELSE 175 + (7 * Clamp(-50, 50, f.deals)) \div 2

Promoter(f) == IF f.promoter = Absent THEN Absent ELSE Clamp(0, 250, 125 + 5 * f.promoter)

Insiders(f) == Min({150, 75 + (15 * f.insiders) \div 2})

Surveilled(f) ==
  CASE "gsm" \in f.frameworks -> 0
    [] "gsm" \notin f.frameworks /\ "asm_lt" \in f.frameworks -> 50
    [] f.frameworks = {"asm_st"} -> 100
    [] OTHER -> 250

FlowScore(f) ==
  (100 * (Earned(Deals(f)) + Earned(Promoter(f)) + Insiders(f) + Surveilled(f)))
    \div (Carried(Deals(f), 35) + Carried(Promoter(f), 25) + 15 + 25)

-----------------------------------------------------------------------------
\* A7's event axis: the classified filings of a symbol and of its industry
\* peers, weighed by age, materiality and confidence.  The halving of an
\* event's weight every ten days is counted in eighths.
Decay(age) == 2 ^ (3 - (age \div 10))

Counts(e) == e.age <= 30 /\ ~e.routine /\ e.materiality >= (IF e.peer THEN 7 ELSE 3)

Strength(e) == Decay(e.age) * e.materiality * e.confidence * e.sentiment

EventScore(rows) == Clamp(0, 1000, 500 + (MapThenSumSet(Strength, rows) \div 16))

PeerEventScore(rows) == Clamp(0, 1000, 500 + ((35 * MapThenSumSet(Strength, rows)) \div 1600))

EventAxis(own, peers) ==
  IF own \cup peers = {} THEN Absent
  ELSE Clamp(0, 1000, EventScore(own) + PeerEventScore(peers) - 500)

OwnRows(events) == {e \in events : Counts(e) /\ ~e.peer}
PeerRows(events) == {e \in events : Counts(e) /\ e.peer}

\* ORDER BY materiality DESC LIMIT n: of rows that tie at the limit the
\* database returns any.
MostMaterial(rows, n) ==
  {top \in SUBSET rows :
     /\ Cardinality(top) = Min({n, Cardinality(rows)})
     /\ \A d \in top, e \in rows \ top : e.materiality <= d.materiality}

EventAxes(events) ==
  {EventAxis(own, peers) : own \in MostMaterial(OwnRows(events), OwnLimit),
                           peers \in MostMaterial(PeerRows(events), PeerLimit)}

-----------------------------------------------------------------------------
\* A7's levels, in hundredths of the price unit, and its size, in tenths of a
\* per cent of the capital, to the nearest one.
Geometry ==
  [short   |-> [stop |-> 15, low |-> 12, high |-> 20],
   default |-> [stop |-> 30, low |-> 20, high |-> 35]]

Risk(s) == 10 * Geometry[s.profile].stop * s.atr

Levels(s) ==
  [stop |-> 100 * s.close - Risk(s),
   entryLow |-> 100 * s.close - 50 * s.atr,
   entryHigh |-> 100 * s.close + 25 * s.atr,
   targetLow |-> 100 * s.close + (Geometry[s.profile].low * Risk(s)) \div 10,
   targetHigh |-> 100 * s.close + (Geometry[s.profile].high * Risk(s)) \div 10]

Size(s) == Min({100, (2000 * s.close + Risk(s)) \div (2 * Risk(s))})

-----------------------------------------------------------------------------
\* A6's reading of a shareholding pattern; a number is in ten-thousandths.
\* Fault: a whole is taken for one per cent.
PctBelowOne(n) == IF n < 10000 THEN n ELSE n \div 100

\* Fractions of one, but for the values that can only be per cents.
Pct(n) == IF n <= 10000 THEN n ELSE n \div 100

Unknown == [promoter |-> Absent, encumbered |-> Absent]

\* parse_shp_xbrl: no promoter figure at all is a company without promoters,
\* an omitted pledge is zero if every "whether pledged" says false.
ParseShp(x) ==
  IF x.promoter = Absent
  THEN IF x.anyHolding THEN [promoter |-> 0, encumbered |-> 0] ELSE Unknown
  ELSE [promoter |-> Pct(x.promoter),
        encumbered |-> IF x.pledged # Absent THEN Pct(x.pledged)
                       ELSE IF x.allFalse THEN 0 ELSE Absent]

PledgeVerdict(row) ==
  IF row.encumbered = Absent THEN "unknown"
  ELSE IF row.promoter # 0 /\ row.encumbered > 2500 THEN "hard_block"
  ELSE IF row.encumbered > 1000 THEN "penalty" ELSE "clear"

-----------------------------------------------------------------------------
Growths == Percents \cup {Absent}

Quarters == [kind : {"a3"}, revenue : Growths, pat : Growths, margin : Growths,
             trajectory : {"first", "second_down", "up"}, pbt : {-1, 0, 1},
             signs : {{}, {"loss"},
                      {"other_income_mild", "exceptional", "finance_burden", "loss"},
                      {"other_income_mild", "other_income_high", "tax_rate",
                       "exceptional", "finance_burden", "loss"}}]

Bars == [kind : {"a4"}, above : {0, 3, 5}, rsi : {0, 60, 100, Absent},
         adx : {"none", "up", "down"}, excess : Growths,
         volume : {-5, 0, 5, Absent}, delivery : {"rising", "falling"},
         position : {0, 50, 100}]

Flows == [kind : {"a5"}, deals : Growths, promoter : Growths, insiders : {0, 1, 12},
          frameworks : SUBSET {"gsm", "asm_lt", "asm_st"}]

EventRows == [peer : BOOLEAN, age : {0, 20, 40}, materiality : {5, 9},
              confidence : {90}, sentiment : {-1, 1}, routine : {FALSE}]

Days == [kind : {"event"}, events : {{c, d, e} : c, d, e \in EventRows}]

Setups == {s \in [kind : {"a7"}, profile : {"short", "default"}, close : Prices, atr : Prices] :
             2 * s.atr < s.close}

\* The same pledge filed as a fraction of one or in per cent.
Patterns == [kind : {"a6"}, true : Holdings, unit : {1, 100},
             affirmed : BOOLEAN, promoters : BOOLEAN]

Instance(x) ==
  [promoter |-> IF x.promoters THEN 5000 * x.unit ELSE Absent,
   pledged |-> IF x.affirmed /\ x.true = 0 THEN Absent ELSE x.true * x.unit,
   allFalse |-> x.affirmed /\ x.true = 0,
   anyHolding |-> TRUE]

ScoringInit ==
  /\ sample \in Quarters \cup Bars \cup Flows \cup Days \cup Setups \cup Patterns
  /\ result = <<>>

Outcomes(x) ==
  CASE x.kind = "a3" -> {FundamentalScore(x)}
    [] x.kind = "a4" -> {TechnicalScore(x)}
    [] x.kind = "a5" -> {FlowScore(x)}
    [] x.kind = "event" -> EventAxes(x.events)
    [] x.kind = "a6" -> {PledgeVerdict(ParseShp(Instance(x)))}
    [] x.kind = "a7" -> {Size(x)}

Compute ==
  /\ result = <<>>
  /\ \E v \in Outcomes(sample) : result' = <<v>>
  /\ UNCHANGED sample

ScoringSpec == ScoringInit /\ [][Compute]_scoringVars

-----------------------------------------------------------------------------
\* "Technical Score (0-100)" and its kin: no combination of absent and extreme
\* measures makes a score leave 0..100 points.
ScoresInRange ==
  /\ (result # <<>> /\ sample.kind \in {"a3", "a4", "a5"}) => result[1] \in 0..1000
  /\ (result # <<>> /\ sample.kind = "event") => result[1] \in (0..1000) \cup {Absent}

\* All that counts is read.
AllRead(events) ==
  /\ Cardinality(OwnRows(events)) <= OwnLimit
  /\ Cardinality(PeerRows(events)) <= PeerLimit

\* A filing turns out to be bad news.
TurnBad(e) == [e EXCEPT !.sentiment = -1]

\* Worse news never makes a better score: falling growth or margin, one more
\* forensic sign, a weaker return, promoters selling, one more surveillance, a
\* filing of the company's or of a peer's that turns bad, or one more bad one
\* while the limits have room for it.
WorseNeverHelps ==
  /\ (sample.kind = "a3" /\ result # <<>>) =>
       /\ \A g \in Percents :
            /\ sample.revenue # Absent /\ g < sample.revenue =>
                 FundamentalScore([sample EXCEPT !.revenue = g]) <= result[1]
            /\ sample.margin # Absent /\ g < sample.margin =>
                 FundamentalScore([sample EXCEPT !.margin = g]) <= result[1]
       /\ \A f \in DOMAIN FlagCost :
            FundamentalScore([sample EXCEPT !.signs = @ \cup {f}]) <= result[1]
  /\ (sample.kind = "a4" /\ result # <<>>) =>
       \A g \in Percents : (sample.excess # Absent /\ g < sample.excess) =>
         TechnicalScore([sample EXCEPT !.excess = g]) <= result[1]
  /\ (sample.kind = "a5" /\ result # <<>>) =>
       /\ \A g \in Percents :
            /\ sample.promoter # Absent /\ g < sample.promoter =>
                 FlowScore([sample EXCEPT !.promoter = g]) <= result[1]
            /\ sample.deals # Absent /\ g < sample.deals =>
                 FlowScore([sample EXCEPT !.deals = g]) <= result[1]
       /\ \A f \in {"gsm", "asm_lt", "asm_st"} :
            FlowScore([sample EXCEPT !.frameworks = @ \cup {f}]) <= result[1]
  /\ (sample.kind = "event" /\ result # <<>> /\ result # <<Absent>>) =>
       /\ \A e \in {r \in EventRows : r.sentiment < 0} :
            AllRead(sample.events \cup {e}) =>
              \A v \in EventAxes(sample.events \cup {e}) : v <= result[1]
       /\ \A e \in sample.events : TurnBad(e) \notin sample.events =>
            \E v \in EventAxes((sample.events \ {e}) \cup {TurnBad(e)}) : v <= result[1]

\* "risking 1% of capital to THIS profile's stop" (a7 engine.py:242): of a
\* position of the given size one per cent of the capital is lost at the stop,
\* but for the rounding, and the stop lies below the entry zone, and that
\* below the targets.
SizedToStop ==
  (sample.kind = "a7" /\ result # <<>>) =>
    LET l == Levels(sample)
    IN  /\ (2 * result[1] - 1) * (100 * sample.close - l.stop) <= 2000 * sample.close
        /\ l.stop < l.entryLow /\ l.entryLow < l.entryHigh
        /\ l.entryHigh < l.targetLow /\ l.targetLow < l.targetHigh

\* The arithmetic as a whole: in range, monotone, and sized to the stop.
ScoresSound == ScoresInRange /\ WorseNeverHelps /\ SizedToStop

\* "the conservative read for a risk gate" (pledge.py:56): whichever unit the
\* preparer used, a pledge above a quarter of the promoters' holding blocks,
\* and one above a tenth does not go unnoticed.
PledgeNeverUnderread ==
  (sample.kind = "a6" /\ result # <<>> /\ sample.promoters) =>
    /\ sample.true > 2500 => result[1] = "hard_block"
    /\ sample.true > 1000 => result[1] \in {"hard_block", "penalty"}
=============================================================================
