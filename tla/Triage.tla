------------------------------- MODULE Triage -------------------------------
(***************************************************************************)
(* One filing through A2: the rule layer (a2_docintel/taxonomy.py), the    *)
(* gateway to the models (llm/client.py) and their merge                   *)
(* (a2_docintel/classifier.py).  A text is the set of patterns it matches; *)
(* confidences are in hundredths; sentiment, summary and entities, which   *)
(* decide nothing here, are left out.                                      *)
(***************************************************************************)
EXTENDS Integers, FiniteSets, Sequences, FiniteSetsExt

CONSTANTS
  Feeds,            \* bound: the feeds a filing may come from
  Vocabulary,       \* bound: the patterns a text may match
  Answers           \* bound: [category, materiality, confidence] of a valid reply

\* _RULES in order: pattern, category, materiality, confidence.
Rules == <<
  <<"auditor_resigns", "auditor_resignation", 9, 95>>,
  <<"enforcement_order", "regulatory_action", 7, 80>>,
  <<"insolvency", "litigation", 7, 85>>, <<"plant_shut", "plant_shutdown", 7, 80>>,
  <<"fire", "fire_accident", 6, 70>>,
  <<"rating_down", "credit_rating_change", 7, 90>>,
  <<"rating_up", "credit_rating_change", 6, 90>>,
  <<"rating", "credit_rating_change", 6, 60>>, <<"order_received", "order_win", 5, 80>>,
  <<"new_capacity", "capacity_expansion", 5, 70>>, <<"capex", "capex", 5, 70>>,
  <<"merger", "ma", 6, 80>>, <<"demerger", "demerger", 6, 80>>,
  <<"fund_raise", "fundraise", 5, 80>>, <<"debt_issue", "debt_raise", 3, 70>>,
  <<"buyback", "dividend_bonus_split_buyback", 6, 85>>,
  <<"dividend", "dividend_bonus_split_buyback", 4, 80>>,
  <<"results", "results", 5, 85>>, <<"guidance", "guidance", 6, 70>>,
  <<"people", "management_change", 5, 75>>, <<"lawsuit", "litigation", 5, 70>>,
  <<"rumour", "clarification_to_rumour", 5, 80>>,
  <<"insider", "insider_trade", 3, 70>>, <<"pledge", "pledge_creation_release", 4, 80>> >>

\* MATERIALITY_FLOORS.
Floors == [auditor_resignation |-> 9, regulatory_action |-> 7, plant_shutdown |-> 7,
           fire_accident |-> 6, credit_rating_change |-> 6, ma |-> 6, demerger |-> 6,
           clarification_to_rumour |-> 5, order_win |-> 4, fundraise |-> 4,
           pledge_creation_release |-> 4]

\* _FEED_CATEGORY: category, materiality, confidence, routine.
FeedPriors == [
  insider_trading |-> <<"insider_trade", 3, 90, FALSE>>,
  encumbrance |-> <<"pledge_creation_release", 5, 90, FALSE>>,
  financial_results |-> <<"results", 5, 90, FALSE>>,
  integrated_financials |-> <<"results", 4, 85, FALSE>>,
  sast_reg29 |-> <<"insider_trade", 3, 85, FALSE>>,
  sast_reg31 |-> <<"pledge_creation_release", 4, 85, FALSE>>,
  buyback |-> <<"dividend_bonus_split_buyback", 2, 90, TRUE>>,
  offer_documents |-> <<"fundraise", 4, 70, FALSE>>,
  corporate_actions |-> <<"dividend_bonus_split_buyback", 3, 70, FALSE>>,
  related_party |-> <<"other", 2, 85, TRUE>>, shareholding_pattern |-> <<"other", 2, 85, TRUE>>,
  secretarial_compliance |-> <<"other", 1, 90, TRUE>>, annual_reports |-> <<"other", 2, 90, TRUE>>,
  deviation_variation |-> <<"other", 2, 80, TRUE>>, board_meetings |-> <<"other", 1, 85, TRUE>>,
  voting_results |-> <<"other", 1, 85, TRUE>>, investor_complaints |-> <<"other", 1, 90, TRUE>>,
  share_transfers |-> <<"other", 1, 90, TRUE>>, brsr |-> <<"other", 1, 90, TRUE>>,
  unitholding_patterns |-> <<"other", 1, 90, TRUE>>,
  corporate_governance |-> <<"other", 1, 90, TRUE>>, circulars |-> <<"other", 1, 85, TRUE>>]

\* FEED_AUTHORITATIVE: all the feeds with a prior but these.
Authoritative ==
  DOMAIN FeedPriors \ {"financial_results", "integrated_financials", "offer_documents",
                       "corporate_actions", "deviation_variation"}

\* What the qualifiers look for besides.
Qualifiers == {"routine", "internal_auditor", "statutory_auditor", "citation", "enforcement"}

ASSUME TriageAssumption ==
  /\ Feeds \subseteq DOMAIN FeedPriors \cup {"announcements"}
  /\ Vocabulary \subseteq {Rules[i][1] : i \in DOMAIN Rules} \cup Qualifiers

RuleFinalConfidence == 75

VARIABLES
  filing,       \* [feed, text]
  mode,         \* [fresh, deep, engine]: 6 hours old at most, a deep queue, ai_engine
  pc2,          \* "rules", "ask", "retry", "merge", "nomodel" or "done"
  reply,        \* the valid reply
  called,       \* history: the models called
  row           \* the classification stored

triageVars == <<filing, mode, pc2, reply, called, row>>

NoHit == [category |-> "none", materiality |-> 0, confidence |-> 0, routine |-> FALSE]

Hit(category, materiality, confidence, routine) ==
  [category |-> category, materiality |-> materiality, confidence |-> confidence,
   routine |-> routine]

TriageInit ==
  /\ filing \in [feed : Feeds, text : UNION {kSubset(k, Vocabulary) : k \in 0..3}]
  /\ mode \in [fresh : BOOLEAN, deep : BOOLEAN, engine : {"off", "local", "online", "auto"}]
  /\ pc2 = "rules"
  /\ reply = NoHit
  /\ called = {}
  /\ row = NoHit

-----------------------------------------------------------------------------
\* Fault: an internal auditor anywhere in the text takes the statutory one with it.
InternalMentioned(text) == "internal_auditor" \in text

NonStatutory(text) == "internal_auditor" \in text /\ "statutory_auditor" \notin text

OnlyCited(text) == "citation" \in text /\ "enforcement" \notin text

\* _auditor_qualifier and _regulatory_qualifier; <<>> for a dropped hit.
Qualified(rule, text) ==
  IF rule[2] = "auditor_resignation" /\ NonStatutory(text)
  THEN Hit("management_change", 3, rule[4], FALSE)
  ELSE IF rule[2] = "regulatory_action" /\ OnlyCited(text) THEN NoHit
  ELSE Hit(rule[2], rule[3], rule[4], FALSE)

\* The rules that hit a text, those dropped left out.
HitRules(text) ==
  {i \in DOMAIN Rules : Rules[i][1] \in text /\ Qualified(Rules[i], text) # NoHit}

Material(i, text) == Qualified(Rules[i], text).materiality

\* The most material hit, the first of several.
Best(text) ==
  LET hits == HitRules(text)
      best == CHOOSE i \in hits :
                \A j \in hits :
                  \/ Material(j, text) < Material(i, text)
                  \/ Material(j, text) = Material(i, text) /\ i <= j
  IN  Qualified(Rules[best], text)

ClassifyByRules(f) ==
  LET prior == FeedPriors[f.feed]
      ofFeed == Hit(prior[1], prior[2], prior[3], prior[4])
  IN  IF f.text = {} /\ f.feed \notin DOMAIN FeedPriors THEN NoHit
      ELSE IF "routine" \in f.text THEN Hit("other", 1, 90, TRUE)
      ELSE IF f.feed \in Authoritative THEN ofFeed
      ELSE IF HitRules(f.text) # {} THEN Best(f.text)
      ELSE IF f.feed \in DOMAIN FeedPriors THEN ofFeed ELSE NoHit

ApplyFloor(category, materiality) ==
  IF category \in DOMAIN Floors THEN Max({materiality, Floors[category]}) ELSE materiality

-----------------------------------------------------------------------------
TheHit == ClassifyByRules(filing)

Classified(category, materiality, confidence, routine) ==
  /\ row' = Hit(category, ApplyFloor(category, materiality), confidence, routine)
  /\ pc2' = "done"
  /\ UNCHANGED <<filing, mode, reply, called>>

RulesFinal ==
  /\ pc2 = "rules"
  /\ TheHit # NoHit
  /\ TheHit.routine \/ TheHit.confidence >= RuleFinalConfidence
  /\ Classified(TheHit.category, TheHit.materiality, TheHit.confidence, TheHit.routine)

\* The hit there is, or an honest "other"; for the backlog and without a model.
WithoutModel ==
  IF TheHit = NoHit THEN Classified("other", 2, 20, FALSE)
  ELSE Classified(TheHit.category, TheHit.materiality, (TheHit.confidence * 8) \div 10, TheHit.routine)

NotFinal == ~TheHit.routine /\ TheHit.confidence < RuleFinalConfidence

Backlog ==
  /\ pc2 = "rules" /\ NotFinal /\ ~mode.fresh
  /\ WithoutModel

ToModel ==
  /\ pc2 = "rules" /\ NotFinal /\ mode.fresh
  /\ pc2' = "ask"
  /\ UNCHANGED <<filing, mode, reply, called, row>>

\* _generate: the engines tried in turn; the retry does not prefer online.
Order ==
  CASE mode.engine = "off" -> <<>>
    [] mode.engine = "local" -> <<"local">>
    [] mode.engine = "online" -> <<"online">>
    [] mode.engine = "auto" ->
         IF mode.deep /\ pc2 = "ask" THEN <<"online">> ELSE <<"local", "online">>

\* The first n engines are called, the last of them answers.
Answered(n) == called' = called \cup {Order[i] : i \in 1..n}

ValidReply ==
  /\ pc2 \in {"ask", "retry"}
  /\ \E n \in DOMAIN Order : Answered(n)
  /\ reply' \in Answers
  /\ pc2' = "merge"
  /\ UNCHANGED <<filing, mode, row>>

\* No JSON, a missing key, an unknown category or a number out of range.
InvalidReply ==
  /\ pc2 \in {"ask", "retry"}
  /\ \E n \in DOMAIN Order : Answered(n)
  /\ pc2' = IF pc2 = "ask" THEN "retry" ELSE "nomodel"
  /\ UNCHANGED <<filing, mode, reply, row>>

LLMUnavailable ==
  /\ pc2 \in {"ask", "retry"}
  /\ Answered(Len(Order))
  /\ pc2' = "nomodel"
  /\ UNCHANGED <<filing, mode, reply, row>>

NoModel ==
  /\ pc2 = "nomodel"
  /\ WithoutModel

\* A more confident rule keeps its category and its materiality.
Merge ==
  /\ pc2 = "merge"
  /\ IF TheHit # NoHit /\ TheHit.confidence > reply.confidence
       THEN Classified(TheHit.category, Max({reply.materiality, TheHit.materiality}),
                  reply.confidence, FALSE)
       ELSE Classified(reply.category, reply.materiality, reply.confidence, FALSE)

TriageNext ==
  \/ RulesFinal \/ Backlog \/ ToModel \/ ValidReply \/ InvalidReply
  \/ LLMUnavailable \/ NoModel \/ Merge

TriageSpec == TriageInit /\ [][TriageNext]_triageVars

-----------------------------------------------------------------------------
TriageTypeOK ==
  /\ pc2 \in {"rules", "ask", "retry", "merge", "nomodel", "done"}
  /\ called \subseteq {"local", "online"}
  /\ row.materiality \in 0..10 /\ row.confidence \in 0..100

\* The announcement of a resigning auditor, if it is not just an internal one.
AuditorResigns ==
  /\ filing.feed \notin Authoritative
  /\ "routine" \notin filing.text /\ "auditor_resigns" \in filing.text
  /\ "internal_auditor" \in filing.text => "statutory_auditor" \in filing.text

\* "auditor resignation -> materiality >=9 regardless of model output"
\* (classifier.py:11-12), the row A6 blocks on for a year: whatever else the
\* announcement matches, however old it is and whatever the models do.
AuditorAlwaysBlocks ==
  pc2 = "done" /\ AuditorResigns =>
    row.category = "auditor_resignation" /\ row.materiality >= 9

\* "Floors are applied AFTER the LLM too: the merge in classifier.py takes
\* max(rule_floor, model_materiality)" (taxonomy.py:14-15).
RuleFloorSurvives ==
  pc2 = "done" /\ TheHit.category \in DOMAIN Floors =>
    row.materiality >= Floors[TheHit.category]

\* "Deep-queue mode: online ONLY" (client.py:112).
DeepQueueSparesLocal ==
  mode.engine = "auto" /\ mode.deep => "local" \notin called
=============================================================================
