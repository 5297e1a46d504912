------------------------------ MODULE MC_Agents ------------------------------
(* Instances of the modules of the agents and of their data for TLC.  They   *)
(* share no state: one of them runs and the others rest in one of their      *)
(* initial states, so that their state spaces add up instead of multiplying. *)
EXTENDS Fusion, PledgeSync, Scoring, SecuritiesMaster, Triage, ResultsLoader,
        PriceHistory, PointInTime

CONSTANT Parts

Rates == {-60, -5, 0, 4, 60}

Replies == [category : {"other", "auditor_resignation"}, materiality : {1, 8},
            confidence : {30, 90}, routine : {FALSE}]

Sales == [b \in Bases |-> IF b = "standalone" THEN {190} ELSE {570}]

\* The revenues are such that the misfile guard is meant for.
ASSUME SteadyRevenues == Steady

VARIABLE part

vars == <<fusionVars, pledgeVars, scoringVars, masterVars, triageVars,
          resultsVars, historyVars, pitVars, part>>

ASetup == CHOOSE s \in Setups : TRUE
AFiling == [feed |-> CHOOSE f \in Feeds : TRUE, text |-> {}]

Init ==
  /\ part \in Parts
  /\ FusionInit /\ PledgeInit /\ MasterInit /\ ResultsInit /\ HistoryInit
  /\ IF part = "scoring" THEN ScoringInit ELSE result = <<>> /\ sample = ASetup
  /\ IF part = "triage" THEN TriageInit
     ELSE /\ filing = AFiling
          /\ mode = [fresh |-> TRUE, deep |-> FALSE, engine |-> "off"]
          /\ pc2 = "rules" /\ reply = NoHit /\ called = {} /\ row = NoHit
  /\ IF part = "pit" THEN PitInit
     ELSE /\ moment = 0 /\ eventAt = [f \in Filings |-> 0]
          /\ observedAt = [f \in PitRows |-> Later] /\ stored = {}
          /\ version = CHOOSE v \in Versions : TRUE
          /\ liveRead = [t \in 0..LastMoment |-> [by |-> version, seen |-> {}]]

Next ==
  /\ UNCHANGED part
  /\ \/ part = "fusion" /\ FusionNext
     \/ part # "fusion" /\ UNCHANGED fusionVars
  /\ \/ part = "pledge" /\ PledgeNext
     \/ part # "pledge" /\ UNCHANGED pledgeVars
  /\ \/ part = "scoring" /\ Compute
     \/ part # "scoring" /\ UNCHANGED scoringVars
  /\ \/ part = "master" /\ MasterNext
     \/ part # "master" /\ UNCHANGED masterVars
  /\ \/ part = "triage" /\ TriageNext
     \/ part # "triage" /\ UNCHANGED triageVars
  /\ \/ part = "results" /\ ResultsNext
     \/ part # "results" /\ UNCHANGED resultsVars
  /\ \/ part = "history" /\ HistoryNext
     \/ part # "history" /\ UNCHANGED historyVars
  /\ \/ part = "pit" /\ PitNext
     \/ part # "pit" /\ UNCHANGED pitVars

\* PledgeFairness, while PledgeSync runs.
InPledge(action) ==
  part = "pledge" /\ action /\ UNCHANGED <<fusionVars, scoringVars, masterVars, triageVars,
                                          resultsVars, historyVars, pitVars, part>>

Spec ==
  /\ Init /\ [][Next]_vars
  /\ WF_vars(InPledge(PledgeStep))
  /\ \A s \in Symbols : WF_vars(InPledge(RecordListed(s)))
=============================================================================
