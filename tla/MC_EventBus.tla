---------------------------- MODULE MC_EventBus ----------------------------
(* Instances of EventBus for TLC.                                          *)
EXTENDS EventBus, TLC

CONSTANTS p1, p2, w1, w2, a2, a8

OnePublisher == {p1}
TwoPublishers == {p1, p2}
OneWorker == {w1}
TwoWorkers == {w1, w2}
SameName == w1 :> a2 @@ w2 :> a2
SoleWorker == w1 :> a2
PoisonIds == {2}

Symmetry == Permutations(TwoWorkers)
============================================================================
