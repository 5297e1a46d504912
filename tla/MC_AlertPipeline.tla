-------------------------- MODULE MC_AlertPipeline --------------------------
(* Instances of AlertPipeline for TLC.                                     *)
EXTENDS AlertPipeline

AllKinds == <<"high", "low", "medium", "high", "high">>
AllHigh == <<"high", "high">>
ThreeHigh == <<"high", "medium", "high", "high">>
=============================================================================
