---------------------------- MODULE MC_NSEClient ----------------------------
(* Instances of NSEClient for TLC.                                         *)
EXTENDS NSEClient

CONSTANT ingest
TheThread == {ingest}
OneTickEach == <<1, 1, 1>>
NoSleep == <<0, 0, 1>>
=============================================================================
