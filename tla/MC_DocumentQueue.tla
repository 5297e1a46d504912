-------------------------- MODULE MC_DocumentQueue --------------------------
(* An instance of DocumentQueue for TLC.                                   *)
EXTENDS DocumentQueue, TLC

\* Documents 1 and 2 are the same PDF, filed twice.
TwoShareAFile == 1 :> "a" @@ 2 :> "a" @@ 3 :> "b"
=============================================================================
