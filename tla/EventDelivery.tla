--------------------------- MODULE EventDelivery ---------------------------
(***************************************************************************)
(* What marketsense/bus/outbox.py promises its consumers: committed events *)
(* are settled - handled, or moved to dead_letters - by each consumer in   *)
(* stream order, none skipped, until a replay rewinds that consumer.       *)
(* Redelivery is a stutter.                                                *)
(***************************************************************************)
EXTENDS Naturals

CONSTANT Consumers
VARIABLES stream,   \* ids of the committed events
          settled   \* [Consumers -> ids settled since the last rewind]

Init ==
  /\ stream = {}
  /\ settled = [c \in Consumers |-> {}]

\* New events only ever appear at the end of the stream.
Append ==
  /\ stream \subseteq stream'
  /\ \A e \in stream' \ stream, f \in stream : f < e
  /\ UNCHANGED settled

\* The consumer settles the oldest event it has not settled.
Settle(c) ==
  \E e \in stream \ settled[c] :
    /\ \A f \in stream \ settled[c] : e <= f
    /\ settled' = [settled EXCEPT ![c] = @ \cup {e}]
    /\ UNCHANGED stream

\* A replay forgets the events above some point.
Rewind(c) ==
  /\ settled' = [settled EXCEPT ![c] = settled'[c]]
  /\ settled'[c] \subseteq settled[c]
  /\ \A e \in settled'[c], f \in settled[c] \ settled'[c] : e < f
  /\ UNCHANGED stream

Next ==
  \/ Append
  \/ \E c \in Consumers : Settle(c) \/ Rewind(c)

Spec == Init /\ [][Next]_<<stream, settled>>
=============================================================================
