--------------------------- MODULE NSEClient_proofs --------------------------
(***************************************************************************)
(* The budget's promises for any number of threads and any setting of the  *)
(* rate, the threshold and the cooldown (as long as a flight times out     *)
(* inside one cooldown), and the same for the client that spends it.       *)
(***************************************************************************)
EXTENDS NSEClient, FiniteSetTheorems, TLAPS

-----------------------------------------------------------------------------
(* net/budget.py: the budget by itself.                                    *)

LEMMA CapacityNat == Capacity \in Nat /\ Token \in Nat
BY BudgetAssumption DEF Capacity, Token

LEMMA InitBudget == BudgetInit => BudgetInvariant
<1> USE BudgetAssumption, CapacityNat
<1> SUFFICES ASSUME BudgetInit PROVE BudgetInvariant
  OBVIOUS
<1>1. BudgetTypeOK
  <2>1. flight \in [Callers -> {"none", "request", "probe"}]
    BY DEF BudgetInit
  <2>2. age \in [Callers -> 0..MaxFlight]
    BY DEF BudgetInit
  <2>3. tokens \in 0..Capacity /\ accrued \in 0..Capacity
    BY DEF BudgetInit
  <2>4. opened \in BOOLEAN /\ probeOut \in BOOLEAN
    BY Zenon DEF BudgetInit
  <2>5. sinceOpened \in 0..Cooldown /\ sinceAuth \in 0..Cooldown
    BY DEF BudgetInit
  <2>6. streak \in 0..Threshold /\ meter \in Nat
    BY DEF BudgetInit
  <2> QED BY <2>1, <2>2, <2>3, <2>4, <2>5, <2>6, Zenon DEF BudgetTypeOK
<1>2. MeterMatchesBucket
  BY DEF BudgetInit, MeterMatchesBucket, Refilled, AtMost
<1>3. OpenIffBurned /\ OldFlights /\ ProbeFlagged
  BY DEF BudgetInit, OpenIffBurned, OldFlights, ProbeFlagged
<1> QED BY <1>1, <1>2, <1>3 DEF BudgetInvariant

(* One lemma per method of the budget, and one for the clock.              *)
LEMMA RefusalPreserves ==
  ASSUME BudgetInvariant, AcquireRefusedByBudget
  PROVE  BudgetInvariant'
<1> USE BudgetAssumption, CapacityNat DEF BudgetInvariant, AcquireRefusedByBudget
<1>1. BudgetTypeOK'
  BY DEF BudgetTypeOK, Refilled, AtMost
<1>2. MeterMatchesBucket'
  BY DEF BudgetTypeOK, MeterMatchesBucket, Refilled, AtMost
<1>3. OpenIffBurned' /\ OldFlights'
  BY DEF OpenIffBurned, OldFlights
<1>4. ProbeFlagged'
  BY DEF BudgetTypeOK, ProbeFlagged, BreakerRefuses
<1> QED BY <1>1, <1>2, <1>3, <1>4

LEMMA SnapshotPreserves ==
  ASSUME BudgetInvariant, Snapshot
  PROVE  BudgetInvariant'
<1> USE BudgetAssumption, CapacityNat DEF BudgetInvariant, Snapshot, breakerVars
<1>1. BudgetTypeOK'
  BY DEF BudgetTypeOK, Refilled, AtMost
<1>2. MeterMatchesBucket'
  BY DEF BudgetTypeOK, MeterMatchesBucket, Refilled, AtMost
<1>3. OpenIffBurned' /\ OldFlights' /\ ProbeFlagged'
  BY DEF OpenIffBurned, OldFlights, ProbeFlagged
<1> QED BY <1>1, <1>2, <1>3

LEMMA GrantPreserves ==
  ASSUME BudgetInvariant, NEW c \in Callers, AcquireGranted(c)
  PROVE  BudgetInvariant'
<1> USE BudgetAssumption, CapacityNat DEF BudgetInvariant, AcquireGranted
<1>1. BudgetTypeOK'
  BY DEF BudgetTypeOK, Refilled, AtMost
<1>2. MeterMatchesBucket'
  BY DEF BudgetTypeOK, MeterMatchesBucket, Refilled, AtMost
<1>3. OpenIffBurned'
  BY DEF OpenIffBurned
<1>4. OldFlights'
  BY DEF BudgetTypeOK, OldFlights
<1>5. ProbeFlagged'
  <2>1. CASE opened
    \* With the cooldown over no older flight is left in the air.
    <3>1. \A d \in Callers : flight[d] = "none"
      BY <2>1 DEF BudgetTypeOK, BreakerRefuses, OldFlights, ProbeFlagged
    <3>2. sinceOpened = Cooldown
      BY <2>1 DEF BudgetTypeOK, BreakerRefuses
    <3>3. opened' /\ probeOut' /\ sinceOpened' = Cooldown
      BY <2>1, <3>2
    <3>4. \A d \in Callers : flight'[d] # "none" => d = c
      BY <3>1 DEF BudgetTypeOK
    <3> QED BY <3>3, <3>4 DEF ProbeFlagged
  <2>2. CASE ~opened
    BY <2>2 DEF BudgetTypeOK, ProbeFlagged
  <2> QED BY <2>1, <2>2
<1> QED BY <1>1, <1>2, <1>3, <1>4, <1>5

LEMMA RecordPreserves ==
  ASSUME BudgetInvariant, NEW c \in Callers,
         RecordSuccess(c) \/ RecordAuthFailure(c) \/ RecordTransportFailure(c)
  PROVE  BudgetInvariant'
<1> USE BudgetAssumption, CapacityNat
    DEF BudgetInvariant, RecordSuccess, RecordAuthFailure, RecordTransportFailure, Land
<1>1. BudgetTypeOK'
  <2>1. flight' \in [Callers -> {"none", "request", "probe"}]
    BY DEF BudgetTypeOK
  <2>2. streak' \in 0..Threshold
    BY DEF BudgetTypeOK, AtMost
  <2>3. sinceOpened' \in 0..Cooldown /\ sinceAuth' \in 0..Cooldown
    BY DEF BudgetTypeOK
  <2>4. opened' \in BOOLEAN /\ probeOut' \in BOOLEAN
    BY Zenon DEF BudgetTypeOK
  <2> QED BY <2>1, <2>2, <2>3, <2>4 DEF BudgetTypeOK
<1>2. MeterMatchesBucket'
  BY DEF MeterMatchesBucket, Refilled, AtMost
<1>3. OpenIffBurned'
  BY DEF BudgetTypeOK, OpenIffBurned, AtMost
<1>4. OldFlights'
  <2> SUFFICES ASSUME NEW d \in Callers, opened', flight'[d] = "request"
               PROVE  sinceOpened' <= age'[d]
    BY DEF OldFlights
  <2>1. flight[d] = "request" /\ age' = age /\ age[d] \in Nat
    <3>1. Land(c) /\ age[d] \in 0..MaxFlight
      BY DEF BudgetTypeOK
    <3> QED BY <3>1 DEF BudgetTypeOK
  <2>2. sinceOpened' = 0 \/ (opened /\ sinceOpened' = sinceOpened)
    <3>1. CASE RecordAuthFailure(c)
      BY <3>1
    <3>2. CASE RecordTransportFailure(c)
      BY <3>2
    <3>3. ~RecordSuccess(c)
      BY Zenon
    <3> QED BY <3>1, <3>2, <3>3
  <2> QED BY <2>1, <2>2 DEF OldFlights
<1>5. ProbeFlagged'
  <2>1. ASSUME NEW d \in Callers, flight'[d] = "probe"
        PROVE  FALSE
    BY <2>1 DEF BudgetTypeOK, ProbeFlagged
  <2> QED BY <2>1 DEF ProbeFlagged
<1> QED BY <1>1, <1>2, <1>3, <1>4, <1>5

LEMMA TickPreserves ==
  ASSUME BudgetInvariant, Tick
  PROVE  BudgetInvariant'
<1> USE BudgetAssumption, CapacityNat DEF BudgetInvariant, Tick
<1>1. BudgetTypeOK'
  BY DEF BudgetTypeOK, AtMost
<1>2. MeterMatchesBucket'
  BY DEF BudgetTypeOK, MeterMatchesBucket, Refilled, AtMost
<1>3. OpenIffBurned'
  BY DEF BudgetTypeOK, OpenIffBurned, AtMost
<1>4. OldFlights'
  BY DEF BudgetTypeOK, OldFlights, AtMost
<1>5. ProbeFlagged'
  BY DEF BudgetTypeOK, ProbeFlagged, AtMost
<1> QED BY <1>1, <1>2, <1>3, <1>4, <1>5

LEMMA StepBudget == BudgetInvariant /\ [BudgetNext]_budgetVars => BudgetInvariant'
<1> SUFFICES ASSUME BudgetInvariant, [BudgetNext]_budgetVars
             PROVE  BudgetInvariant'
  OBVIOUS
<1>1. CASE UNCHANGED budgetVars
  BY <1>1 DEF budgetVars, BudgetInvariant, BudgetTypeOK, MeterMatchesBucket, Refilled,
              AtMost, OpenIffBurned, OldFlights, ProbeFlagged
<1> QED BY <1>1, RefusalPreserves, SnapshotPreserves, GrantPreserves, RecordPreserves, TickPreserves
        DEF BudgetNext

(* The rate NSE sees is bounded by the bucket, for every interleaving of   *)
(* acquire() with the clock.                                               *)
THEOREM BudgetRate == BudgetSpec => []RateBounded
<1>1. BudgetInvariant => RateBounded
  BY CapacityNat DEF BudgetInvariant, BudgetTypeOK, MeterMatchesBucket, Refilled, AtMost,
                     RateBounded
<1> QED BY <1>1, InitBudget, StepBudget, PTL DEF BudgetSpec

(* A half-open breaker lets one request through, whatever the threads do.  *)
THEOREM BudgetSingleProbe == BudgetSpec => []SingleProbe
<1>1. BudgetInvariant => SingleProbe
  <2> SUFFICES ASSUME BudgetInvariant, opened, sinceOpened >= Cooldown
               PROVE  Cardinality({c \in Callers : flight[c] # "none"}) <= 1
    BY DEF SingleProbe
  <2> DEFINE F == {c \in Callers : flight[c] # "none"}
  <2>1. \A c, d \in F : c = d
    BY BudgetAssumption
       DEF BudgetInvariant, BudgetTypeOK, OldFlights, ProbeFlagged
  <2>2. CASE F = {}
    BY <2>2, FS_EmptySet
  <2>3. CASE F # {}
    <3>1. PICK c \in F : F = {c}
      BY <2>1, <2>3
    <3> QED BY <3>1, FS_Singleton
  <2> QED BY <2>2, <2>3
<1> QED BY <1>1, InitBudget, StepBudget, PTL DEF BudgetSpec

(* A burned session rests for a cooldown after its latest 401/403.         *)
THEOREM BudgetRests == BudgetSpec => HostRested
<1>1. BudgetInvariant /\ [BudgetNext]_budgetVars =>
        [streak >= Threshold /\ meter' > meter => sinceAuth >= Cooldown]_budgetVars
  <2> SUFFICES ASSUME BudgetInvariant, BudgetNext, streak >= Threshold, meter' > meter
               PROVE  sinceAuth >= Cooldown
    OBVIOUS
  <2>1. PICK c \in Callers : AcquireGranted(c)
    BY BudgetAssumption
       DEF BudgetNext, BudgetInvariant, BudgetTypeOK, AcquireRefusedByBudget, Snapshot, RecordSuccess,
           RecordAuthFailure, RecordTransportFailure, Land, Tick
  <2>2. opened /\ sinceOpened >= Cooldown
    BY <2>1, BudgetAssumption
       DEF BudgetInvariant, BudgetTypeOK, OpenIffBurned, AcquireGranted, BreakerRefuses
  <2> QED BY <2>2, BudgetAssumption DEF BudgetInvariant, BudgetTypeOK, OpenIffBurned
<1> QED BY <1>1, InitBudget, StepBudget, PTL DEF BudgetSpec, HostRested

(* The bucket never overfills and the streak stays a count (budget.py).    *)
THEOREM BudgetTypes == BudgetSpec => []BudgetTypeOK
<1>1. BudgetInvariant => BudgetTypeOK
  BY DEF BudgetInvariant
<1> QED BY <1>1, InitBudget, StepBudget, PTL DEF BudgetSpec

-----------------------------------------------------------------------------
(* net/nse_client.py: the client's steps are steps of the budget or leave  *)
(* it alone, so that the budget's promises hold of what it sends, and it   *)
(* reports every grant before it sleeps or returns.                        *)

LEMMA ClientStepIsBudgetStep ==
  ASSUME [Next]_vars
  PROVE  [BudgetNext]_budgetVars
<1> USE ClientAssumption
<1>1. ASSUME AttemptRefused \/ BootstrapRefused
      PROVE  [BudgetNext]_budgetVars
  BY <1>1 DEF AttemptRefused, BootstrapRefused, BudgetNext
<1>2. ASSUME AttemptGranted \/ BootstrapGranted
      PROVE  BudgetNext
  BY <1>2 DEF AttemptGranted, BootstrapGranted, BudgetNext
<1>3. ASSUME OkAnswer \/ NotFound \/ Rejected \/ ServerError \/ AttemptFailed
      PROVE  BudgetNext
  BY <1>3 DEF OkAnswer, NotFound, Answered, Rejected, ServerError, AttemptFailed,
              BudgetNext
<1>4. ASSUME SessionReused \/ BootstrapDone \/ NextAttempt \/ Heal
      PROVE  UNCHANGED budgetVars
  BY <1>4 DEF SessionReused, BootstrapDone, NextAttempt, Heal
<1>5. ASSUME NEW h \in Hosts, GetStart(h)
      PROVE  UNCHANGED budgetVars
  BY <1>5 DEF GetStart
<1>6. CASE Pass
  BY <1>6 DEF Pass, BudgetNext
<1>7. CASE UNCHANGED vars
  BY <1>7 DEF vars
<1> QED BY <1>1, <1>2, <1>3, <1>4, <1>5, <1>6, <1>7 DEF Next, ClientStep

LEMMA ClientUsesBudget == Spec => BudgetSpec
<1>1. Init => BudgetInit
  BY DEF Init
<1>2. [Next]_vars => [BudgetNext]_budgetVars
  BY ClientStepIsBudgetStep
<1> QED BY <1>1, <1>2, PTL DEF Spec, BudgetSpec

(* What one ingest process sends NSE, cookie bootstraps and retries        *)
(* included, never exceeds one bucket plus the refill rate.                *)
THEOREM ClientRate == Spec => []RateBounded
BY ClientUsesBudget, BudgetRate, PTL

(* No grant outlives the attempt it was made for.                          *)
THEOREM ClientLands == Spec => []EveryFlightLands
<1> DEFINE Inv == /\ flight \in [Callers -> {"none", "request", "probe"}]
                  /\ EveryFlightLands
<1> USE ClientAssumption
<1>1. Init => Inv
  BY DEF Init, BudgetInit, EveryFlightLands
<1>2. Inv /\ [Next]_vars => Inv'
  <2> SUFFICES ASSUME Inv, [Next]_vars PROVE Inv'
    OBVIOUS
  <2> USE DEF EveryFlightLands
  <2>1. CASE \E h \in Hosts : GetStart(h)
    BY <2>1 DEF GetStart, budgetVars
  <2>2. CASE AttemptRefused \/ BootstrapRefused
    BY <2>2 DEF AttemptRefused, BootstrapRefused, AcquireRefusedByBudget, budgetVars, Finish
  <2>3. CASE AttemptGranted \/ BootstrapGranted
    BY <2>3 DEF AttemptGranted, BootstrapGranted, AcquireGranted
  <2>4. CASE OkAnswer \/ NotFound
    BY <2>4 DEF OkAnswer, NotFound, Answered, RecordSuccess, Land
  <2>5. CASE Rejected \/ ServerError \/ AttemptFailed
    BY <2>5 DEF Rejected, ServerError, AttemptFailed, RecordAuthFailure,
                RecordTransportFailure, Land
  <2>6. CASE SessionReused \/ BootstrapDone \/ NextAttempt \/ Heal
    BY <2>6 DEF SessionReused, BootstrapDone, NextAttempt, Heal, Finish, budgetVars
  <2>7. CASE Pass
    BY <2>7 DEF Pass, Tick
  <2>8. CASE UNCHANGED vars
    BY <2>8 DEF vars, budgetVars, clientVars
  <2> QED BY <2>1, <2>2, <2>3, <2>4, <2>5, <2>6, <2>7, <2>8 DEF Next, ClientStep
<1> QED BY <1>1, <1>2, PTL DEF Spec
=============================================================================
