--------------------------- MODULE RequestBudget ---------------------------
(***************************************************************************)
(* The token bucket and circuit breaker in front of NSE                    *)
(* (marketsense/net/budget.py).  Every method runs under the object's lock *)
(* and is one action.  Time advances in ticks; a token is TicksPerMinute   *)
(* units, so that PerMinute units accrue on each tick.                     *)
(*                                                                         *)
(* A caller's flight is the stretch from its acquire() to the record_*     *)
(* call that reports the response.                                         *)
(***************************************************************************)
EXTENDS Integers, FiniteSets

CONSTANTS
  Callers,          \* threads sharing the budget object
  PerMinute,        \* per_minute
  TicksPerMinute,   \* the clock's resolution
  Threshold,        \* breaker_threshold
  Cooldown,         \* breaker_cooldown, in ticks
  MaxFlight         \* HTTP timeouts of one flight, in ticks

ASSUME BudgetAssumption ==
  /\ PerMinute \in Nat \ {0}
  /\ TicksPerMinute \in Nat \ {0}
  /\ Threshold \in Nat \ {0}
  /\ Cooldown \in Nat
  /\ MaxFlight \in Nat
  /\ MaxFlight < Cooldown

Token == TicksPerMinute
Capacity == PerMinute * TicksPerMinute

VARIABLES
  tokens,       \* _tokens, in units
  accrued,      \* units earned since _last_refill
  opened,       \* _breaker_opened_at is not None
  sinceOpened,  \* ticks since _breaker_opened_at (stops at Cooldown)
  probeOut,     \* _half_open_probe_out
  streak,       \* _consecutive_auth_failures (stops at Threshold)
  flight,       \* [Callers -> "none", "request" or "probe"]
  age,          \* [Callers -> ticks since the flight took off]
  meter,        \* history: leaky-bucket meter of the tokens granted
  sinceAuth     \* history: ticks since the last 401/403 (stops at Cooldown)

breakerVars == <<opened, sinceOpened, probeOut, streak>>
budgetVars == <<tokens, accrued, opened, sinceOpened, probeOut, streak,
                flight, age, meter, sinceAuth>>

AtMost(n, bound) == IF n < bound THEN n ELSE bound

BudgetInit ==
  /\ tokens = Capacity
  /\ accrued = 0
  /\ opened = FALSE
  /\ sinceOpened = 0
  /\ probeOut = FALSE
  /\ streak = 0
  /\ flight = [c \in Callers |-> "none"]
  /\ age = [c \in Callers |-> 0]
  /\ meter = 0
  /\ sinceAuth = Cooldown

Refilled == AtMost(tokens + accrued, Capacity)

\* Fault: once half-open, the breaker lets everybody through.
BreakerRefusesCooling == opened /\ sinceOpened < Cooldown

\* CircuitOpen: refused with nothing but a counter changed.
BreakerRefuses == opened /\ (sinceOpened < Cooldown \/ probeOut)

\* BudgetExceeded: in a half-open breaker the probe flag is already up.
AcquireRefusedByBudget ==
  /\ ~BreakerRefuses
  /\ Refilled < Token
  /\ probeOut' = (probeOut \/ opened)
  /\ tokens' = Refilled
  /\ accrued' = 0
  /\ UNCHANGED <<opened, sinceOpened, streak, flight, age, meter, sinceAuth>>

\* Fault: _last_refill is left alone, so the same seconds pay twice.
GrantedStaleRefill(c) ==
  /\ ~BreakerRefuses
  /\ Refilled >= Token
  /\ probeOut' = (probeOut \/ opened)
  /\ tokens' = Refilled - Token
  /\ meter' = meter + Token
  /\ IF flight[c] = "none"
       THEN /\ flight' = [flight EXCEPT ![c] = IF opened THEN "probe" ELSE "request"]
            /\ age' = [age EXCEPT ![c] = 0]
       ELSE UNCHANGED <<flight, age>>
  /\ UNCHANGED <<accrued, opened, sinceOpened, streak, sinceAuth>>

\* A caller already in flight (the cookie bootstrap) stays in that flight.
AcquireGranted(c) ==
  /\ ~BreakerRefuses
  /\ Refilled >= Token
  /\ probeOut' = (probeOut \/ opened)
  /\ tokens' = Refilled - Token
  /\ accrued' = 0
  /\ meter' = meter + Token
  /\ IF flight[c] = "none"
       THEN /\ flight' = [flight EXCEPT ![c] = IF opened THEN "probe" ELSE "request"]
            /\ age' = [age EXCEPT ![c] = 0]
       ELSE UNCHANGED <<flight, age>>
  /\ UNCHANGED <<opened, sinceOpened, streak, sinceAuth>>

Land(c) ==
  /\ flight[c] # "none"
  /\ flight' = [flight EXCEPT ![c] = "none"]
  /\ probeOut' = FALSE
  /\ UNCHANGED <<tokens, accrued, age, meter>>

SuccessLeavesOpen(c) ==
  /\ Land(c)
  /\ streak' = 0
  /\ UNCHANGED <<opened, sinceOpened, sinceAuth>>

RecordSuccess(c) ==
  /\ Land(c)
  /\ streak' = 0
  /\ opened' = FALSE
  /\ UNCHANGED <<sinceOpened, sinceAuth>>

\* Fault: a rejected probe does not start the cooldown again.
AuthFailureOpensOnce(c) ==
  /\ Land(c)
  /\ streak' = AtMost(streak + 1, Threshold)
  /\ IF streak + 1 >= Threshold /\ ~opened
       THEN opened' = TRUE /\ sinceOpened' = 0
       ELSE UNCHANGED <<opened, sinceOpened>>
  /\ sinceAuth' = 0

RecordAuthFailure(c) ==
  /\ Land(c)
  /\ streak' = AtMost(streak + 1, Threshold)
  /\ IF streak + 1 >= Threshold
       THEN opened' = TRUE /\ sinceOpened' = 0
       ELSE UNCHANGED <<opened, sinceOpened>>
  /\ sinceAuth' = 0

RecordTransportFailure(c) ==
  /\ Land(c)
  /\ UNCHANGED <<opened, sinceOpened, streak, sinceAuth>>

\* snapshot() refills before it reports.
Snapshot ==
  /\ tokens' = Refilled
  /\ accrued' = 0
  /\ UNCHANGED <<breakerVars, flight, age, meter, sinceAuth>>

\* The clock.  The HTTP timeouts end a flight before it is MaxFlight old.
Tick ==
  /\ \A c \in Callers : flight[c] # "none" => age[c] < MaxFlight
  /\ age' = [c \in Callers |-> IF flight[c] = "none" THEN age[c] ELSE age[c] + 1]
  /\ accrued' = AtMost(accrued + PerMinute, Capacity)
  /\ sinceOpened' = AtMost(sinceOpened + 1, Cooldown)
  /\ sinceAuth' = AtMost(sinceAuth + 1, Cooldown)
  /\ meter' = IF meter > PerMinute THEN meter - PerMinute ELSE 0
  /\ UNCHANGED <<tokens, opened, probeOut, streak, flight>>

BudgetNext ==
  \/ AcquireRefusedByBudget \/ Snapshot
  \/ \E c \in Callers :
       \/ AcquireGranted(c)
       \/ RecordSuccess(c)
       \/ RecordAuthFailure(c)
       \/ RecordTransportFailure(c)
  \/ Tick

BudgetSpec == BudgetInit /\ [][BudgetNext]_budgetVars

-----------------------------------------------------------------------------
BudgetTypeOK ==
  /\ tokens \in 0..Capacity
  /\ accrued \in 0..Capacity
  /\ opened \in BOOLEAN
  /\ sinceOpened \in 0..Cooldown
  /\ probeOut \in BOOLEAN
  /\ streak \in 0..Threshold
  /\ flight \in [Callers -> {"none", "request", "probe"}]
  /\ age \in [Callers -> 0..MaxFlight]
  /\ meter \in Nat
  /\ sinceAuth \in 0..Cooldown

\* Over any stretch of T ticks NSE sees at most Capacity + T * PerMinute units
\* of requests, i.e. one full bucket plus the refill rate: the lazy refill
\* never credits the same second twice.
RateBounded == meter <= Capacity

\* However many threads share the object, a half-open breaker has at most one
\* request of theirs on its way to NSE.
SingleProbe ==
  opened /\ sinceOpened >= Cooldown =>
    Cardinality({c \in Callers : flight[c] # "none"}) <= 1

\* A burned session is left alone: once the streak reached the threshold, a
\* request goes out only when the last 401/403 is a whole cooldown ago.
HostRested ==
  [][streak >= Threshold /\ meter' > meter => sinceAuth >= Cooldown]_budgetVars

-----------------------------------------------------------------------------
(* The inductive invariant.                                                *)

\* The meter and the bucket never exceed one capacity between them.
MeterMatchesBucket == meter + Refilled <= Capacity

\* The breaker is open exactly while the streak stands at the threshold, and
\* its cooldown counts from the last 401/403.
OpenIffBurned ==
  /\ opened <=> streak >= Threshold
  /\ opened => sinceOpened <= sinceAuth

\* A plain request still in flight under an open breaker took off before it
\* opened, so it lands inside the cooldown.
OldFlights ==
  \A c \in Callers : opened /\ flight[c] = "request" => sinceOpened <= age[c]

\* The probe flag covers every probe in flight, and there is only one.
ProbeFlagged ==
  /\ \A c \in Callers : flight[c] = "probe" =>
       probeOut /\ opened /\ sinceOpened = Cooldown
  /\ \A c, d \in Callers : flight[c] = "probe" /\ flight[d] # "none" => c = d
  /\ probeOut => opened /\ sinceOpened = Cooldown

BudgetInvariant ==
  /\ BudgetTypeOK
  /\ MeterMatchesBucket
  /\ OpenIffBurned
  /\ OldFlights
  /\ ProbeFlagged
=============================================================================
