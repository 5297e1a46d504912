----------------------------- MODULE NSEClient -----------------------------
(***************************************************************************)
(* NSEClient.get (marketsense/net/nse_client.py): one request with budget, *)
(* breaker, cookie session, retries and backoff, as the one ingest thread  *)
(* runs it.  The budget object is RequestBudget, of which this thread is   *)
(* the only caller.                                                        *)
(*                                                                         *)
(* Validators and bodies belong to the callers' models; here a 200 and a   *)
(* 304 are both an "ok" answer.  The budget snapshot in each audit record  *)
(* only refills the bucket earlier than the next acquire() would.          *)
(***************************************************************************)
EXTENDS RequestBudget, Sequences

CONSTANTS
  Client,           \* the ingest thread
  MaxRetries,       \* MAX_RETRIES
  SessionMaxAge,    \* SESSION_MAX_AGE, in ticks
  Backoff           \* least ticks slept after each attempt

ASSUME ClientAssumption ==
  /\ Callers = {Client}
  /\ MaxRetries \in Nat \ {0}
  /\ SessionMaxAge \in Nat
  /\ Backoff \in Seq(Nat) /\ Len(Backoff) = MaxRetries

VARIABLES
  pc,           \* where get() is
  host,         \* "www" needs cookies, "archives" does not
  tries,        \* attempts begun by this get(): `attempt` + 1
  sessionAge,   \* ticks since _session_ts; above SessionMaxAge: stale or None
  wait,         \* ticks of backoff still to sleep
  result,       \* how the last get() ended
  healed        \* environment: NSE answers again, for good

clientVars == <<pc, host, tries, sessionAge, wait, result, healed>>
vars == <<budgetVars, clientVars>>

Hosts == {"www", "archives"}

Init ==
  /\ BudgetInit
  /\ pc = "idle"
  /\ host = "archives"
  /\ tries = 0
  /\ sessionAge = SessionMaxAge + 1
  /\ wait = 0
  /\ result = "none"
  /\ healed = FALSE

GetStart(h) ==
  /\ pc = "idle"
  /\ pc' = "acquire"
  /\ host' = h
  /\ tries' = 1
  /\ result' = "none"
  /\ UNCHANGED <<budgetVars, sessionAge, wait, healed>>

-----------------------------------------------------------------------------
(* budget.acquire() at the head of an attempt; a refusal leaves get().      *)

Finish(kind) == pc' = "idle" /\ result' = kind

AttemptGranted ==
  /\ pc = "acquire"
  /\ AcquireGranted(Client)
  /\ pc' = IF host = "www" THEN "session" ELSE "request"
  /\ UNCHANGED <<host, tries, sessionAge, wait, result, healed>>

AttemptRefused ==
  /\ pc = "acquire"
  /\ AcquireRefusedByBudget \/ (BreakerRefuses /\ UNCHANGED budgetVars)
  /\ Finish("deferred")
  /\ UNCHANGED <<host, tries, sessionAge, wait, healed>>

-----------------------------------------------------------------------------
(* _get_session(force=attempt > 0) and _bootstrap_session().                *)

SessionStale == tries > 1 \/ sessionAge > SessionMaxAge

SessionReused ==
  /\ pc = "session"
  /\ ~SessionStale
  /\ pc' = "request"
  /\ UNCHANGED <<budgetVars, host, tries, sessionAge, wait, result, healed>>

BootstrapGranted ==
  /\ pc = "session"
  /\ SessionStale
  /\ AcquireGranted(Client)
  /\ pc' = "bootstrap"
  /\ UNCHANGED <<host, tries, sessionAge, wait, result, healed>>

\* The refusal is caught as a transport error of the attempt.
BootstrapRefused ==
  /\ pc = "session"
  /\ SessionStale
  /\ AcquireRefusedByBudget \/ (BreakerRefuses /\ UNCHANGED budgetVars)
  /\ pc' = "failed"
  /\ UNCHANGED <<host, tries, sessionAge, wait, result, healed>>

\* The homepage answered - its status is not looked at - or did not.  No audit
\* record is emitted for this request.
BootstrapDone ==
  /\ pc = "bootstrap"
  /\ \/ pc' = "request" /\ sessionAge' = 0
     \/ ~healed /\ pc' = "failed" /\ UNCHANGED sessionAge
  /\ UNCHANGED <<budgetVars, host, tries, wait, result, healed>>

-----------------------------------------------------------------------------
(* The request and what each answer does.                                   *)

Sleep == pc' = "backoff" /\ wait' = Backoff[tries] /\ UNCHANGED result

\* 200, 304: get() returns.  404: it raises at once, the server being well.
Answered(kind) ==
  /\ pc = "request"
  /\ RecordSuccess(Client)
  /\ Finish(kind)
  /\ UNCHANGED <<host, tries, sessionAge, wait, healed>>

\* Fault: a 404 is raised before it is recorded.
NotFoundUnrecorded ==
  /\ pc = "request"
  /\ ~healed
  /\ Finish("exhausted")
  /\ UNCHANGED <<budgetVars, host, tries, sessionAge, wait, healed>>

OkAnswer == Answered("ok")
NotFound == ~healed /\ Answered("exhausted")

Rejected ==
  /\ pc = "request"
  /\ ~healed
  /\ RecordAuthFailure(Client)
  /\ Sleep
  /\ UNCHANGED <<host, tries, sessionAge, healed>>

\* 429, 5xx, or no answer at all.
ServerError ==
  /\ pc = "request"
  /\ ~healed
  /\ RecordTransportFailure(Client)
  /\ Sleep
  /\ UNCHANGED <<host, tries, sessionAge, healed>>

\* The except branch reached from the session: nothing was sent to the url.
AttemptFailed ==
  /\ pc = "failed"
  /\ RecordTransportFailure(Client)
  /\ Sleep
  /\ UNCHANGED <<host, tries, sessionAge, healed>>

NextAttemptForever ==
  /\ pc = "backoff"
  /\ wait = 0
  /\ pc' = "acquire"
  /\ tries' = AtMost(tries + 1, MaxRetries)
  /\ UNCHANGED <<budgetVars, host, sessionAge, wait, result, healed>>

\* The sleep is over: the next attempt, or the raise after the loop.
NextAttempt ==
  /\ pc = "backoff"
  /\ wait = 0
  /\ IF tries < MaxRetries
       THEN pc' = "acquire" /\ tries' = tries + 1 /\ UNCHANGED result
       ELSE Finish("exhausted") /\ UNCHANGED tries
  /\ UNCHANGED <<budgetVars, host, sessionAge, wait, healed>>

-----------------------------------------------------------------------------
(* The environment.                                                         *)

Waiting == pc \in {"idle", "bootstrap", "request"} \/ (pc = "backoff" /\ wait > 0)

Pass ==
  /\ Waiting
  /\ Tick
  /\ sessionAge' = AtMost(sessionAge + 1, SessionMaxAge + 1)
  /\ wait' = IF wait > 0 THEN wait - 1 ELSE 0
  /\ UNCHANGED <<pc, host, tries, result, healed>>

Heal ==
  /\ ~healed
  /\ healed' = TRUE
  /\ UNCHANGED <<budgetVars, pc, host, tries, sessionAge, wait, result>>

ClientStep ==
  \/ AttemptGranted \/ AttemptRefused
  \/ SessionReused \/ BootstrapGranted \/ BootstrapRefused \/ BootstrapDone
  \/ OkAnswer \/ NotFound \/ Rejected \/ ServerError \/ AttemptFailed
  \/ NextAttempt

Next == (\E h \in Hosts : GetStart(h)) \/ ClientStep \/ Pass \/ Heal

Spec == Init /\ [][Next]_vars

\* get() never stops by itself, time passes, and the poller comes back to an
\* archives feed again and again (poller.py:191-198), whatever else it fetches.
FairSpec ==
  /\ Spec
  /\ WF_vars(ClientStep)
  /\ SF_vars(Pass)
  /\ SF_vars(GetStart("archives"))

-----------------------------------------------------------------------------
TypeOK ==
  /\ BudgetTypeOK
  /\ pc \in {"idle", "acquire", "session", "bootstrap", "request", "failed", "backoff"}
  /\ host \in Hosts
  /\ tries \in 0..MaxRetries
  /\ sessionAge \in 0..(SessionMaxAge + 1)
  /\ wait \in Nat
  /\ result \in {"none", "ok", "deferred", "exhausted"}
  /\ healed \in BOOLEAN

\* Every grant is reported back before get() sleeps or returns: the breaker
\* never waits for the outcome of a request nobody is making.
EveryFlightLands == pc \in {"idle", "acquire", "backoff"} => flight[Client] = "none"

\* Once NSE answers again, the breaker closes: the ban protection never turns
\* into an outage of its own.
BreakerRecovers == (healed /\ opened) ~> ~opened

\* get() never blocks the single ingest thread for ever.
GetReturns == pc # "idle" ~> pc = "idle"
=============================================================================
