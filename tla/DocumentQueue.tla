--------------------------- MODULE DocumentQueue ---------------------------
(***************************************************************************)
(* The attachment downloader of the ingest thread                          *)
(* (marketsense/agents/a1_ingestion/documents.py): the queue is the        *)
(* documents table, a 404 climbs a retry ladder, and bodies land in a      *)
(* content-addressed directory.                                            *)
(*                                                                         *)
(* Document ids are 1..MaxDocs, in insertion order.  A get() of NSEClient  *)
(* sends up to Retries requests before it ends, whichever way it ends; for *)
(* a barred document each of them is answered 401 or 403.                  *)
(***************************************************************************)
EXTENDS Integers, FiniteSets

CONSTANTS
  MaxDocs,          \* bound: documents rows
  Path,             \* [1..MaxDocs -> file its body lands in]
  Barred,           \* documents whose URL always answers 401 or 403
  Retries,          \* MAX_RETRIES: the requests of one get()
  Limit,            \* drain(limit)
  MaxAttempts,      \* MAX_ATTEMPTS: the rungs of RETRY_DELAYS_MIN and one
  MaxDeferrals,     \* bound: gets deferred after they have sent a request
  MaxCrashes,       \* bound: the process dies
  MaxWriteErrors    \* bound: write_bytes raises half way (a full disk)

Docs == 1..MaxDocs
Paths == {Path[d] : d \in Docs}

ASSUME DocumentAssumption ==
  /\ MaxDocs \in Nat
  /\ DOMAIN Path = Docs
  /\ Barred \subseteq Docs
  /\ Retries \in Nat \ {0}
  /\ Limit \in Nat \ {0}
  /\ MaxAttempts \in Nat \ {0}
  /\ MaxDeferrals \in Nat
  /\ MaxCrashes \in Nat
  /\ MaxWriteErrors \in Nat

VARIABLES
  known,        \* documents rows inserted so far: 1..known
  status,       \* [Docs -> fetch_status]
  attempts,     \* [Docs -> attempts]
  waiting,      \* documents whose next_attempt_at lies ahead
  files,        \* [Paths -> "none", "partial" or "whole"]
  pc,           \* where drain() is
  todo,         \* ids of this cycle not yet handled
  asked,        \* history: [Docs -> requests sent for it]
  deferrals,    \* history: gets deferred after they had sent a request
  crashes, writeErrors

rowVars == <<status, attempts, waiting>>
vars == <<known, rowVars, files, pc, todo, asked, deferrals, crashes, writeErrors>>

Init ==
  /\ known = 0
  /\ status = [d \in Docs |-> "pending"]
  /\ attempts = [d \in Docs |-> 0]
  /\ waiting = {}
  /\ files = [p \in Paths |-> "none"]
  /\ pc = "idle"
  /\ todo = {}
  /\ asked = [d \in Docs |-> 0]
  /\ deferrals = 0
  /\ crashes = 0
  /\ writeErrors = 0

-----------------------------------------------------------------------------
(* The rest of the world.                                                   *)

\* The poller's transaction commits a filing with its documents row.
Insert ==
  /\ known < MaxDocs
  /\ known' = known + 1
  /\ UNCHANGED <<rowVars, files, pc, todo, asked, deferrals, crashes, writeErrors>>

\* next_attempt_at passes.
BackoffOver(d) ==
  /\ d \in waiting
  /\ waiting' = waiting \ {d}
  /\ UNCHANGED <<known, status, attempts, files, pc, todo, asked, deferrals, crashes,
                 writeErrors>>

-----------------------------------------------------------------------------
(* drain().                                                                 *)

\* Faults: the select does not look at next_attempt_at, or takes only rows
\* in which it is null.
SelectableEager == {d \in 1..known : status[d] = "pending"}

SelectableUntried == {d \in 1..known : status[d] = "pending" /\ attempts[d] = 0}

Selectable == {d \in 1..known : status[d] = "pending" /\ d \notin waiting}

StartDrain ==
  /\ pc = "idle"
  /\ Selectable # {}
  /\ todo' = {d \in Selectable : Cardinality({e \in Selectable : e < d}) < Limit}
  /\ pc' = "fetch"
  /\ UNCHANGED <<known, rowVars, files, asked, deferrals, crashes, writeErrors>>

\* Nothing to do: drain() returns.
DrainEmpty == pc = "idle" /\ Selectable = {} /\ UNCHANGED vars

IsNext(d) == d \in todo /\ \A e \in todo : d <= e

\* On to the next id of the cycle; after the last one drain() returns.
Handled(d) ==
  /\ todo' = todo \ {d}
  /\ pc' = IF todo = {d} THEN "idle" ELSE "fetch"

\* A get() for d that sends n requests.
Gets(d, n) ==
  /\ pc = "fetch"
  /\ IsNext(d)
  /\ asked' = [asked EXCEPT ![d] = @ + n]

\* "deferred": the budget or the breaker, before the first request or after
\* any but the last.  The rest of the cycle would be refused too.
FetchDeferred(d) ==
  /\ \E n \in 0..(Retries - 1) :
       /\ Gets(d, n)
       /\ IF n = 0
            THEN UNCHANGED deferrals
            ELSE deferrals < MaxDeferrals /\ deferrals' = deferrals + 1
  /\ todo' = {}
  /\ pc' = "idle"
  /\ UNCHANGED <<known, rowVars, files, crashes, writeErrors>>

\* Fault: a failed attempt is not counted.
ExhaustedUncounted(d) ==
  /\ \E n \in 1..Retries : Gets(d, n)
  /\ asked[d] <= 20
  /\ waiting' = waiting \cup {d}
  /\ Handled(d)
  /\ UNCHANGED <<known, status, attempts, files, deferrals, crashes, writeErrors>>

\* "exhausted": a 404, or MAX_RETRIES requests without a body.
FetchExhausted(d) ==
  /\ \E n \in 1..Retries : Gets(d, n)
  /\ attempts' = [attempts EXCEPT ![d] = @ + 1]
  /\ IF attempts[d] + 1 >= MaxAttempts
       THEN status' = [status EXCEPT ![d] = "failed"] /\ UNCHANGED waiting
       ELSE waiting' = waiting \cup {d} /\ UNCHANGED status
  /\ Handled(d)
  /\ UNCHANGED <<known, files, deferrals, crashes, writeErrors>>

\* More than MAX_BYTES, or an exception of another kind: never retried.
FetchUnusable(d) ==
  /\ d \notin Barred
  /\ \E n \in 1..Retries : Gets(d, n)
  /\ status' = [status EXCEPT ![d] = "failed"]
  /\ Handled(d)
  /\ UNCHANGED <<known, attempts, waiting, files, deferrals, crashes, writeErrors>>

\* Fault: the row is committed before the file is written.
FetchBodyCommitsFirst(d) ==
  /\ d \notin Barred
  /\ \E n \in 1..Retries : Gets(d, n)
  /\ status' = [status EXCEPT ![d] = "fetched"]
  /\ pc' = IF files[Path[d]] = "none" THEN "write" ELSE "commit"
  /\ UNCHANGED <<known, attempts, waiting, files, todo, deferrals, crashes, writeErrors>>

\* A body arrives; the file is opened - created empty - unless its path
\* exists already.
FetchBody(d) ==
  /\ d \notin Barred
  /\ \E n \in 1..Retries : Gets(d, n)
  /\ IF files[Path[d]] = "none"
       THEN files' = [files EXCEPT ![Path[d]] = "partial"] /\ pc' = "write"
       ELSE UNCHANGED files /\ pc' = "commit"
  /\ UNCHANGED <<known, rowVars, todo, deferrals, crashes, writeErrors>>

WriteFile(d) ==
  /\ pc = "write"
  /\ IsNext(d)
  /\ files' = [files EXCEPT ![Path[d]] = "whole"]
  /\ pc' = "commit"
  /\ UNCHANGED <<known, rowVars, todo, asked, deferrals, crashes, writeErrors>>

\* write_bytes raises; nothing in drain() catches it.
WriteRaises ==
  /\ pc = "write"
  /\ writeErrors < MaxWriteErrors
  /\ writeErrors' = writeErrors + 1
  /\ todo' = {}
  /\ pc' = "idle"
  /\ UNCHANGED <<known, rowVars, files, asked, deferrals, crashes>>

CommitFetched(d) ==
  /\ pc = "commit"
  /\ IsNext(d)
  /\ status' = [status EXCEPT ![d] = "fetched"]
  /\ Handled(d)
  /\ UNCHANGED <<known, attempts, waiting, files, asked, deferrals, crashes, writeErrors>>

Crash ==
  /\ pc # "idle"
  /\ crashes < MaxCrashes
  /\ crashes' = crashes + 1
  /\ todo' = {}
  /\ pc' = "idle"
  /\ UNCHANGED <<known, rowVars, files, asked, deferrals, writeErrors>>

\* Requests were sent; the process dies before anything is committed.
CrashAfterRequest(d) ==
  /\ \E n \in 1..Retries : Gets(d, n)
  /\ crashes < MaxCrashes
  /\ crashes' = crashes + 1
  /\ todo' = {}
  /\ pc' = "idle"
  /\ UNCHANGED <<known, rowVars, files, deferrals, writeErrors>>

-----------------------------------------------------------------------------
Answer(d) ==
  FetchExhausted(d) \/ FetchUnusable(d) \/ FetchBody(d) \/ WriteFile(d) \/ CommitFetched(d)

Next ==
  \/ Insert
  \/ \E d \in Docs : BackoffOver(d) \/ FetchDeferred(d) \/ Answer(d) \/ CrashAfterRequest(d)
  \/ StartDrain \/ DrainEmpty \/ WriteRaises \/ Crash

Spec == Init /\ [][Next]_vars

\* The supervisor starts a cycle every 30 s (supervisor.py:112-114), clocks
\* advance and each get() ends.  NSE does not defer them all for ever, but
\* those of a barred document it may.
FairSpec ==
  /\ Spec
  /\ WF_vars(StartDrain)
  /\ \A d \in Docs : WF_vars(BackoffOver(d)) /\ WF_vars(FetchDeferred(d) \/ Answer(d))
  /\ \A d \in Docs \ Barred : SF_vars(Answer(d))

-----------------------------------------------------------------------------
TypeOK ==
  /\ known \in 0..MaxDocs
  /\ status \in [Docs -> {"pending", "fetched", "failed"}]
  /\ attempts \in [Docs -> 0..MaxAttempts]
  /\ waiting \subseteq Docs
  /\ files \in [Paths -> {"none", "partial", "whole"}]
  /\ pc \in {"idle", "fetch", "write", "commit"}
  /\ todo \subseteq 1..known
  /\ pc = "idle" => todo = {}
  /\ asked \in [Docs -> Nat]
  /\ deferrals \in 0..MaxDeferrals
  /\ crashes \in 0..MaxCrashes
  /\ writeErrors \in 0..MaxWriteErrors

\* The other readers of the table open local_path: a fetched row never names
\* a file that was not stored, whatever crash or error hit the store.
FetchedIsStored == \A d \in Docs : status[d] = "fetched" => files[Path[d]] # "none"

\* "Content-addressed storage: files land at .../{sha256}": the file a fetched
\* row names holds the whole body its sha256 was taken of (documents.py:3-7).
FetchedIsWhole == \A d \in Docs : status[d] = "fetched" => files[Path[d]] = "whole"

\* "Climb the retry ladder before declaring the URL dead" (documents.py:87-92):
\* each document, whatever its URL answers, costs NSE one get() per rung, one
\* per crash or write error, and the requests of the gets that ended deferred
\* after sending some, which no rung counts.
LadderBoundsRequests ==
  \A d \in Docs :
    asked[d] <= Retries * (MaxAttempts + crashes + writeErrors)
                  + (Retries - 1) * deferrals

\* A document waiting out its backoff is not asked for, in this cycle or in
\* the ones that start before the backoff is over.
BackoffHonoured == [][\A d \in waiting : asked'[d] = asked[d]]_vars

\* A barred document may end its get() deferred each time, which ends the
\* cycle, and head the queue for ever.
AheadOfBarred == {d \in Docs : \A e \in Barred : d < e}

\* No document is stuck behind the ones that fail: each ends up fetched or
\* failed, however many of its elders 404, wait or are refused, unless one of
\* them is barred.
EveryDocumentSettles == \A d \in AheadOfBarred : d <= known ~> status[d] # "pending"

-----------------------------------------------------------------------------
(* The inductive invariant.                                                 *)

\* The ids of a cycle are pending and due until they are handled.
CycleIsDue == \A d \in todo : status[d] = "pending" /\ d \notin waiting

\* The get() whose body is at hand, or that settled the document off the
\* ladder.
OffLadder(d) ==
  IF \/ status[d] # "pending" /\ attempts[d] < MaxAttempts
     \/ pc \in {"write", "commit"} /\ IsNext(d)
    THEN 1 ELSE 0

\* A pending document has a rung of the ladder left, and the requests of each
\* get() are accounted for by a rung, a crash, an error or a deferral.
RungsAccounted ==
  \A d \in Docs :
    /\ status[d] = "pending" => attempts[d] < MaxAttempts
    /\ asked[d] <= Retries * (attempts[d] + OffLadder(d) + crashes + writeErrors)
                     + (Retries - 1) * deferrals

\* The file of the document at hand exists from the moment it is opened.
FileOpened ==
  pc \in {"write", "commit"} =>
    \A d \in todo : IsNext(d) => files[Path[d]] # "none"

QueueInvariant ==
  /\ TypeOK
  /\ CycleIsDue
  /\ RungsAccounted
  /\ FileOpened
  /\ FetchedIsStored
=============================================================================
