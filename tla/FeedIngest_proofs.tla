------------------------- MODULE FeedIngest_proofs -------------------------
(***************************************************************************)
(* The validators of the RSS poller cover only what is stored, as long as  *)
(* every insert commits, for any feeds, windows, numbers of disclosures    *)
(* and of restarts.                                                        *)
(*                                                                         *)
(* Without a failure and without a backfill the ingest thread is the only  *)
(* writer: what it found missing when it fetched is missing still when it  *)
(* inserts, so no key conflicts; and what it did not find missing is       *)
(* stored, because a key names its item.                                   *)
(***************************************************************************)
EXTENDS FeedIngest, TLAPS

\* A key names its item, of a row and of one about to be inserted.
KeysNameItems == \A r \in rows \cup todo \cup cliTodo : r.key[2] = r.item

FeedTypes ==
  /\ DOMAIN validator = Feeds
  /\ failures \in Nat /\ backfills \in Nat
  /\ KeysNameItems

ItemsOf(R) == {r.item : r \in R}

Undisturbed == failures = 0 /\ backfills = 0

\* One writer: no process is in the way of the open transaction.
OneWriter ==
  Undisturbed =>
    /\ cliPc = "idle"
    /\ pc \in {"insert", "catchup"} => ~Conflicts(todo)

\* What the feed being inserted has shown is stored or about to be.
BodyAtHand ==
  Undisturbed /\ pc = "insert" =>
    \A f \in Feeds : f = Head(queue) /\ validator[f] # None =>
      Shown(f, validator[f]) \subseteq Stored \cup ItemsOf(todo)

FeedInvariant == FeedTypes /\ OneWriter /\ BodyAtHand /\ ValidatorCoversCommitted

-----------------------------------------------------------------------------
LEMMA RssKeys == ASSUME NEW i PROVE RssRow(i).key[2] = i /\ RssRow(i).item = i
BY DEF RssRow

LEMMA ApiKeys == ASSUME NEW i, NEW p PROVE ApiRow(i, p).key[2] = i /\ ApiRow(i, p).item = i
BY DEF ApiRow

\* What is not found missing is stored, and what is conflicts with nothing.
LEMMA SeenIsStored ==
  ASSUME KeysNameItems, NEW R, \A r \in R : r.key[2] = r.item
  PROVE  /\ ~Conflicts(Unseen(R))
         /\ \A r \in Unseen(R) : r.key[2] = r.item
         /\ ItemsOf(R) \subseteq Stored \cup ItemsOf(Unseen(R))
<1>1. ~Conflicts(Unseen(R)) /\ Unseen(R) \subseteq R
  BY DEF Conflicts, Unseen, Keys
<1>2. ASSUME NEW r \in R, r \notin Unseen(R) PROVE r.item \in Stored
  <2>1. PICK s \in rows : s.key = r.key
    BY <1>2 DEF Unseen, Keys
  <2>2. s.item = r.item
    BY <2>1 DEF KeysNameItems
  <2> QED BY <2>2 DEF Stored
<1> QED BY <1>1, <1>2 DEF ItemsOf

\* Once disturbed, only the types matter.
LEMMA DisturbedPreserves ==
  ASSUME FeedTypes', ~Undisturbed'
  PROVE  FeedInvariant'
BY DEF FeedInvariant, OneWriter, BodyAtHand, ValidatorCoversCommitted, Undisturbed

\* A failing insert disturbs, because nothing conflicts.
LEMMA FailureDisturbs ==
  ASSUME FeedInvariant, Fails(todo), pc \in {"insert", "catchup"}, UNCHANGED backfills
  PROVE  failures' \in Nat /\ ~Undisturbed'
<1>1. CASE Conflicts(todo) /\ UNCHANGED failures
  BY <1>1 DEF FeedInvariant, FeedTypes, OneWriter, Undisturbed
<1>2. CASE failures' = failures + 1
  BY <1>2 DEF FeedInvariant, FeedTypes, Undisturbed
<1> QED BY <1>1, <1>2 DEF Fails

LEMMA InitFeed == Init => FeedInvariant
<1> SUFFICES ASSUME Init PROVE FeedInvariant
  OBVIOUS
<1> USE DEF Init
<1>1. FeedTypes
  BY DEF FeedTypes, KeysNameItems
<1>2. OneWriter /\ BodyAtHand
  BY DEF OneWriter, BodyAtHand
<1>3. ValidatorCoversCommitted
  BY DEF ValidatorCoversCommitted, ValidatorCoversStored
<1> QED BY <1>1, <1>2, <1>3 DEF FeedInvariant

-----------------------------------------------------------------------------
LEMMA ClockPreserves ==
  ASSUME FeedInvariant, (\E f \in Feeds : Broadcast(f) \/ BecomeDue(f)) \/ DaysPass
  PROVE  FeedInvariant'
<1>1. UNCHANGED <<rows, validator, queue, pc, todo, cliPc, cliTodo, backfills, failures>>
  BY DEF Broadcast, BecomeDue, DaysPass, threadVars, cliVars
<1>2. FeedTypes' /\ OneWriter'
  BY <1>1 DEF FeedInvariant, FeedTypes, KeysNameItems, OneWriter, Undisturbed, Conflicts, Keys
<1>3. BodyAtHand' /\ ValidatorCoversCommitted'
  BY <1>1 DEF FeedInvariant, BodyAtHand, Undisturbed, ValidatorCoversCommitted,
              ValidatorCoversStored, Stored, ItemsOf
<1> QED BY <1>2, <1>3 DEF FeedInvariant

LEMMA CliPreserves ==
  ASSUME FeedInvariant, CliFetch \/ CliEnds
  PROVE  FeedInvariant'
<1>1. CASE CliFetch
  <2> DEFINE R == ApiRows("cli")
  <2>1. \A r \in R : r.key[2] = r.item
    BY ApiKeys DEF ApiRows
  <2>2. \A r \in Unseen(R) : r.key[2] = r.item
    BY <2>1, SeenIsStored DEF FeedInvariant, FeedTypes
  <2>3. /\ cliTodo' = Unseen(R) /\ backfills' = backfills + 1
        /\ UNCHANGED <<rows, validator, todo, failures>>
    BY <1>1 DEF CliFetch, threadVars
  <2> HIDE DEF R
  <2>4. FeedTypes' /\ ~Undisturbed'
    BY <2>2, <2>3 DEF FeedInvariant, FeedTypes, KeysNameItems, Undisturbed
  <2> QED BY <2>4, DisturbedPreserves
<1>2. CASE CliEnds
  <2>1. /\ rows' \subseteq rows \cup cliTodo /\ cliTodo' = {}
        /\ UNCHANGED <<validator, todo, failures, backfills>> /\ cliPc = "insert"
    BY <1>2 DEF CliEnds, threadVars
  <2>2. FeedTypes' /\ ~Undisturbed'
    BY <2>1 DEF FeedInvariant, FeedTypes, KeysNameItems, OneWriter, Undisturbed
  <2> QED BY <2>2, DisturbedPreserves
<1> QED BY <1>1, <1>2

LEMMA PassPreserves ==
  ASSUME FeedInvariant, StartPass \/ PollSkipped
  PROVE  FeedInvariant'
<1>1. /\ UNCHANGED <<rows, validator, todo, cliPc, cliTodo, backfills, failures>>
      /\ pc \in {"idle", "poll"} /\ pc' \in {"idle", "poll"}
  BY DEF StartPass, PollSkipped, PollDone, cliVars
<1>2. FeedTypes'
  BY <1>1 DEF FeedInvariant, FeedTypes, KeysNameItems
<1>3. OneWriter' /\ BodyAtHand'
  BY <1>1 DEF FeedInvariant, OneWriter, BodyAtHand, Undisturbed
<1>4. ValidatorCoversCommitted'
  BY <1>1 DEF FeedInvariant, ValidatorCoversCommitted, ValidatorCoversStored, Stored
<1> QED BY <1>2, <1>3, <1>4 DEF FeedInvariant

\* The body of a 200 is at hand when its validator is.
LEMMA BodyPreserves ==
  ASSUME FeedInvariant, PollBody
  PROVE  FeedInvariant'
<1> DEFINE f == Head(queue)
           R == {RssRow(i) : i \in Shown(f, broadcast[f])}
<1>1. /\ pc = "poll" /\ pc' = "insert" /\ todo' = Unseen(R)
      /\ validator' = [validator EXCEPT ![f] = broadcast[f]]
      /\ UNCHANGED <<broadcast, rows, queue, cliPc, cliTodo, backfills, failures>>
  BY DEF PollBody, cliVars
<1>2. /\ \A r \in R : r.key[2] = r.item
      /\ ItemsOf(R) = Shown(f, broadcast[f])
  BY RssKeys DEF ItemsOf
<1>3. /\ ~Conflicts(Unseen(R)) /\ \A r \in Unseen(R) : r.key[2] = r.item
      /\ Shown(f, broadcast[f]) \subseteq Stored \cup ItemsOf(Unseen(R))
  <2> HIDE DEF R
  <2> QED BY <1>2, SeenIsStored DEF FeedInvariant, FeedTypes
<1> HIDE DEF R
<1>4. FeedTypes'
  BY <1>1, <1>3 DEF FeedInvariant, FeedTypes, KeysNameItems
<1>5. OneWriter'
  BY <1>1, <1>3 DEF FeedInvariant, OneWriter, Undisturbed, Conflicts, Keys
<1>6. \A g \in Feeds : validator'[g] = IF g = f THEN broadcast[f] ELSE validator[g]
  BY <1>1 DEF FeedInvariant, FeedTypes
<1>7. BodyAtHand'
  <2> SUFFICES ASSUME NEW g \in Feeds, g = f
               PROVE  Shown(g, validator'[g]) \subseteq Stored' \cup ItemsOf(todo)'
    BY <1>1 DEF BodyAtHand
  <2>1. validator'[g] = broadcast[f] /\ Stored' = Stored
    BY <1>1, <1>6 DEF Stored
  <2>2. Shown(f, broadcast[f]) \subseteq Stored' \cup ItemsOf(todo)'
    BY <1>1, <1>3, <2>1 DEF ItemsOf
  <2> QED BY <2>1, <2>2
<1>8. ValidatorCoversCommitted'
  BY <1>1, <1>6 DEF FeedInvariant, ValidatorCoversCommitted, ValidatorCoversStored, Stored
<1> QED BY <1>4, <1>5, <1>7, <1>8 DEF FeedInvariant

LEMMA CommitPreserves ==
  ASSUME FeedInvariant, InsertCommits \/ CatchUpCommits
  PROVE  FeedInvariant'
<1>1. /\ rows' = rows \cup todo /\ todo' = {} /\ pc' \in {"idle", "poll"}
      /\ UNCHANGED <<validator, cliPc, cliTodo, backfills, failures>>
      /\ pc = "insert" \/ (pc = "catchup" /\ pc' = "idle")
  BY DEF InsertCommits, CatchUpCommits, PollDone, cliVars
<1>2. FeedTypes'
  BY <1>1 DEF FeedInvariant, FeedTypes, KeysNameItems
<1>3. OneWriter' /\ BodyAtHand'
  BY <1>1 DEF FeedInvariant, OneWriter, BodyAtHand, Undisturbed
<1>4. Stored' = Stored \cup ItemsOf(todo)
  BY <1>1 DEF Stored, ItemsOf
<1>5. ValidatorCoversCommitted'
  <2> SUFFICES ASSUME Undisturbed, NEW f \in Feeds, validator[f] # None
               PROVE  Shown(f, validator[f]) \subseteq Stored \cup ItemsOf(todo)
    BY <1>1, <1>4 DEF ValidatorCoversCommitted, ValidatorCoversStored, Undisturbed
  <2>1. CASE pc = "insert" /\ f = Head(queue)
    BY <2>1 DEF FeedInvariant, BodyAtHand
  <2>2. CASE ~(pc = "insert" /\ f = Head(queue))
    BY <2>2 DEF FeedInvariant, ValidatorCoversCommitted, ValidatorCoversStored, Undisturbed
  <2> QED BY <2>1, <2>2
<1> QED BY <1>2, <1>3, <1>5 DEF FeedInvariant

LEMMA RaisePreserves ==
  ASSUME FeedInvariant, InsertRaises \/ CatchUpRaises
  PROVE  FeedInvariant'
<1>1. /\ Fails(todo) /\ pc \in {"insert", "catchup"} /\ todo' = {}
      /\ UNCHANGED <<rows, validator, cliTodo, backfills>>
  BY DEF InsertRaises, CatchUpRaises, cliVars
<1>2. failures' \in Nat /\ ~Undisturbed'
  BY <1>1, FailureDisturbs
<1>3. FeedTypes'
  BY <1>1, <1>2 DEF FeedInvariant, FeedTypes, KeysNameItems
<1> QED BY <1>2, <1>3, DisturbedPreserves

LEMMA CatchUpPreserves ==
  ASSUME FeedInvariant, CatchUpFetch
  PROVE  FeedInvariant'
<1> DEFINE R == ApiRows("ingest")
<1>1. /\ pc = "idle" /\ pc' = "catchup" /\ todo' = Unseen(R)
      /\ UNCHANGED <<rows, validator, cliPc, cliTodo, backfills, failures>>
  BY DEF CatchUpFetch, cliVars
<1>2. \A r \in R : r.key[2] = r.item
  BY ApiKeys DEF ApiRows
<1> HIDE DEF R
<1>3. ~Conflicts(Unseen(R)) /\ \A r \in Unseen(R) : r.key[2] = r.item
  BY <1>2, SeenIsStored DEF FeedInvariant, FeedTypes
<1>4. FeedTypes'
  BY <1>1, <1>3 DEF FeedInvariant, FeedTypes, KeysNameItems
<1>5. OneWriter' /\ BodyAtHand'
  BY <1>1, <1>3 DEF FeedInvariant, OneWriter, BodyAtHand, Undisturbed, Conflicts, Keys
<1>6. ValidatorCoversCommitted'
  BY <1>1 DEF FeedInvariant, ValidatorCoversCommitted, ValidatorCoversStored, Stored
<1> QED BY <1>4, <1>5, <1>6 DEF FeedInvariant

\* A restart forgets the validators with the transaction.
LEMMA RestartPreserves ==
  ASSUME FeedInvariant, Restart
  PROVE  FeedInvariant'
<1>1. /\ validator' = [f \in Feeds |-> None] /\ pc' = "idle" /\ todo' = {}
      /\ UNCHANGED <<rows, cliPc, cliTodo, backfills, failures>>
  BY DEF Restart, cliVars
<1>2. FeedTypes' /\ OneWriter' /\ BodyAtHand'
  BY <1>1 DEF FeedInvariant, FeedTypes, KeysNameItems, OneWriter, BodyAtHand, Undisturbed
<1>3. ValidatorCoversCommitted'
  BY <1>1 DEF ValidatorCoversCommitted, ValidatorCoversStored
<1> QED BY <1>2, <1>3 DEF FeedInvariant

LEMMA StepFeed == FeedInvariant /\ [Next]_vars => FeedInvariant'
<1> SUFFICES ASSUME FeedInvariant, [Next]_vars PROVE FeedInvariant'
  OBVIOUS
<1>1. CASE UNCHANGED vars
  BY <1>1 DEF vars, threadVars, cliVars, FeedInvariant, FeedTypes, KeysNameItems, OneWriter,
              BodyAtHand, Undisturbed, Conflicts, Keys, ValidatorCoversCommitted,
              ValidatorCoversStored, Stored, ItemsOf
<1> QED BY <1>1, ClockPreserves, CliPreserves, PassPreserves, BodyPreserves, CommitPreserves,
           RaisePreserves, CatchUpPreserves, RestartPreserves DEF Next, PollStep, CatchUpEnds

(* A validator that will make NSE answer 304 covers only what the table      *)
(* holds ("304 - content is empty, use your cache", nse_client.py:78), as    *)
(* long as every insert commits, wherever a restart comes.                   *)
THEOREM ValidatorsCovered == Spec => []ValidatorCoversCommitted
<1>1. FeedInvariant => ValidatorCoversCommitted
  BY DEF FeedInvariant
<1> QED BY <1>1, InitFeed, StepFeed, PTL DEF Spec
=============================================================================
