------------------------ MODULE DocumentQueue_proofs ------------------------
(***************************************************************************)
(* The document queue's promises for any number of documents, any sharing  *)
(* of files among them, and any number of crashes and write errors.        *)
(***************************************************************************)
EXTENDS DocumentQueue, TLAPS

\* Products in the bound on the requests.
LEMMA MoreRungs ==
  ASSUME NEW R \in Nat, NEW x \in Nat, NEW y \in Nat, x <= y
  PROVE  /\ R * x \in Nat /\ R * y \in Nat
         /\ R * x <= R * y
         /\ x < y => R * x + R <= R * y
<1>1. PICK k \in Nat : y = x + k
  BY y - x \in Nat
<1>2. R * y = R * x + R * k
  BY <1>1
<1>3. R * x \in Nat /\ R * k \in Nat
  OBVIOUS
<1>4. CASE k = 0
  BY <1>1, <1>2, <1>3, <1>4
<1>5. CASE k # 0
  <2>1. PICK j \in Nat : k = j + 1
    BY <1>5, k - 1 \in Nat
  <2>2. R * k = R * j + R /\ R * j \in Nat
    BY <2>1
  <2> QED BY <1>2, <1>3, <2>2
<1> QED BY <1>4, <1>5

\* The gets of a document, a crash or an error for each that left no mark.
Spent(d) == attempts[d] + OffLadder(d) + crashes + writeErrors

\* The numbers of a row are numbers.
LEMMA Counts ==
  ASSUME TypeOK
  PROVE  /\ \A d \in Docs : /\ asked[d] \in Nat /\ attempts[d] \in Nat
                            /\ OffLadder(d) \in {0, 1} /\ Spent(d) \in Nat
         /\ crashes \in Nat /\ writeErrors \in Nat /\ deferrals \in Nat
         /\ Retries \in Nat /\ Retries # 0 /\ Retries - 1 \in Nat
BY DocumentAssumption DEF TypeOK, OffLadder, Spent

\* What a get() does to the history.
LEMMA GetsCounted ==
  ASSUME TypeOK, NEW d \in Docs, NEW n \in 0..Retries, Gets(d, n)
  PROVE  /\ n \in Nat /\ n <= Retries
         /\ asked' \in [Docs -> Nat]
         /\ asked'[d] = asked[d] + n
         /\ \A e \in Docs : e # d => asked'[e] = asked[e]
<1>1. asked \in [Docs -> Nat] /\ Retries \in Nat
  BY DocumentAssumption DEF TypeOK
<1>2. n \in Nat /\ n <= Retries /\ asked[d] + n \in Nat
  BY <1>1
<1> QED BY <1>1, <1>2 DEF Gets

\* A step that leaves the requests alone and forgets no get() keeps the
\* account.
LEMMA AccountKept ==
  ASSUME TypeOK, TypeOK', NEW d \in Docs,
         asked[d] <= Retries * Spent(d) + (Retries - 1) * deferrals,
         asked'[d] = asked[d], Spent(d) <= Spent(d)', deferrals' = deferrals
  PROVE  asked'[d] <= Retries * Spent(d)' + (Retries - 1) * deferrals'
<1>1. Spent(d) \in Nat /\ Spent(d)' \in Nat /\ asked[d] \in Nat /\ deferrals \in Nat
  <2>1. Spent(d)' \in Nat
    BY DocumentAssumption DEF TypeOK, OffLadder, Spent
  <2> QED BY <2>1, Counts
<1>2. /\ Retries * Spent(d) \in Nat /\ Retries * Spent(d)' \in Nat
      /\ Retries * Spent(d) <= Retries * Spent(d)'
  BY <1>1, Counts, MoreRungs
<1>3. (Retries - 1) * deferrals \in Nat
  BY <1>1, Counts
<1> QED BY <1>1, <1>2, <1>3

\* Nor does a get() that leaves a mark of its own.
LEMMA AccountGrows ==
  ASSUME TypeOK, TypeOK', NEW d \in Docs, NEW n \in 0..Retries,
         asked[d] <= Retries * Spent(d) + (Retries - 1) * deferrals,
         asked'[d] = asked[d] + n, Spent(d) < Spent(d)', deferrals' = deferrals
  PROVE  asked'[d] <= Retries * Spent(d)' + (Retries - 1) * deferrals'
<1>1. Spent(d) \in Nat /\ Spent(d)' \in Nat /\ asked[d] \in Nat /\ deferrals \in Nat
      /\ Retries \in Nat /\ n \in Nat /\ n <= Retries
  <2>1. Spent(d)' \in Nat
    BY DocumentAssumption DEF TypeOK, OffLadder, Spent
  <2> QED BY <2>1, Counts
<1>2. /\ Retries * Spent(d) \in Nat /\ Retries * Spent(d)' \in Nat
      /\ Retries * Spent(d) + Retries <= Retries * Spent(d)'
  BY <1>1, MoreRungs
<1>3. (Retries - 1) * deferrals \in Nat
  BY <1>1, Counts
<1> QED BY <1>1, <1>2, <1>3

LEMMA InitQueue == Init => QueueInvariant
<1> USE DocumentAssumption DEF Docs
<1> SUFFICES ASSUME Init PROVE QueueInvariant
  OBVIOUS
<1>1. TypeOK
  BY DEF Init, TypeOK
<1>2. CycleIsDue /\ FileOpened /\ FetchedIsStored
  BY DEF Init, CycleIsDue, FileOpened, FetchedIsStored
<1>3. RungsAccounted
  <2> SUFFICES ASSUME NEW d \in Docs
               PROVE  0 <= Retries * Spent(d) + (Retries - 1) * deferrals
    BY DEF Init, RungsAccounted, Spent
  <2>1. Spent(d) = 0 /\ deferrals = 0
    BY DEF Init, Spent, OffLadder
  <2>2. Retries * 0 = 0 /\ (Retries - 1) * 0 = 0
    OBVIOUS
  <2> QED BY <2>1, <2>2
<1> QED BY <1>1, <1>2, <1>3 DEF QueueInvariant

\* The actions of the world around drain() touch neither its cycle nor files.
LEMMA WorldPreserves ==
  ASSUME QueueInvariant, Insert \/ \E d \in Docs : BackoffOver(d)
  PROVE  QueueInvariant'
<1> USE DocumentAssumption DEF QueueInvariant, rowVars, Docs
<1>1. CASE Insert
  <2> USE <1>1 DEF Insert
  <2>1. known' \in 0..MaxDocs /\ todo' \subseteq 1..known'
    BY DEF TypeOK
  <2>2. TypeOK'
    BY <2>1 DEF TypeOK
  <2> QED BY <2>2 DEF CycleIsDue, RungsAccounted, OffLadder, FileOpened, FetchedIsStored, IsNext
<1>2. ASSUME NEW d \in Docs, BackoffOver(d) PROVE QueueInvariant'
  <2> USE <1>2 DEF BackoffOver
  <2>1. TypeOK'
    BY DEF TypeOK
  <2> QED BY <2>1 DEF CycleIsDue, RungsAccounted, OffLadder, FileOpened, FetchedIsStored, IsNext
<1> QED BY <1>1, <1>2

LEMMA StartPreserves ==
  ASSUME QueueInvariant, StartDrain
  PROVE  QueueInvariant'
<1> USE DocumentAssumption DEF QueueInvariant, StartDrain, rowVars, Docs
<1>1. todo' \subseteq Selectable
  OBVIOUS
<1>2. TypeOK'
  BY <1>1 DEF TypeOK, Selectable
<1>3. CycleIsDue' /\ RungsAccounted'
  BY <1>1 DEF CycleIsDue, RungsAccounted, OffLadder, Selectable
<1>4. FileOpened' /\ FetchedIsStored'
  BY DEF FileOpened, FetchedIsStored
<1> QED BY <1>2, <1>3, <1>4

\* The cycle ends: deferred, by an error or with the process.
LEMMA EndsPreserves ==
  ASSUME QueueInvariant,
         \/ WriteRaises \/ Crash
         \/ \E d \in Docs : FetchDeferred(d) \/ CrashAfterRequest(d)
  PROVE  QueueInvariant'
<1> USE DocumentAssumption DEF QueueInvariant, rowVars
<1>1. CASE WriteRaises \/ Crash
  <2> USE <1>1 DEF WriteRaises, Crash
  <2>1. TypeOK'
    BY DEF TypeOK
  <2>2. RungsAccounted'
    <3> SUFFICES ASSUME NEW e \in Docs
                 PROVE  asked'[e] <= Retries * Spent(e)' + (Retries - 1) * deferrals'
      BY DEF RungsAccounted, Spent
    <3>1. asked[e] <= Retries * Spent(e) + (Retries - 1) * deferrals
      BY DEF RungsAccounted, Spent
    <3>2. Spent(e) <= Spent(e)'
      BY Counts DEF Spent, OffLadder, TypeOK
    <3> QED BY <2>1, <3>1, <3>2, AccountKept
  <2> QED BY <2>1, <2>2 DEF CycleIsDue, FileOpened, FetchedIsStored
<1>2. ASSUME NEW d \in Docs, CrashAfterRequest(d) PROVE QueueInvariant'
  <2> USE <1>2 DEF CrashAfterRequest
  <2>0. PICK n \in 1..Retries : pc = "fetch" /\ asked' = [asked EXCEPT ![d] = @ + n]
    BY DEF Gets
  <2>1. TypeOK'
    BY <2>0, Counts DEF TypeOK
  <2>2. RungsAccounted'
    <3> SUFFICES ASSUME NEW e \in Docs
                 PROVE  asked'[e] <= Retries * Spent(e)' + (Retries - 1) * deferrals'
      BY DEF RungsAccounted, Spent
    <3>1. asked[e] <= Retries * Spent(e) + (Retries - 1) * deferrals
      BY DEF RungsAccounted, Spent
    <3>2. Spent(e) < Spent(e)'
      BY <2>0, Counts DEF Spent, OffLadder, TypeOK
    <3>3. asked'[e] = asked[e] + n \/ asked'[e] = asked[e] + 0
      BY <2>0, Counts DEF TypeOK
    <3>4. TypeOK /\ deferrals' = deferrals /\ 0 \in 0..Retries /\ n \in 0..Retries
      BY Counts
    <3> HIDE DEF QueueInvariant, CrashAfterRequest
    <3> QED BY <2>1, <3>1, <3>2, <3>3, <3>4, AccountGrows
  <2> QED BY <2>1, <2>2 DEF CycleIsDue, FileOpened, FetchedIsStored
<1>3. ASSUME NEW d \in Docs, FetchDeferred(d) PROVE QueueInvariant'
  <2> USE <1>3 DEF FetchDeferred
  <2>0. PICK n \in 0..(Retries - 1) :
          /\ pc = "fetch" /\ asked' = [asked EXCEPT ![d] = @ + n]
          /\ IF n = 0 THEN deferrals' = deferrals
                      ELSE deferrals < MaxDeferrals /\ deferrals' = deferrals + 1
    BY DEF Gets
  <2>1. TypeOK'
    BY <2>0, Counts DEF TypeOK
  <2>2. RungsAccounted'
    <3> SUFFICES ASSUME NEW e \in Docs
                 PROVE  asked'[e] <= Retries * Spent(e)' + (Retries - 1) * deferrals'
      BY DEF RungsAccounted, Spent
    <3>1. asked[e] <= Retries * Spent(e) + (Retries - 1) * deferrals
      BY DEF RungsAccounted, Spent
    <3>2. Spent(e)' = Spent(e)
      BY <2>0 DEF Spent, OffLadder
    <3>3. asked'[e] = asked[e] + n \/ asked'[e] = asked[e]
      BY <2>0, Counts DEF TypeOK
    <3>4. /\ deferrals \in Nat /\ Retries - 1 \in Nat /\ deferrals + 1 \in Nat
          /\ asked[e] \in Nat /\ n \in Nat /\ n <= Retries - 1
          /\ Spent(e) \in Nat /\ Retries \in Nat
      BY Counts
    <3>5. /\ Retries * Spent(e) \in Nat /\ (Retries - 1) * deferrals \in Nat
          /\ (Retries - 1) * (deferrals + 1) \in Nat
          /\ (Retries - 1) * deferrals + (Retries - 1) <= (Retries - 1) * (deferrals + 1)
      <4>1. deferrals <= deferrals + 1 /\ deferrals < deferrals + 1
        BY <3>4
      <4> HIDE DEF QueueInvariant, FetchDeferred
      <4> QED BY <3>4, <4>1, MoreRungs
    <3>6. (n = 0 /\ deferrals' = deferrals) \/ deferrals' = deferrals + 1
      BY <2>0
    <3> HIDE DEF QueueInvariant, FetchDeferred
    <3>7. CASE n = 0 /\ deferrals' = deferrals
      BY <3>1, <3>2, <3>3, <3>4, <3>7
    <3>8. CASE deferrals' = deferrals + 1
      BY <3>1, <3>2, <3>3, <3>4, <3>5, <3>8
    <3> QED BY <3>6, <3>7, <3>8
  <2> QED BY <2>1, <2>2 DEF CycleIsDue, FileOpened, FetchedIsStored
<1> QED BY <1>1, <1>2, <1>3

\* The outcomes that settle or defer one document and leave files alone.
LEMMA VerdictPreserves ==
  ASSUME QueueInvariant, NEW d \in Docs, FetchExhausted(d) \/ FetchUnusable(d)
  PROVE  QueueInvariant'
<1> USE DocumentAssumption DEF QueueInvariant, rowVars, Docs, IsNext, Handled
<1>0. d \in todo /\ pc = "fetch" /\ status[d] = "pending" /\ attempts[d] < MaxAttempts
  BY DEF FetchExhausted, FetchUnusable, Gets, CycleIsDue, RungsAccounted
<1>1. PICK n \in 1..Retries : Gets(d, n)
  BY DEF FetchExhausted, FetchUnusable
<1>2. /\ n \in 0..Retries /\ asked' \in [Docs -> Nat]
      /\ asked'[d] = asked[d] + n
      /\ \A e \in Docs : e # d => asked'[e] = asked[e]
  <2>1. TypeOK /\ n \in 0..Retries
    BY Counts
  <2> HIDE DEF QueueInvariant, Docs
  <2> QED BY <1>1, <2>1, GetsCounted
<1>3. deferrals' = deferrals /\ crashes' = crashes /\ writeErrors' = writeErrors
  BY DEF FetchExhausted, FetchUnusable
<1>4. pc' \in {"idle", "fetch"}
  BY DEF FetchExhausted, FetchUnusable
<1>5. /\ status' \in [Docs -> {"pending", "fetched", "failed"}]
      /\ attempts' \in [Docs -> 0..MaxAttempts]
      /\ \A e \in Docs : e # d => status'[e] = status[e] /\ attempts'[e] = attempts[e]
      /\ \/ attempts'[d] = attempts[d] + 1
         \/ attempts'[d] = attempts[d] /\ status'[d] = "failed"
      /\ status'[d] = "pending" => attempts'[d] < MaxAttempts
  <2>1. CASE FetchExhausted(d)
    <3>1. /\ attempts' = [attempts EXCEPT ![d] = @ + 1]
          /\ \/ status' = [status EXCEPT ![d] = "failed"]
             \/ status' = status /\ ~(attempts[d] + 1 >= MaxAttempts)
      BY <2>1 DEF FetchExhausted
    <3>2. /\ attempts \in [Docs -> 0..MaxAttempts] /\ attempts[d] + 1 \in 0..MaxAttempts
          /\ status \in [Docs -> {"pending", "fetched", "failed"}]
      BY <1>0 DEF TypeOK
    <3>3. /\ attempts' \in [Docs -> 0..MaxAttempts] /\ attempts'[d] = attempts[d] + 1
          /\ status' \in [Docs -> {"pending", "fetched", "failed"}]
          /\ \A e \in Docs : e # d => status'[e] = status[e] /\ attempts'[e] = attempts[e]
      BY <3>1, <3>2
    <3>4. status'[d] = "pending" => ~(attempts[d] + 1 >= MaxAttempts)
      BY <3>1, <3>2
    <3>5. status'[d] = "pending" => attempts'[d] < MaxAttempts
      BY <3>2, <3>3, <3>4
    <3> QED BY <3>3, <3>5
  <2>2. CASE FetchUnusable(d)
    BY <1>0, <2>2, Counts DEF FetchUnusable, TypeOK
  <2> QED BY <2>1, <2>2
<1>10. /\ waiting' = waiting \cup {d} \/ waiting' = waiting
      /\ todo' = todo \ {d} /\ known' = known /\ files' = files
  BY DEF FetchExhausted, FetchUnusable
<1>6. TypeOK'
  <2>1. todo' \subseteq 1..known' /\ (pc' = "idle" => todo' = {})
    BY DEF FetchExhausted, FetchUnusable, TypeOK
  <2>2. waiting' \subseteq Docs /\ known' = known /\ files' = files
    <3>1. waiting \subseteq Docs
      BY DEF TypeOK
    <3> QED BY <3>1, <1>10
  <2>3. /\ known \in 0..MaxDocs /\ files \in [Paths -> {"none", "partial", "whole"}]
        /\ deferrals \in 0..MaxDeferrals /\ crashes \in 0..MaxCrashes
        /\ writeErrors \in 0..MaxWriteErrors
    BY DEF TypeOK
  <2> HIDE DEF QueueInvariant, Docs, Handled, IsNext
  <2> QED BY <1>2, <1>3, <1>4, <1>5, <2>1, <2>2, <2>3 DEF TypeOK
<1>7. CycleIsDue'
  <2>1. \A e \in todo : e \in Docs
    BY DEF TypeOK
  <2> QED BY <1>5, <1>10, <2>1 DEF CycleIsDue
<1>8. RungsAccounted'
  <2> SUFFICES ASSUME NEW e \in Docs
               PROVE  /\ status'[e] = "pending" => attempts'[e] < MaxAttempts
                      /\ asked'[e] <= Retries * Spent(e)' + (Retries - 1) * deferrals'
    BY DEF RungsAccounted, Spent
  <2>1. asked[e] <= Retries * Spent(e) + (Retries - 1) * deferrals
    BY DEF RungsAccounted, Spent
  <2>2. CASE e # d
    <3>1. Spent(e)' = Spent(e)
      BY <1>0, <1>3, <1>4, <1>5, <2>2 DEF Spent, OffLadder
    <3>2. asked'[e] = asked[e]
      BY <1>2, <2>2
    <3>3. Spent(e) <= Spent(e)'
      BY <3>1, Counts
    <3>4. asked'[e] <= Retries * Spent(e)' + (Retries - 1) * deferrals'
      <4> HIDE DEF QueueInvariant
      <4> QED BY <1>3, <1>6, <2>1, <3>2, <3>3, AccountKept DEF QueueInvariant
    <3> QED BY <1>5, <2>2, <3>4 DEF RungsAccounted
  <2>3. CASE e = d
    <3>1. OffLadder(d) = 0
      BY <1>0 DEF OffLadder
    <3>2. Spent(d) < Spent(d)'
      <4>1. CASE attempts'[d] = attempts[d] + 1
        BY <1>3, <3>1, <4>1, Counts DEF Spent, OffLadder
      <4>2. CASE attempts'[d] = attempts[d] /\ status'[d] = "failed"
        <5>1. OffLadder(d)' = 1
          BY <1>0, <4>2 DEF OffLadder
        <5> QED BY <1>3, <3>1, <4>2, <5>1, Counts DEF Spent
      <4> QED BY <1>5, <4>1, <4>2
    <3>3. asked'[d] = asked[d] + n
      BY <1>2
    <3>4. asked'[d] <= Retries * Spent(d)' + (Retries - 1) * deferrals'
      <4> HIDE DEF QueueInvariant
      <4> QED BY <1>3, <1>6, <2>1, <2>3, <3>2, <3>3, AccountGrows, n \in 0..Retries
              DEF QueueInvariant
    <3> QED BY <1>5, <2>3, <3>4
  <2> QED BY <2>2, <2>3
<1>9. FileOpened' /\ FetchedIsStored'
  <2>1. \A e \in Docs : status'[e] = "fetched" => status[e] = "fetched"
    BY DEF FetchExhausted, FetchUnusable, TypeOK
  <2>2. files' = files
    BY DEF FetchExhausted, FetchUnusable
  <2> QED BY <1>4, <2>1, <2>2 DEF FileOpened, FetchedIsStored
<1> QED BY <1>6, <1>7, <1>8, <1>9

LEMMA StorePreserves ==
  ASSUME QueueInvariant, NEW d \in Docs,
         FetchBody(d) \/ WriteFile(d) \/ CommitFetched(d)
  PROVE  QueueInvariant'
<1> USE DocumentAssumption DEF QueueInvariant, rowVars, Docs, IsNext, Paths
<1>1. CASE FetchBody(d)
  <2>x. PICK n \in 1..Retries : Gets(d, n)
    BY <1>1 DEF FetchBody
  <2>y. /\ n \in 0..Retries /\ asked' \in [Docs -> Nat]
        /\ asked'[d] = asked[d] + n
        /\ \A e \in Docs : e # d => asked'[e] = asked[e]
    <3>1. TypeOK /\ n \in 0..Retries
      BY Counts
    <3> HIDE DEF QueueInvariant, Docs
    <3> QED BY <2>x, <3>1, GetsCounted
  <2>0. /\ pc = "fetch" /\ d \in todo /\ \A e \in todo : d <= e
        /\ \/ /\ files' = [files EXCEPT ![Path[d]] = "partial"] /\ pc' = "write"
              /\ files[Path[d]] = "none"
           \/ files' = files /\ pc' = "commit" /\ files[Path[d]] # "none"
        /\ UNCHANGED <<known, status, attempts, waiting, todo, deferrals, crashes, writeErrors>>
    BY <1>1, <2>x DEF FetchBody, Gets
  <2> USE <2>0
  <2>1. TypeOK'
    <3>1. files' \in [Paths -> {"none", "partial", "whole"}]
      BY DEF TypeOK
    <3>2. pc' \in {"write", "commit"}
      OBVIOUS
    <3> QED BY <2>y, <3>1, <3>2 DEF TypeOK
  <2>2. CycleIsDue'
    BY DEF CycleIsDue
  <2>3. FetchedIsStored'
    BY DEF TypeOK, FetchedIsStored
  <2>4. \A e \in todo : IsNext(e) => e = d
    BY DEF TypeOK
  <2>5. FileOpened'
    <3>1. files'[Path[d]] # "none"
      BY DEF TypeOK
    <3> QED BY <2>4, <3>1 DEF FileOpened
  <2>6. RungsAccounted'
    <3> SUFFICES ASSUME NEW e \in Docs
                 PROVE  asked'[e] <= Retries * Spent(e)' + (Retries - 1) * deferrals'
      BY DEF RungsAccounted, Spent
    <3>1. asked[e] <= Retries * Spent(e) + (Retries - 1) * deferrals
      BY DEF RungsAccounted, Spent
    <3>2. status[d] = "pending"
      BY DEF CycleIsDue
    <3>3. CASE e = d
      <4>1. OffLadder(d) = 0 /\ OffLadder(d)' = 1
        BY <2>0, <3>2 DEF OffLadder
      <4>2. Spent(d) < Spent(d)'
        BY <4>1, Counts DEF Spent
      <4>3. TypeOK
        OBVIOUS
      <4> HIDE DEF QueueInvariant, Docs, IsNext
      <4> QED BY <2>1, <2>y, <3>1, <3>3, <4>2, <4>3, AccountGrows
    <3>4. CASE e # d
      <4>1. Spent(e) <= Spent(e)'
        <5>1. OffLadder(e)' \in {0, 1} /\ OffLadder(e) <= OffLadder(e)'
          BY <2>0 DEF OffLadder
        <5>2. attempts'[e] = attempts[e] /\ crashes' = crashes /\ writeErrors' = writeErrors
          OBVIOUS
        <5>3. attempts[e] \in Nat /\ crashes \in Nat /\ writeErrors \in Nat /\ OffLadder(e) \in {0, 1}
          BY Counts
        <5> HIDE DEF QueueInvariant, Docs, IsNext, OffLadder
        <5> QED BY <5>1, <5>2, <5>3 DEF Spent
      <4>2. asked'[e] = asked[e]
        BY <2>y, <3>4
      <4>3. TypeOK
        OBVIOUS
      <4> HIDE DEF QueueInvariant, Docs, IsNext
      <4> QED BY <2>1, <3>1, <4>1, <4>2, <4>3, AccountKept
    <3> QED BY <3>3, <3>4
  <2> QED BY <2>1, <2>2, <2>3, <2>5, <2>6
<1>2. CASE WriteFile(d)
  <2> USE <1>2 DEF WriteFile
  <2>1. TypeOK'
    BY DEF TypeOK
  <2>2. CycleIsDue' /\ RungsAccounted'
    BY DEF CycleIsDue, RungsAccounted, OffLadder
  <2>3. FetchedIsStored'
    BY DEF TypeOK, FetchedIsStored
  <2>4. FileOpened'
    <3>1. \A e \in todo : IsNext(e) => e = d
      BY DEF TypeOK
    <3>2. files'[Path[d]] # "none"
      BY DEF TypeOK
    <3> QED BY <3>1, <3>2 DEF FileOpened
  <2> QED BY <2>1, <2>2, <2>3, <2>4
<1>3. CASE CommitFetched(d)
  <2> USE <1>3 DEF CommitFetched, Handled
  <2>1. TypeOK'
    BY DEF TypeOK
  <2>2. CycleIsDue'
    BY DEF TypeOK, CycleIsDue
  <2>3. files[Path[d]] # "none"
    BY DEF FileOpened
  <2>4. FetchedIsStored' /\ FileOpened'
    BY <2>3 DEF TypeOK, FetchedIsStored, FileOpened
  <2>5. RungsAccounted'
    <3> SUFFICES ASSUME NEW e \in Docs
                 PROVE  /\ status'[e] = "pending" => attempts'[e] < MaxAttempts
                        /\ asked'[e] <= Retries * Spent(e)' + (Retries - 1) * deferrals'
      BY DEF RungsAccounted, Spent
    <3>1. asked[e] <= Retries * Spent(e) + (Retries - 1) * deferrals
      BY DEF RungsAccounted, Spent
    <3>2. status[d] = "pending" /\ attempts[d] < MaxAttempts
      BY DEF CycleIsDue, RungsAccounted
    <3>3. OffLadder(e) <= OffLadder(e)'
      <4>1. CASE e = d
        BY <3>2, <4>1 DEF OffLadder, TypeOK
      <4>2. CASE e # d
        <5>1. ~(IsNext(e)) /\ status'[e] = status[e]
          BY <4>2 DEF TypeOK
        <5> QED BY <5>1 DEF OffLadder
      <4> QED BY <4>1, <4>2
    <3>4. Spent(e) <= Spent(e)'
      <4>1. OffLadder(e)' \in {0, 1}
        BY DEF OffLadder
      <4>2. attempts'[e] = attempts[e] /\ crashes' = crashes /\ writeErrors' = writeErrors
        OBVIOUS
      <4>3. attempts[e] \in Nat /\ crashes \in Nat /\ writeErrors \in Nat /\ OffLadder(e) \in {0, 1}
        BY Counts
      <4> HIDE DEF QueueInvariant, CommitFetched, Handled, Docs, IsNext, OffLadder
      <4> QED BY <3>3, <4>1, <4>2, <4>3 DEF Spent
    <3>5. asked'[e] <= Retries * Spent(e)' + (Retries - 1) * deferrals'
      <4> HIDE DEF QueueInvariant, CommitFetched
      <4> QED BY <2>1, <3>1, <3>4, AccountKept DEF QueueInvariant, CommitFetched
    <3> QED BY <3>5 DEF RungsAccounted, TypeOK
  <2> QED BY <2>1, <2>2, <2>4, <2>5
<1> QED BY <1>1, <1>2, <1>3

LEMMA StepQueue == QueueInvariant /\ [Next]_vars => QueueInvariant'
<1> SUFFICES ASSUME QueueInvariant, [Next]_vars PROVE QueueInvariant'
  OBVIOUS
<1>1. CASE UNCHANGED vars
  BY <1>1 DEF vars, rowVars, QueueInvariant, TypeOK, CycleIsDue, RungsAccounted,
              OffLadder, FileOpened, FetchedIsStored, IsNext
<1>2. CASE DrainEmpty
  BY <1>1, <1>2 DEF DrainEmpty
<1> QED
  BY <1>1, <1>2, WorldPreserves, StartPreserves, EndsPreserves, VerdictPreserves,
     StorePreserves DEF Next, Answer

(* No crash, write error or shared file makes a fetched row point at a     *)
(* file that was never created.                                            *)
THEOREM QueueStores == Spec => []FetchedIsStored
<1>1. QueueInvariant => FetchedIsStored
  BY DEF QueueInvariant
<1> QED BY <1>1, InitQueue, StepQueue, PTL DEF Spec

(* Whatever its URL answers, a document costs MAX_RETRIES requests per     *)
(* rung, crash and error, and MAX_RETRIES - 1 per get() that ends deferred *)
(* after some (documents.py:80-110).                                       *)
THEOREM QueueBoundsRequests == Spec => []LadderBoundsRequests
<1>1. ASSUME QueueInvariant PROVE LadderBoundsRequests
  <2> SUFFICES ASSUME NEW d \in Docs
               PROVE  asked[d] <= Retries * (MaxAttempts + crashes + writeErrors)
                                    + (Retries - 1) * deferrals
    BY DEF LadderBoundsRequests
  <2>1. TypeOK
    BY <1>1 DEF QueueInvariant
  <2>2. /\ asked[d] <= Retries * Spent(d) + (Retries - 1) * deferrals
        /\ status[d] = "pending" => attempts[d] < MaxAttempts
    BY <1>1 DEF QueueInvariant, RungsAccounted, Spent
  <2>3. attempts[d] \in 0..MaxAttempts /\ MaxAttempts \in Nat
    BY <2>1, DocumentAssumption DEF TypeOK
  <2>4. attempts[d] + OffLadder(d) <= MaxAttempts
    <3>1. CASE status[d] # "pending" /\ ~(attempts[d] < MaxAttempts)
      <4>1. ~(pc \in {"write", "commit"} /\ IsNext(d))
        BY <1>1, <3>1 DEF QueueInvariant, CycleIsDue, IsNext
      <4> QED BY <2>3, <3>1, <4>1 DEF OffLadder
    <3>2. CASE attempts[d] < MaxAttempts
      BY <2>3, <3>2, <2>1, Counts
    <3> QED BY <2>2, <3>1, <3>2
  <2>5. /\ Spent(d) \in Nat /\ MaxAttempts + crashes + writeErrors \in Nat
        /\ Spent(d) <= MaxAttempts + crashes + writeErrors
        /\ Retries \in Nat /\ Retries - 1 \in Nat /\ deferrals \in Nat /\ asked[d] \in Nat
    BY <2>1, <2>3, <2>4, Counts DEF Spent
  <2>6. /\ Retries * Spent(d) \in Nat
        /\ Retries * (MaxAttempts + crashes + writeErrors) \in Nat
        /\ Retries * Spent(d) <= Retries * (MaxAttempts + crashes + writeErrors)
    BY <2>5, MoreRungs
  <2>7. (Retries - 1) * deferrals \in Nat
    BY <2>5
  <2> QED BY <2>2, <2>5, <2>6, <2>7
<1> QED BY <1>1, InitQueue, StepQueue, PTL DEF Spec

(* A document in its backoff is not asked for (documents.py:62-65).        *)
THEOREM QueueHonoursBackoff == Spec => BackoffHonoured
<1>1. QueueInvariant /\ [Next]_vars => [\A d \in waiting : asked'[d] = asked[d]]_vars
  <2> SUFFICES ASSUME QueueInvariant, Next, NEW d \in waiting
               PROVE  asked'[d] = asked[d]
    OBVIOUS
  <2>1. d \notin todo /\ d \in Docs /\ asked \in [Docs -> Nat]
    BY DEF QueueInvariant, CycleIsDue, TypeOK
  <2>2. ASSUME NEW e \in Docs, NEW n, Gets(e, n) PROVE asked'[d] = asked[d]
    BY <2>1, <2>2 DEF Gets, IsNext
  <2>3. ASSUME NEW e \in Docs,
               \/ FetchDeferred(e) \/ FetchExhausted(e) \/ FetchUnusable(e) \/ FetchBody(e)
               \/ CrashAfterRequest(e)
        PROVE  asked'[d] = asked[d]
    BY <2>2, <2>3 DEF FetchDeferred, FetchExhausted, FetchUnusable, FetchBody,
                      CrashAfterRequest
  <2>4. ASSUME NEW e \in Docs, BackoffOver(e) \/ WriteFile(e) \/ CommitFetched(e)
        PROVE  asked' = asked
    BY <2>4 DEF BackoffOver, WriteFile, CommitFetched
  <2>5. CASE Insert \/ StartDrain \/ DrainEmpty \/ WriteRaises \/ Crash
    BY <2>5 DEF Insert, StartDrain, DrainEmpty, vars, WriteRaises, Crash
  <2> QED BY <2>3, <2>4, <2>5 DEF Next, Answer
<1> QED BY <1>1, InitQueue, StepQueue, PTL DEF Spec, BackoffHonoured

(* The rows keep to their statuses and their rungs (documents.py).         *)
THEOREM QueueTypes == Spec => []TypeOK
<1>1. QueueInvariant => TypeOK
  BY DEF QueueInvariant
<1> QED BY <1>1, InitQueue, StepQueue, PTL DEF Spec
=============================================================================
