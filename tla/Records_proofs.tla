---------------------------- MODULE Records_proofs ----------------------------
(***************************************************************************)
(* What reads of the past, the loader of results, the securities master,   *)
(* the holiday calendar and the measurement of signals promise, for any    *)
(* number of filings, days, companies, renames, signals and syncs.         *)
(***************************************************************************)
EXTENDS PointInTime, ResultsLoader, PriceHistory, SecuritiesMaster,
        FiniteSetTheorems, WellFoundedInduction, TLAPS

(* Numbers.                                                                  *)

\* Every set of numbers that has an element has a least one.
Under == {p \in Nat \X Nat : p[1] < p[2]}

LEMMA Least ==
  ASSUME NEW T \in SUBSET Nat, T # {} PROVE \E n \in T : \A m \in T : n <= m
<1>0. OpToRel(<, Nat) = Under
  BY Zenon DEF OpToRel, Under
<1>1. IsWellFoundedOn(Under, Nat)
  BY <1>0, NatLessThanWellFounded, Zenon
<1>2. \E n \in T : \A m \in T : <<m, n>> \notin Under
  BY <1>1, WFMin
<1>3. PICK n \in T : \A m \in T : <<m, n>> \notin Under
  BY <1>2
<1>4. \A m \in T : n <= m
  <2> TAKE m \in T
  <2>1. <<m, n>> \in Nat \X Nat /\ <<m, n>>[1] = m /\ <<m, n>>[2] = n
    OBVIOUS
  <2>2. ~(m < n)
    BY <2>1, <1>3 DEF Under
  <2> QED BY <2>2
<1> QED BY <1>4

\* A set of numbers up to n with 0 and with the next of each is all of them.
LEMMA UpTo ==
  ASSUME NEW n \in Nat, NEW T, 0 \in T, \A k \in 1..n : k - 1 \in T => k \in T
  PROVE  0..n \subseteq T
<1> DEFINE Bad == (0..n) \ T
<1> SUFFICES ASSUME Bad # {} PROVE FALSE
  OBVIOUS
<1>1. Bad \in SUBSET Nat
  OBVIOUS
<1>2. PICK k \in Bad : \A m \in Bad : k <= m
  BY <1>1, Least
<1>3. k \in 1..n /\ k - 1 \in 0..n /\ ~(k <= k - 1)
  BY <1>2
<1>4. k - 1 \in T
  BY <1>2, <1>3
<1> QED BY <1>2, <1>3, <1>4

-----------------------------------------------------------------------------
(* Point-in-time reads.                                                      *)

\* What a read as of t by version v shows.
ReadBy(v, t) ==
  {f \in Filings : Visible(<<f, "filing">>, t) /\ Visible(<<f, v>>, t)}

SeenStays(t) == liveRead[t].seen \subseteq ReadBy(liveRead[t].by, t)

\* A transaction starts by now, only started ones are committed, and a read of
\* the past by the version of the live one still shows what that one saw.
PitInvariant ==
  /\ PitTypeOK
  /\ \A r \in PitRows : observedAt[r] # Later => observedAt[r] <= moment
  /\ \A r \in stored : observedAt[r] # Later
  /\ \A t \in 0..LastMoment : SeenStays(t)

LEMMA ReadOf == \A t : PitClassified(t) = ReadBy(version, t)
BY DEF PitClassified, PitFilings, ReadBy

LEMMA PitStarts == PitInit => PitInvariant
BY PitAssumption DEF PitInit, PitInvariant, PitTypeOK, SeenStays, Later

\* A row in the table keeps its time, so that no read loses it.
LEMMA ReadsGrow ==
  ASSUME stored \subseteq stored',
         \A r \in stored : observedAt'[r] = observedAt[r]
  PROVE  \A v, t : ReadBy(v, t) \subseteq ReadBy(v, t)'
BY DEF ReadBy, Visible

LEMMA PitStep == PitInvariant /\ [PitNext]_pitVars => PitInvariant'
<1> SUFFICES ASSUME PitInvariant, [PitNext]_pitVars PROVE PitInvariant'
  OBVIOUS
<1>1. CASE UNCHANGED pitVars
  BY <1>1 DEF pitVars, PitInvariant, PitTypeOK, SeenStays, ReadBy, Visible
<1>2. CASE Tick
  BY <1>2, PitAssumption DEF Tick, PitInvariant, PitTypeOK, Later, SeenStays, ReadBy, Visible
<1>3. CASE Release
  BY <1>3 DEF Release, PitInvariant, PitTypeOK, SeenStays, ReadBy, Visible
<1>4. CASE LiveRead
  <2>1. \A v, t : ReadBy(v, t)' = ReadBy(v, t)
    BY <1>4 DEF LiveRead, ReadBy, Visible
  <2>2. /\ PitClassified(moment) = ReadBy(version, moment)
        /\ ReadBy(version, moment) \subseteq Filings
    BY ReadOf DEF ReadBy
  <2>3. PitTypeOK'
    BY <1>4, <2>2, PitAssumption DEF LiveRead, PitInvariant, PitTypeOK
  <2>4. ASSUME NEW t \in 0..LastMoment PROVE SeenStays(t)'
    <3>1. stored' = stored /\ observedAt' = observedAt
      BY <1>4 DEF LiveRead
    <3>2. CASE t = moment
      <4>1. liveRead'[t] = [by |-> version, seen |-> ReadBy(version, t)]
        BY <1>4, <2>2, <3>2 DEF LiveRead, PitInvariant, PitTypeOK
      <4>2. liveRead'[t].by = version /\ liveRead'[t].seen = ReadBy(version, t)
        BY <4>1
      <4> QED BY <3>1, <4>2 DEF SeenStays, ReadBy, Visible
    <3>3. CASE t # moment
      <4>1. liveRead'[t] = liveRead[t]
        BY <1>4, <3>3 DEF LiveRead, PitInvariant, PitTypeOK
      <4>2. SeenStays(t)
        BY DEF PitInvariant
      <4> QED BY <3>1, <4>1, <4>2 DEF SeenStays, ReadBy, Visible
    <3> QED BY <3>2, <3>3
  <2>5. \A r \in PitRows : observedAt'[r] # Later => observedAt'[r] <= moment'
    BY <1>4, PitAssumption DEF LiveRead, PitInvariant, PitTypeOK, Later
  <2>6. \A r \in stored' : observedAt'[r] # Later
    BY <1>4 DEF LiveRead, PitInvariant
  <2> QED BY <2>3, <2>4, <2>5, <2>6 DEF PitInvariant
<1>5. ASSUME NEW r \in PitRows, Begin(r) PROVE PitInvariant'
  <2>1. r \notin stored /\ moment # Later /\ moment \in 0..Later
    BY <1>5, PitAssumption DEF Begin, PitInvariant, PitTypeOK, Later
  <2>2. \A v, t : ReadBy(v, t) \subseteq ReadBy(v, t)'
    BY <1>5, <2>1, ReadsGrow DEF Begin, PitInvariant, PitTypeOK
  <2>3. PitTypeOK'
    BY <1>5, <2>1 DEF Begin, PitInvariant, PitTypeOK
  <2>4. \A s \in PitRows : observedAt'[s] # Later => observedAt'[s] <= moment'
    BY <1>5, <2>1, PitAssumption DEF Begin, PitInvariant, PitTypeOK
  <2>5. \A s \in stored' : observedAt'[s] # Later
    BY <1>5, <2>1 DEF Begin, PitInvariant, PitTypeOK
  <2>6. liveRead' = liveRead
    BY <1>5 DEF Begin
  <2> QED BY <2>2, <2>3, <2>4, <2>5, <2>6 DEF PitInvariant, SeenStays
<1>6. ASSUME NEW r \in PitRows, Commit(r) PROVE PitInvariant'
  <2>1. \A v, t : ReadBy(v, t) \subseteq ReadBy(v, t)'
    BY <1>6, ReadsGrow DEF Commit
  <2> QED BY <1>6, <2>1 DEF Commit, PitInvariant, PitTypeOK, SeenStays
<1>7. ASSUME NEW r \in PitRows, Rollback(r) PROVE PitInvariant'
  <2>1. \A v, t : ReadBy(v, t) \subseteq ReadBy(v, t)'
    BY <1>7, ReadsGrow DEF Rollback, PitInvariant, PitTypeOK
  <2>2. Later \in 0..Later
    BY PitAssumption DEF Later
  <2> QED BY <1>7, <2>1, <2>2 DEF Rollback, PitInvariant, PitTypeOK, SeenStays
<1> QED BY <1>1, <1>2, <1>3, <1>4, <1>5, <1>6, <1>7 DEF PitNext

\* A read as of a past moment misses nothing a live read of the same model
\* version saw, and once no transaction of that moment is open it changes only
\* with the version (db/pit.py:38-97).
THEOREM PastReads == PitSpec => PastReadsFixed
<1> DEFINE Fixed ==
      \A t \in 0..LastMoment :
        /\ liveRead[t].by = version => liveRead[t].seen \subseteq PitClassified(t)
        /\ t < moment /\ Quiet(t) =>
             /\ PitFilings(t)' = PitFilings(t)
             /\ version' = version => PitClassified(t)' = PitClassified(t)
<1>1. PitInvariant /\ [PitNext]_pitVars => [Fixed]_pitVars
  <2> SUFFICES ASSUME PitInvariant, PitNext, NEW t \in 0..LastMoment
               PROVE  /\ liveRead[t].by = version => liveRead[t].seen \subseteq PitClassified(t)
                      /\ t < moment /\ Quiet(t) =>
                           /\ PitFilings(t)' = PitFilings(t)
                           /\ version' = version => PitClassified(t)' = PitClassified(t)
    OBVIOUS
  <2>1. liveRead[t].by = version => liveRead[t].seen \subseteq PitClassified(t)
    BY ReadOf DEF PitInvariant, SeenStays
  <2>2. ASSUME t < moment, Quiet(t) PROVE \A r \in PitRows : Visible(r, t)' <=> Visible(r, t)
    <3>1. CASE Tick \/ Release \/ LiveRead
      BY <3>1 DEF Tick, Release, LiveRead, Visible
    <3>2. ASSUME NEW f \in PitRows, Begin(f) PROVE \A r \in PitRows : Visible(r, t)' <=> Visible(r, t)
      BY <2>2, <3>2 DEF Begin, Visible, PitInvariant, PitTypeOK
    <3>3. ASSUME NEW f \in PitRows, Commit(f) PROVE \A r \in PitRows : Visible(r, t)' <=> Visible(r, t)
      BY <2>2, <3>3 DEF Commit, Visible, Quiet
    <3>4. ASSUME NEW f \in PitRows, Rollback(f) PROVE \A r \in PitRows : Visible(r, t)' <=> Visible(r, t)
      BY <2>2, <3>4 DEF Rollback, Visible, PitInvariant, PitTypeOK
    <3> QED BY <3>1, <3>2, <3>3, <3>4 DEF PitNext
  <2>3. \A f \in Filings : <<f, "filing">> \in PitRows /\ <<f, version>> \in PitRows
    BY DEF PitRows, PitInvariant, PitTypeOK
  <2> QED BY <2>1, <2>2, <2>3 DEF PitFilings, PitClassified
<1> QED BY <1>1, PitStarts, PitStep, PTL DEF PitSpec, PastReadsFixed

\* The tables and the log of live reads have the types of db/models.py.
THEOREM PitTypes == PitSpec => []PitTypeOK
<1>1. PitInvariant => PitTypeOK
  BY DEF PitInvariant
<1> QED BY <1>1, PitStarts, PitStep, PTL DEF PitSpec

-----------------------------------------------------------------------------
(* Quarterly results.                                                        *)

(* The misfile guard.  If most of the other documents sell about as much   *)
(* as a right one, so does their median, and the guard, which keeps what   *)
(* is nearer to it, keeps a right one from then on.                        *)

LoaderTypes ==
  /\ filed \in Seq(Instances)
  /\ disk \in Seq(Nat) /\ ToSet(disk) \subseteq DOMAIN filed

\* A set of documents that has an element has one of the greatest revenue.
LEMMA Greatest ==
  ASSUME NEW docs, IsFiniteSet(docs), docs # {}, \A n \in docs : Revenue(n) \in Nat
  PROVE  \E n \in docs : \A m \in docs : Revenue(m) <= Revenue(n)
<1> DEFINE Above(n) == {m \in docs : Revenue(n) < Revenue(m)}
           T == {Cardinality(Above(n)) : n \in docs}
<1>1. \A n \in docs : Above(n) \in SUBSET docs /\ IsFiniteSet(Above(n)) /\ Cardinality(Above(n)) \in Nat
  BY FS_Subset, FS_CardinalityType
<1>2. PICK k \in T : \A m \in T : k <= m
  <2>1. T \in SUBSET Nat /\ T # {}
    BY <1>1
  <2> HIDE DEF T
  <2> QED BY <2>1, Least
<1>3. PICK n \in docs : \A m \in docs : Cardinality(Above(n)) <= Cardinality(Above(m))
  BY <1>2
<1>4. ASSUME NEW m \in docs, Revenue(n) < Revenue(m) PROVE FALSE
  <2>1. \A d \in docs : Revenue(m) < Revenue(d) => Revenue(n) < Revenue(d)
    BY <1>4
  <2>2. Above(m) \in SUBSET Above(n) /\ m \in Above(n) /\ m \notin Above(m)
    BY <1>4, <2>1
  <2>3. /\ Cardinality(Above(m)) <= Cardinality(Above(n))
        /\ Cardinality(Above(m)) # Cardinality(Above(n))
    BY <1>1, <2>2, FS_Subset
  <2>4. /\ Cardinality(Above(m)) \in Nat /\ Cardinality(Above(n)) \in Nat
        /\ Cardinality(Above(n)) <= Cardinality(Above(m))
    BY <1>1, <1>3
  <2> HIDE DEF Above
  <2> QED BY <2>3, <2>4
<1> QED BY <1>4

\* There is a median.
LEMMA MedianIs ==
  ASSUME NEW docs, IsFiniteSet(docs), docs # {}, \A n \in docs : Revenue(n) \in Nat
  PROVE  /\ Median(docs) \in {Revenue(n) : n \in docs}
         /\ Cardinality({n \in docs : Revenue(n) < Median(docs)}) <= Cardinality(docs) \div 2
         /\ Cardinality(docs) \div 2 < Cardinality({n \in docs : Revenue(n) <= Median(docs)})
<1> DEFINE half == Cardinality(docs) \div 2
           below(r) == {n \in docs : Revenue(n) < r}
           upto(r) == {n \in docs : Revenue(n) <= r}
           values == {Revenue(n) : n \in docs}
           T == {r \in values : half < Cardinality(upto(r))}
<1>1. Cardinality(docs) \in Nat /\ Cardinality(docs) # 0 /\ half \in Nat /\ half < Cardinality(docs)
  <2>1. Cardinality(docs) \in Nat /\ Cardinality(docs) # 0
    BY FS_CardinalityType, FS_EmptySet
  <2> QED BY <2>1
<1>2. T \in SUBSET Nat /\ T # {}
  <2>1. PICK n \in docs : \A m \in docs : Revenue(m) <= Revenue(n)
    BY Greatest
  <2>2. upto(Revenue(n)) = docs
    BY <2>1
  <2>3. Revenue(n) \in T
    BY <1>1, <2>2
  <2> QED BY <2>3
<1>3. PICK r \in T : \A s \in T : r <= s
  <2> HIDE DEF T
  <2> QED BY <1>2, Least
<1>4. Cardinality(below(r)) <= half
  <2>1. CASE below(r) = {}
    BY <1>1, <2>1, FS_EmptySet
  <2>2. CASE below(r) # {}
    <3>1. IsFiniteSet(below(r)) /\ \A n \in below(r) : Revenue(n) \in Nat
      BY FS_Subset
    <3>2. PICK n \in below(r) : \A m \in below(r) : Revenue(m) <= Revenue(n)
      <4> HIDE DEF below
      <4> QED BY <2>2, <3>1, Greatest
    <3>3. n \in docs /\ Revenue(n) < r /\ r \in Nat /\ Revenue(n) \in values
      BY <1>2, <3>2
    <3>4. below(r) = upto(Revenue(n))
      BY <3>2, <3>3
    <3>5. Revenue(n) \notin T
      BY <1>2, <1>3, <3>3
    <3>6. ~(half < Cardinality(upto(Revenue(n))))
      BY <3>3, <3>5
    <3>7. Cardinality(below(r)) \in Nat
      BY <3>1, FS_CardinalityType
    <3> HIDE DEF below, upto, half
    <3> QED BY <1>1, <3>4, <3>6, <3>7
  <2> QED BY <2>1, <2>2
<1>5. \E s \in values : Cardinality(below(s)) <= half /\ half < Cardinality(upto(s))
  BY <1>3, <1>4
<1>6. Median(docs) = CHOOSE s \in values : Cardinality(below(s)) <= half /\ half < Cardinality(upto(s))
  BY DEF Median
<1> QED BY <1>5, <1>6

\* The median of documents most of which are in a range is in it.
LEMMA MedianWithin ==
  ASSUME NEW docs, IsFiniteSet(docs), \A n \in docs : Revenue(n) \in Nat, NEW right,
         Revenue(right) \in Nat, 2 * Cardinality(Like(right, docs)) > Cardinality(docs)
  PROVE  /\ Median(docs) \in Nat
         /\ 3 * Revenue(right) <= 5 * Median(docs) /\ Median(docs) <= 3 * Revenue(right)
<1> DEFINE like == Like(right, docs)
           under == {n \in docs : Revenue(n) < Median(docs)}
           upto == {n \in docs : Revenue(n) <= Median(docs)}
<1>1. /\ like \in SUBSET docs /\ under \in SUBSET docs /\ upto \in SUBSET docs
      /\ IsFiniteSet(like) /\ IsFiniteSet(under) /\ IsFiniteSet(upto)
      /\ Cardinality(like) \in Nat /\ Cardinality(docs) \in Nat
      /\ Cardinality(under) \in Nat /\ Cardinality(upto) \in Nat
  BY FS_Subset, FS_CardinalityType DEF Like
<1>2. docs # {}
  <2> SUFFICES ASSUME docs = {} PROVE FALSE
    OBVIOUS
  <2>1. like = {} /\ Cardinality(like) = 0
    BY FS_EmptySet DEF Like
  <2> QED BY <1>1, <2>1
<1>3. PICK n \in docs : Median(docs) = Revenue(n)
  BY <1>2, MedianIs
<1>4. /\ Cardinality(under) <= Cardinality(docs) \div 2
      /\ Cardinality(docs) \div 2 < Cardinality(upto)
  BY <1>2, MedianIs
<1>5. ASSUME Median(docs) > 3 * Revenue(right) PROVE FALSE
  <2>1. like \in SUBSET under
    BY <1>3, <1>5 DEF Like
  <2>2. Cardinality(like) <= Cardinality(under)
    BY <1>1, <2>1, FS_Subset
  <2>3. 2 * Cardinality(like) > Cardinality(docs)
    OBVIOUS
  <2> HIDE DEF like, under
  <2> QED BY <1>1, <1>4, <2>2, <2>3
<1>6. ASSUME 5 * Median(docs) < 3 * Revenue(right) PROVE FALSE
  <2>1. like \in SUBSET (docs \ upto)
    BY <1>3, <1>6 DEF Like
  <2>2. IsFiniteSet(docs \ upto) /\ Cardinality(docs \ upto) = Cardinality(docs) - Cardinality(docs \cap upto)
    BY FS_Difference
  <2>3. docs \cap upto = upto
    OBVIOUS
  <2>4. Cardinality(like) <= Cardinality(docs) - Cardinality(upto)
    <3>1. Cardinality(like) <= Cardinality(docs \ upto)
      BY <2>1, <2>2, FS_Subset
    <3> QED BY <2>2, <2>3, <3>1
  <2>5. 2 * Cardinality(like) > Cardinality(docs)
    OBVIOUS
  <2> HIDE DEF like, upto
  <2> QED BY <1>1, <1>4, <2>4, <2>5
<1> QED BY <1>3, <1>5, <1>6

LEMMA Scaled ==
  ASSUME NEW k \in Nat, NEW x \in Nat, NEW y \in Nat
  PROVE  /\ k * x \in Nat
         /\ x <= y => k * x <= k * y
         /\ k > 0 /\ x < y => k * x < k * y
         /\ k > 0 /\ x > 0 => k * x > 0
OBVIOUS

LEMMA RevenueIs ==
  ASSUME LoaderTypes, NEW n \in DOMAIN filed
  PROVE  \E x \in Revenues[filed[n].basis] :
           /\ Revenue(n) = CASE filed[n].scale = "right" -> Factor * x
                             [] filed[n].scale = "up"    -> Factor * (Factor * x)
                             [] filed[n].scale = "down"  -> x
           /\ filed[n].scale \in {"right", "up", "down"}
           /\ filed[n].basis \in Bases
           /\ x \in Nat /\ x > 0 /\ Revenue(n) \in Nat
<1>1. filed[n] \in Instances
  BY DEF LoaderTypes
<1>2. /\ filed[n].revenue \in Revenues[filed[n].basis] /\ filed[n].basis \in Bases
      /\ filed[n].scale \in {"right", "up", "down"}
  BY <1>1 DEF Instances
<1>3. Factor \in Nat /\ \A b \in Bases : \A x \in Revenues[b] : x \in Nat /\ x > 0
  <2>1. \A b \in Bases : Revenues[b] \in SUBSET (Nat \ {0})
    BY ResultsAssumption
  <2> QED BY <2>1, ResultsAssumption
<1> DEFINE x == filed[n].revenue
<1>4. x \in Nat /\ x > 0
  BY <1>2, <1>3
<1>5. Factor * x \in Nat /\ Factor * (Factor * x) \in Nat
  <2> HIDE DEF x
  <2>1. Factor * x \in Nat
    BY <1>3, <1>4, Scaled
  <2> QED BY <1>3, <2>1, Scaled
<1> QED BY <1>2, <1>4, <1>5 DEF Revenue

\* On one basis what is right varies by less than what the guard calls wild,
\* and what is misfiled is farther from it.
LEMMA Bounds ==
  ASSUME Steady, LoaderTypes, NEW right \in DOMAIN filed, right \notin Misfiled,
         NEW n \in DOMAIN filed, filed[n].basis = filed[right].basis
  PROVE  /\ Revenue(right) \in Nat /\ Revenue(right) > 0 /\ Revenue(n) \in Nat
         /\ n \notin Misfiled => /\ Revenue(n) <= 5 * Revenue(right)
                                 /\ Revenue(right) <= 5 * Revenue(n)
         /\ n \in Misfiled => \/ 5 * Revenue(right) < Revenue(n)
                              \/ 5 * Revenue(n) < Revenue(right)
<1>1. PICK x \in Revenues[filed[right].basis] :
        Revenue(right) = Factor * x /\ x \in Nat /\ x > 0 /\ filed[right].basis \in Bases
  BY RevenueIs DEF Misfiled
<1>2. PICK y \in Revenues[filed[n].basis] :
        /\ Revenue(n) = CASE filed[n].scale = "right" -> Factor * y
                          [] filed[n].scale = "up"    -> Factor * (Factor * y)
                          [] filed[n].scale = "down"  -> y
        /\ filed[n].scale \in {"right", "up", "down"} /\ y \in Nat /\ y > 0
  BY RevenueIs
<1>3. /\ x <= 5 * y /\ 5 * x < Factor * y
      /\ y <= 5 * x /\ 5 * y < Factor * x
  BY <1>1, <1>2 DEF Steady
<1> DEFINE X == Factor * x
           Y == Factor * y
<1>4. Factor \in Nat /\ X \in Nat /\ Y \in Nat
  BY <1>1, <1>2, ResultsAssumption, Scaled
<1>5. Factor > 0 /\ X > 0
  <2> HIDE DEF X
  <2>1. X > 0
    BY <1>1, <1>2, <1>3, <1>4 DEF X
  <2>2. Factor # 0
    BY <1>1, <1>4, <2>1 DEF X
  <2> QED BY <1>4, <2>1, <2>2
<1>6. X <= 5 * Y /\ Y <= 5 * X /\ 5 * X < Factor * Y
  <2>1. /\ Factor * x <= Factor * (5 * y) /\ Factor * y <= Factor * (5 * x)
        /\ Factor * (5 * x) < Factor * (Factor * y)
    BY <1>1, <1>2, <1>3, <1>4, <1>5, Scaled
  <2>2. Factor * (5 * x) = 5 * X /\ Factor * (5 * y) = 5 * Y
    BY <1>1, <1>2, <1>4
  <2> QED BY <2>1, <2>2
<1>7. Factor * Y \in Nat
  BY <1>4, Scaled
<1>8. n \in Misfiled <=> filed[n].scale # "right"
  BY DEF Misfiled
<1>9. CASE filed[n].scale = "right"
  BY <1>1, <1>2, <1>4, <1>5, <1>6, <1>8, <1>9
<1>10. CASE filed[n].scale = "up"
  <2>1. Revenue(n) = Factor * Y
    BY <1>2, <1>10
  <2> QED BY <1>1, <1>4, <1>5, <1>6, <1>7, <1>8, <1>10, <2>1
<1>11. CASE filed[n].scale = "down"
  <2>1. Revenue(n) = y
    BY <1>2, <1>11
  <2> QED BY <1>1, <1>2, <1>3, <1>4, <1>5, <1>8, <1>11, <2>1
<1> QED BY <1>2, <1>9, <1>10, <1>11

\* The guard tells a right document from a misfiled one, whichever is older.
LEMMA GuardTells ==
  ASSUME Steady, LoaderTypes, NEW others, others \in SUBSET (DOMAIN filed),
         NEW right \in DOMAIN filed, right \notin Misfiled,
         2 * Cardinality(Like(right, others)) > Cardinality(others),
         NEW n \in DOMAIN filed, filed[n].basis = filed[right].basis
  PROVE  IF n \in Misfiled THEN Outlier(n, right, others) /\ ~Outlier(right, n, others)
         ELSE ~Outlier(n, right, others)
<1>1. IsFiniteSet(others)
  <2>1. DOMAIN filed = 1..Len(filed) /\ Len(filed) \in Nat
    BY DEF LoaderTypes
  <2>2. IsFiniteSet(DOMAIN filed)
    BY <2>1, FS_Interval
  <2> QED BY <2>2, FS_Subset
<1>2. others # {}
  <2> SUFFICES ASSUME others = {} PROVE FALSE
    OBVIOUS
  <2>1. Like(right, others) = {} /\ Cardinality(Like(right, others)) = 0 /\ Cardinality(others) = 0
    BY FS_EmptySet DEF Like
  <2> QED BY <2>1
<1>3. \A m \in others : Revenue(m) \in Nat
  BY RevenueIs
<1> DEFINE x == Revenue(right)
           w == Revenue(n)
           m == Median(others)
<1>4. /\ x \in Nat /\ x > 0 /\ w \in Nat
      /\ n \notin Misfiled => w <= 5 * x /\ x <= 5 * w
      /\ n \in Misfiled => 5 * x < w \/ 5 * w < x
  BY Bounds
<1>5. m \in Nat /\ 3 * x <= 5 * m /\ m <= 3 * x
  BY <1>1, <1>3, <1>4, MedianWithin
<1> HIDE DEF x, w, m
<1>6. CASE n \in Misfiled
  <2>1. Apart(w, x) /\ Apart(x, w) /\ Gap(x, m) < Gap(w, m)
    BY <1>4, <1>5, <1>6 DEF Apart, Gap
  <2>2. Gap(x, m) \in Int /\ Gap(w, m) \in Int
    BY <1>4, <1>5 DEF Gap
  <2>3. ~(Gap(w, m) < Gap(x, m))
    BY <2>1, <2>2
  <2> QED BY <1>2, <1>6, <2>1, <2>3 DEF Outlier, x, w, m
<1>7. CASE n \notin Misfiled
  <2>1. ~Apart(w, x)
    BY <1>4, <1>7 DEF Apart
  <2> QED BY <1>7, <2>1 DEF Outlier, x, w
<1> QED BY <1>6, <1>7

\* The documents of the disk one by one: the recursion of Deduped has a solution.
Keeping(f, p, n) ==
  f = [i \in 0..n |->
         IF i = 0 THEN 0
         ELSE IF disk[i] \notin DocumentsOf(p) THEN f[i - 1]
         ELSE IF f[i - 1] # 0 /\ Outlier(disk[i], f[i - 1], Others(p[1])) THEN f[i - 1]
         ELSE disk[i]]

\* What is kept after document d, where x was.
Kept(p, d, x) ==
  IF d \notin DocumentsOf(p) THEN x
  ELSE IF x # 0 /\ Outlier(d, x, Others(p[1])) THEN x
  ELSE d

LEMMA KeepingStep ==
  ASSUME NEW p, NEW n \in Nat, NEW f, Keeping(f, p, n)
  PROVE  f[0] = 0 /\ \A i \in 1..n : f[i] = Kept(p, disk[i], f[i - 1])
<1>1. \A i \in 0..n : f[i] = IF i = 0 THEN 0 ELSE Kept(p, disk[i], f[i - 1])
  BY Zenon DEF Keeping, Kept
<1> QED BY <1>1

LEMMA KeepingExists == ASSUME NEW p, NEW n \in Nat PROVE \E f : Keeping(f, p, n)
<1> DEFINE Rec(f, m) == f = [i \in 0..m |-> IF i = 0 THEN 0 ELSE Kept(p, disk[i], f[i - 1])]
           T == {m \in 0..n : \E f : Rec(f, m)}
<1>1. 0 \in T
  <2> DEFINE g == [i \in 0..0 |-> 0]
  <2>1. g = [i \in 0..0 |-> IF i = 0 THEN 0 ELSE Kept(p, disk[i], g[i - 1])]
    OBVIOUS
  <2> HIDE DEF g
  <2>2. Rec(g, 0)
    BY <2>1
  <2> QED BY <2>2
<1>2. ASSUME NEW m \in 1..n, m - 1 \in T PROVE m \in T
  <2>1. PICK f : Rec(f, m - 1)
    BY <1>2
  <2>2. f[0] = 0 /\ \A i \in 1..(m - 1) : f[i] = Kept(p, disk[i], f[i - 1])
    <3>1. \A i \in 0..(m - 1) : f[i] = IF i = 0 THEN 0 ELSE Kept(p, disk[i], f[i - 1])
      BY <2>1, Zenon
    <3> QED BY <3>1
  <2> DEFINE g == [i \in 0..m |-> IF i = m THEN Kept(p, disk[m], f[m - 1]) ELSE f[i]]
  <2>3. \A i \in 0..m : g[i] = IF i = 0 THEN 0 ELSE Kept(p, disk[i], g[i - 1])
    <3> SUFFICES ASSUME NEW i \in 0..m
                 PROVE  g[i] = IF i = 0 THEN 0 ELSE Kept(p, disk[i], g[i - 1])
      OBVIOUS
    <3>1. CASE i = 0
      BY <2>2, <3>1
    <3>2. CASE i = m
      <4>1. i # 0 /\ i - 1 \in 0..m /\ i - 1 # m
        BY <3>2
      <4>2. g[i] = Kept(p, disk[m], f[m - 1]) /\ g[i - 1] = f[i - 1]
        BY <3>2, <4>1
      <4> HIDE DEF g
      <4> QED BY <3>2, <4>1, <4>2
    <3>3. CASE i # 0 /\ i # m
      <4>1. i \in 1..(m - 1) /\ i - 1 \in 0..m /\ i - 1 # m
        BY <3>3
      <4>2. g[i] = f[i] /\ g[i - 1] = f[i - 1]
        BY <3>3, <4>1
      <4>3. f[i] = Kept(p, disk[i], f[i - 1])
        BY <2>2, <4>1
      <4> HIDE DEF g
      <4> QED BY <3>3, <4>2, <4>3
    <3> QED BY <3>1, <3>2, <3>3
  <2>4. g = [i \in 0..m |-> g[i]]
    OBVIOUS
  <2>5. Rec(g, m)
    <3> HIDE DEF g
    <3> QED BY <2>3, <2>4
  <2> HIDE DEF g
  <2> QED BY <2>5
<1>3. 0..n \subseteq T
  <2> HIDE DEF T
  <2> QED BY <1>1, <1>2, UpTo
<1>4. \E f : Rec(f, n)
  BY <1>3
<1> QED BY <1>4 DEF Keeping, Kept

\* What stands for a row is right if one of its documents is.
LEMMA DedupedRight ==
  ASSUME Steady, LoaderTypes, NEW p \in Keys, DocumentsOf(p) \ Misfiled # {},
         \A n \in DocumentsOf(p) \ Misfiled :
           2 * Cardinality(Like(n, Others(p[1]))) > Cardinality(Others(p[1]))
  PROVE  Deduped(p) \in DocumentsOf(p) \ Misfiled /\ Deduped(p) # 0
<1>0. /\ Len(disk) \in Nat /\ DOMAIN disk = 1..Len(disk)
      /\ DocumentsOf(p) \in SUBSET Batch /\ \A n \in DocumentsOf(p) : filed[n].basis = p[2]
      /\ Batch \in SUBSET (DOMAIN filed) /\ Others(p[1]) \in SUBSET (DOMAIN filed)
      /\ \A n \in DOMAIN filed : n # 0
  BY DEF LoaderTypes, Batch, DocumentsOf, Others
<1> DEFINE f == CHOOSE g : Keeping(g, p, Len(disk))
<1>1. Keeping(f, p, Len(disk))
  BY <1>0, KeepingExists
<1>2. Deduped(p) = f[Len(disk)]
  BY DEF Deduped, Keeping
<1> HIDE DEF f
<1>3. f[0] = 0 /\ \A i \in 1..Len(disk) : f[i] = Kept(p, disk[i], f[i - 1])
  <2>1. Len(disk) \in Nat
    BY <1>0
  <2> QED BY <1>1, <2>1, KeepingStep, Zenon
<1> DEFINE OfPeriod(n) == n \in DocumentsOf(p)
           Seen(i) == \E j \in 1..i : OfPeriod(disk[j]) /\ disk[j] \notin Misfiled
           T == {i \in 0..Len(disk) : /\ f[i] = 0 \/ OfPeriod(f[i])
                                      /\ Seen(i) => OfPeriod(f[i]) /\ f[i] \notin Misfiled}
<1>4. 0 \in T
  <2>1. ~Seen(0)
    OBVIOUS
  <2> HIDE DEF Seen
  <2> QED BY <1>0, <1>3, <2>1
<1>5. ASSUME NEW i \in 1..Len(disk), i - 1 \in T PROVE i \in T
  <2> DEFINE d == disk[i]
             x == f[i - 1]
  <2>1. f[i] = Kept(p, d, x)
    BY <1>3
  <2>2. x = 0 \/ OfPeriod(x)
    BY <1>5
  <2>3. Seen(i - 1) => OfPeriod(x) /\ x \notin Misfiled
    BY <1>5
  <2>4. Seen(i) => Seen(i - 1) \/ (OfPeriod(d) /\ d \notin Misfiled)
    <3> SUFFICES ASSUME NEW j \in 1..i, OfPeriod(disk[j]), disk[j] \notin Misfiled
                 PROVE  Seen(i - 1) \/ (OfPeriod(d) /\ d \notin Misfiled)
      OBVIOUS
    <3>1. j = i \/ j \in 1..(i - 1)
      OBVIOUS
    <3> QED BY <3>1
  <2> HIDE DEF d, x, Seen
  <2>5. CASE ~OfPeriod(d)
    <3>1. f[i] = x
      BY <2>1, <2>5 DEF Kept
    <3> QED BY <2>2, <2>3, <2>4, <2>5, <3>1
  <2>6. CASE OfPeriod(d) /\ x # 0 /\ Outlier(d, x, Others(p[1]))
    <3>1. f[i] = x /\ OfPeriod(x)
      BY <2>1, <2>2, <2>6 DEF Kept
    <3>2. x \in DOMAIN filed /\ d \in DOMAIN filed /\ filed[x].basis = filed[d].basis
      BY <1>0, <2>6, <3>1
    <3>3. d \notin Misfiled => x \notin Misfiled
      <4> SUFFICES ASSUME d \notin Misfiled, x \in Misfiled PROVE FALSE
        OBVIOUS
      <4>1. ~Outlier(d, x, Others(p[1]))
        BY <1>0, <2>6, <3>2, GuardTells
      <4> QED BY <2>6, <4>1
    <3> QED BY <2>3, <2>4, <3>1, <3>3
  <2>7. CASE OfPeriod(d) /\ (x = 0 \/ ~Outlier(d, x, Others(p[1])))
    <3>1. f[i] = d
      BY <2>1, <2>7 DEF Kept
    <3>2. ASSUME Seen(i - 1) PROVE d \notin Misfiled
      <4>1. OfPeriod(x) /\ x \notin Misfiled /\ x # 0
        BY <1>0, <2>3, <3>2
      <4>2. x \in DOMAIN filed /\ d \in DOMAIN filed /\ filed[x].basis = filed[d].basis
        BY <1>0, <2>7, <4>1
      <4>3. d \in Misfiled => Outlier(d, x, Others(p[1]))
        BY <1>0, <4>1, <4>2, GuardTells
      <4> QED BY <2>7, <4>1, <4>3
    <3> QED BY <2>4, <2>7, <3>1, <3>2
  <2> QED BY <2>5, <2>6, <2>7
<1>6. Len(disk) \in T
  <2>1. 0..Len(disk) \subseteq T
    <3> HIDE DEF T
    <3> QED BY <1>0, <1>4, <1>5, UpTo
  <2> QED BY <1>0, <2>1
<1>7. Seen(Len(disk))
  <2>1. PICK n \in DocumentsOf(p) : n \notin Misfiled
    OBVIOUS
  <2>2. PICK j \in 1..Len(disk) : disk[j] = n
    BY <1>0 DEF DocumentsOf, Batch, ToSet
  <2> QED BY <1>0, <2>1, <2>2
<1>8. OfPeriod(f[Len(disk)]) /\ f[Len(disk)] \notin Misfiled
  <2> HIDE DEF Seen
  <2> QED BY <1>6, <1>7
<1> QED BY <1>0, <1>2, <1>8

LEMMA LoaderStep == LoaderTypes /\ [ResultsNext]_resultsVars => LoaderTypes'
<1> SUFFICES ASSUME LoaderTypes, [ResultsNext]_resultsVars PROVE LoaderTypes'
  OBVIOUS
<1>0. DOMAIN filed = 1..Len(filed) /\ Len(filed) \in Nat /\ DOMAIN disk = 1..Len(disk) /\ Len(disk) \in Nat
  BY DEF LoaderTypes
<1>1. CASE UNCHANGED <<filed, disk>>
  BY <1>1 DEF LoaderTypes, ToSet
<1>2. ASSUME NEW doc \in Instances, Broadcast(doc) PROVE LoaderTypes'
  <2>1. /\ filed' \in Seq(Instances) /\ Len(filed') = Len(filed) + 1 /\ DOMAIN filed' = 1..(Len(filed) + 1)
    BY <1>2 DEF Broadcast, LoaderTypes
  <2>2. CASE disk' = disk
    <3>1. DOMAIN filed \subseteq DOMAIN filed' /\ ToSet(disk)' = ToSet(disk)
      BY <1>0, <2>1, <2>2 DEF ToSet
    <3> QED BY <2>1, <2>2, <3>1 DEF LoaderTypes
  <2>3. CASE disk' = Append(disk, Len(filed'))
    <3>1. disk' \in Seq(Nat)
      BY <1>0, <2>1, <2>3 DEF LoaderTypes
    <3>2. \A i \in DOMAIN disk' : disk'[i] = Len(filed') \/ (i \in DOMAIN disk /\ disk'[i] = disk[i])
      BY <1>0, <2>3 DEF LoaderTypes
    <3>3. \A i \in DOMAIN disk : disk[i] \in DOMAIN filed
      BY DEF LoaderTypes, ToSet
    <3>4. \A i \in DOMAIN disk' : disk'[i] \in DOMAIN filed'
      BY <1>0, <2>1, <3>2, <3>3
    <3> QED BY <2>1, <3>1, <3>4 DEF LoaderTypes, ToSet
  <2> QED BY <1>2, <2>2, <2>3 DEF Broadcast
<1>3. CASE BackfillSymbol
  <2>1. PICK missing \in SUBSET (DOMAIN filed \ ToSet(disk)) :
               \E listing \in SetToSeqs(missing) : disk' = disk \o listing
    BY <1>3 DEF BackfillSymbol
  <2>2. PICK listing \in SetToSeqs(missing) : disk' = disk \o listing
    BY <2>1
  <2>3. missing \in SUBSET (DOMAIN filed) /\ Cardinality(missing) \in Nat
    <3>1. IsFiniteSet(DOMAIN filed)
      BY <1>0, FS_Interval
    <3> QED BY <3>1, FS_Subset, FS_CardinalityType
  <2>4. listing \in [1..Cardinality(missing) -> missing]
    BY DEF SetToSeqs
  <2>5. listing \in Seq(DOMAIN filed)
    BY <2>3, <2>4
  <2>6. disk \in Seq(DOMAIN filed)
    <3>1. \A i \in 1..Len(disk) : disk[i] \in DOMAIN filed
      BY <1>0 DEF LoaderTypes, ToSet
    <3> QED BY <1>0, <3>1 DEF LoaderTypes
  <2>7. disk' \in Seq(DOMAIN filed)
    BY <2>2, <2>5, <2>6
  <2>8. \A i \in DOMAIN disk' : disk'[i] \in DOMAIN filed
    BY <2>7
  <2>9. disk' \in Seq(Nat)
    BY <1>0, <2>7
  <2> QED BY <1>3, <2>8, <2>9 DEF BackfillSymbol, LoaderTypes, ToSet
<1> QED BY <1>1, <1>2, <1>3 DEF ResultsNext, resultsVars, Fetch, LoadAll

\* However many results are misfiled, upwards or downwards, and wherever they
\* stand, a load leaves a right one in each row that has one, if most of the
\* documents of the other quarters sell about as much (loader.py:83-104).
THEOREM LoadedRight == ASSUME Steady PROVE ResultsSpec => MisfilesNeverWin
<1> DEFINE Right ==
      \A k \in Keys :
        LET right == DocumentsOf(k) \ Misfiled
            others == Others(k[1])
        IN  (/\ right # {}
             /\ \A n \in right : 2 * Cardinality(Like(n, others)) > Cardinality(others))
              => quarter'[k] \in right
<1>1. ResultsInit => LoaderTypes
  BY DEF ResultsInit, LoaderTypes, ToSet
<1>2. LoaderTypes /\ [ResultsNext]_resultsVars => [LoadAll => Right]_resultsVars
  <2> SUFFICES ASSUME LoaderTypes, LoadAll, NEW k \in Keys, DocumentsOf(k) \ Misfiled # {},
                      \A n \in DocumentsOf(k) \ Misfiled :
                        2 * Cardinality(Like(n, Others(k[1]))) > Cardinality(Others(k[1]))
               PROVE  quarter'[k] \in DocumentsOf(k) \ Misfiled
    OBVIOUS
  <2>1. Deduped(k) \in DocumentsOf(k) \ Misfiled /\ Deduped(k) # 0
    BY DedupedRight
  <2>2. quarter'[k] = Deduped(k)
    BY <2>1 DEF LoadAll
  <2> QED BY <2>1, <2>2
<1> QED BY <1>1, <1>2, LoaderStep, PTL DEF ResultsSpec, MisfilesNeverWin

-----------------------------------------------------------------------------
(* The holiday calendar.                                                     *)

\* The live table holds the seed and nothing the database does not.
CalendarBacked == Seed \subseteq calendar /\ calendar \subseteq Seed \cup learned

\* No refresh and no restart forgets a holiday (holidays.py:32-73).
THEOREM HolidaysStay == MasterSpec => HolidaysKept
<1>1. MasterInit => CalendarBacked
  BY DEF MasterInit, CalendarBacked
<1>2. CalendarBacked /\ [MasterNext]_masterVars =>
        CalendarBacked' /\ [calendar \subseteq calendar']_masterVars
  <2> SUFFICES ASSUME CalendarBacked, [MasterNext]_masterVars
               PROVE  CalendarBacked' /\ calendar \subseteq calendar'
    OBVIOUS
  <2>1. CASE HolidaysSwap
    BY <2>1 DEF HolidaysSwap, CalendarBacked
  <2>2. CASE RestartLoads
    BY <2>2 DEF RestartLoads, CalendarBacked
  <2>3. CASE calendar' = calendar /\ learned \subseteq learned'
    BY <2>3 DEF CalendarBacked
  <2> QED
    BY <2>1, <2>2, <2>3 DEF MasterNext, SyncStep, masterVars, List, Rename, Declare,
       SyncEquityLists, SyncChangeHistories, HolidaysCommit, SmeUnavailable, SyncRaises, YearEnds
<1> QED BY <1>1, <1>2, PTL DEF MasterSpec, HolidaysKept

-----------------------------------------------------------------------------
(* The securities master.  A symbol is never anybody else's again, so that *)
(* the symbols in use have an owner each, who is found by the rows of the  *)
(* master, by their aliases and by the rename history alike.  A list, in   *)
(* whatever order, with or without the SME board, lands row by row and     *)
(* keeps that true of the tables, or does not land.                        *)

Rows == [isin : Companies, symbol : Tickers]

MasterTypes ==
  /\ quoted \in [Companies -> Tickers \cup {Unlisted}]
  /\ renames \subseteq Tickers \X Tickers
  /\ master \in Seq(Rows)
  /\ aliases \subseteq (DOMAIN master) \X Tickers
  /\ known \subseteq Companies \X Tickers

\* The symbols somebody has or had.
Taken == Used \ {Unlisted}

\* Of the symbols in use each is one company's; own says whose.
SymbolsOwned(own) ==
  /\ \A c \in Companies : quoted[c] # Unlisted => own[quoted[c]] = c
  /\ \A p \in renames : own[p[1]] = own[p[2]]
  /\ \A p \in known : p[2] \in Taken /\ own[p[2]] = p[1]

\* Tables with a row to a company, where its symbol and its aliases are its own.
TablesOwned(own, rows, olds) ==
  /\ \A i, j \in DOMAIN rows : rows[i].isin = rows[j].isin => i = j
  /\ \A i \in DOMAIN rows : rows[i].symbol \in Taken /\ own[rows[i].symbol] = rows[i].isin
  /\ \A a \in olds : a[2] \in Taken /\ own[a[2]] = rows[a[1]].isin

Held(rows, olds) == {rows[i].symbol : i \in DOMAIN rows} \cup {a[2] : a \in olds}

MasterInvariant ==
  /\ MasterTypes
  /\ \E own : /\ DOMAIN own = Tickers /\ own = [t \in Tickers |-> own[t]]
              /\ SymbolsOwned(own) /\ TablesOwned(own, master, aliases)
  /\ \A p \in known : p[2] \in Held(master, aliases)

Databases ==
  [rows : Seq(Rows), aliases : SUBSET (Nat \X Tickers), ok : BOOLEAN]

\* Tables a sync may leave.
Sound(own, db) ==
  /\ db \in Databases
  /\ db.aliases \subseteq (DOMAIN db.rows) \X Tickers
  /\ TablesOwned(own, db.rows, db.aliases)
  /\ Held(master, aliases) \subseteq Held(db.rows, db.aliases)

LEMMA UpsertSound ==
  ASSUME MasterTypes, NEW own, SymbolsOwned(own),
         NEW db, Sound(own, db), NEW c \in Companies, quoted[c] # Unlisted
  PROVE  Sound(own, UpsertSecurity(db, c))
<1> DEFINE row == [isin |-> c, symbol |-> quoted[c]]
           found == IF Ids(db, c) # {} THEN Ids(db, c) ELSE Holders(db, quoted[c])
           id == CHOOSE i \in found : TRUE
           old == <<id, db.rows[id].symbol>>
<1>1. /\ row \in Rows /\ quoted[c] \in Taken /\ own[quoted[c]] = c
      /\ row.isin = c /\ row.symbol = quoted[c]
  BY DEF MasterTypes, Rows, SymbolsOwned, Taken, Used
<1>2. /\ db.rows \in Seq(Rows) /\ db.aliases \subseteq (DOMAIN db.rows) \X Tickers
      /\ db.ok \in BOOLEAN /\ DOMAIN db.rows = 1..Len(db.rows) /\ Len(db.rows) \in Nat
      /\ \A i \in DOMAIN db.rows : db.rows[i] \in Rows
      /\ db = [rows |-> db.rows, aliases |-> db.aliases, ok |-> db.ok]
  BY DEF Sound, Databases
<1>3. Ids(db, c) = {} => Holders(db, quoted[c]) = {}
  <2> SUFFICES ASSUME NEW i \in Holders(db, quoted[c]) PROVE i \in Ids(db, c)
    OBVIOUS
  <2>1. i \in DOMAIN db.rows /\ db.rows[i].symbol = quoted[c]
    BY DEF Holders
  <2>2. own[db.rows[i].symbol] = db.rows[i].isin
    BY <2>1 DEF Sound, TablesOwned
  <2> QED BY <1>1, <2>1, <2>2 DEF Ids
<1>4. CASE ~db.ok
  BY <1>4 DEF UpsertSecurity
<1>5. CASE db.ok /\ found = {}
  <2> DEFINE after == [db EXCEPT !.rows = Append(@, row)]
             longer == Append(db.rows, row)
  <2>1. UpsertSecurity(db, c) = after
    BY <1>5 DEF UpsertSecurity
  <2>3. /\ longer \in Seq(Rows) /\ DOMAIN longer = 1..(Len(db.rows) + 1)
        /\ \A i \in DOMAIN db.rows : i \in DOMAIN longer /\ longer[i] = db.rows[i]
        /\ longer[Len(db.rows) + 1] = row
        /\ \A i \in DOMAIN longer : i \in DOMAIN db.rows \/ longer[i] = row
        /\ \A i \in DOMAIN longer : i \in DOMAIN db.rows \/ i = Len(db.rows) + 1
    BY <1>1, <1>2
  <2>2. after.rows = longer /\ after.aliases = db.aliases /\ after \in Databases
    BY <2>3 DEF Sound, Databases
  <2> HIDE DEF longer, after
  <2>4. \A i \in DOMAIN db.rows : db.rows[i].isin # c
    BY <1>3, <1>5 DEF Ids
  <2>5. /\ \A i, j \in DOMAIN longer : longer[i].isin = longer[j].isin => i = j
        /\ \A i \in DOMAIN longer : longer[i].symbol \in Taken /\ own[longer[i].symbol] = longer[i].isin
    BY <1>1, <2>3, <2>4 DEF Sound, TablesOwned
  <2>6. \A a \in db.aliases : a[1] \in DOMAIN db.rows /\ longer[a[1]] = db.rows[a[1]]
    BY <1>2, <2>3
  <2>7. TablesOwned(own, longer, db.aliases)
    BY <2>5, <2>6 DEF Sound, TablesOwned
  <2>8. Held(db.rows, db.aliases) \subseteq Held(longer, db.aliases)
    BY <2>3 DEF Held
  <2>9. db.aliases \subseteq (DOMAIN longer) \X Tickers /\ db.aliases \in SUBSET (Nat \X Tickers)
    BY <1>2, <2>3
  <2>10. Sound(own, after)
    BY <2>2, <2>3, <2>7, <2>8, <2>9 DEF Sound
  <2> QED BY <2>1, <2>10 DEF after
<1>6. CASE db.ok /\ found # {}
  <2>1. id \in DOMAIN db.rows /\ db.rows[id].isin = c
    <3>1. id \in found
      BY <1>6
    <3>2. found = Ids(db, c)
      BY <1>3, <1>6
    <3> QED BY <3>1, <3>2 DEF Ids
  <2> HIDE DEF id
  <2> DEFINE changed == [db.rows EXCEPT ![id] = row]
  <2>2. /\ changed \in Seq(Rows) /\ DOMAIN changed = DOMAIN db.rows
        /\ changed[id] = row
        /\ \A i \in DOMAIN db.rows : i # id => changed[i] = db.rows[i]
    BY <1>1, <1>2, <2>1
  <2> HIDE DEF changed
  <2>3. \A i \in DOMAIN db.rows : changed[i].isin = db.rows[i].isin
    BY <1>1, <2>1, <2>2
  <2>4. \A i \in DOMAIN db.rows : changed[i].symbol \in Taken /\ own[changed[i].symbol] = changed[i].isin
    BY <1>1, <2>1, <2>2 DEF Sound, TablesOwned
  <2>5. /\ old[1] = id /\ old[2] = db.rows[id].symbol /\ old \in (DOMAIN db.rows) \X Tickers
        /\ old[2] \in Taken /\ own[old[2]] = c
    BY <1>2, <2>1 DEF Rows, Sound, TablesOwned
  <2> HIDE DEF old
  <2>6. CASE db.rows[id].symbol = quoted[c]
    <3>1. UpsertSecurity(db, c) = [db EXCEPT !.rows[id] = row]
      BY <1>6, <2>6 DEF UpsertSecurity, id
    <3> DEFINE after == [db EXCEPT !.rows[id] = row]
    <3>2. after.rows = changed /\ after.aliases = db.aliases /\ after \in Databases
      BY <2>2 DEF Sound, Databases, changed
    <3> HIDE DEF after
    <3>3. TablesOwned(own, changed, db.aliases)
      BY <1>2, <2>2, <2>3, <2>4 DEF Sound, TablesOwned
    <3>4. Held(db.rows, db.aliases) \subseteq Held(changed, db.aliases)
      BY <1>1, <2>2, <2>6 DEF Held
    <3>5. db.aliases \subseteq (DOMAIN changed) \X Tickers /\ db.aliases \in SUBSET (Nat \X Tickers)
      BY <1>2, <2>2
    <3>6. Sound(own, after)
      BY <2>2, <3>2, <3>3, <3>4, <3>5 DEF Sound
    <3> QED BY <3>1, <3>6 DEF after
  <2>7. CASE db.rows[id].symbol # quoted[c] /\ (old \in db.aliases \/ Holders(db, quoted[c]) # {})
    <3>1. UpsertSecurity(db, c) = [db EXCEPT !.ok = FALSE]
      BY <1>6, <2>7 DEF UpsertSecurity, id, old
    <3> DEFINE after == [db EXCEPT !.ok = FALSE]
    <3>2. after.rows = db.rows /\ after.aliases = db.aliases /\ after \in Databases
      BY DEF Sound, Databases
    <3> HIDE DEF after
    <3>3. Sound(own, after)
      BY <3>2 DEF Sound
    <3> QED BY <3>1, <3>3 DEF after
  <2>8. CASE db.rows[id].symbol # quoted[c] /\ old \notin db.aliases /\ Holders(db, quoted[c]) = {}
    <3> DEFINE more == db.aliases \cup {old}
    <3>1. UpsertSecurity(db, c) = [db EXCEPT !.rows[id] = row, !.aliases = @ \cup {old}]
      BY <1>6, <2>8 DEF UpsertSecurity, id, old
    <3>5. more \subseteq (DOMAIN changed) \X Tickers /\ more \in SUBSET (Nat \X Tickers)
      BY <1>2, <2>2, <2>5
    <3> DEFINE after == [db EXCEPT !.rows[id] = row, !.aliases = @ \cup {old}]
    <3>2. after.rows = changed /\ after.aliases = more /\ after \in Databases
      BY <2>2, <3>5 DEF Sound, Databases, changed
    <3> HIDE DEF after
    <3>3. TablesOwned(own, changed, more)
      <4>1. \A a \in db.aliases : a[2] \in Taken /\ own[a[2]] = changed[a[1]].isin
        BY <1>2, <2>3 DEF Sound, TablesOwned
      <4>2. own[old[2]] = changed[old[1]].isin
        BY <1>1, <2>2, <2>5
      <4>3. \A i, j \in DOMAIN changed : changed[i].isin = changed[j].isin => i = j
        BY <2>2, <2>3 DEF Sound, TablesOwned
      <4> QED BY <2>2, <2>4, <2>5, <4>1, <4>2, <4>3 DEF TablesOwned
    <3>4. Held(db.rows, db.aliases) \subseteq Held(changed, more)
      BY <1>1, <2>2, <2>5 DEF Held
    <3>6. Sound(own, after)
      BY <2>2, <3>2, <3>3, <3>4, <3>5 DEF Sound
    <3> QED BY <3>1, <3>6 DEF after
  <2> QED BY <1>6, <2>6, <2>7, <2>8
<1> QED BY <1>2, <1>4, <1>5, <1>6

\* The tables row by row: the recursion of Upserted has a solution.
Tables == [rows |-> master, aliases |-> aliases, ok |-> TRUE]

Listing(f, q, n) ==
  f = [k \in 0..n |-> IF k = 0 THEN Tables ELSE UpsertSecurity(f[k - 1], q[k])]

LEMMA ListingStep ==
  ASSUME NEW q, NEW n \in Nat, NEW f, Listing(f, q, n)
  PROVE  f[0] = Tables /\ \A k \in 1..n : f[k] = UpsertSecurity(f[k - 1], q[k])
<1>1. \A k \in 0..n : f[k] = IF k = 0 THEN Tables ELSE UpsertSecurity(f[k - 1], q[k])
  BY Zenon DEF Listing
<1> QED BY <1>1

LEMMA ListingExists == ASSUME NEW q, NEW n \in Nat PROVE \E f : Listing(f, q, n)
<1> DEFINE T == {m \in 0..n : \E f : Listing(f, q, m)}
<1>1. 0 \in T
  <2> DEFINE g == [k \in 0..0 |-> Tables]
  <2>1. g = [k \in 0..0 |-> IF k = 0 THEN Tables ELSE UpsertSecurity(g[k - 1], q[k])]
    OBVIOUS
  <2> HIDE DEF g
  <2>2. Listing(g, q, 0)
    BY <2>1 DEF Listing
  <2> QED BY <2>2
<1>2. ASSUME NEW m \in 1..n, m - 1 \in T PROVE m \in T
  <2>1. PICK f : Listing(f, q, m - 1)
    BY <1>2
  <2>2. f[0] = Tables /\ \A k \in 1..(m - 1) : f[k] = UpsertSecurity(f[k - 1], q[k])
    BY <2>1, ListingStep
  <2> DEFINE g == [k \in 0..m |-> IF k = m THEN UpsertSecurity(f[m - 1], q[m]) ELSE f[k]]
  <2>3. \A k \in 0..m : g[k] = IF k = 0 THEN Tables ELSE UpsertSecurity(g[k - 1], q[k])
    <3> SUFFICES ASSUME NEW k \in 0..m
                 PROVE  g[k] = IF k = 0 THEN Tables ELSE UpsertSecurity(g[k - 1], q[k])
      OBVIOUS
    <3>1. CASE k = 0
      BY <2>2, <3>1
    <3>2. CASE k = m
      <4>1. k # 0 /\ k - 1 \in 0..m /\ k - 1 # m
        BY <3>2
      <4>2. g[k] = UpsertSecurity(f[m - 1], q[m]) /\ g[k - 1] = f[k - 1]
        BY <3>2, <4>1
      <4> HIDE DEF g
      <4> QED BY <3>2, <4>1, <4>2
    <3>3. CASE k # 0 /\ k # m
      <4>1. k \in 1..(m - 1) /\ k - 1 \in 0..m /\ k - 1 # m
        BY <3>3
      <4>2. g[k] = f[k] /\ g[k - 1] = f[k - 1]
        BY <3>3, <4>1
      <4>3. f[k] = UpsertSecurity(f[k - 1], q[k])
        BY <2>2, <4>1
      <4> HIDE DEF g
      <4> QED BY <3>3, <4>2, <4>3
    <3> QED BY <3>1, <3>2, <3>3
  <2>4. g = [k \in 0..m |-> g[k]]
    OBVIOUS
  <2>5. Listing(g, q, m)
    <3> HIDE DEF g
    <3> QED BY <2>3, <2>4 DEF Listing
  <2> HIDE DEF g
  <2> QED BY <2>5
<1>3. 0..n \subseteq T
  <2> HIDE DEF T
  <2> QED BY <1>1, <1>2, UpTo
<1> QED BY <1>3

LEMMA UpsertedSound ==
  ASSUME MasterTypes, NEW own, SymbolsOwned(own), TablesOwned(own, master, aliases),
         NEW q \in Seq(Companies), \A k \in DOMAIN q : quoted[q[k]] # Unlisted
  PROVE  Sound(own, Upserted(q))
<1>0. Len(q) \in Nat /\ DOMAIN q = 1..Len(q) /\ \A k \in 1..Len(q) : q[k] \in Companies
  OBVIOUS
<1> DEFINE f == CHOOSE g : Listing(g, q, Len(q))
<1>1. Listing(f, q, Len(q))
  BY <1>0, ListingExists
<1>2. Upserted(q) = f[Len(q)]
  BY DEF Upserted, Listing, Tables
<1> HIDE DEF f
<1>3. f[0] = Tables /\ \A k \in 1..Len(q) : f[k] = UpsertSecurity(f[k - 1], q[k])
  BY <1>0, <1>1, ListingStep
<1> DEFINE T == {k \in 0..Len(q) : Sound(own, f[k])}
<1>4. 0 \in T
  <2>1. Tables.rows = master /\ Tables.aliases = aliases /\ Tables \in Databases
    BY DEF Tables, Databases, MasterTypes
  <2>2. Sound(own, Tables)
    BY <2>1 DEF Sound, MasterTypes
  <2> QED BY <1>0, <1>3, <2>2
<1>5. ASSUME NEW k \in 1..Len(q), k - 1 \in T PROVE k \in T
  <2>1. Sound(own, f[k - 1]) /\ q[k] \in Companies /\ quoted[q[k]] # Unlisted
    BY <1>0, <1>5
  <2>2. Sound(own, UpsertSecurity(f[k - 1], q[k]))
    BY <2>1, UpsertSound
  <2> QED BY <1>3, <2>2
<1>6. 0..Len(q) \subseteq T
  <2> HIDE DEF T
  <2> QED BY <1>0, <1>4, <1>5, UpTo
<1> QED BY <1>0, <1>2, <1>6

\* A list in any order is a sequence of listed companies.
LEMMA InAnyOrder ==
  ASSUME NEW board \in SUBSET Companies, NEW q \in SetToSeqs(OnLists(board))
  PROVE  q \in Seq(Companies) /\ \A k \in DOMAIN q : quoted[q[k]] # Unlisted
<1>1. OnLists(board) \in SUBSET Companies
  BY DEF OnLists
<1>2. Cardinality(OnLists(board)) \in Nat
  BY <1>1, FS_Subset, FS_CardinalityType, MasterAssumption
<1>3. q \in [1..Cardinality(OnLists(board)) -> OnLists(board)]
  BY DEF SetToSeqs
<1>4. q \in Seq(OnLists(board))
  BY <1>2, <1>3
<1>5. \A k \in DOMAIN q : q[k] \in OnLists(board)
  BY <1>3
<1> QED BY <1>1, <1>4, <1>5 DEF OnLists

\* A list that lands.
LEMMA Landed ==
  ASSUME MasterInvariant,
         NEW q \in Seq(Companies), \A k \in DOMAIN q : quoted[q[k]] # Unlisted,
         UNCHANGED <<quoted, renames>>,
         master' = Upserted(q).rows, aliases' = Upserted(q).aliases,
         known' = known \cup {<<r.isin, r.symbol>> : r \in Range(Upserted(q).rows)}
  PROVE  MasterInvariant'
<1>1. PICK own : /\ own = [t \in Tickers |-> own[t]] /\ DOMAIN own = Tickers
                 /\ SymbolsOwned(own) /\ TablesOwned(own, master, aliases)
  BY DEF MasterInvariant
<1> DEFINE db == Upserted(q)
<1>2. Sound(own, db)
  BY <1>1, UpsertedSound DEF MasterInvariant
<1> HIDE DEF db
<1>3. /\ master' = db.rows /\ aliases' = db.aliases
      /\ known' = known \cup {<<r.isin, r.symbol>> : r \in Range(db.rows)}
  BY DEF db
<1>4. /\ db.rows \in Seq(Rows) /\ db.aliases \subseteq (DOMAIN db.rows) \X Tickers
      /\ TablesOwned(own, db.rows, db.aliases)
      /\ Held(master, aliases) \subseteq Held(db.rows, db.aliases)
  BY <1>2 DEF Sound, Databases
<1>5. \A i \in DOMAIN db.rows : db.rows[i] \in Rows
  BY <1>4
<1>6. ASSUME NEW p \in known', p \notin known
      PROVE  \E i \in DOMAIN db.rows : p = <<db.rows[i].isin, db.rows[i].symbol>>
  BY <1>3, <1>6 DEF Range
<1>7. Taken' = Taken
  BY DEF Taken, Used
<1>8. MasterTypes'
  <2>1. known' \subseteq Companies \X Tickers
    BY <1>5, <1>6 DEF Rows, MasterInvariant, MasterTypes
  <2> QED BY <1>3, <1>4, <2>1 DEF MasterInvariant, MasterTypes, Rows
<1>9. SymbolsOwned(own)'
  <2>1. ASSUME NEW p \in known' PROVE p[2] \in Taken /\ own[p[2]] = p[1]
    <3>1. CASE p \in known
      BY <1>1, <3>1 DEF SymbolsOwned
    <3>2. CASE p \notin known
      <4>1. PICK i \in DOMAIN db.rows : p = <<db.rows[i].isin, db.rows[i].symbol>>
        BY <1>6, <3>2
      <4>2. db.rows[i].symbol \in Taken /\ own[db.rows[i].symbol] = db.rows[i].isin
        BY <1>4 DEF TablesOwned
      <4> QED BY <4>1, <4>2
    <3> QED BY <3>1, <3>2
  <2> QED BY <1>1, <1>7, <2>1 DEF SymbolsOwned
<1>10. TablesOwned(own, master, aliases)'
  BY <1>3, <1>4, <1>7 DEF TablesOwned
<1>11. \A p \in known' : p[2] \in Held(master, aliases)'
  <2>1. \A p \in known : p[2] \in Held(db.rows, db.aliases)
    BY <1>4 DEF MasterInvariant
  <2>2. \A i \in DOMAIN db.rows : db.rows[i].symbol \in Held(db.rows, db.aliases)
    BY DEF Held
  <2> QED BY <1>3, <1>6, <2>1, <2>2 DEF Held
<1> QED BY <1>1, <1>8, <1>9, <1>10, <1>11 DEF MasterInvariant

\* A company takes a symbol nobody had, or takes one of its own back.
LEMMA SymbolTaken ==
  ASSUME MasterInvariant, NEW c \in Companies, NEW t \in Tickers,
         t \notin Used \/ (quoted[c] # Unlisted /\ t \in Had(c)),
         quoted' = [quoted EXCEPT ![c] = t],
         renames' = IF quoted[c] = Unlisted THEN renames ELSE renames \cup {<<quoted[c], t>>},
         UNCHANGED <<master, aliases, known>>
  PROVE  MasterInvariant'
<1> USE DEF MasterInvariant
<1>1. PICK own : /\ own = [s \in Tickers |-> own[s]] /\ DOMAIN own = Tickers
                 /\ SymbolsOwned(own) /\ TablesOwned(own, master, aliases)
  OBVIOUS
<1>2. /\ \A d \in Companies : quoted[d] # Unlisted => quoted[d] \in Taken /\ quoted[d] \in Tickers
      /\ \A p \in renames : /\ p[1] \in Taken /\ p[2] \in Taken
                            /\ p = <<p[1], p[2]>> /\ p[1] \in Tickers /\ p[2] \in Tickers
  <2>1. \A p \in renames : p[1] \in Tickers /\ p[2] \in Tickers /\ p = <<p[1], p[2]>>
    BY DEF MasterTypes
  <2>2. \A p \in renames : p[1] \in Used /\ p[2] \in Used
    BY DEF Used
  <2>3. \A d \in Companies : quoted[d] \in Used /\ quoted[d] \in Tickers \cup {Unlisted}
    BY DEF Used, MasterTypes
  <2> QED BY <2>1, <2>2, <2>3, MasterAssumption DEF Taken
<1>3. \E new : /\ DOMAIN new = Tickers /\ new = [s \in Tickers |-> new[s]]
               /\ new[t] = c
               /\ \A s \in Taken : new[s] = own[s]
  <2>1. CASE t \notin Used
    <3> DEFINE new == [own EXCEPT ![t] = c]
    <3>1. DOMAIN new = Tickers /\ new = [s \in Tickers |-> new[s]] /\ new[t] = c
      BY <1>1
    <3>2. \A s \in Taken : new[s] = own[s]
      BY <1>1, <2>1 DEF Taken
    <3> HIDE DEF new
    <3> QED BY <3>1, <3>2
  <2>2. CASE quoted[c] # Unlisted /\ t \in Had(c)
    <3>1. own[quoted[c]] = c
      BY <1>1, <2>2 DEF SymbolsOwned
    <3>2. t = quoted[c] \/ \E p \in renames : p[2] = quoted[c] /\ t = p[1]
      BY <2>2 DEF Had
    <3>3. own[t] = c
      BY <1>1, <3>1, <3>2 DEF SymbolsOwned
    <3> QED BY <1>1, <3>3
  <2> QED BY <2>1, <2>2
<1>4. PICK new : /\ DOMAIN new = Tickers /\ new = [s \in Tickers |-> new[s]]
                 /\ new[t] = c
                 /\ \A s \in Taken : new[s] = own[s]
  BY <1>3
<1>5. /\ quoted'[c] = t /\ \A d \in Companies : d # c => quoted'[d] = quoted[d]
      /\ renames \subseteq renames'
      /\ quoted[c] # Unlisted => <<quoted[c], t>> \in renames'
      /\ \A p \in renames' : p \in renames \/ (quoted[c] # Unlisted /\ p = <<quoted[c], t>>)
  BY DEF MasterTypes
<1>6. Taken \subseteq Taken'
  <2> SUFFICES ASSUME NEW s \in Taken PROVE s \in Taken'
    OBVIOUS
  <2>1. s # Unlisted
    BY DEF Taken
  <2>2. CASE \E d \in Companies : s = quoted[d]
    <3>1. PICK d \in Companies : s = quoted[d]
      BY <2>2
    <3>2. CASE d # c
      BY <1>5, <2>1, <3>1, <3>2 DEF Taken, Used
    <3>3. CASE d = c
      <4>1. <<s, t>> \in renames'
        BY <1>5, <2>1, <3>1, <3>3
      <4>2. s \in {<<s, t>>[1], <<s, t>>[2]}
        OBVIOUS
      <4> QED BY <2>1, <4>1, <4>2 DEF Taken, Used
    <3> QED BY <3>2, <3>3
  <2>3. CASE \E p \in renames : s \in {p[1], p[2]}
    BY <1>5, <2>1, <2>3 DEF Taken, Used
  <2> QED BY <2>2, <2>3 DEF Taken, Used
<1>7. MasterTypes'
  BY <1>2 DEF MasterTypes
<1>8. SymbolsOwned(new)'
  <2>1. ASSUME NEW d \in Companies, quoted'[d] # Unlisted PROVE new[quoted'[d]] = d
    <3>1. CASE d = c
      BY <1>4, <1>5, <3>1
    <3>2. CASE d # c
      <4>1. quoted'[d] = quoted[d] /\ quoted[d] \in Taken
        BY <1>2, <1>5, <2>1, <3>2
      <4>2. own[quoted[d]] = d
        BY <1>1, <2>1, <4>1 DEF SymbolsOwned
      <4> QED BY <1>4, <4>1, <4>2
    <3> QED BY <3>1, <3>2
  <2>2. ASSUME NEW p \in renames' PROVE new[p[1]] = new[p[2]]
    <3>1. CASE p \in renames
      BY <1>1, <1>2, <1>4, <3>1 DEF SymbolsOwned
    <3>2. CASE quoted[c] # Unlisted /\ p = <<quoted[c], t>>
      BY <1>1, <1>2, <1>4, <3>2 DEF SymbolsOwned
    <3> QED BY <1>5, <3>1, <3>2
  <2>3. \A p \in known' : p[2] \in Taken' /\ new[p[2]] = p[1]
    BY <1>1, <1>4, <1>6 DEF SymbolsOwned
  <2> QED BY <2>1, <2>2, <2>3 DEF SymbolsOwned
<1>9. TablesOwned(new, master, aliases)'
  BY <1>1, <1>4, <1>6 DEF TablesOwned
<1>10. \A p \in known' : p[2] \in Held(master, aliases)'
  BY DEF Held
<1> QED BY <1>4, <1>7, <1>8, <1>9, <1>10

\* The rename histories give a company's row its old symbols.
LEMMA HistoriesLand ==
  ASSUME MasterInvariant, UNCHANGED <<quoted, renames, master, known>>,
         aliases' = aliases \cup UNION {{<<i, p[1]>> : i \in Holders([rows |-> master], p[2])} :
                                          p \in renames}
  PROVE  MasterInvariant'
<1> USE DEF MasterInvariant
<1>1. PICK own : /\ own = [s \in Tickers |-> own[s]] /\ DOMAIN own = Tickers
                 /\ SymbolsOwned(own) /\ TablesOwned(own, master, aliases)
  OBVIOUS
<1>2. ASSUME NEW a \in aliases', a \notin aliases
      PROVE  /\ a[1] \in DOMAIN master /\ a[2] \in Tickers /\ a = <<a[1], a[2]>>
             /\ a[2] \in Taken /\ own[a[2]] = master[a[1]].isin
  <2>0. PICK p \in renames : \E i \in Holders([rows |-> master], p[2]) : a = <<i, p[1]>>
    BY <1>2
  <2>1. PICK i \in Holders([rows |-> master], p[2]) : a = <<i, p[1]>>
    BY <2>0
  <2>2. i \in DOMAIN master /\ master[i].symbol = p[2]
    BY DEF Holders
  <2>3. own[p[1]] = own[p[2]] /\ own[p[2]] = master[i].isin
    BY <1>1, <2>2 DEF SymbolsOwned, TablesOwned
  <2>4. p[1] \in Tickers /\ p[1] \in Used
    BY DEF MasterTypes, Used
  <2> QED BY <2>1, <2>2, <2>3, <2>4, MasterAssumption DEF Taken
<1>3. Taken' = Taken
  BY DEF Taken, Used
<1>4. MasterTypes'
  <2>1. aliases' \subseteq (DOMAIN master) \X Tickers
    BY <1>2 DEF MasterTypes
  <2> QED BY <2>1 DEF MasterTypes
<1>5. SymbolsOwned(own)'
  BY <1>1, <1>3 DEF SymbolsOwned
<1>6. TablesOwned(own, master, aliases)'
  BY <1>1, <1>2, <1>3 DEF TablesOwned
<1>7. \A p \in known' : p[2] \in Held(master, aliases)'
  <2>1. aliases \subseteq aliases'
    OBVIOUS
  <2> QED BY <2>1 DEF Held
<1> QED BY <1>1, <1>4, <1>5, <1>6, <1>7

LEMMA MasterStarts == MasterInit => MasterInvariant
<1> SUFFICES ASSUME MasterInit PROVE MasterInvariant
  OBVIOUS
<1> DEFINE own == [s \in Tickers |-> s]
<1>1. DOMAIN own = Tickers /\ own = [s \in Tickers |-> own[s]]
  OBVIOUS
<1> HIDE DEF own
<1>2. MasterTypes
  BY DEF MasterInit, MasterTypes
<1>3. SymbolsOwned(own) /\ TablesOwned(own, master, aliases)
  BY DEF MasterInit, SymbolsOwned, TablesOwned
<1> QED BY <1>1, <1>2, <1>3 DEF MasterInvariant, MasterInit

LEMMA MasterStep == MasterInvariant /\ [MasterNext]_masterVars => MasterInvariant'
<1> SUFFICES ASSUME MasterInvariant, [MasterNext]_masterVars PROVE MasterInvariant'
  OBVIOUS
<1>1. CASE UNCHANGED <<quoted, renames, master, aliases, known>>
  <2>1. Taken' = Taken /\ Held(master, aliases)' = Held(master, aliases) /\ MasterTypes'
    BY <1>1 DEF Taken, Used, Held, MasterInvariant, MasterTypes
  <2>2. PICK own : /\ DOMAIN own = Tickers /\ own = [t \in Tickers |-> own[t]]
                   /\ SymbolsOwned(own) /\ TablesOwned(own, master, aliases)
    BY DEF MasterInvariant
  <2>3. SymbolsOwned(own)' /\ TablesOwned(own, master, aliases)'
    BY <1>1, <2>1, <2>2 DEF SymbolsOwned, TablesOwned
  <2> QED BY <1>1, <2>1, <2>2, <2>3 DEF MasterInvariant
<1>2. ASSUME NEW c \in Companies, NEW t \in Tickers, List(c, t) PROVE MasterInvariant'
  BY <1>2, SymbolTaken DEF List
<1>3. ASSUME NEW c \in Companies, NEW t \in Tickers, Rename(c, t) PROVE MasterInvariant'
  BY <1>3, SymbolTaken DEF Rename
<1>4. CASE SyncEquityLists
  <2>1. PICK main \in SetToSeqs(OnLists(Companies \ Sme)), sme \in SetToSeqs(OnLists(Sme)) :
          LET db == Upserted(main \o sme)
          IN  IF db.ok
              THEN /\ master' = db.rows
                   /\ aliases' = db.aliases
                   /\ known' = known \cup {<<r.isin, r.symbol>> : r \in Range(db.rows)}
              ELSE UNCHANGED <<master, aliases, known>>
    BY <1>4 DEF SyncEquityLists
  <2> DEFINE q == main \o sme
  <2>2. q \in Seq(Companies) /\ \A k \in DOMAIN q : quoted[q[k]] # Unlisted
    <3>1. /\ main \in Seq(Companies) /\ \A k \in DOMAIN main : quoted[main[k]] # Unlisted
          /\ sme \in Seq(Companies) /\ \A k \in DOMAIN sme : quoted[sme[k]] # Unlisted
      BY InAnyOrder, MasterAssumption
    <3> QED BY <3>1
  <2> HIDE DEF q
  <2>3. CASE Upserted(q).ok
    <3>1. /\ master' = Upserted(q).rows /\ aliases' = Upserted(q).aliases
          /\ known' = known \cup {<<r.isin, r.symbol>> : r \in Range(Upserted(q).rows)}
      BY <2>1, <2>3 DEF q
    <3> QED BY <1>4, <2>2, <3>1, Landed DEF SyncEquityLists
  <2>4. CASE ~Upserted(q).ok
    BY <1>1, <1>4, <2>1, <2>4 DEF SyncEquityLists, q
  <2> QED BY <2>3, <2>4
<1>5. CASE SmeUnavailable
  <2>1. PICK q \in SetToSeqs(OnLists(Companies \ Sme)) :
          /\ master' = Upserted(q).rows
          /\ aliases' = Upserted(q).aliases
          /\ known' = known \cup {<<r.isin, r.symbol>> : r \in Range(Upserted(q).rows)}
    BY <1>5 DEF SmeUnavailable
  <2>2. q \in Seq(Companies) /\ \A k \in DOMAIN q : quoted[q[k]] # Unlisted
    BY InAnyOrder
  <2> QED BY <1>5, <2>1, <2>2, Landed DEF SmeUnavailable
<1>6. CASE SyncChangeHistories
  BY <1>1, <1>6, HistoriesLand DEF SyncChangeHistories
<1> QED
  BY <1>1, <1>2, <1>3, <1>4, <1>5, <1>6
     DEF MasterNext, SyncStep, masterVars, Declare, HolidaysCommit, HolidaysSwap, SyncRaises,
         RestartLoads, YearEnds

\* Through every rename, missed sync and missing list, a symbol the master has
\* held resolves to that company and no other (securities_master.py:75-124).
THEOREM SymbolsResolve == MasterSpec => []KnownSymbolsResolve
<1>1. MasterInvariant => KnownSymbolsResolve
  <2> SUFFICES ASSUME MasterInvariant, NEW p \in known
               PROVE  Resolve(p[2]) # {} /\ \A i \in Resolve(p[2]) : master[i].isin = p[1]
    BY DEF KnownSymbolsResolve
  <2>1. PICK own : SymbolsOwned(own) /\ TablesOwned(own, master, aliases)
    BY DEF MasterInvariant
  <2>2. own[p[2]] = p[1] /\ p[2] \in Held(master, aliases)
    BY <2>1 DEF SymbolsOwned, MasterInvariant
  <2>3. \A i \in DOMAIN master : own[master[i].symbol] = master[i].isin
    BY <2>1 DEF TablesOwned
  <2>4. \A a \in aliases : own[a[2]] = master[a[1]].isin
    BY <2>1 DEF TablesOwned
  <2>5. Resolve(p[2]) # {}
    BY <2>2 DEF Resolve, Held
  <2>6. \A i \in Resolve(p[2]) : \/ i \in DOMAIN master /\ master[i].symbol = p[2]
                                 \/ \E a \in aliases : a[1] = i /\ a[2] = p[2]
    BY DEF Resolve
  <2> QED BY <2>2, <2>3, <2>4, <2>5, <2>6
<1> QED BY <1>1, MasterStarts, MasterStep, PTL DEF MasterSpec

-----------------------------------------------------------------------------
(* Measured signals.                                                         *)

\* The n-th bar after the entry is one bar, at least n days later.
LEMMA WindowOf ==
  ASSUME NEW series, series \subseteq Nat, IsFiniteSet(series), NEW signal, NEW n \in Nat \ {0},
         NEW w \in WindowReturn(series, signal, n)
  PROVE  /\ w = <<w[1], w[2]>> /\ w[1] \in series /\ w[2] \in series
         /\ OnOrAfter(w[1], signal)
         /\ w[2] - w[1] >= n
<1>1. /\ w = <<w[1], w[2]>> /\ w[1] \in series /\ w[2] \in series
      /\ OnOrAfter(w[1], signal) /\ w[1] < w[2]
      /\ Cardinality({d \in series : w[1] < d /\ d <= w[2]}) = n
  BY DEF WindowReturn
<1>2. w[1] + 1 \in Int /\ w[2] \in Int /\ w[1] + 1 <= w[2]
  BY <1>1
<1>3. /\ IsFiniteSet((w[1] + 1)..w[2])
      /\ Cardinality((w[1] + 1)..w[2]) = w[2] - (w[1] + 1) + 1
  BY <1>2, FS_Interval
<1>4. {d \in series : w[1] < d /\ d <= w[2]} \subseteq (w[1] + 1)..w[2]
  BY <1>1
<1>5. n <= Cardinality((w[1] + 1)..w[2])
  BY <1>1, <1>3, <1>4, FS_Subset
<1> QED BY <1>1, <1>2, <1>3, <1>5

LEMMA WindowUnique ==
  ASSUME NEW series, series \subseteq Nat, IsFiniteSet(series), NEW signal, NEW n \in Nat \ {0},
         NEW v \in WindowReturn(series, signal, n), NEW w \in WindowReturn(series, signal, n)
  PROVE  v = w
<1> DEFINE Passed(x) == {d \in series : v[1] < d /\ d <= x}
<1>1. /\ v = <<v[1], v[2]>> /\ w = <<w[1], w[2]>>
      /\ v[1] \in series /\ v[2] \in series /\ w[1] \in series /\ w[2] \in series
      /\ v[1] < v[2] /\ w[1] < w[2]
  BY DEF WindowReturn
<1>2. v[1] = w[1]
  <2>1. ~(v[1] < w[1]) /\ ~(w[1] < v[1])
    BY <1>1 DEF WindowReturn
  <2> QED BY <1>1, <2>1
<1>3. Cardinality(Passed(v[2])) = n /\ Cardinality(Passed(w[2])) = n
  BY <1>2 DEF WindowReturn
<1>4. ASSUME NEW x \in series, NEW y \in series, v[1] < x, x < y
      PROVE  Cardinality(Passed(x)) < Cardinality(Passed(y))
  <2>1. Passed(x) \subseteq Passed(y) /\ y \in Passed(y) /\ y \notin Passed(x)
    BY <1>1, <1>4
  <2>2. IsFiniteSet(Passed(y))
    BY FS_Subset
  <2>3. Passed(x) \in SUBSET Passed(y) /\ Passed(x) # Passed(y)
    BY <2>1
  <2>4. /\ Cardinality(Passed(x)) <= Cardinality(Passed(y))
        /\ Cardinality(Passed(x)) # Cardinality(Passed(y))
    BY <2>2, <2>3, FS_Subset
  <2>5. Cardinality(Passed(x)) \in Nat /\ Cardinality(Passed(y)) \in Nat
    BY <2>2, <2>3, FS_Subset, FS_CardinalityType
  <2> HIDE DEF Passed
  <2> QED BY <2>4, <2>5
<1>5. ~(v[2] < w[2]) /\ ~(w[2] < v[2])
  BY <1>1, <1>2, <1>3, <1>4
<1> QED BY <1>1, <1>2, <1>5

\* Bars and signals carry numbers of days; NoHindsight is inductive with that.
HistoryInvariant ==
  /\ day \in Nat
  /\ bars \subseteq 1..day /\ indexBars \subseteq 1..day
  /\ \A s \in issued : s.day \in Nat
  /\ NoHindsight

LEMMA MeasureKeeps ==
  ASSUME HistoryInvariant, Measure PROVE NoHindsight'
<1>1. /\ bars \subseteq Nat /\ IsFiniteSet(bars)
      /\ indexBars \subseteq Nat /\ IsFiniteSet(indexBars)
  <2>1. IsFiniteSet(1..day)
    BY FS_Interval DEF HistoryInvariant
  <2>2. bars \in SUBSET (1..day) /\ indexBars \in SUBSET (1..day) /\ 1..day \subseteq Nat
    BY DEF HistoryInvariant
  <2>3. IsFiniteSet(bars) /\ IsFiniteSet(indexBars)
    BY <2>1, <2>2, FS_Subset
  <2> QED BY <2>2, <2>3
<1>2. ASSUME NEW r \in performance', r \notin performance
      PROVE  \E q \in Unmeasured : r \in Measured(q[1], q[2])
  BY <1>2 DEF Measure
<1>3. ASSUME NEW q \in Unmeasured, NEW r \in Measured(q[1], q[2])
      PROVE  /\ r.signal = q[1] /\ r.window = q[2]
             /\ r.span \in WindowReturn(bars, q[1], q[2])
             /\ r.indexSpan = WindowReturn(indexBars, q[1], q[2])
             /\ r = [signal |-> q[1], window |-> q[2], span |-> r.span,
                     indexSpan |-> r.indexSpan, on |-> [day |-> day, evening |-> closed]]
  BY DEF Measured
<1>4. \A q \in Unmeasured : /\ q[1] \in issued /\ q[1].day \in Nat /\ q[2] \in Nat \ {0}
                             /\ ~Done(q[1], q[2])
  BY HistoryAssumption DEF Unmeasured, HistoryInvariant
<1>5. ASSUME NEW r \in performance', r \notin performance
      PROVE  /\ r.span[1] > r.signal.day \/ (r.span[1] = r.signal.day /\ ~r.signal.evening)
             /\ r.span[2] - r.span[1] >= r.window
             /\ \A i \in r.indexSpan : i[1] >= r.signal.day /\ i[2] - i[1] >= r.window
  <2>1. PICK q \in Unmeasured : r \in Measured(q[1], q[2])
    BY <1>2, <1>5
  <2>2. /\ r.signal = q[1] /\ r.window = q[2]
        /\ r.span \in WindowReturn(bars, q[1], q[2])
        /\ r.indexSpan = WindowReturn(indexBars, q[1], q[2])
    BY <2>1, <1>3
  <2>3. q[1].day \in Nat /\ q[2] \in Nat \ {0}
    BY <1>4
  <2>4. /\ OnOrAfter(r.span[1], q[1]) /\ r.span[2] - r.span[1] >= q[2]
    BY <1>1, <2>2, <2>3, WindowOf
  <2>5. ASSUME NEW i \in r.indexSpan
        PROVE  i[1] \in Nat /\ OnOrAfter(i[1], q[1]) /\ i[2] - i[1] >= q[2]
    BY <1>1, <2>2, <2>3, WindowOf
  <2>6. \A i \in r.indexSpan : i[1] >= q[1].day
    BY <2>3, <2>5 DEF OnOrAfter
  <2> QED BY <2>2, <2>4, <2>5, <2>6 DEF OnOrAfter
<1>6. ASSUME NEW r \in performance', NEW s \in performance',
             r.signal = s.signal, r.window = s.window
      PROVE  r = s
  <2>1. ASSUME NEW x \in performance', NEW y \in performance', x \in performance, y \notin performance,
               x.signal = y.signal, x.window = y.window
        PROVE  FALSE
    <3>1. PICK q \in Unmeasured : y \in Measured(q[1], q[2])
      BY <1>2, <2>1
    <3>2. Done(q[1], q[2])
      BY <1>3, <2>1, <3>1 DEF Done
    <3> QED BY <1>4, <3>2
  <2>2. CASE r \in performance /\ s \in performance
    BY <1>6, <2>2 DEF HistoryInvariant, NoHindsight
  <2>3. CASE r \notin performance /\ s \notin performance
    <3>1. PICK q \in Unmeasured : r \in Measured(q[1], q[2])
      BY <1>2, <2>3
    <3>2. PICK p \in Unmeasured : s \in Measured(p[1], p[2])
      BY <1>2, <2>3
    <3>3. q[1] = p[1] /\ q[2] = p[2]
      BY <1>3, <1>6, <3>1, <3>2
    <3>4. r.span = s.span
      BY <1>1, <1>3, <1>4, <3>1, <3>2, <3>3, WindowUnique
    <3>5. r.indexSpan = s.indexSpan
      BY <1>3, <3>1, <3>2, <3>3
    <3> QED BY <1>3, <3>1, <3>2, <3>3, <3>4, <3>5
  <2> QED BY <1>6, <2>1, <2>2, <2>3
<1>7. performance \subseteq performance'
  BY DEF Measure
<1>8. ASSUME NEW r \in performance'
      PROVE  /\ r.span[1] > r.signal.day \/ (r.span[1] = r.signal.day /\ ~r.signal.evening)
             /\ r.span[2] - r.span[1] >= r.window
             /\ \A i \in r.indexSpan : i[1] >= r.signal.day /\ i[2] - i[1] >= r.window
  BY <1>5, <1>8 DEF HistoryInvariant, NoHindsight
<1> QED BY <1>6, <1>8 DEF NoHindsight

LEMMA HistoryStep == HistoryInvariant /\ [HistoryNext]_historyVars => HistoryInvariant'
<1> SUFFICES ASSUME HistoryInvariant, [HistoryNext]_historyVars PROVE HistoryInvariant'
  OBVIOUS
<1>1. CASE performance' = performance
  <2>1. NoHindsight'
    BY <1>1 DEF HistoryInvariant, NoHindsight
  <2>2. CASE DayCloses \/ UNCHANGED historyVars
    BY <2>1, <2>2 DEF DayCloses, historyVars, HistoryInvariant
  <2>3. CASE NextDay
    BY <2>1, <2>3 DEF NextDay, HistoryInvariant
  <2>4. CASE Issue
    BY <2>1, <2>4 DEF Issue, HistoryInvariant
  <2>5. ASSUME NEW d \in 1..day, IngestDay(d) PROVE HistoryInvariant'
    BY <2>1, <2>5 DEF IngestDay, HistoryInvariant
  <2>6. CASE Measure
    BY <2>1, <2>6 DEF Measure, HistoryInvariant
  <2> QED BY <2>2, <2>3, <2>4, <2>5, <2>6 DEF HistoryNext
<1>2. CASE Measure
  BY <1>2, MeasureKeeps DEF Measure, HistoryInvariant
<1> QED
  BY <1>1, <1>2 DEF HistoryNext, historyVars, DayCloses, NextDay, Issue, IngestDay

\* A measured position opens at a close after its signal, is held for its
\* window and is measured once (tracker.py:37-82).
THEOREM MeasuredHonestly == HistorySpec => []NoHindsight
<1>1. HistoryInit => HistoryInvariant
  BY DEF HistoryInit, HistoryInvariant, NoHindsight
<1>2. HistoryInvariant => NoHindsight
  BY DEF HistoryInvariant
<1> QED BY <1>1, <1>2, HistoryStep, PTL DEF HistorySpec
=============================================================================
