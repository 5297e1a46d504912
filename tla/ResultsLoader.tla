---------------------------- MODULE ResultsLoader ----------------------------
(***************************************************************************)
(* The quarterly results of one company: filings that reach the disk live  *)
(* or through the backfill (a3_fundamental/backfill.py) and the loader     *)
(* that turns them all into financials_quarterly rows                      *)
(* (a3_fundamental/loader.py).                                             *)
(*                                                                         *)
(* A filing is a record; its broadcast time is its place in filed.  Of an  *)
(* instance (xbrl.py) the key, the revenue and the length of the period    *)
(* are kept; one without a revenue is left out.                            *)
(***************************************************************************)
EXTENDS Integers, FiniteSets, Sequences, SequencesExt

CONSTANTS
  Periods,          \* quarters
  Revenues,         \* [Bases -> what a quarter of this company really sells]
  Factor,           \* by which a misfiled revenue is off
  MaxFiled,         \* bound: filings
  MaxMisfiled       \* bound: of them misfiled

Bases == {"standalone", "consolidated"}

ASSUME ResultsAssumption ==
  /\ Revenues \in [Bases -> SUBSET (Nat \ {0})]
  /\ Factor \in Nat
  /\ MaxFiled \in Nat
  /\ MaxMisfiled \in Nat

VARIABLES
  filed,        \* NSE: the filings in the order of their broadcast
  disk,         \* documents: the filings' numbers in the order of Document.id
  fetched,      \* the documents fetched
  quarter       \* financials_quarterly: [Keys -> the filing it is from, or 0]

resultsVars == <<filed, disk, fetched, quarter>>

Keys == Periods \X Bases

ResultsInit ==
  /\ filed = <<>>
  /\ disk = <<>>
  /\ fetched = {}
  /\ quarter = [k \in Keys |-> 0]

-----------------------------------------------------------------------------
\* An original, a revision, or a cumulative of several quarters, which is
\* filed under the end of the last of them.  A misfiled one is off by the
\* factor, either way; of a cumulative no number is read.
Instances ==
  {i \in [period : Periods, basis : Bases, revenue : UNION {Revenues[b] : b \in Bases},
          scale : {"right", "up", "down"}, days : {91, 274}] :
     i.revenue \in Revenues[i.basis] /\ (i.days = 274 => i.scale = "right")}

Misfiled == {n \in DOMAIN filed : filed[n].scale # "right"}

\* NSE broadcasts a filing; the live feed may catch it, as the next document.
Broadcast(doc) ==
  /\ Len(filed) < MaxFiled
  /\ doc.scale # "right" => Cardinality(Misfiled) < MaxMisfiled
  /\ filed' = Append(filed, doc)
  /\ disk' \in {disk, Append(disk, Len(filed'))}
  /\ UNCHANGED <<fetched, quarter>>

\* A document of the live feed is downloaded in its own time.
Fetch ==
  /\ fetched' \in {fetched \cup {n} : n \in ToSet(disk) \ fetched}
  /\ UNCHANGED <<filed, disk, quarter>>

\* backfill_symbol: what its two lists show and no filing has, in their order,
\* already fetched; a dead link or a refused request leaves some for later.
BackfillSymbol ==
  /\ \E missing \in SUBSET (DOMAIN filed \ ToSet(disk)) :
       /\ missing # {}
       /\ \E listing \in SetToSeqs(missing) : disk' = disk \o listing
       /\ fetched' = fetched \cup missing
  /\ UNCHANGED <<filed, quarter>>

-----------------------------------------------------------------------------
\* parse_instance: "Quarterly-ness from DATE MATH, not the label".
Quarterly(n) == filed[n].days \in 80..100

\* In Factor-ths.
Revenue(n) ==
  CASE filed[n].scale = "right" -> Factor * filed[n].revenue
    [] filed[n].scale = "up"    -> Factor * (Factor * filed[n].revenue)
    [] filed[n].scale = "down"  -> filed[n].revenue

\* The loader parses every fetched document, each time.
Batch == {n \in ToSet(disk) : n \in fetched /\ Quarterly(n)}

\* The documents of one row: (period, basis), the company being the one.
DocumentsOf(k) == {n \in Batch : filed[n].period = k[1] /\ filed[n].basis = k[2]}

\* Of the other quarters, on either basis.
Others(p) == {n \in Batch : filed[n].period # p}

\* sorted(others)[len(others) // 2]
Median(docs) ==
  LET half == Cardinality(docs) \div 2
      below(r) == {n \in docs : Revenue(n) < r}
      upto(r) == {n \in docs : Revenue(n) <= r}
  IN  CHOOSE r \in {Revenue(n) : n \in docs} :
        Cardinality(below(r)) <= half /\ half < Cardinality(upto(r))

Gap(x, y) == IF x < y THEN y - x ELSE x - y

Apart(x, y) == x > 5 * y \/ y > 5 * x

\* Fault: the one farther from the median is kept.
OutlierSwapped(new, old, others) ==
  /\ Apart(Revenue(new), Revenue(old))
  /\ others # {}
  /\ Gap(Revenue(old), Median(others)) > Gap(Revenue(new), Median(others))

\* The misfile guard: two documents of a period disagree wildly.
Outlier(new, old, others) ==
  /\ Apart(Revenue(new), Revenue(old))
  /\ others # {}
  /\ Gap(Revenue(old), Median(others)) < Gap(Revenue(new), Median(others))

\* The document that stands for row k, in the order of the disk; 0 if none does.
Deduped(k) ==
  LET kept[i \in 0..Len(disk)] ==
        IF i = 0 THEN 0
        ELSE IF disk[i] \notin DocumentsOf(k) THEN kept[i - 1]
        ELSE IF kept[i - 1] # 0 /\ Outlier(disk[i], kept[i - 1], Others(k[1])) THEN kept[i - 1]
        ELSE disk[i]
  IN  kept[Len(disk)]

\* ON CONFLICT DO UPDATE takes every column of the new row.
LoadAll ==
  /\ quarter' = [k \in Keys |-> IF Deduped(k) = 0 THEN quarter[k] ELSE Deduped(k)]
  /\ UNCHANGED <<filed, disk, fetched>>

ResultsNext ==
  \/ \E doc \in Instances : Broadcast(doc)
  \/ Fetch \/ BackfillSymbol \/ LoadAll

ResultsSpec == ResultsInit /\ [][ResultsNext]_resultsVars

-----------------------------------------------------------------------------
ResultsTypeOK ==
  /\ filed \in Seq(Instances)
  /\ fetched \subseteq ToSet(disk) /\ ToSet(disk) \subseteq DOMAIN filed
  /\ quarter \in [Keys -> 0..Len(filed)]

\* What a company sells on one basis varies less than what the guard calls
\* wild, and a misfiled number is off by more.
Steady ==
  \A b \in Bases : \A x, y \in Revenues[b] : x <= 5 * y /\ 5 * x < Factor * y

\* The documents, right or misfiled, whose revenue is from 3/5 to 3 times that of n.
Like(n, docs) == {o \in docs : 3 * Revenue(n) <= 5 * Revenue(o) /\ Revenue(o) <= 3 * Revenue(n)}

\* "trust the one closer to the symbol's own median revenue" (loader.py:90-91):
\* wherever misfiled results stand among the documents, originals or
\* revisions, live or backfilled, a load leaves a right one in the row, and
\* never a cumulative, if there is one and, for each that is, most documents
\* of the other quarters, the other basis and the misfiled ones included, sell
\* from 3/5 to 3 times as much.
MisfilesNeverWin ==
  [][LoadAll => \A k \in Keys :
       LET right == DocumentsOf(k) \ Misfiled
           others == Others(k[1])
       IN  (/\ right # {}
            /\ \A n \in right : 2 * Cardinality(Like(n, others)) > Cardinality(others))
             => quarter'[k] \in right]_resultsVars

\* The same of the company's other quarters being right, which is not enough:
\* the median mixes the bases, and a number misfiled downwards may be nearer
\* to it (loader.py:95-101).
RightMedianSuffices ==
  [][LoadAll => \A k \in Keys :
       (DocumentsOf(k) \ Misfiled # {} /\ Others(k[1]) # {} /\ Others(k[1]) \cap Misfiled = {})
         => quarter'[k] \notin Misfiled]_resultsVars

\* "the later filing is the revision and wins" (loader.py:81-82).
RevisionWins ==
  [][LoadAll => \A k \in Keys : \A n \in DocumentsOf(k) : quarter'[k] >= n]_resultsVars
=============================================================================
