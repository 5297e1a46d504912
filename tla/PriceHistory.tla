----------------------------- MODULE PriceHistory -----------------------------
(***************************************************************************)
(* Daily bars and what is measured with them: the ingest of a day's prices *)
(* and of its index closes (a4_technical/bhavcopy.py), the nightly         *)
(* measurement of issued signals (performance/tracker.py) and the forward  *)
(* returns of the backtest (backtest/walkforward.py).                      *)
(*                                                                         *)
(* Days are trading days, numbered.  A bar is stamped 15:30, the close of  *)
(* its day; what it says is left out.  One stock, one index.               *)
(***************************************************************************)
EXTENDS Integers, FiniteSets

CONSTANTS
  LastDay,      \* bound: days
  Windows,      \* lengths of the measured windows, in bars
  MaxSignals    \* bound: signals

ASSUME HistoryAssumption ==
  /\ LastDay \in Nat
  /\ Windows \subseteq Nat \ {0}
  /\ MaxSignals \in Nat

VARIABLES
  day,          \* today
  closed,       \* whether it is past 15:30
  bars,         \* price_daily: the days there is a bar for
  indexBars,    \* likewise, of the index
  issued,       \* signals: [day, evening], their as_of
  performance   \* signal_performance rows

historyVars == <<day, closed, bars, indexBars, issued, performance>>

HistoryInit ==
  /\ day = 1
  /\ closed = FALSE
  /\ bars = {}
  /\ indexBars = {}
  /\ issued = {}
  /\ performance = {}

\* A day nobody worked passes from close to close.
DayCloses ==
  /\ ~closed
  /\ closed' = TRUE
  /\ UNCHANGED <<day, bars, indexBars, issued, performance>>

NextDay ==
  /\ closed
  /\ day < LastDay
  /\ day' = day + 1
  /\ closed' = FALSE
  /\ UNCHANGED <<bars, indexBars, issued, performance>>

\* ingest_day, then ingest_indices_day, either of which may find its file
\* missing; today's exist once the day has closed.  The evening asks for
\* today's until it has the prices, backfill() for those of any day.
Published(d) == d < day \/ closed

IngestDay(d) ==
  /\ Published(d)
  /\ bars' \in {bars, bars \cup {d}}
  /\ indexBars' \in {indexBars, indexBars \cup {d}}
  /\ UNCHANGED <<day, closed, issued, performance>>

\* The nightly chain issues in the evening, ms fuse at any time.
Issue ==
  /\ Cardinality(issued) < MaxSignals
  /\ issued' = issued \cup {[day |-> day, evening |-> closed]}
  /\ UNCHANGED <<day, closed, bars, indexBars, performance>>

-----------------------------------------------------------------------------
\* Fault: the date decides.
OnOrAfterDate(d, signal) == d >= signal.day

\* A bar on or after the moment of issue.
OnOrAfter(d, signal) == d > signal.day \/ (d = signal.day /\ ~signal.evening)

\* _window_return: the first such bar and the n-th after it, as a set of pairs
\* that is empty until the window has elapsed.
WindowReturn(series, signal, n) ==
  {w \in series \X series :
     /\ OnOrAfter(w[1], signal)
     /\ ~\E d \in series : OnOrAfter(d, signal) /\ d < w[1]
     /\ w[1] < w[2]
     /\ Cardinality({d \in series : w[1] < d /\ d <= w[2]}) = n}

Done(signal, n) == \E r \in performance : r.signal = signal /\ r.window = n

\* measure: one row per signal and window, written once.
Measured(signal, n) ==
  {[signal |-> signal, window |-> n, span |-> w,
    indexSpan |-> WindowReturn(indexBars, signal, n), on |-> [day |-> day, evening |-> closed]] :
     w \in WindowReturn(bars, signal, n)}

Unmeasured == {q \in issued \X Windows : ~Done(q[1], q[2])}

Measure ==
  /\ performance' = performance \cup UNION {Measured(q[1], q[2]) : q \in Unmeasured}
  /\ UNCHANGED <<day, closed, bars, indexBars, issued>>

HistoryNext ==
  \/ DayCloses \/ NextDay \/ Issue \/ Measure
  \/ \E d \in 1..day : IngestDay(d)

HistorySpec == HistoryInit /\ [][HistoryNext]_historyVars

-----------------------------------------------------------------------------
\* _bars_upto and _fwd_return of the backtest's decision at the close of d.
Upto(d) == {b \in bars : b <= d}

FwdReturn(d, n) ==
  {w \in bars \X bars :
     /\ w[1] <= d /\ ~\E b \in Upto(d) : b > w[1]
     /\ Cardinality({b \in bars : w[1] < b /\ b <= w[2]}) = n}

HistoryTypeOK ==
  /\ day \in 1..LastDay /\ closed \in BOOLEAN
  /\ bars \cup indexBars \subseteq 1..day
  /\ Cardinality(issued) <= MaxSignals
  /\ \A r \in performance : r.window \in Windows

\* "OBSERVED forward returns of signals that were actually issued at the time"
\* (tracker.py:6-7): however days are missed, filled in later and measured
\* late, the measured position opens at a close after the signal's issue, is
\* held for at least the days of its window, and nothing is measured twice.
NoHindsight ==
  /\ \A r \in performance :
       /\ r.span[1] > r.signal.day \/ (r.span[1] = r.signal.day /\ ~r.signal.evening)
       /\ r.span[2] - r.span[1] >= r.window
       /\ \A i \in r.indexSpan : i[1] >= r.signal.day /\ i[2] - i[1] >= r.window
  /\ \A r, s \in performance : r.signal = s.signal /\ r.window = s.window => r = s

\* "entry close -> window-end close (+ Nifty 500 excess)" (tracker.py:5): the
\* excess is over the same days.
ExcessOverSameDays == \A r \in performance : r.indexSpan = {r.span}

\* The backtest opens its positions as the live record does.
BacktestEntersAsLive ==
  \A r \in performance : \A w \in FwdReturn(r.signal.day, r.window) :
    r.signal.evening => w[1] = r.span[1]
=============================================================================
