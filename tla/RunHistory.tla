----------------------------- MODULE RunHistory -----------------------------
(***************************************************************************)
(* The history of the runs: the rows of one metric of one pipeline and     *)
(* view that the jobs record when their run is over, and the history page, *)
(* which reads the store once for its series, once for their regressions   *)
(* and once for their change points (evaluation/longitudinal.py).  Jobs    *)
(* record while a page is built, and not in the order their runs ended.    *)
(***************************************************************************)
EXTENDS Integers, Sequences, FiniteSets

CONSTANTS
  MaxRuns,           \* runs are identified by 1 .. MaxRuns, in the order of
                     \* their identifiers
  MaxStamp,          \* bounds the times at which runs complete
  Values,            \* of the metric, lower is better
  Surprise           \* 1000 * ln(2 / alpha): 3689 for an alpha of 0.05

ASSUME HistoryAssumption ==
  /\ MaxRuns \in Nat /\ MaxStamp \in Nat
  /\ Values \subseteq Int
  /\ Surprise \in Nat \ {0}

VARIABLES
  rows,       \* the rows of run_metrics: run |-> when it completed and value
  unsaved,    \* runs whose result has no value for the metric
  page        \* what the page being built has read and shows

historyVars == <<rows, unsaved, page>>

HistoryRuns == 1 .. MaxRuns

HistoryInit == rows = <<>> /\ unsaved = {} /\ page = [step |-> "asked"]

(* record_run: an aggregate that is None gives no row; INSERT OR REPLACE.  *)
RecordRun ==
  \E run \in HistoryRuns \ (DOMAIN rows \cup unsaved) :
    /\ \/ \E stamp \in 1 .. MaxStamp, value \in Values :
            /\ rows' = [r \in DOMAIN rows \cup {run} |->
                         IF r = run THEN [stamp |-> stamp, value |-> value] ELSE rows[r]]
            /\ UNCHANGED unsaved
       \/ unsaved' = unsaved \cup {run} /\ UNCHANGED rows
    /\ UNCHANGED page

(* ORDER BY completed_at, run_id                                           *)
Earlier(r, s) ==
  rows[r].stamp < rows[s].stamp \/ (rows[r].stamp = rows[s].stamp /\ r < s)
RunsInOrder ==
  CHOOSE runs \in [1 .. Cardinality(DOMAIN rows) -> DOMAIN rows] :
    \A j, k \in DOMAIN runs : j < k => Earlier(runs[j], runs[k])
Series == [k \in DOMAIN RunsInOrder |-> rows[RunsInOrder[k]].value]

Abs(x) == IF x < 0 THEN -x ELSE x

(* The sum of the signs of values[j] - values[i] over the i of one set and *)
(* the j of another.                                                       *)
SumOfSigns(values, before, after) ==
  LET pairs == before \X after
  IN  Cardinality({p \in pairs : values[p[2]] > values[p[1]]})
        - Cardinality({p \in pairs : values[p[2]] < values[p[1]]})

(* pettitt: the boundary moves through the series, and U is corrected for  *)
(* the value that changes sides; the first boundary of the largest |U|.    *)
Moved(u, values, boundary) ==
  u - SumOfSigns(values, 1 .. boundary - 1, {boundary})
    + SumOfSigns(values, {boundary}, boundary + 1 .. Len(values))

\* Mutation: the last of the boundaries that are as good.
BetterOrEqual(best, u, boundary) ==
  IF Abs(u) >= Abs(best.u) THEN [u |-> u, boundary |-> boundary] ELSE best
Better(best, u, boundary) ==
  IF Abs(u) > Abs(best.u) THEN [u |-> u, boundary |-> boundary] ELSE best

FirstU(values) == SumOfSigns(values, {1}, 2 .. Len(values))

Scan(values) ==
  LET scan[t \in 1 .. Len(values) - 1] ==
        IF t = 1
        THEN [u |-> FirstU(values), best |-> [u |-> FirstU(values), boundary |-> 1]]
        ELSE LET u == Moved(scan[t - 1].u, values, t)
             IN  [u |-> u, best |-> Better(scan[t - 1].best, u, t)]
  IN  scan

Pettitt(values) == Scan(values)[Len(values) - 1].best

(* p = 2 exp(-6 K^2 / (n^3 + n^2)), at most alpha.                         *)
Significant(k, n) == 6000 * k * k >= Surprise * (n * n * n + n * n)

(* series_insight: the run named is the first of the new regime.           *)
SeriesInsight(runs, values) ==
  IF Len(values) < 2 THEN [ruptureRun |-> {}]
  ELSE LET rupture == Pettitt(values)
       IN [ruptureRun |-> IF Significant(Abs(rupture.u), Len(values))
                          THEN {runs[rupture.boundary + 1]} ELSE {}]

(* all_records: a page shows the series some row of which it found then.   *)
ListSeries ==
  /\ page.step = "asked"
  /\ page' = IF DOMAIN rows = {} THEN [step |-> "empty"] ELSE [step |-> "listed"]
  /\ UNCHANGED <<rows, unsaved>>

(* HistoryStore.regressions: the last two runs, if the last one is worse.  *)
Regression ==
  LET n == Len(Series) IN
  IF n >= 2 /\ Series[n] - Series[n - 1] > 0
  THEN {[previous |-> RunsInOrder[n - 1], latest |-> RunsInOrder[n],
         delta |-> Series[n] - Series[n - 1]]}
  ELSE {}

ShowRegressions ==
  /\ page.step = "listed"
  /\ page' = [step |-> "regressions", regression |-> Regression]
  /\ UNCHANGED <<rows, unsaved>>

ShowTrends ==
  /\ page.step = "regressions"
  /\ page' = [step |-> "done", regression |-> page.regression,
              runs |-> RunsInOrder, values |-> Series,
              insight |-> SeriesInsight(RunsInOrder, Series)]
  /\ UNCHANGED <<rows, unsaved>>

HistoryNext == RecordRun \/ ListSeries \/ ShowRegressions \/ ShowTrends
HistorySpec == HistoryInit /\ [][HistoryNext]_historyVars
-----------------------------------------------------------------------------
(* U_t by its definition: over the pairs the boundary separates.           *)
U(values, t) == SumOfSigns(values, 1 .. t, t + 1 .. Len(values))

(* A change point the page names is one: no boundary of the series         *)
(* separates the values more, the run named is the first after the         *)
(* earliest such boundary, and a constant series has none.  A regression   *)
(* the page shows, read before the trends, is of two of their runs in      *)
(* their order, the second worse than the first.                           *)
RuptureIsExtremal ==
  page.step = "done" =>
    LET runs == page.runs
        values == page.values
        boundaries == 1 .. Len(values) - 1
    IN /\ \A k \in 2 .. Len(runs) : Earlier(runs[k - 1], runs[k])
       /\ \A run \in page.insight.ruptureRun :
            \E t \in boundaries :
              /\ run = runs[t + 1]
              /\ U(values, t) # 0
              /\ \A s \in boundaries :
                   /\ Abs(U(values, s)) <= Abs(U(values, t))
                   /\ s < t => Abs(U(values, s)) < Abs(U(values, t))
       /\ \A r \in page.regression :
            \E j, k \in DOMAIN runs :
              /\ j < k /\ runs[j] = r.previous /\ runs[k] = r.latest
              /\ values[k] - values[j] = r.delta /\ r.delta > 0
=============================================================================
