--------------------------- MODULE ReportFigures ---------------------------
(***************************************************************************)
(* The figures of a report (reports/svg.py), with lengths in units of the  *)
(* width or the height of the plot.  A figure is drawn from values that    *)
(* the result already holds; what matters is that its marks stay in the    *)
(* plot, on one scale, and stand for all of the values.                    *)
(***************************************************************************)
EXTENDS Integers, Sequences, Ranks, SequencesExt, FiniteSetsExt

CONSTANT PlotWidth

Indices(s) == 1 .. Len(s)
Clamped(v, low, high) == Max({low, Min({v, high})})
OrOne(scale) == IF scale = 0 THEN 1 ELSE scale

(* Where a value stands on a scale from 0: off the scale is at its end.    *)
At(v, scale) == (Clamped(v, 0, OrOne(scale)) * PlotWidth) \div OrOne(scale)

SumSeq(s) ==
  LET upTo[i \in 0 .. Len(s)] == IF i = 0 THEN 0 ELSE upTo[i - 1] + s[i] IN upTo[Len(s)]
MaxSeq(s) == Max(ToSet(s) \cup {0})
-----------------------------------------------------------------------------
(* Quartiles as statistics.quantiles computes them, in quarters: by linear *)
(* interpolation, beyond the extremes when there are few values.           *)
Quartile(ordered, i) ==
  LET m == i * (Len(ordered) + 1)
      j == Clamped(m \div 4, 1, Len(ordered) - 1)
      d == m - 4 * j
  IN ordered[j] * (4 - d) + ordered[j + 1] * d
MedianOf(ordered) == 2 * (ordered[(Len(ordered) + 1) \div 2] + ordered[Len(ordered) \div 2 + 1])
MeanOf(values) == (4 * SumSeq(values)) \div Len(values)

BoxPlot(values, scale) ==
  LET ordered == SortSeq(values, <)
      median == MedianOf(ordered)
      x(v) == At(v, 4 * scale)
      q(i) == IF Len(ordered) >= 2 THEN Quartile(ordered, i) ELSE median
  IN [whiskers |-> <<x(4 * ordered[1]), x(4 * ordered[Len(ordered)])>>,
      box |-> <<x(q(1)), x(q(1)) + Max({1, x(q(3)) - x(q(1))})>>,
      median |-> x(median), mean |-> x(MeanOf(values))]

(* One row per document: a dot per engine, joined from the lowest to the   *)
(* highest.                                                                *)
Dumbbell(rows, scale) ==
  [i \in Indices(rows) |->
     LET xs == [k \in Indices(rows[i]) |-> At(rows[i][k], scale)]
     IN [dots |-> xs, line |-> IF Len(xs) >= 2 THEN <<Min(ToSet(xs)), Max(ToSet(xs))>> ELSE <<>>]]

(* One row per engine: its mean and the bounds of its interval.            *)
DotPlot(rows, scale) ==
  [i \in Indices(rows) |->
     [mean |-> At(rows[i].mean, scale), ci |-> <<At(rows[i].lower, scale), At(rows[i].upper, scale)>>]]

BarSeries(values) == [i \in Indices(values) |-> At(values[i], MaxSeq(values))]

(* Segments laid end to end: where each begins, and its width.             *)
CompositionBar(shares) ==
  LET total == OrOne(SumSeq(shares))
  IN [i \in Indices(shares) |->
        [from |-> (SumSeq(SubSeq(shares, 1, i - 1)) * PlotWidth) \div total,
         width |-> (shares[i] * PlotWidth) \div total]]

(* A slice for each share that is not nothing.                             *)
Donut(shares) == IF SumSeq(shares) = 0 THEN <<>> ELSE SelectSeq(shares, LAMBDA v : v > 0)

(* The axes of a radar must be three; a value lies between 0 and 1 (100).  *)
Radar(axes, series) ==
  IF Len(axes) < 3 \/ series = <<>> THEN <<>>
  ELSE [i \in Indices(series) |->
          [k \in 1 .. Min({Len(axes), Len(series[i])}) |-> At(series[i][k], 100)]]

CalibrationCurve(points) ==
  LET sorted == SortSeq(points, LAMBDA p, q : p[1] < q[1] \/ (p[1] = q[1] /\ p[2] < q[2]))
  IN [i \in Indices(sorted) |-> <<At(sorted[i][1], 100), PlotWidth - At(sorted[i][2], 100)>>]

(* A cell per row and column; an engine that has no count missed nothing.  *)
Heatmap(columns, rows) ==
  LET top == OrOne(MaxSeq(FlattenSeq(rows)))
  IN [i \in Indices(rows) |->
        [j \in Indices(columns) |->
           LET count == IF j <= Len(rows[i]) THEN rows[i][j] ELSE 0
           IN IF count = 0 THEN 0 ELSE (18 * top + 82 * count) \div top]]

(* Two or three circles; a region that holds no word has no label.         *)
Venn(columns, counts) ==
  IF Len(columns) \notin {2, 3} THEN {}
  ELSE {<<region, counts[region]>> :
          region \in {r \in (SUBSET Indices(columns)) \ {{}} : r \in DOMAIN counts /\ counts[r] > 0}}

(* The values in bins of equal width between the least and the greatest.   *)
Histogram(values, bins) ==
  LET low == Min(ToSet(values))
      high == Max(ToSet(values))
      binOf(v) == IF high <= low THEN 1
                  ELSE Min({((v - low) * bins) \div (high - low), bins - 1}) + 1
  IN IF values = <<>> \/ bins < 1 THEN <<>>
     ELSE [b \in 1 .. bins |-> Len(SelectSeq(values, LAMBDA v : binOf(v) = b))]
-----------------------------------------------------------------------------
InPlot(x) == 0 <= x /\ x <= PlotWidth
(* The box may pass the end of the plot by the unit it is given at least.  *)
BoxFits(b) ==
  /\ InPlot(b.whiskers[1]) /\ InPlot(b.whiskers[2]) /\ InPlot(b.box[1]) /\ b.box[2] <= PlotWidth + 1
  /\ b.whiskers[1] <= b.median /\ b.median <= b.whiskers[2]
  /\ b.whiskers[1] <= b.mean /\ b.mean <= b.whiskers[2]
  /\ b.box[1] <= b.median /\ b.median <= b.box[2]
DumbbellFits(rows) ==
  \A i \in Indices(rows) : \A k \in Indices(rows[i].dots) :
    /\ InPlot(rows[i].dots[k])
    /\ rows[i].line # <<>> =>
         rows[i].line[1] <= rows[i].dots[k] /\ rows[i].dots[k] <= rows[i].line[2]
DotsFit(rows) ==
  \A i \in Indices(rows) : /\ InPlot(rows[i].ci[1]) /\ InPlot(rows[i].ci[2])
                           /\ rows[i].ci[1] <= rows[i].mean /\ rows[i].mean <= rows[i].ci[2]
BarFits(segments) ==
  \A i \in Indices(segments) :
    /\ segments[i].from + segments[i].width <= PlotWidth
    /\ i > 1 => segments[i - 1].from + segments[i - 1].width <= segments[i].from
CurveFits(points) ==
  \A i \in Indices(points) : /\ InPlot(points[i][1]) /\ InPlot(points[i][2])
                             /\ i > 1 => points[i - 1][1] <= points[i][1]
=============================================================================
