--------------------------- MODULE ReportSections ---------------------------
(***************************************************************************)
(* A report: what each of its sections shows of a result (reports/).  A    *)
(* section reads the result by itself and is left out when it has nothing  *)
(* to show.  Here a section is the sequence of its tables, and a table its *)
(* rows: a row is of an engine, with its badge, or of something else.  A   *)
(* table of metrics has its columns too, and the spans of their headers.   *)
(***************************************************************************)
EXTENDS ReportFigures, Functions, TLC

CONSTANTS
  NoScore,         \* a metric that does not apply
  MaxDuels,        \* rows of the duel (_MAX_ROWS)
  HeatmapRows,     \* words of the heat map (_HEATMAP_ROWS)
  VariantRows,     \* words whose variants are shown (_VARIANT_ROWS)
  ColumnRows,      \* words that make a second column (16 in _matrix_grid)
  QuantileTenths   \* the share of scores below the cutoff of an anomaly (_QUANTILE)

VARIABLE result

(* The result, as evaluate_run leaves it: for each view in turn, every     *)
(* engine of the manifest on every document of the corpus.                 *)
(*   views      Seq([name, metrics])                                       *)
(*   engines, documents   Seq(Nat), numbered in the order of their names   *)
(*   scores     <<view, engine, document>> |-> metric |-> value            *)
(*   strata     document |-> stratum or ""                                 *)
(*   analyses   Seq([view, kind, rows, ...]), in the order of views' names *)
ViewNames == [i \in Indices(result.views) |-> result.views[i].name]
MetricsOf(v) == (CHOOSE w \in ToSet(result.views) : w.name = v).metrics
ScoreOf(v, e, d, m) == result.scores[<<v, e, d>>][m]
Known(v, e, m) ==
  LET scores == [i \in Indices(result.documents) |-> ScoreOf(v, e, result.documents[i], m)]
  IN AtPlaces(scores, {i \in Indices(result.documents) : scores[i] # NoScore})
(* The aggregate of a metric, every document weighing the same.            *)
AggregateOf(v, e, m) ==
  LET known == Known(v, e, m) IN IF known = <<>> THEN NoScore ELSE SumSeq(known) \div Len(known)

HasPipelines == result.engines # <<>> /\ result.views # <<>>
HasDocuments == HasPipelines /\ result.documents # <<>>
PrimaryView == result.views[1].name
ManyViews == Len(result.views) > 1
AnalysesOf(kind) ==
  AtPlaces(result.analyses, {i \in Indices(result.analyses) : result.analyses[i].kind = kind})

(* By increasing value, an engine without one last; then by name.          *)
Before(x, y) == x # NoScore /\ (y = NoScore \/ x < y)
Precedes(k, l) == Before(k[1], l[1]) \/ (k[1] = l[1] /\ k[2] < l[2])
RankedBy(v, m) ==
  LET keys == {<<AggregateOf(v, e, m), e>> : e \in ToSet(result.engines)}
      ranked == ByRank(keys, {p \in keys \X keys : Precedes(p[1], p[2])})
  IN [n \in DOMAIN ranked |-> ranked[n][2]]
PositionIn(s, x) == (CHOOSE i \in Indices(s) : s[i] = x) - 1
(* The badge of an engine is its place in the manifest, in every section.  *)
\* Mutation: the badge is the rank in the comparison.
BadgeByRank(e) == PositionIn(RankedBy(PrimaryView, MetricsOf(PrimaryView)[1]), e)
Badge(e) == PositionIn(result.engines, e)

Row(e) == [of |-> <<"engine", e>>, badge |-> Badge(e)]
Other(x) == [of |-> <<"other", x>>, badge |-> -1]
Rows(engines) == [i \in Indices(engines) |-> Row(engines[i])]
Repeated(row, n) == [i \in 1 .. n |-> row]
Table(rows) == [rows |-> rows]
OnlyIf(condition, tables) == IF condition THEN tables ELSE <<>>
-----------------------------------------------------------------------------
(* Tables of metrics: a metric that applies to no row has no column, nor   *)
(* one that repeats another; consecutive metrics of a theme share a header.*)
HiddenMetrics == {"mer"}
ColumnsOf(v, tables) ==
  SelectSeq(MetricsOf(v), LAMBDA m : m \notin HiddenMetrics /\ \E x \in tables : x[m] # NoScore)
ThemeOf(m) ==
  CASE m \in {"cer"} -> "char" [] m \in {"fca", "char_accuracy"} -> "accuracy"
    [] m \in {"wer", "mer"} -> "word" [] m \in {"hallucination"} -> "trust"
    [] m \in {"region_cer", "region_detection"} -> "struct" [] OTHER -> ""
(* The spans of the headers: each begins where the theme changes; a metric *)
(* of no theme has a header of its own.                                    *)
Starts(metrics) ==
  SelectSeq([i \in Indices(metrics) |-> i],
    LAMBDA i : \/ i = 1 \/ ThemeOf(metrics[i]) = ""
               \/ ThemeOf(metrics[i]) # ThemeOf(metrics[i - 1]))
GroupHeader(metrics, lead, trail) ==
  LET starts == Append(Starts(metrics), Len(metrics) + 1)
  IN OnlyIf(lead > 0, <<lead>>)
       \o [k \in 1 .. Len(starts) - 1 |-> starts[k + 1] - starts[k]]
       \o OnlyIf(trail > 0, <<trail>>)
MetricTable(columns, spans, rows) == [columns |-> columns, spans |-> spans, rows |-> rows]

(* A cell's tint: its value on the axis of the column, none if unknown.    *)
Tints(v, m) ==
  LET top == Max({AggregateOf(v, e, m) : e \in {f \in ToSet(result.engines) : AggregateOf(v, f, m) # NoScore}}
                   \cup {0})
  IN [e \in ToSet(result.engines) |->
        IF AggregateOf(v, e, m) = NoScore \/ top = 0 THEN NoScore ELSE At(AggregateOf(v, e, m), top)]
Aggregates(v) ==
  {[m \in ToSet(MetricsOf(v)) |-> AggregateOf(v, e, m)] : e \in ToSet(result.engines)}
-----------------------------------------------------------------------------
Headline == <<"cer", "wer", "fca", "char_accuracy">>
AggregateIfAny(v, e, m) == IF m \in ToSet(MetricsOf(v)) THEN AggregateOf(v, e, m) ELSE NoScore
(* The means of the engines and their intervals, up to the greatest bound. *)
IntervalDots(inference) ==
  LET sorted == SortSeq(inference.intervals, LAMBDA x, y : x.mean < y.mean)
  IN DotPlot(sorted, MaxSeq([i \in Indices(sorted) |-> sorted[i].upper]))
MeasureTable(v) ==
  LET metrics == SelectSeq(Headline, LAMBDA m : \E e \in ToSet(result.engines) : AggregateIfAny(v, e, m) # NoScore)
  IN OnlyIf(metrics # <<>>,
            <<Table(Rows(IF "cer" \in ToSet(MetricsOf(v)) THEN RankedBy(v, "cer")
                         ELSE SortSeq(result.engines, <)))>>)
(* It needs the character error rate to be a metric of the run, and known. *)
KeyMeasures ==
  LET known == \E v \in ToSet(ViewNames), e \in ToSet(result.engines) : AggregateIfAny(v, e, "cer") # NoScore
  IN OnlyIf(HasPipelines /\ known, FlattenSeq([i \in Indices(ViewNames) |-> MeasureTable(ViewNames[i])]))

(* Unlike the comparison, in the order of the manifest, a table per view.  *)
OverviewTable(v) ==
  LET metrics == ColumnsOf(v, Aggregates(v))
  IN MetricTable(1 + Len(metrics), GroupHeader(metrics, 1, 0), Rows(result.engines))
Overview == OnlyIf(HasPipelines, [i \in Indices(ViewNames) |-> OverviewTable(ViewNames[i])])

StrataOf(documents) == {result.strata[d] : d \in {c \in ToSet(documents) : result.strata[c] # ""}}
Size(stratum) == Cardinality({d \in ToSet(result.documents) : result.strata[d] = stratum})
CorpusComposition ==
  LET strata == SetToSortSeq(StrataOf(result.documents), LAMBDA s, t : Size(s) > Size(t))
  IN OnlyIf(HasDocuments /\ strata # <<>>,
            <<Table([i \in Indices(strata) |-> Other(strata[i])])>>)

(* The comparison, by increasing error; the name of an engine is the link  *)
(* to its profile.                                                         *)
ByEngine ==
  LET metrics == MetricsOf(PrimaryView)
      shown == ColumnsOf(PrimaryView, Aggregates(PrimaryView))
      sorted == RankedBy(PrimaryView, IF "cer" \in ToSet(metrics) THEN "cer" ELSE metrics[1])
  IN OnlyIf(HasPipelines /\ metrics # <<>>,
            <<MetricTable(2 + Len(shown), GroupHeader(shown, 1, 1), Rows(sorted))>>)
\* The link of each row, to the profile of its engine.
ProfileLinks ==
  IF ByEngine = <<>> THEN {}
  ELSE {[engine |-> r.of[2], to |-> r.badge] : r \in ToSet(ByEngine[1].rows)}

(* The axes are the dimensions every engine has, and at least three.       *)
Axes == <<"char_accuracy", "fca", "hallucination">>
Inverted == {"hallucination"}
CommonAxes ==
  SelectSeq(Axes, LAMBDA m : \A e \in ToSet(result.engines) : AggregateIfAny(PrimaryView, e, m) # NoScore)
RadarSeries ==
  [i \in Indices(result.engines) |->
     [k \in Indices(CommonAxes) |->
        LET raw == AggregateOf(PrimaryView, result.engines[i], CommonAxes[k])
        IN IF CommonAxes[k] \in Inverted THEN 100 - raw ELSE raw]]
EngineRadar == IF HasPipelines THEN Radar(CommonAxes, RadarSeries) ELSE <<>>

(* The error of each document, for the engines that have one.              *)
ScoredEngines == SelectSeq(result.engines, LAMBDA e : Known(PrimaryView, e, "cer") # <<>>)
HasCer == "cer" \in ToSet(MetricsOf(PrimaryView))
Dispersion ==
  IF ~HasDocuments \/ ~HasCer THEN <<>>
  ELSE LET values(i) == Known(PrimaryView, ScoredEngines[i], "cer")
           scale == Max({MaxSeq(values(i)) : i \in Indices(ScoredEngines)} \cup {0})
       IN [i \in Indices(ScoredEngines) |-> BoxPlot(values(i), scale)]

(* The documents every engine scored, the widest spread first.             *)
Complete ==
  SelectSeq(result.documents,
    LAMBDA d : \A e \in ToSet(result.engines) : ScoreOf(PrimaryView, e, d, "cer") # NoScore)
CersOf(d) == {ScoreOf(PrimaryView, e, d, "cer") : e \in ToSet(result.engines)} \ {NoScore}
Spread(d) == Max(CersOf(d)) - Min(CersOf(d))
Duels ==
  IF ~HasDocuments \/ ~HasCer \/ Len(result.engines) < 2 THEN <<>>
  ELSE LET sorted == SortSeq(Complete, LAMBDA c, d : Spread(c) > Spread(d)
                                        \/ (Spread(c) = Spread(d) /\ c < d))
       IN SubSeq(sorted, 1, Min({MaxDuels, Len(sorted)}))
EngineDuel ==
  LET scale == Max({Max(CersOf(Duels[i])) : i \in Indices(Duels)} \cup {0})
  IN Dumbbell([i \in Indices(Duels) |->
                 [k \in Indices(result.engines) |-> ScoreOf(PrimaryView, result.engines[k], Duels[i], "cer")]],
              scale)
=============================================================================
