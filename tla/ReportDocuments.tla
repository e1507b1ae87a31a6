-------------------------- MODULE ReportDocuments --------------------------
(***************************************************************************)
(* The documents and the engines of a report, one by one: the gallery with *)
(* its facets, the list, the fiche of each document and the profile of     *)
(* each engine; and the page the sections are laid out on (renderer.py).   *)
(***************************************************************************)
EXTENDS ReportAnalyses

(* by_document: a table per view, the documents in turn.                   *)
DocumentTable(v) ==
  Table(FlattenSeq([i \in Indices(result.documents) |-> Rows(result.engines)]))
ByDocument == OnlyIf(HasDocuments, [i \in Indices(ViewNames) |-> DocumentTable(ViewNames[i])])
-----------------------------------------------------------------------------
(* An anomaly is beyond the cutoff, which is relative to the run: the      *)
(* value at rank ceil(q * N) of those observed.                            *)
Percentile(values) ==
  LET ordered == SortSeq(values, <)
      rank == (QuantileTenths * Len(ordered) + 9) \div 10
  IN ordered[Max({1, rank})]
ValuesOf(d, m) ==
  LET scores == [i \in Indices(result.engines) |->
                   IF m \in ToSet(MetricsOf(PrimaryView))
                   THEN ScoreOf(PrimaryView, result.engines[i], d, m) ELSE NoScore]
  IN AtPlaces(scores, {i \in Indices(result.engines) : scores[i] # NoScore})
Observed(m) == FlattenSeq([i \in Indices(result.documents) |-> ValuesOf(result.documents[i], m)])
SpreadsSeen ==
  AtPlaces([i \in Indices(result.documents) |-> Spread(result.documents[i])],
           {i \in Indices(result.documents) : Len(ValuesOf(result.documents[i], "cer")) >= 2})
Beyond(value, values) == values # <<>> /\ value > Percentile(values)
InsertedDocuments ==
  UNION {AnalysesOf("document_hallucination")[i].inserted :
           i \in Indices(AnalysesOf("document_hallucination"))}
Anomalies(d) ==
  IF ValuesOf(d, "cer") = <<>> THEN {}
  ELSE {a \in {"cer", "unanchored", "disagree", "inserted"} :
          CASE a = "cer" -> Beyond(Max(ToSet(ValuesOf(d, "cer"))), Observed("cer"))
            [] a = "unanchored" ->
                 ValuesOf(d, "hallucination") # <<>>
                   /\ Beyond(Max(ToSet(ValuesOf(d, "hallucination"))), Observed("hallucination"))
            [] a = "disagree" ->
                 Len(ValuesOf(d, "cer")) >= 2 /\ Beyond(Spread(d), SpreadsSeen)
            [] a = "inserted" -> d \in InsertedDocuments}

(* A card per document: the link to its fiche, what the facets read, and   *)
(* the engines that are the best on it.                                    *)
BestOf(d) ==
  {e \in ToSet(result.engines) :
     LET x == ScoreOf(PrimaryView, e, d, "cer")
     IN x # NoScore /\ \A y \in CersOf(d) : x <= y}
Cards ==
  IF ~HasDocuments THEN <<>>
  ELSE [i \in Indices(result.documents) |->
          LET d == result.documents[i]
          IN [to |-> i - 1, of |-> d, stratum |-> result.strata[d], anom |-> Anomalies(d),
              best |-> IF HasCer THEN BestOf(d) ELSE {}]]
(* The chips of a facet: of the strata if there are two, of the anomalies  *)
(* that some document has.                                                 *)
AnyChoice == "*"
StratumChips ==
  LET strata == StrataOf(result.documents)
  IN IF Cardinality(strata) >= 2 THEN strata \cup {AnyChoice} ELSE {}
AnomalyChips ==
  LET anomalies == UNION {Anomalies(d) : d \in ToSet(result.documents)}
  IN IF anomalies # {} THEN anomalies \cup {AnyChoice} ELSE {}
-----------------------------------------------------------------------------
(* A fiche: its number, the next and the previous one, around, the engines *)
(* by increasing error, and either the texts of the engines, one at a time *)
(* behind its tab, or the worst lines.                                     *)
RowsOfFiche(d) ==
  LET cer(e) == IF HasCer THEN ScoreOf(PrimaryView, e, d, "cer") ELSE NoScore
      keys == {<<cer(e), e>> : e \in {f \in ToSet(result.engines) : cer(f) # NoScore}}
      ranked == ByRank(keys, {p \in keys \X keys : Precedes(p[1], p[2])})
  IN [n \in DOMAIN ranked |-> ranked[n][2]]
TextsOn(d) ==
  LET texts == AnalysesOf("document_texts")
      here == {i \in Indices(texts) : texts[i].view = PrimaryView /\ d \in DOMAIN texts[i].texts}
  IN IF here = {} THEN <<>> ELSE texts[Nth(here, 1)].texts[d]
WorstLinesOn(d) ==
  LET diagnostics == SelectSeq(AnalysesOf("diagnostics"), LAMBDA a : a.view = PrimaryView)
  IN FlattenSeq([k \in Indices(diagnostics) |-> SelectSeq(diagnostics[k].worst, LAMBDA w : w = d)])
Fiche(i) ==
  LET d == result.documents[i]
      n == Len(result.documents)
  IN [id |-> i - 1, of |-> d, previous |-> (i - 2) % n, next |-> i % n,
      rows |-> RowsOfFiche(d), tabs |-> TextsOn(d),
      worst |-> IF TextsOn(d) # <<>> THEN 0 ELSE Len(WorstLinesOn(d))]
Fiches == IF HasDocuments THEN [i \in Indices(result.documents) |-> Fiche(i)] ELSE <<>>

(* CER by line of a document: where each line stands, and five percentiles *)
(* of its engine's lines, between the least and the greatest.              *)
LinePercentiles(cers) ==
  LET ordered == SortSeq(cers, <)
      at(q) == LET pos == q * (Len(ordered) - 1)
                   low == pos \div 100
               IN ordered[low + 1]
                    + ((pos % 100) * (ordered[Min({low + 2, Len(ordered)})] - ordered[low + 1])) \div 100
  IN [q \in {50, 75, 90, 95, 99} |-> at(q)]

(* The profile of an engine, in the order of the manifest.                 *)
StratumRows(e) ==
  LET scored == {d \in ToSet(result.documents) :
                   result.strata[d] # "" /\ ScoreOf(PrimaryView, e, d, "cer") # NoScore}
      buckets == {result.strata[d] : d \in scored}
  IN IF Cardinality(buckets) < 2 THEN 0 ELSE Cardinality(buckets)
CompositionOfErrors(e) ==
  LET taxonomies == SelectSeq(AnalysesOf("taxonomy"), LAMBDA a : a.view = PrimaryView /\ e \in ToSet(a.rows))
  IN IF taxonomies = <<>> THEN <<>> ELSE CompositionBar(Composition(taxonomies[1], e))
Profile(i) ==
  LET e == result.engines[i]
      n == Len(result.engines)
      cers == IF HasCer THEN Known(PrimaryView, e, "cer") ELSE <<>>
  IN [id |-> Badge(e), of |-> e,
      previous |-> Badge(result.engines[((i - 2) % n) + 1]),
      next |-> Badge(result.engines[(i % n) + 1]),
      chart |-> BarSeries(Histogram(cers, 10)), strata |-> IF HasCer THEN StratumRows(e) ELSE 0,
      composition |-> CompositionOfErrors(e)]
Profiles == IF HasPipelines THEN [i \in Indices(result.engines) |-> Profile(i)] ELSE <<>>
-----------------------------------------------------------------------------
(* The sections a report can have: what the renderer is given of each.     *)
TableSections ==
  {"key_measures", "overview", "corpus_composition", "by_engine", "documents", "cross_engine",
   "word_errors", "conformity", "structure", "correction", "decisions", "structured_data",
   "philology", "textual_fidelity", "lines", "ner", "economics", "taxonomy", "calibration",
   "diagnostics"}
Tables(s) ==
  CASE s = "key_measures" -> KeyMeasures [] s = "overview" -> Overview
    [] s = "corpus_composition" -> CorpusComposition [] s = "by_engine" -> ByEngine
    [] s = "documents" -> ByDocument [] s = "cross_engine" -> CrossEngine
    [] s = "word_errors" -> WordErrors [] s = "conformity" -> Conformity
    [] s = "structure" -> Structure [] s = "correction" -> Correction
    [] s = "decisions" -> Decisions [] s = "structured_data" -> StructuredData
    [] s = "philology" -> Philology [] s = "textual_fidelity" -> TextualFidelity
    [] s = "lines" -> LinesOfText [] s = "ner" -> Ner [] s = "economics" -> Economics
    [] s = "taxonomy" -> TaxonomySection [] s = "calibration" -> CalibrationSection
    [] s = "diagnostics" -> Diagnostics
OtherSections ==
  {"methodology", "engine_radar", "dispersion", "engine_duel", "engine_profiles", "document_details"}
IsRendered(s) ==
  \/ s \in TableSections /\ Tables(s) # <<>>
  \/ s = "methodology"
  \/ s = "engine_radar" /\ EngineRadar # <<>>
  \/ s = "dispersion" /\ Dispersion # <<>>
  \/ s = "engine_duel" /\ EngineDuel # <<>>
  \/ s = "engine_profiles" /\ HasPipelines
  \/ s = "document_details" /\ HasDocuments
Rendered == {s \in TableSections \cup OtherSections : IsRendered(s)}

(* The groups of each mode, and its detail, which is in none.              *)
Groups ==
  [report |->
     << <<"key", <<"key_measures", "overview", "corpus_composition">>>>,
        <<"compare", <<"by_engine", "engine_radar", "dispersion">>>>,
        <<"crosses", <<"cross_engine", "engine_duel", "word_errors">>>>,
        <<"errors", <<"conformity", "structure", "correction", "decisions",
                      "structured_data", "philology", "textual_fidelity", "lines",
                      "ner", "taxonomy", "calibration", "diagnostics">>>>,
        <<"economics", <<"economics">>>> >>,
   explorer |-> << <<"documents", <<"documents">>>> >>]
DetailOf == [report |-> "engine_profiles", explorer |-> "document_details"]

(* A mode with a single group has neither its title nor the links to it.   *)
ModeBody(mode, rendered) ==
  LET present(g) == SelectSeq(g[2], LAMBDA s : s \in rendered)
      groups == SelectSeq(Groups[mode], LAMBDA g : present(g) # <<>>)
  IN [blocks |-> FlattenSeq([i \in Indices(groups) |-> present(groups[i])]),
      links |-> IF Len(groups) > 1 THEN [i \in Indices(groups) |-> groups[i][1]] ELSE <<>>,
      detail |-> {DetailOf[mode]} \cap rendered]
HasMode(m) ==
  IsRendered(DetailOf[m]) \/ \E g \in ToSet(Groups[m]) : \E s \in ToSet(g[2]) : IsRendered(s)
Modes == SelectSeq(<<"report", "explorer">>, HasMode)
Placed(mode, rendered) ==
  ToSet(ModeBody(mode, rendered).blocks) \cup ModeBody(mode, rendered).detail
Trailer(rendered) == rendered \ UNION {Placed(m, rendered) : m \in ToSet(Modes)}

(* The values by engine and view that another report is compared with.     *)
CerByKey ==
  [k \in {p \in ToSet(result.engines) \X ToSet(ViewNames) :
            AggregateIfAny(p[2], p[1], "cer") # NoScore} |-> AggregateOf(k[2], k[1], "cer")]
-----------------------------------------------------------------------------
(* A section that is shown has no empty table, an engine has the badge of  *)
(* its place in the manifest in all of them, the headers of a table span   *)
(* its columns, and the section is at one place of the page.               *)
SectionsAreWhole ==
  LET rendered == Rendered
  IN /\ \A s \in rendered \cap TableSections :
          LET tables == Tables(s) IN
          \A k \in Indices(tables) :
            /\ tables[k].rows # <<>>
            /\ \A i \in Indices(tables[k].rows) :
                 LET row == tables[k].rows[i]
                 IN row.of[1] = "engine" => result.engines[row.badge + 1] = row.of[2]
            /\ "columns" \in DOMAIN tables[k] => SumSeq(tables[k].spans) = tables[k].columns
     /\ \A s \in rendered \ {"methodology"} : \E m \in ToSet(Modes) :
          s \in Placed(m, rendered)
            /\ \A other \in ToSet(Modes) \ {m} : s \notin Placed(other, rendered)
     /\ Trailer(rendered) = {"methodology"}

(* The words that the engines miss are as many in the matrix, in the       *)
(* overlaps, in the donut and in the circles, whatever the columns.        *)
WordsAreCountedAlike ==
  \A a \in ToSet(AnalysesOf("word_errors")) :
    LET n == Len(a.words)
        inMatrix == [c \in Indices(MatrixTables(a)) |-> Len(MatrixTables(a)[c].rows)]
        inOverlaps == [i \in Indices(OverlapTable(a).rows) |-> OverlapTable(a).rows[i].of[2]]
        inCircles == WordVenn(a)
    IN /\ SumSeq(inMatrix) = n
       /\ SumSeq(inOverlaps) = n
       /\ Len(a.rows) > 1 => SumSeq(WordDonut(a)) = n
       /\ inCircles # {} => FoldSet(LAMBDA r, total : r[2] + total, 0, inCircles) = n
       /\ \A i \in Indices(WordHeatmap(a)) :
            {j \in Indices(ColumnsOfMap(a)) : WordHeatmap(a)[i][j] > 0}
              = {j \in Indices(ColumnsOfMap(a)) : ColumnsOfMap(a)[j] \in MissedBy(a.words[i])}

(* At most one score in ten is beyond the cutoff of an anomaly.            *)
AnomaliesAreFew ==
  \A m \in {"cer", "hallucination"} :
    10 * Len(SelectSeq(Observed(m), LAMBDA x : Beyond(x, Observed(m))))
      <= (10 - QuantileTenths) * Len(Observed(m))

(* The marks of every figure are in its plot, in the order of the values   *)
(* they stand for; and a histogram counts each value once.                 *)
FiguresFit ==
  /\ \A i \in Indices(Dispersion) : BoxFits(Dispersion[i])
  /\ DumbbellFits(EngineDuel)
  /\ \A i \in Indices(EngineRadar) : \A x \in ToSet(EngineRadar[i]) : InPlot(x)
  /\ \A a \in ToSet(AnalysesOf("inference")) : DotsFit(IntervalDots(a))
  /\ \A a \in ToSet(AnalysesOf("calibration")) : \A e \in ToSet(a.rows) :
       CurveFits(CalibrationCurve(a.bins[e]))
  /\ \A i \in Indices(CompositionBars) : BarFits(CompositionBars[i])
  /\ \A i \in Indices(Profiles) :
       /\ \A x \in ToSet(Profiles[i].chart) : InPlot(x)
       /\ HasCer => SumSeq(Histogram(Known(PrimaryView, Profiles[i].of, "cer"), 10))
                      = Len(Known(PrimaryView, Profiles[i].of, "cer"))
  /\ \A v \in ToSet(ViewNames) : \A m \in ToSet(MetricsOf(v)) :
       \A x \in {Tints(v, m)[e] : e \in ToSet(result.engines)} \ {NoScore} : InPlot(x)
  /\ \A a \in ToSet(AnalysesOf("document_lines")) : \A cers \in a.lines :
       LET p == LinePercentiles(cers)
       IN Min(ToSet(cers)) <= p[50] /\ p[50] <= p[75] /\ p[75] <= p[90]
            /\ p[90] <= p[95] /\ p[95] <= p[99] /\ p[99] <= Max(ToSet(cers))

(* The report tells what the result holds, the same in all its parts.      *)
ReportTellsTheResult ==
  SectionsAreWhole /\ WordsAreCountedAlike /\ AnomaliesAreFew /\ FiguresFit
=============================================================================
