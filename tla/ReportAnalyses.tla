--------------------------- MODULE ReportAnalyses ---------------------------
(***************************************************************************)
(* The sections of a report that show an analysis of the result, a block   *)
(* per view that has one (render_payload_section).  An analysis holds its  *)
(* rows by engine; "parts" is how many items of each kind a row has, and   *)
(* what it says of the view as a whole is at its own fields.               *)
(***************************************************************************)
EXTENDS ReportSections

Parts(analysis, e, part) == analysis.parts[e][part]
Each(analyses, Block(_)) == FlattenSeq([i \in Indices(analyses) |-> Block(analyses[i])])
(* The engines of an analysis that have some of a part, and a table of it  *)
(* for each of them, or rows for each.                                     *)
Having(a, part) == SelectSeq(a.rows, LAMBDA e : Parts(a, e, part) > 0)
PartTables(a, part) ==
  [i \in Indices(Having(a, part)) |-> Table(Repeated(Other(part), Parts(a, Having(a, part)[i], part)))]
PartRows(a, part) ==
  FlattenSeq([i \in Indices(a.rows) |-> Repeated(Row(a.rows[i]), Parts(a, a.rows[i], part))])
-----------------------------------------------------------------------------
EngineTable(a) == <<Table(Rows(a.rows))>>
Conformity == Each(AnalysesOf("conformity"), EngineTable)

(* The engines of any view that has a metric of the layout.                *)
Structure ==
  LET views == SelectSeq(ViewNames, LAMBDA v : {"region_cer", "region_detection"} \cap ToSet(MetricsOf(v)) # {})
  IN OnlyIf(HasPipelines /\ views # <<>>,
            <<Table(FlattenSeq([i \in Indices(views) |-> Rows(result.engines)]))>>)

CorrectionBlock(a) ==
  [i \in Indices(a.rows) |-> Table(Repeated(Other("balance"), 8))]
    \o PartTables(a, "regressions") \o PartTables(a, "overnormalized")
Correction == Each(AnalysesOf("correction"), CorrectionBlock)

DecisionsBlock(a) ==
  EngineTable(a) \o PartTables(a, "reasons") \o PartTables(a, "samples")
Decisions == Each(AnalysesOf("decisions"), DecisionsBlock)

StructuredBlock(a) == <<Table(PartRows(a, "categories"))>>
StructuredData == Each(AnalysesOf("structured_data"), StructuredBlock)

(* Markers of a family, then the status of the numerals, five rows each.   *)
PhilologyBlock(a) ==
  [i \in Indices(a.rows) |->
     IF a.kind = "philology" THEN Table(Repeated(Other("marker"), Parts(a, a.rows[i], "markers")))
     ELSE Table(Repeated(Other("status"), 5))]
Philology ==
  Each(SelectSeq(result.analyses, LAMBDA a : a.kind \in {"philology", "roman_numerals"}), PhilologyBlock)

FidelityBlock(a) == EngineTable(a) \o PartTables(a, "modernized")
TextualFidelity == Each(AnalysesOf("textual_fidelity"), FidelityBlock)

(* The distribution, then the heat map.                                    *)
LinesBlock(a) == EngineTable(a) \o EngineTable(a)
LinesOfText == Each(AnalysesOf("lines"), LinesBlock)

(* The table of the categories is there if an engine has one.              *)
NerBlock(a) ==
  EngineTable(a)
    \o OnlyIf(PartRows(a, "categories") # <<>>, <<Table(PartRows(a, "categories"))>>)
    \o EngineTable(a)
Ner == Each(AnalysesOf("ner"), NerBlock)

EconomicsBlock(a) ==
  EngineTable(a)
    \o OnlyIf(a.pareto, <<Table(Repeated(Other("pareto"), 2))>>)
    \o OnlyIf(a.marginal > 0, <<Table(Repeated(Other("marginal"), a.marginal))>>)
Economics == Each(AnalysesOf("economics"), EconomicsBlock)

(* A view whose confusions, worst lines and hardest documents are all      *)
(* empty has no block; if no view has one there is no section.             *)
ConfusionFlow(a) == PartTables(a, "confusions")
WorstLinesTable(a) ==
  OnlyIf(a.worst # <<>>, <<Table(Repeated(Other("line"), Len(a.worst)))>>)
HardestTable(a) == OnlyIf(a.hardest # <<>>, <<Table(Repeated(Other("document"), Len(a.hardest)))>>)
DiagnosticsBlock(a) == ConfusionFlow(a) \o WorstLinesTable(a) \o HardestTable(a)
Diagnostics == Each(AnalysesOf("diagnostics"), DiagnosticsBlock)

(* The errors of an engine by class, an engine without any left out; and   *)
(* the classes side by side if there are two engines.                      *)
ClassesOf(a, e) == SelectSeq(a.classes, LAMBDA c : Parts(a, e, c) > 0)
Composition(a, e) == [k \in Indices(ClassesOf(a, e)) |-> Parts(a, e, ClassesOf(a, e)[k])]
Erring(a) == SelectSeq(a.rows, LAMBDA e : Composition(a, e) # <<>>)
ErrorProfile(a) ==
  LET present == SelectSeq(a.classes, LAMBDA c : Having(a, c) # <<>>)
  IN OnlyIf(Len(a.rows) > 1 /\ present # <<>>,
            <<Table(Repeated(Other("class"), Len(present)))>>)
TaxonomyBlock(a) ==
  [i \in Indices(Erring(a)) |-> Table(<<Row(Erring(a)[i])>>)] \o ErrorProfile(a)
TaxonomySection == Each(AnalysesOf("taxonomy"), TaxonomyBlock)
CompositionBars ==
  Each(AnalysesOf("taxonomy"),
       LAMBDA a : [i \in Indices(Erring(a)) |-> CompositionBar(Composition(a, Erring(a)[i]))])

CalibrationBlock(a) ==
  [i \in Indices(a.rows) |-> Table(Repeated(Other("bin"), Parts(a, a.rows[i], "bins")))]
CalibrationSection == Each(AnalysesOf("calibration"), CalibrationBlock)
-----------------------------------------------------------------------------
(* The map of the words: the words the engines miss, by decreasing number  *)
(* of misses; "misses" is how often each engine that misses it does.       *)
ColumnsOfMap(a) == SelectSeq(result.engines, LAMBDA e : e \in ToSet(a.rows))
MissedBy(word) == DOMAIN word.misses

(* The matrix in one to three tables side by side.                         *)
CeilDiv(n, k) == (n + k - 1) \div k
MatrixTables(a) ==
  LET n == Len(a.words)
      columns == Min({3, Max({1, CeilDiv(n, ColumnRows)})})
      size == CeilDiv(n, columns)
      chunk(c) == SubSeq(a.words, (c - 1) * size + 1, Min({c * size, n}))
      kept == SelectSeq([c \in 1 .. columns |-> chunk(c)], LAMBDA words : words # <<>>)
  IN [c \in Indices(kept) |->
        Table([i \in Indices(kept[c]) |-> Other(kept[c][i].word)])]

(* The engines that miss the same words, the largest group first.          *)
Signatures(a) ==
  SelectSeq(a.words, LAMBDA w : ~\E i \in Indices(a.words) :
                                   a.words[i].word < w.word /\ MissedBy(a.words[i]) = MissedBy(w))
WordsMissedBy(a, engines) == Cardinality({i \in Indices(a.words) : MissedBy(a.words[i]) = engines})
OverlapTable(a) ==
  LET number(w) == WordsMissedBy(a, MissedBy(w))
      sorted == SortSeq(Signatures(a),
                  LAMBDA w, x : \/ number(w) > number(x)
                                \/ /\ number(w) = number(x)
                                   /\ Cardinality(MissedBy(w)) < Cardinality(MissedBy(x)))
  IN Table([i \in Indices(sorted) |-> Other(number(sorted[i]))])

(* The words every engine, several or one of them miss.                    *)
Shares(a) ==
  LET number(ns) == Len(SelectSeq(a.words, LAMBDA w : Cardinality(MissedBy(w)) \in ns))
      all == Len(a.rows)
  IN [every |-> number({all}), several |-> number(2 .. (all - 1)), one |-> number({1} \ {all})]
WordDonut(a) ==
  IF Len(a.rows) < 2 THEN <<>> ELSE Donut(<<Shares(a).every, Shares(a).several, Shares(a).one>>)
WordVenn(a) ==
  LET columns == ColumnsOfMap(a)
      region(w) == {i \in Indices(columns) : columns[i] \in MissedBy(w)}
      regions == {region(a.words[i]) : i \in Indices(a.words)}
  IN Venn(columns, [r \in regions |-> Len(SelectSeq(a.words, LAMBDA w : region(w) = r))])
WordHeatmap(a) ==
  LET columns == ColumnsOfMap(a)
      shown == SubSeq(a.words, 1, Min({HeatmapRows, Len(a.words)}))
  IN Heatmap(columns,
       [i \in Indices(shown) |->
          [j \in Indices(columns) |->
             IF columns[j] \in MissedBy(shown[i]) THEN shown[i].misses[columns[j]] ELSE 0]])
VariantTable(a) ==
  Table(Repeated(Other("variant"), Min({VariantRows, Len(a.words)})))
WordErrorsBlock(a) == MatrixTables(a) \o <<OverlapTable(a), VariantTable(a)>>
WordErrors == Each(AnalysesOf("word_errors"), WordErrorsBlock)
-----------------------------------------------------------------------------
(* What compares the engines: the tests, the inference of each metric, what*)
(* they preserve together and where they diverge.                          *)
ComplementarityBlock(a) ==
  OnlyIf(a.complementarity,
    <<Table(Rows(a.rows) \o <<Other("oracle")>>)>>
      \o OnlyIf(a.gaps > 0, <<Table(Repeated(Other("document"), a.gaps))>>))
DivergenceBlock(a) ==
  LET n == Len(a.rows)
  IN OnlyIf(a.divergence, <<Table(Repeated(Other("pair"), (n * (n - 1)) \div 2))>>)
InterEngine ==
  Each(AnalysesOf("inter_engine"), LAMBDA a : ComplementarityBlock(a) \o DivergenceBlock(a))
(* A test for each metric of each view, if there are engines to compare.   *)
Significance == OnlyIf(result.tests > 0, <<Table(Repeated(Other("test"), result.tests))>>)
CrossEngine ==
  OnlyIf(Significance # <<>> \/ InterEngine # <<>>,
         Significance \o Each(AnalysesOf("inference"), EngineTable) \o InterEngine)
=============================================================================
