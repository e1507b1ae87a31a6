------------------------------- MODULE Pages -------------------------------
(***************************************************************************)
(* What a visitor reads: the report of a run, which holds its result and   *)
(* computes nothing more, and the history page.  A behaviour picks what is *)
(* varied: the scores of the result, one of its analyses, what is done in  *)
(* the browser, or the runs of the history; the rest stands still.         *)
(***************************************************************************)
EXTENDS ReportPage, RunHistory

CONSTANTS
  NEngines, NDocuments,  \* bounds of a result
  Rates,                 \* the values of a score that applies
  MaxMissed              \* words of the map of errors

ASSUME PagesAssumption ==
  /\ NEngines \in Nat \ {0} /\ NDocuments \in Nat \ {0} /\ PageSize \in Nat \ {0}
  /\ NoScore \notin Int

VARIABLE aspect

Aspects == {"scores", "strata", "analysis", "words", "gallery", "comparison", "history"}
pagesVars == <<aspect, result, pageVars, historyVars>>

(* The names of the engines are not in the order of the manifest.          *)
Manifest == [i \in 1 .. NEngines |-> (i % NEngines) + 1]
Corpus == [i \in 1 .. NDocuments |-> i]
Points == (1 .. NEngines) \X (1 .. NDocuments)
TextView ==
  [name |-> "text", metrics |-> <<"cer", "wer", "mer", "fca", "char_accuracy", "hallucination">>]
LayoutView == [name |-> "layout", metrics |-> <<"region_cer", "region_detection">>]
(* The scores of the two views, from the rates that vary.                  *)
ScoresOf(cers, unanchored) ==
  [t \in {"text", "layout"} \X (1 .. NEngines) \X (1 .. NDocuments) |->
     LET cer == cers[<<t[2], t[3]>>]
         trust == unanchored[t[2]]
     IN IF t[1] = "layout" THEN [region_cer |-> cer, region_detection |-> NoScore]
        ELSE [cer |-> cer, wer |-> cer, mer |-> cer, fca |-> trust, hallucination |-> trust,
              char_accuracy |-> IF cer = NoScore THEN NoScore ELSE Max({0, 100 - cer})]]
ResultOf(views, cers, unanchored, strata, analyses) ==
  [views |-> views, engines |-> Manifest, documents |-> Corpus, strata |-> strata,
   scores |-> ScoresOf(cers, unanchored), analyses |-> analyses, tests |-> Len(analyses) % 2]

SameCers == [p \in Points |-> 30]
GalleryCers == [p \in Points |-> IF p = <<1, 1>> THEN 90 ELSE 30 * (p[2] % 2)]
NoTrust == [e \in 1 .. NEngines |-> NoScore]
SomeTrust == [e \in 1 .. NEngines |-> 30 * (e % 2)]
OneStratum == [d \in 1 .. NDocuments |-> "s"]
SomeStrata ==
  {[d \in 1 .. NDocuments |-> IF d \in S THEN "t" ELSE s] :
     S \in SUBSET (1 .. NDocuments), s \in {"", "s"}}
-----------------------------------------------------------------------------
(* The analyses of the text view: rows for some of the engines,            *)
(* and for each of them as many items as its collector may leave.          *)
SomeRows == {SelectSeq(Manifest, LAMBDA e : e \in S) : S \in (SUBSET (1 .. NEngines)) \ {{}}}
With(kind, names, numbers) ==
  UNION {{[view |-> "text", kind |-> kind, rows |-> engines, parts |-> parts] :
            parts \in [ToSet(engines) -> [names -> numbers]]} : engines \in SomeRows}
Also(analyses, extras) == {extra @@ a : a \in analyses, extra \in extras}
OfEngines(kind) == With(kind, {"none"}, {0})

Kinds ==
  UNION {OfEngines(kind) : kind \in {"conformity", "lines", "roman_numerals"}}
    \cup With("correction", {"regressions", "overnormalized"}, {0, 2})
    \cup With("decisions", {"reasons", "samples"}, {0, 2})
    \cup With("structured_data", {"categories"}, 1 .. 2)
    \cup With("philology", {"markers"}, 1 .. 2)
    \cup With("textual_fidelity", {"modernized"}, {0, 2})
    \cup With("ner", {"categories"}, {0, 2})
    \cup Also(OfEngines("economics"), [pareto : BOOLEAN, marginal : 0 .. 1])
    \cup Also(With("diagnostics", {"confusions"}, {0, 2}),
              [worst : {<<>>, <<1>>}, hardest : {<<>>, <<1>>}])
    \cup {a \in Also(With("taxonomy", {"case", "lost"}, 0 .. 1), {[classes |-> <<"case", "lost">>]}) :
            \A e \in ToSet(a.rows) : a.parts[e]["case"] + a.parts[e]["lost"] > 0}
    \cup Also(With("calibration", {"bins"}, {2}),
              [bins : [1 .. NEngines -> {<<<<10, 100>>, <<60, 0>>>>, <<<<60, 40>>, <<60, 0>>>>}]])
    \cup Also(OfEngines("inference"),
              [intervals : {<<[mean |-> 30, lower |-> 0, upper |-> 90]>>,
                            <<[mean |-> 60, lower |-> 30, upper |-> 60], [mean |-> 0, lower |-> 0, upper |-> 0]>>}])
    \cup Also({a \in OfEngines("inter_engine") : Len(a.rows) > 1},
              [complementarity : BOOLEAN, gaps : 0 .. 1, divergence : BOOLEAN])
    \cup Also(OfEngines("document_lines"),
              [lines : {{<<30>>, <<120, 0>>}, {<<0, 0, 120, 60>>, <<0, 0, 0, 0, 30>>}}])
(* The words some engine misses, those with the most misses first.         *)
Missed == {S \in SUBSET (1 .. NEngines) : S # {}}
MissedWords ==
  {s \in BoundedSeq(Missed, MaxMissed) :
     s # <<>> /\ \A i \in 2 .. Len(s) : Cardinality(s[i]) <= Cardinality(s[i - 1])}
WordMap(signatures) ==
  [view |-> "text", kind |-> "word_errors", rows |-> Manifest,
   words |-> [i \in DOMAIN signatures |-> [word |-> i, misses |-> [e \in signatures[i] |-> 1]]]]
Texts == [view |-> "text", kind |-> "document_texts", texts |-> [d \in {1} |-> Manifest]]
Inserted == [view |-> "text", kind |-> "document_hallucination", inserted |-> {1, NDocuments}]
GalleryResult ==
  ResultOf(<<TextView, LayoutView>>, GalleryCers, NoTrust,
           [d \in 1 .. NDocuments |-> IF d = 2 THEN "t" ELSE "s"], <<Texts, Inserted>>)

ResultInit ==
  CASE aspect = "scores" ->
         \E cers \in {c \in [Points -> Rates \cup {NoScore}] :
                        \A p \in Points : NEngines = p[1] \/ NDocuments = p[2] => c[p] = 30} :
           \/ result = ResultOf(<<TextView>>, cers, SomeTrust, OneStratum, <<>>)
           \/ \E views \in {<<TextView, LayoutView>>, <<LayoutView>>} :
                result = ResultOf(views, cers, NoTrust, OneStratum, <<>>)
    [] aspect = "strata" ->
         \E strata \in SomeStrata :
           result = ResultOf(<<TextView>>, GalleryCers, NoTrust, strata, <<>>)
    [] aspect = "analysis" ->
         \E analysis \in Kinds :
           result = ResultOf(<<TextView>>, SameCers, NoTrust, OneStratum, <<analysis>>)
    [] aspect = "words" ->
         \E signatures \in MissedWords :
           result = ResultOf(<<TextView>>, SameCers, NoTrust, OneStratum, <<WordMap(signatures)>>)
    [] aspect \in {"gallery", "comparison"} -> result = GalleryResult
    \* A run of which no pipeline has been scored.
    [] aspect = "history" ->
         result = [views |-> <<>>, engines |-> <<>>, documents |-> <<>>, strata |-> <<>>,
                   scores |-> <<>>, analyses |-> <<>>, tests |-> 0]

PagesInit == aspect \in Aspects /\ ResultInit /\ PageInit /\ HistoryInit

PagesNext ==
  \/ /\ aspect = "gallery" /\ BrowseNext
     /\ UNCHANGED <<aspect, result, historyVars>>
  \/ /\ aspect = "comparison" /\ CompareNext
     /\ UNCHANGED <<aspect, result, historyVars>>
  \/ /\ aspect = "history" /\ HistoryNext
     /\ UNCHANGED <<aspect, result, pageVars>>
PagesSpec == PagesInit /\ [][PagesNext]_pagesVars
=============================================================================
