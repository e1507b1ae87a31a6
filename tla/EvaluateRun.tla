---------------------------- MODULE EvaluateRun ----------------------------
(***************************************************************************)
(* evaluate_run over the outputs of the pipelines, for one view: every     *)
(* pipeline and document in turn is scored, the scores are kept in aligned *)
(* series, the collectors of the view observe the same two texts; then the *)
(* view is closed: corpus rates, what the pipelines preserve together, and *)
(* the map of the missed words.                                            *)
(*                                                                         *)
(* A text is a sequence of words; NoText is a ground truth the document    *)
(* does not have or an output the pipeline did not produce.                *)
(***************************************************************************)
EXTENDS TextMetrics

CONSTANTS
  Words, Engines, NoText,
  MaxWords,        \* of a text
  MaxCorpusWords   \* of the ground truths and the outputs together

ASSUME EvaluateAssumption ==
  IsFiniteSet(Words) /\ IsFiniteSet(Engines) /\ MaxWords \in Nat

Texts == BoundedSeq(Words, MaxWords)
Corpus == {1, 2}

VARIABLES
  truth,       \* document |-> its ground truth
  outputs,     \* <<pipeline, document>> |-> the text scored
  series,      \* pipeline |-> scores, one per document, in the corpus' order
  misses,      \* pipeline |-> word |-> times the pipeline missed it (_slots)
  viewReport   \* what the closed view says

evalVars == <<truth, outputs, series, misses, viewReport>>

(* The pipelines of the manifest, in its order.                            *)
PipelineOrder == CHOOSE order \in SetToSeqs(Engines) : TRUE

EvaluateInit ==
  /\ truth = <<>>
  /\ outputs = <<>>
  /\ series = [p \in Engines |-> <<>>]
  /\ misses = [p \in Engines |-> [w \in Words |-> 0]]
  /\ viewReport = <<>>

NotApplicable == [applies |-> FALSE]

(* The metrics of one document: numerators and denominators of wer, mer,   *)
(* del_rate, ins_rate and word_accuracy.  The accuracy is clamped at 0.    *)
Score(reference, hypothesis) ==
  LET a == Align(reference, hypothesis)
      edits == EditDistance(reference, hypothesis)
  IN [applies |-> TRUE, words |-> Len(reference), wer |-> edits,
      dels |-> a.dels, ins |-> a.ins, mer |-> Edits(a), merWords |-> a.hits + Edits(a),
      accuracy |-> Max({0, Len(reference) - edits})]

(* SequenceMatcher: a common subsequence to which no pair can be added;    *)
(* which one is the library's choice.  The words left out are missed.      *)
CommonSubsequences(reference, hypothesis) ==
  {a \in Alignments(reference, hypothesis) : Mismatches(a, reference, hypothesis) = 0}
Matches(reference, hypothesis) ==
  LET common == CommonSubsequences(reference, hypothesis)
  IN {a \in common : ~\E b \in common : ToSet(a) \subseteq ToSet(b) /\ a # b}

MissedIn(reference, matching) ==
  [w \in Words |-> Cardinality({i \in Indices(reference) :
                                 reference[i] = w /\ \A k \in Indices(matching) : matching[k][1] # i})]

(* The pipeline being scored: the first whose series is not full.          *)
Unscored == {k \in Indices(PipelineOrder) : Len(series[PipelineOrder[k]]) < Cardinality(Corpus)}

(* The ground truth of a document is the same for every pipeline.          *)
References(d) == IF d \in DOMAIN truth THEN {truth[d]} ELSE Texts \cup {NoText}

(* The bound on what is scored.                                            *)
WordsIn(texts) ==
  SumFunction([x \in DOMAIN texts |-> IF texts[x] = NoText THEN 0 ELSE Len(texts[x])])

ScoreDocument ==
  /\ Unscored # {}
  /\ LET p == PipelineOrder[Min(Unscored)]
         d == Len(series[p]) + 1
     IN \E reference \in References(d), hypothesis \in Texts \cup {NoText} :
          /\ truth' = [c \in DOMAIN truth \cup {d} |-> IF c = d THEN reference ELSE truth[c]]
          /\ outputs' = [x \in DOMAIN outputs \cup {<<p, d>>} |->
                           IF x = <<p, d>> THEN hypothesis ELSE outputs[x]]
          /\ WordsIn(truth') + WordsIn(outputs') <= MaxCorpusWords
          /\ \/ /\ reference = NoText \/ hypothesis = NoText
                /\ series' = [series EXCEPT ![p] = Append(@, NotApplicable)]
                /\ UNCHANGED misses
             \/ /\ reference # NoText /\ hypothesis # NoText
                /\ series' = [series EXCEPT ![p] = Append(@, Score(reference, hypothesis))]
                /\ \E m \in Matches(reference, hypothesis) :
                     misses' = [misses EXCEPT ![p] = [w \in Words |-> @[w] + MissedIn(reference, m)[w]]]
  /\ UNCHANGED viewReport

(* The micro average of a metric: its values weighted by their own         *)
(* denominators, so a document with an empty reference weighs nothing.     *)
Scored(p) == {d \in Corpus : series[p][d].applies}
\* Mutation: an empty reference weighs.
WeighingAll(p) == Scored(p)
Weighing(p) == {d \in Scored(p) : series[p][d].words > 0}
Total(metric, documents, p) == SumFunction([d \in documents |-> series[p][d][metric]])
Aggregate(p) ==
  [metric \in {"wer", "dels", "ins", "accuracy", "words"} |-> Total(metric, Weighing(p), p)]

(* What each pipeline preserves of the words of a document, and what the   *)
(* best of them for each word would (the oracle).                          *)
Observed(p, d) == series[p][d].applies
Observers == {p \in Engines : \E d \in Corpus : Observed(p, d)}
Covered == {d \in Corpus : (\E p \in Engines : Observed(p, d)) /\ Len(truth[d]) > 0}
Preserved(p, d, w) == IF Observed(p, d) THEN Kept(w, truth[d], outputs[<<p, d>>]) ELSE 0
DocumentRecall(p, d) == SumFunction([w \in Words |-> Preserved(p, d, w)])
DocumentOracle(d) ==
  SumFunction([w \in Words |-> Max({Preserved(p, d, w) : p \in Observers})])

Complementarity ==
  [tokens |-> SumFunction([d \in Covered |-> Len(truth[d])]),
   oracle |-> SumFunction([d \in Covered |-> DocumentOracle(d)]),
   gaps |-> SumFunction([d \in Covered |->
                           DocumentOracle(d) - Max({DocumentRecall(p, d) : p \in Observers})]),
   recalls |-> [p \in Observers |-> SumFunction([d \in Covered |-> DocumentRecall(p, d)])]]

(* The map of the words: who misses each, and how the misses overlap.      *)
Missing(w) == {p \in Observers : misses[p][w] > 0}
WordGroup(w) ==
  CASE Missing(w) = Observers -> "universal"
    [] Cardinality(Missing(w)) = 1 /\ Missing(w) # Observers -> "engine_specific"
    [] OTHER -> "partial"
WordMap ==
  [w \in {v \in Words : Missing(v) # {}} |->
     [group |-> WordGroup(w), errors |-> SumFunction([p \in Observers |-> misses[p][w]])]]

CloseView ==
  /\ Unscored = {}
  /\ viewReport = <<>>
  /\ viewReport' = [aggregates |-> [p \in Engines |-> Aggregate(p)],
                    engines |-> IF Cardinality(Observers) < 2 \/ Covered = {}
                                THEN {} ELSE {Complementarity},
                    words |-> IF Cardinality(Observers) < 2 THEN <<>> ELSE WordMap]
  /\ UNCHANGED <<truth, outputs, series, misses>>

EvaluateNext == ScoreDocument \/ CloseView
EvaluateSpec == EvaluateInit /\ [][EvaluateNext]_evalVars
-----------------------------------------------------------------------------
Compared(p) == {d \in Corpus : NoText \notin {truth[d], outputs[<<p, d>>]}}

(* The corpus rate of a pipeline is that of its texts taken together, and  *)
(* the rates agree: the errors of wer are as few as any alignment allows,  *)
(* deletions and insertions are among them, and the accuracy is their      *)
(* complement but for its floor.                                           *)
RatesAgree(p, rates) ==
  /\ rates.wer = SumFunction([d \in {c \in Compared(p) : truth[c] # <<>>} |->
                               LeastEdits(truth[d], outputs[<<p, d>>])])
  /\ rates.dels + rates.ins <= rates.wer
  /\ rates.accuracy + rates.wer >= rates.words
  /\ rates.accuracy <= rates.words
  /\ \A d \in Compared(p) : series[p][d].mer = LeastEdits(truth[d], outputs[<<p, d>>])

(* No pipeline does better than the oracle, nor the oracle better than the *)
(* corpus; choosing a pipeline document by document is no better than the  *)
(* oracle either, and no worse than the best pipeline.                     *)
OracleDominates(e) ==
  /\ e.oracle <= e.tokens
  /\ \A p \in DOMAIN e.recalls : e.recalls[p] <= e.oracle - e.gaps

(* The map of the words and the recalls are of the same texts: a pipeline  *)
(* misses at least the words it does not preserve, and a word every        *)
(* pipeline misses has an error of each.                                   *)
MapMatchesRecalls(e) ==
  /\ \A p \in DOMAIN e.recalls :
       SumFunction([w \in Words |-> misses[p][w]])
         >= SumFunction([d \in Compared(p) |-> Len(truth[d])]) - e.recalls[p]
  /\ \A w \in DOMAIN viewReport.words :
       viewReport.words[w].group = "universal"
         => viewReport.words[w].errors >= Cardinality(DOMAIN e.recalls)

(* What the sections of a closed view say of the same documents agrees:    *)
(* the aggregates, the complementarity of the pipelines and the map of the *)
(* words, computed by different code from the same texts.                  *)
SectionsAgree ==
  viewReport # <<>> =>
    /\ \A p \in Engines : RatesAgree(p, viewReport.aggregates[p])
    /\ \A e \in viewReport.engines : OracleDominates(e) /\ MapMatchesRecalls(e)
=============================================================================
