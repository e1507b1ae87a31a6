--------------------------- MODULE ViewSections ---------------------------
(***************************************************************************)
(* The collectors of one view: each text that is scored is shown to all of *)
(* them, then each makes its section.  They read the same two texts in     *)
(* their own ways: what stands between blanks or the lowered runs of       *)
(* letters, characters, lines aligned or taken by index, documents by      *)
(* their mean rate.                                                        *)
(***************************************************************************)
EXTENDS WordDiff, LineScores

CONSTANTS
  MaxLines,      \* lines of a text
  MaxTotal,      \* lines of all the texts shown
  MaxShown,      \* pairs of texts shown
  MinInsert,     \* words of an added passage (_MIN_INSERT)
  MaxFreq        \* occurrences of a rare token (_DEFAULT_MAX_FREQ)

Pipelines == 1 .. 2      \* the pipelines, by name
Documents == 1 .. 2      \* the documents, in the corpus' order

VARIABLES
  lexicon,       \* the lines the texts are made of
  keepsLines,    \* the normalisation of the view keeps the newlines
  observed,      \* what the collectors hold of each text shown
  sections       \* what they build

viewVars == <<lexicon, keepsLines, observed, sections>>

(* Words that differ in one respect each, the blank line, and words that   *)
(* bear a mark: within, alone or at an end.                                *)
Upper(base) == [Plain(base) EXCEPT !.upper = TRUE]
Accent(base) == [Plain(base) EXCEPT !.accent = TRUE]
Ligature == [Plain("a") EXCEPT !.base = <<"a", "e">>]
Lexicons ==
  {{<<Plain("a"), Plain("e")>>, w} :
     w \in {<<Upper("a"), Plain("e")>>, <<Accent("a"), Plain("e")>>, <<Ligature>>,
            <<Upper("a"), Accent("e")>>, <<Plain("a")>>, Blank}}
    \cup {{<<Plain("r"), Plain("n")>>, <<Plain("m")>>}, {<<Plain("u")>>, <<Plain("n")>>},
          {<<Plain("a")>>, <<Plain("a"), Plain("a")>>},
          {<<Plain("a"), Comma, Plain("e")>>, <<Plain("a")>>}, {<<Comma>>, <<Plain("a")>>},
          {<<Plain("a"), Hyphen, Plain("e")>>, <<Hyphen, Plain("a")>>}}
Marked == \E w \in lexicon : ToSet(w) \cap Marks # {}

Lines(text) ==
  IF keepsLines THEN text ELSE SelectSeq(<<Characters(text)>>, LAMBDA l : l # Blank)
WordsOf(text) == SelectSeq(text, LAMBDA l : l # Blank)

ViewInit ==
  /\ lexicon \in Lexicons
  /\ keepsLines \in BOOLEAN
  /\ observed = <<>>
  /\ sections = <<>>

(* What the collectors keep of two texts.                                  *)
Observation(p, d, reference, hypothesis, alignment) ==
  LET words == WordsOf(reference)
      found == WordsOf(hypothesis)
  IN [pipeline |-> p, document |-> d, reference |-> reference, hypothesis |-> hypothesis,
      errors |-> ClassifyTexts(words, found),
      added |-> Hallucination(words, found, MinInsert),
      rewritten |-> Rewritten(words, found),
      confusions |-> CharConfusions(Characters(reference), Characters(hypothesis)),
      wrong |-> {[pipeline |-> p, document |-> d, index |-> l.index, cer |-> l.cer] :
                   l \in WrongLines(Lines(reference), Lines(hypothesis))},
      lineCers |-> IF keepsLines THEN AlignedLineCers(reference, hypothesis, alignment) ELSE <<>>,
      cer |-> Cer(Characters(reference), Characters(hypothesis))]

(* The runner takes the pipelines in turn, and the documents of each.      *)
Comes(p, d) ==
  \A i \in Indices(observed) :
    \/ observed[i].pipeline < p
    \/ observed[i].pipeline = p /\ observed[i].document < d
Size(o) == Len(o.reference) + Len(o.hypothesis)
LinesShown == SumOf(Size, observed)
TextsOf(n) == BoundedSeq(lexicon, Min({n, MaxLines}))
ReferencesOf(d, n) ==
  LET known == {observed[i].reference : i \in {j \in Indices(observed) : observed[j].document = d}}
  IN IF known = {} THEN TextsOf(n) ELSE known

ObserveTexts ==
  /\ sections = <<>>
  /\ Len(observed) < MaxShown
  /\ \E p \in Pipelines, d \in Documents :
       /\ Comes(p, d)
       /\ \E reference \in ReferencesOf(d, MaxTotal - LinesShown) :
          \E hypothesis \in TextsOf(MaxTotal - LinesShown - Len(reference)) :
          \E alignment \in Opcodes(reference, hypothesis) :
            /\ LinesShown + Len(reference) + Len(hypothesis) <= MaxTotal
            /\ ~keepsLines => Blank \notin lexicon
            /\ observed' = Append(observed, Observation(p, d, reference, hypothesis, alignment))
  /\ UNCHANGED <<lexicon, keepsLines, sections>>

(* The sections.  A pipeline without an error has no row in the taxonomy.  *)
Of(p) == SelectSeq(observed, LAMBDA o : o.pipeline = p)
Seen == {observed[i].pipeline : i \in Indices(observed)}
Errors(p) == [class \in Classes |-> SumOf(LAMBDA o : o.errors[class], Of(p))]
Taxonomy == [p \in {q \in Seen : Errors(q) # NoErrors} |-> Errors(p)]

Forms(p) == FlattenSeq([i \in Indices(Of(p)) |-> Of(p)[i].rewritten])
Rare ==
  LET first(d) == SelectSeq(observed, LAMBDA o : o.document = d)
      references == [d \in Documents |->
                       IF first(d) = <<>> THEN <<>> ELSE WordsOf(first(d)[1].reference)]
  IN RareTokens(references, MaxFreq)
Fidelity ==
  [p \in Seen |->
     [rare |-> SumOf(LAMBDA o : RareReference(WordsOf(o.reference), Rare), Of(p)),
      recalled |-> SumOf(LAMBDA o : RareRecalled(WordsOf(o.reference), WordsOf(o.hypothesis), Rare),
                           Of(p)),
      forms |-> Forms(p)]]

LinesSection ==
  LET documents(p) == SelectSeq([i \in Indices(Of(p)) |-> Of(p)[i].lineCers],
                                LAMBDA cers : cers # <<>>)
  IN [p \in {q \in Seen : documents(q) # <<>>} |-> LinesRow(documents(p))]

(* The rates each document was given, in the order they came; of those of  *)
(* the whole corpus, the documents no pipeline scored have none.           *)
Rates == [d \in Documents |-> LET given == SelectSeq(observed, LAMBDA o : o.document = d)
                              IN [i \in Indices(given) |-> given[i].cer]]
Diagnostics ==
  [confusions |-> [p \in {q \in Seen : \E i \in Indices(Of(q)) : Of(q)[i].confusions # <<>>} |->
                     FlattenSeq([i \in Indices(Of(p)) |-> Of(p)[i].confusions])],
   worst |-> WorstLines(UNION {observed[i].wrong : i \in Indices(observed)}),
   hardest |-> HardestDocuments(Rates)]

(* The full texts, the hardest document first.                             *)
TextsShown ==
  SetToSortSeq({observed[i].document : i \in Indices(observed)},
               LAMBDA d, e : HarderFirst(Rates, d, e))

Build ==
  /\ sections = <<>>
  /\ observed # <<>>
  /\ sections' = [taxonomy |-> Taxonomy, fidelity |-> Fidelity, lines |-> LinesSection,
                  diagnostics |-> Diagnostics, texts |-> TextsShown]
  /\ UNCHANGED <<lexicon, keepsLines, observed>>

ViewNext == ObserveTexts \/ Build
ViewSpec == ViewInit /\ [][ViewNext]_viewVars
-----------------------------------------------------------------------------
Pair(o) == <<WordsOf(o.reference), WordsOf(o.hypothesis)>>
TotalErrors(p) == IF p \in DOMAIN sections.taxonomy
                  THEN MapThenSumSet(LAMBDA class : sections.taxonomy[p][class], Classes) ELSE 0

(* The taxonomy tells every error of the words, and none where there is    *)
(* none; words that disappear or appear make up for the difference of the  *)
(* lengths, unless some were glued or cut.                                 *)
TaxonomyIsComplete(p) ==
  /\ TotalErrors(p) >= SumOf(LAMBDA o : EditDistance(Pair(o)[1], Pair(o)[2]), Of(p))
  /\ TotalErrors(p) = 0 <=> \A i \in Indices(Of(p)) : Pair(Of(p)[i])[1] = Pair(Of(p)[i])[2]
  /\ Errors(p).segmentation = 0 =>
       Errors(p).insertion - Errors(p).lacuna
         = SumOf(LAMBDA o : Len(Pair(o)[2]) - Len(Pair(o)[1]), Of(p))

(* Nothing is told as rewritten or confused that is the same on both       *)
(* sides; a rare token that was not recalled was rewritten; where no word  *)
(* bears a mark, so that the two ways to cut a text agree, the passages    *)
(* said to be added are no longer than what the output has in excess of    *)
(* the words it has right.                                                 *)
FormsAreErrors(p) ==
  /\ \A i \in Indices(Forms(p)) : Forms(p)[i][1] # Forms(p)[i][2]
  /\ p \in DOMAIN sections.diagnostics.confusions =>
       \A i \in Indices(sections.diagnostics.confusions[p]) :
         LET pair == sections.diagnostics.confusions[p][i] IN pair[1] # pair[2]
  /\ sections.fidelity[p].rare - sections.fidelity[p].recalled
       <= Len(SelectSeq(Forms(p), LAMBDA f : f[1] \in Rare))
  /\ \A i \in Indices(Of(p)), k \in {1} :
       k \in Indices(Of(p)[i].added) /\ ~Marked =>
         Of(p)[i].added[k].inserted + Len(Pair(Of(p)[i])[1]) - Len(Of(p)[i].rewritten)
           <= Of(p)[i].added[k].hypWords

(* Every line of the references has its rate; the distribution, its bands  *)
(* and its quantiles are of these rates; and without a blank line, the     *)
(* lines are all right if none is among the worst.                         *)
LinesAreConsistent(p) ==
  LET row == sections.lines[p]
  IN /\ row.lines = SumOf(LAMBDA o : Len(o.reference), Of(p))
     /\ row.gini.part \in 0 .. row.gini.of
     /\ \A s, t \in {50, 75, 90, 95, 99} : s <= t => row.percentiles[s] <= row.percentiles[t]
     /\ row.percentiles[99] <= 100 * Whole
     /\ row.lines = MapThenSumSet(LAMBDA b : row.heatmap[b].lines, DOMAIN row.heatmap)
     /\ row.total = MapThenSumSet(LAMBDA b : row.heatmap[b].total, DOMAIN row.heatmap)
     /\ row.catastrophic[100] <= row.catastrophic[50] /\ row.catastrophic[50] <= row.catastrophic[30]
     /\ row.catastrophic[100] * Whole <= row.total
     /\ sections.diagnostics.worst = <<>> /\ Blank \notin lexicon => row.total = 0

(* The hardest documents and the order of the texts agree, and the lines   *)
(* paired in any order are no worse than the lines aligned.                *)
DocumentsAreRanked ==
  /\ sections.texts = sections.diagnostics.hardest
  /\ \A i \in Indices(sections.texts), o \in ToSet(observed) :
       i = 1 /\ (\A q \in ToSet(observed) : q.cer <= o.cer)
         => SumSequence(Rates[sections.texts[1]]) * Len(Rates[o.document])
              >= SumSequence(Rates[o.document]) * Len(Rates[sections.texts[1]])
FreeOrderIsKinder(o) ==
  \A a \in Opcodes(WordsOf(o.reference), WordsOf(o.hypothesis)) :
    FlexibleErrors(o.reference, o.hypothesis)
      <= PairingCost([i \in {a[k][1] : k \in Indices(a)} |->
                        a[CHOOSE k \in Indices(a) : a[k][1] = i][2]],
                     WordsOf(o.reference), WordsOf(o.hypothesis))

(* Whatever the texts, the sections of a view that read their words, their *)
(* characters, their lines and their documents tell the same errors.       *)
ErrorsAreAllTold ==
  sections # <<>> =>
    /\ \A p \in Seen : TaxonomyIsComplete(p) /\ FormsAreErrors(p)
    /\ \A p \in DOMAIN sections.lines : LinesAreConsistent(p)
    /\ DocumentsAreRanked
    /\ \A o \in ToSet(observed) : FreeOrderIsKinder(o)
=============================================================================
