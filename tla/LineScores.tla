---------------------------- MODULE LineScores ----------------------------
(***************************************************************************)
(* What the sections of a view read in the lines of two texts: the error   *)
(* rate of each line of the reference, their distribution, the worst lines *)
(* and the hardest documents; and the accuracy that ignores the order of   *)
(* the lines.  Error rates are counted in parts of Whole.                  *)
(***************************************************************************)
EXTENDS TextMetrics

CONSTANT TopLines    \* worst lines kept (_TOP_LINES)

Whole == 27720       \* divisible by the length of any line or text of the instances
Blank == <<>>

(* A text is its lines, separated by newlines.                             *)
NewLine == [base |-> <<"newline">>, upper |-> FALSE, accent |-> FALSE]
Characters(text) ==
  FlattenSeq([i \in Indices(text) |-> IF i = 1 THEN text[i] ELSE <<NewLine>> \o text[i]])

Cer(reference, hypothesis) ==
  IF reference # <<>> THEN (EditDistance(reference, hypothesis) * Whole) \div Len(reference)
  ELSE IF hypothesis = <<>> THEN 0 ELSE Whole

(* A line's rate is at most 1; a blank line is right or entirely wrong.    *)
LineCer(reference, hypothesis) == Min({Whole, Cer(reference, hypothesis)})

(* The lines are aligned before they are compared; a line of the reference *)
(* that no line answers is compared with a blank one.                      *)
Answer(i, alignment, hypothesis) ==
  LET mates == {k \in Indices(alignment) : alignment[k][1] = i}
  IN IF mates = {} THEN Blank ELSE hypothesis[alignment[CHOOSE k \in mates : TRUE][2]]
AlignedLineCers(reference, hypothesis, alignment) ==
  [i \in Indices(reference) |-> LineCer(reference[i], Answer(i, alignment, hypothesis))]
(* Percentiles, in hundredths, by interpolation between the two ranks; and *)
(* the numerator and denominator of the Gini coefficient.                  *)
Ascending(cers) == SortSeq(cers, <)
Percentile(ordered, p) ==
  LET place == p * (Len(ordered) - 1)
      low == place \div 100 + 1
      high == Min({low + 1, Len(ordered)})
  IN 100 * ordered[low] + (place % 100) * (ordered[high] - ordered[low])

SumSequence(values) == FoldLeft(LAMBDA sum, x : sum + x, 0, values)
Gini(cers) ==
  LET ordered == Ascending(cers)
      total == SumSequence(cers)
      weighted == SumSequence([i \in Indices(ordered) |-> i * ordered[i]])
  IN [part |-> 2 * weighted - (Len(cers) + 1) * total, of |-> Len(cers) * total]

Bins == 10
Bin(i, count) == Min({((i - 1) * Bins) \div count, Bins - 1})

(* One row of the section: documents is the sequence of the line rates of  *)
(* each document observed.                                                 *)
LinesRow(documents) ==
  LET cers == FlattenSeq(documents)
      bins == FlattenSeq([d \in Indices(documents) |->
                [i \in Indices(documents[d]) |-> Bin(i, Len(documents[d]))]])
      ordered == Ascending(cers)
      inBin(b) == {i \in Indices(cers) : bins[i] = b}
  IN [lines |-> Len(cers), total |-> SumSequence(cers), gini |-> Gini(cers),
      percentiles |-> [p \in {50, 75, 90, 95, 99} |-> Percentile(ordered, p)],
      catastrophic |-> [t \in {30, 50, 100} |->
        Cardinality({i \in Indices(cers) : 100 * cers[i] >= t * Whole})],
      heatmap |-> [b \in 0 .. Bins - 1 |->
        [lines |-> Cardinality(inBin(b)), total |-> MapThenSumSet(LAMBDA i : cers[i], inBin(b))]]]
-----------------------------------------------------------------------------
(* The worst lines: compared by index here, blank lines of the reference   *)
(* left out; the rate may pass 1.                                          *)
LineCers(reference, hypothesis) ==
  {[index |-> i,
    cer |-> Cer(reference[i], IF i \in Indices(hypothesis) THEN hypothesis[i] ELSE Blank)] :
     i \in {j \in Indices(reference) : reference[j] # Blank}}
WrongLines(reference, hypothesis) == {l \in LineCers(reference, hypothesis) : l.cer > 0}

Rank(l) == <<-l.cer, l.pipeline, l.document, l.index>>
WorstFirst(l, m) ==
  \E k \in 1 .. 4 : Rank(l)[k] < Rank(m)[k] /\ \A j \in 1 .. k - 1 : Rank(l)[j] = Rank(m)[j]
WorstLines(lines) ==
  LET all == SetToSortSeq(lines, WorstFirst)
  IN SubSeq(all, 1, Min({TopLines, Len(all)}))

(* Documents by the mean of the rates they were given: scores is a         *)
(* function of the documents to sequences of rates.                        *)
HarderFirst(scores, d, e) ==
  LET left == SumSequence(scores[d]) * Max({1, Len(scores[e])})
      right == SumSequence(scores[e]) * Max({1, Len(scores[d])})
  IN left > right \/ (left = right /\ d < e)
HardestDocuments(scores) ==
  SetToSortSeq({d \in DOMAIN scores : scores[d] # <<>>},
               LAMBDA d, e : HarderFirst(scores, d, e))
-----------------------------------------------------------------------------
(* The flexible accuracy: the cheapest way to pair lines in any order,     *)
(* where a line left alone costs its length.                               *)
Pairings(reference, hypothesis) ==
  UNION {{f \in [S -> Indices(hypothesis)] : IsInjective(f)} : S \in SUBSET Indices(reference)}
TotalLength(text, lines) == MapThenSumSet(LAMBDA i : Len(text[i]), lines)
PairingCost(pairing, reference, hypothesis) ==
  MapThenSumSet(LAMBDA i : EditDistance(reference[i], hypothesis[pairing[i]]), DOMAIN pairing)
    + TotalLength(reference, Indices(reference) \ DOMAIN pairing)
    + TotalLength(hypothesis, Indices(hypothesis) \ {pairing[i] : i \in DOMAIN pairing})
FlexibleErrors(reference, hypothesis) ==
  LET lines == SelectSeq(reference, LAMBDA l : l # Blank)
      answers == SelectSeq(hypothesis, LAMBDA l : l # Blank)
  IN Min({PairingCost(f, lines, answers) : f \in Pairings(lines, answers)})
=============================================================================
