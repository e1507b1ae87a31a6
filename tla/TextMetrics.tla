---------------------------- MODULE TextMetrics ----------------------------
(***************************************************************************)
(* The comparison of two texts, as sequences of words or of characters:    *)
(* the edit distance and the full alignment of evaluation/metrics/text.py, *)
(* two implementations of the same table; what the Levenshtein library may *)
(* return, which the analyses use; and multisets of words.                 *)
(***************************************************************************)
EXTENDS Ranks, Integers, SequencesExt

Indices(text) == 1 .. Len(text)

(* The table of distances, row by row: above[j + 1] is the distance of the *)
(* previous prefix of the reference to the first j words of the hypothesis.*)
FirstRow(hypothesis) == [j \in 1 .. Len(hypothesis) + 1 |-> j - 1]

NextRow(above, word, hypothesis) ==
  FoldLeft(LAMBDA row, j:
             Append(row, Min({above[j + 1] + 1,
                              row[j] + 1,
                              above[j] + (IF word = hypothesis[j] THEN 0 ELSE 1)})),
           <<above[1] + 1>>, [j \in Indices(hypothesis) |-> j])

EditDistance(reference, hypothesis) ==
  Last(FoldLeft(LAMBDA row, word: NextRow(row, word, hypothesis),
                FirstRow(hypothesis), reference))

(* The whole table, and the walk back from its last cell that counts what  *)
(* each edit is.                                                           *)
Table(reference, hypothesis) ==
  FoldLeft(LAMBDA rows, word: Append(rows, NextRow(Last(rows), word, hypothesis)),
           <<FirstRow(hypothesis)>>, reference)

NoEdits == [hits |-> 0, subs |-> 0, dels |-> 0, ins |-> 0]

Align(reference, hypothesis) ==
  LET table == Table(reference, hypothesis)
      cell(i, j) == table[i + 1][j + 1]
      walk[at \in (0 .. Len(reference)) \X (0 .. Len(hypothesis))] ==
        LET i == at[1]
            j == at[2]
        IN CASE i = 0 /\ j = 0 -> NoEdits
             [] i > 0 /\ j > 0 /\ reference[i] = hypothesis[j]
                  /\ cell(i, j) = cell(i - 1, j - 1) ->
                  [walk[<<i - 1, j - 1>>] EXCEPT !.hits = @ + 1]
             [] i > 0 /\ j > 0 /\ cell(i, j) = cell(i - 1, j - 1) + 1 ->
                  [walk[<<i - 1, j - 1>>] EXCEPT !.subs = @ + 1]
             [] OTHER ->
                  IF i > 0 /\ cell(i, j) = cell(i - 1, j) + 1
                  THEN [walk[<<i - 1, j>>] EXCEPT !.dels = @ + 1]
                  ELSE [walk[<<i, j - 1>>] EXCEPT !.ins = @ + 1]
  IN walk[<<Len(reference), Len(hypothesis)>>]

Edits(alignment) == alignment.subs + alignment.dels + alignment.ins

(* An alignment pairs words of the two texts in order; the words it leaves *)
(* unpaired are deleted or inserted.                                       *)
InOrder(S) == [k \in 1 .. Cardinality(S) |-> Nth(S, k)]
Pairing(kept, used) ==
  [k \in 1 .. Cardinality(kept) |-> <<InOrder(kept)[k], InOrder(used)[k]>>]
Alignments(reference, hypothesis) ==
  {Pairing(p[1], p[2]) :
     p \in {q \in (SUBSET Indices(reference)) \X (SUBSET Indices(hypothesis)) :
              Cardinality(q[1]) = Cardinality(q[2])}}

Mismatches(alignment, reference, hypothesis) ==
  Cardinality({k \in Indices(alignment) :
                 reference[alignment[k][1]] # hypothesis[alignment[k][2]]})

Price(alignment, reference, hypothesis) ==
  Len(reference) + Len(hypothesis) - 2 * Len(alignment)
    + Mismatches(alignment, reference, hypothesis)

LeastEdits(reference, hypothesis) ==
  Min({Price(a, reference, hypothesis) : a \in Alignments(reference, hypothesis)})

(* Levenshtein.opcodes and editops: an alignment of least price, which one *)
(* is the library's choice.                                                *)
Opcodes(reference, hypothesis) ==
  {a \in Alignments(reference, hypothesis) :
     Price(a, reference, hypothesis) = LeastEdits(reference, hypothesis)}

(* Multisets of words (collections.Counter), over the words of both texts. *)
Count(word, text) == Cardinality({i \in Indices(text) : text[i] = word})
(* Mutation: an excess of the word makes up for what lacks of another.     *)
LackingNet(word, reference, text) == Count(word, reference) - Count(word, text)
Lacking(word, reference, text) == Max({0, Count(word, reference) - Count(word, text)})
Kept(word, reference, text) == Min({Count(word, reference), Count(word, text)})
=============================================================================
