----------------------------- MODULE WordDiff -----------------------------
(***************************************************************************)
(* What the sections of a view read in the words of two texts: the word by *)
(* word comparison of difflib, the class of each error, the passages that  *)
(* were added, the forms that were rewritten, the confused characters.     *)
(*                                                                         *)
(* A letter is a record: the base letters it is drawn from (two for a      *)
(* ligature), its case and whether it bears an accent; two marks stand for *)
(* the punctuation that separates and for that which joins.  A word is a   *)
(* sequence of letters, a text a sequence of lines, each a word or blank.  *)
(* The sections do not cut a text into the same words: the classes of      *)
(* errors and the added passages take what stands between blanks, the      *)
(* rewritten forms and the rare tokens only runs of letters.               *)
(***************************************************************************)
EXTENDS TextMetrics

(* difflib.SequenceMatcher: the longest common run of the two stretches,   *)
(* the earliest one in the reference, then in the hypothesis; and the same *)
(* on either side of it.  Pairs of indices, in order.                      *)
CommonRuns(a, b, aFrom, aTo, bFrom, bTo) ==
  {run \in (aFrom .. aTo) \X (bFrom .. bTo) \X (1 .. Len(a)) :
     /\ run[1] + run[3] - 1 <= aTo /\ run[2] + run[3] - 1 <= bTo
     /\ \A k \in 0 .. run[3] - 1 : a[run[1] + k] = b[run[2] + k]}

Preferred(runs) ==
  CHOOSE r \in runs : \A s \in runs :
    \/ r[3] > s[3]
    \/ r[3] = s[3] /\ (r[1] < s[1] \/ (r[1] = s[1] /\ r[2] <= s[2]))

SequenceMatcher(a, b) ==
  LET matched[aFrom \in 1 .. Len(a) + 1, aTo \in 0 .. Len(a),
              bFrom \in 1 .. Len(b) + 1, bTo \in 0 .. Len(b)] ==
        LET runs == CommonRuns(a, b, aFrom, aTo, bFrom, bTo)
            r == Preferred(runs)
        IN IF runs = {} THEN <<>>
           ELSE matched[aFrom, r[1] - 1, bFrom, r[2] - 1]
                  \o [k \in 1 .. r[3] |-> <<r[1] + k - 1, r[2] + k - 1>>]
                  \o matched[r[1] + r[3], aTo, r[2] + r[3], bTo]
  IN matched[1, Len(a), 1, Len(b)]
(* get_opcodes but for "equal": what lies between two matched pairs, on    *)
(* either side; "replace" if both sides have some, "delete" or "insert".   *)
Gaps(a, b) ==
  LET pairs == <<<<0, 0>>>> \o SequenceMatcher(a, b) \o <<<<Len(a) + 1, Len(b) + 1>>>>
      gap(k) == [ref |-> SubSeq(a, pairs[k][1] + 1, pairs[k + 1][1] - 1),
                 hyp |-> SubSeq(b, pairs[k][2] + 1, pairs[k + 1][2] - 1)]
  IN SelectSeq([k \in 1 .. Len(pairs) - 1 |-> gap(k)],
               LAMBDA g : g.ref # <<>> \/ g.hyp # <<>>)

Paired(gap) == 1 .. Min({Len(gap.ref), Len(gap.hyp)})
Unpaired(longer, shorter) == Max({0, Len(longer) - Len(shorter)})

SumOf(Value(_), seq) == FoldLeft(LAMBDA sum, x : sum + Value(x), 0, seq)
-----------------------------------------------------------------------------
Lower(word) == [i \in Indices(word) |-> [word[i] EXCEPT !.upper = FALSE]]
WithoutAccents(word) == [i \in Indices(word) |-> [word[i] EXCEPT !.accent = FALSE]]
ExpandLigatures(word) ==
  FlattenSeq([i \in Indices(word) |->
                [k \in Indices(word[i].base) |-> [word[i] EXCEPT !.base = <<word[i].base[k]>>]]])

(* rn is read as m, and each look-alike as its canonical letter, in the    *)
(* lowered words.                                                          *)
Plain(base) == [base |-> <<base>>, upper |-> FALSE, accent |-> FALSE]
Canonical(letter) == IF letter = Plain("u") THEN Plain("n") ELSE letter
VisualCanonical(word) ==
  LET isRn(i) == word[i] = Plain("r") /\ i < Len(word) /\ word[i + 1] = Plain("n")
      read(i) == CASE isRn(i) -> <<Plain("m")>>
                   [] i > 1 /\ isRn(i - 1) -> <<>>
                   [] OTHER -> <<Canonical(word[i])>>
  IN FlattenSeq([i \in Indices(word) |-> read(i)])

Classes == {"segmentation", "case", "diacritic", "ligature", "visual",
            "lacuna", "insertion", "other"}

ClassifyWordPair(reference, hypothesis) ==
  IF Lower(reference) = Lower(hypothesis) THEN "case"
  ELSE IF WithoutAccents(reference) = WithoutAccents(hypothesis) THEN "diacritic"
  ELSE IF ExpandLigatures(reference) = ExpandLigatures(hypothesis) THEN "ligature"
  ELSE IF VisualCanonical(Lower(reference)) = VisualCanonical(Lower(hypothesis)) THEN "visual"
  ELSE "other"

NoErrors == [class \in Classes |-> 0]
Glued(gap) == gap.ref # <<>> /\ gap.hyp # <<>> /\ FlattenSeq(gap.ref) = FlattenSeq(gap.hyp)

\* Mutation: a word without a counterpart in a replaced stretch is dropped.
ClassifyPairsOnly(gap) ==
  IF Glued(gap)
  THEN [NoErrors EXCEPT !.segmentation = Max({Len(gap.ref), Len(gap.hyp)})]
  ELSE [class \in Classes |->
          Cardinality({k \in Paired(gap) : ClassifyWordPair(gap.ref[k], gap.hyp[k]) = class})]

ClassifyGap(gap) ==
  IF Glued(gap)
  THEN [NoErrors EXCEPT !.segmentation = Max({Len(gap.ref), Len(gap.hyp)})]
  ELSE [class \in Classes |->
          Cardinality({k \in Paired(gap) : ClassifyWordPair(gap.ref[k], gap.hyp[k]) = class})
            + (CASE class = "lacuna" -> Unpaired(gap.ref, gap.hyp)
                 [] class = "insertion" -> Unpaired(gap.hyp, gap.ref)
                 [] OTHER -> 0)]
ClassifyTexts(reference, hypothesis) ==
  LET gaps == Gaps(reference, hypothesis)
  IN [class \in Classes |-> SumOf(LAMBDA g : ClassifyGap(g)[class], gaps)]
-----------------------------------------------------------------------------
Tokens(text) == [i \in Indices(text) |-> Lower(text[i])]

(* The tokens of the rare words and of the rewritten forms: the runs of    *)
(* letters, a hyphen or an apostrophe being of the run it stands within.   *)
Comma == Plain("comma")
Hyphen == Plain("hyphen")
Marks == {Comma, Hyphen}
Runs(word) ==
  LET letter(i) == i \in Indices(word) /\ word[i] \notin Marks
      within(i) == letter(i) \/ (i \in Indices(word) /\ word[i] = Hyphen
                                   /\ letter(i - 1) /\ letter(i + 1))
      end(i) == CHOOSE j \in i .. Len(word) :
                  ~within(j + 1) /\ \A k \in i .. j : within(k)
      starts == SelectSeq([i \in Indices(word) |-> i],
                          LAMBDA i : within(i) /\ ~within(i - 1))
  IN [k \in Indices(starts) |-> SubSeq(word, starts[k], end(starts[k]))]
FidelityTokens(text) == FlattenSeq([i \in Indices(text) |-> Runs(Lower(text[i]))])

(* The passages without a counterpart, of minInsert words or more; nothing *)
(* is said of a text that has none.                                        *)
InsertedPassages(reference, hypothesis) ==
  SelectSeq(Gaps(Tokens(reference), Tokens(hypothesis)), LAMBDA g : g.ref = <<>>)
Hallucination(reference, hypothesis, minInsert) ==
  LET inserted == InsertedPassages(reference, hypothesis)
      blocks == SelectSeq(inserted, LAMBDA g : Len(g.hyp) >= minInsert)
  IN IF blocks = <<>> THEN <<>>
     ELSE <<[inserted |-> SumOf(LAMBDA g : Len(g.hyp), inserted),
             hypWords |-> Len(hypothesis), blocks |-> blocks]>>

(* The forms the words of the reference were given where they differ; a    *)
(* word left without one was Deleted.                                      *)
Deleted == <<>>
Rewritten(reference, hypothesis) ==
  LET forms(g) == [k \in Indices(g.ref) |->
                     <<g.ref[k], IF k \in Paired(g) THEN g.hyp[k] ELSE Deleted>>]
      gaps == Gaps(FidelityTokens(reference), FidelityTokens(hypothesis))
  IN FlattenSeq([i \in Indices(gaps) |-> forms(gaps[i])])

(* The tokens the corpus has at most maxFreq times, one reference for each *)
(* document; and how many of those of a reference its hypothesis has.      *)
RareTokens(references, maxFreq) ==
  LET all == FlattenSeq([i \in Indices(references) |-> FidelityTokens(references[i])])
  IN {w \in ToSet(all) : Count(w, all) <= maxFreq}
RareReference(reference, rare) ==
  Len(SelectSeq(FidelityTokens(reference), LAMBDA w : w \in rare))
RareRecalled(reference, hypothesis, rare) ==
  MapThenSumSet(LAMBDA w : Kept(w, FidelityTokens(reference), FidelityTokens(hypothesis)),
                ToSet(FidelityTokens(reference)) \cap rare)

(* The pairs of characters, expected and observed, of the stretches that   *)
(* were replaced.                                                          *)
CharConfusions(reference, hypothesis) ==
  LET gaps == Gaps(reference, hypothesis)
  IN FlattenSeq([i \in Indices(gaps) |->
                   [k \in Paired(gaps[i]) |-> <<gaps[i].ref[k], gaps[i].hyp[k]>>]])
=============================================================================
