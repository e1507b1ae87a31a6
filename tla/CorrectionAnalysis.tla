------------------------- MODULE CorrectionAnalysis -------------------------
(***************************************************************************)
(* evaluation/correction.py: what the correcting stage of a pipeline is    *)
(* worth.  The documents are added one by one to the accumulator: their    *)
(* ground truth, the raw text and the corrected one, where a stage that is *)
(* missing counts as an empty text.  Characters are abstracted to the      *)
(* words of the text: the rates of both are computed alike.                *)
(***************************************************************************)
EXTENDS TextMetrics

CONSTANTS
  Lexicon,       \* the words
  MaxLength,     \* of a text, in words
  Pages,         \* documents the corpus may have
  Absent         \* no ground truth, or a stage that is missing

\* Words come from finitely many texts, of finite length.
ASSUME CorrectionAssumption == IsFiniteSet(Lexicon) /\ MaxLength \in Nat

VARIABLES added, balance, correctionReport

correctionVars == <<added, balance, correctionReport>>

Stages == BoundedSeq(Lexicon, MaxLength)

NoBalance ==
  [documents |-> 0, missingRaw |-> 0, missingCorrected |-> 0,
   improvement |-> 0, regression |-> 0, noChange |-> 0,
   rawEdits |-> 0, rawTotal |-> 0, sysInsertions |-> 0, sysTotal |-> 0,
   errorsBefore |-> 0, errorsAfter |-> 0,
   corrected |-> 0, introduced |-> 0, kept |-> 0,
   correctOcr |-> 0, overNormalized |-> 0]

CorrectionInit == added = 0 /\ balance = NoBalance /\ correctionReport = {}

Materialized(stage) == IF stage = Absent THEN <<>> ELSE stage
One(condition) == IF condition THEN 1 ELSE 0

(* char_counts and char_mer, of one alignment of least price: edits over   *)
(* the length of the reference and what is inserted.                       *)
Insertions(alignment, text) == Len(text) - Len(alignment)
Rate(reference, text, a) ==
  [edits |-> Price(a, reference, text), total |-> Len(reference) + Insertions(a, text)]
Worse(x, y) == x.edits * Max({1, y.total}) > y.edits * Max({1, x.total})

(* Words whose occurrences are missing before or after the correction.     *)
Misspelt(reference, raw, corrected) ==
  {w \in Lexicon : Lacking(w, reference, raw) > 0 \/ Lacking(w, reference, corrected) > 0}

(* Position i of the reference, as an alignment maps it.                   *)
Restored(i, reference, text, a) ==
  \E k \in Indices(a) : a[k][1] = i /\ text[a[k][2]] = reference[i]

(* _CorrectionAccumulator.add for one document, given the alignments the   *)
(* library returned for the characters and the words of each text.         *)
Add(b, reference, rawStage, correctedStage, rawAlignment, correctedAlignment) ==
  LET raw == Materialized(rawStage)
      corrected == Materialized(correctedStage)
      before == Rate(reference, raw, rawAlignment)
      after == Rate(reference, corrected, correctedAlignment)
      lost(w) == Lacking(w, reference, raw)
      left(w) == Lacking(w, reference, corrected)
      words == Misspelt(reference, raw, corrected)
      right == {i \in Indices(reference) : Restored(i, reference, raw, rawAlignment)}
  IN [documents |-> b.documents + 1,
      missingRaw |-> b.missingRaw + One(rawStage = Absent),
      missingCorrected |-> b.missingCorrected + One(correctedStage = Absent),
      improvement |-> b.improvement + One(Worse(before, after)),
      regression |-> b.regression + One(Worse(after, before)),
      noChange |-> b.noChange + One(~Worse(before, after) /\ ~Worse(after, before)),
      rawEdits |-> b.rawEdits + before.edits,
      rawTotal |-> b.rawTotal + before.total,
      sysInsertions |-> b.sysInsertions + Insertions(correctedAlignment, corrected),
      sysTotal |-> b.sysTotal + after.total,
      errorsBefore |-> b.errorsBefore + SumFunction([w \in Lexicon |-> lost(w)]),
      errorsAfter |-> b.errorsAfter + SumFunction([w \in Lexicon |-> left(w)]),
      corrected |-> b.corrected + SumFunction([w \in words |-> Max({0, lost(w) - left(w)})]),
      introduced |-> b.introduced + SumFunction([w \in words |-> Max({0, left(w) - lost(w)})]),
      kept |-> b.kept + SumFunction([w \in words |-> Min({lost(w), left(w)})]),
      correctOcr |-> b.correctOcr + Cardinality(right),
      overNormalized |-> b.overNormalized
        + Cardinality({i \in right : ~Restored(i, reference, corrected, correctedAlignment)})]

(* A document without a ground truth is not added.                         *)
AddDocument ==
  /\ added < Pages /\ correctionReport = {}
  /\ \E reference, raw, corrected \in Stages \cup {Absent} :
       \/ reference = Absent /\ UNCHANGED balance
       \/ /\ reference # Absent
          /\ \E r \in Opcodes(reference, Materialized(raw)),
                c \in Opcodes(reference, Materialized(corrected)) :
               balance' = Add(balance, reference, raw, corrected, r, c)
  /\ added' = added + 1
  /\ UNCHANGED correctionReport

(* _CorrectionAccumulator.build: nothing without a document.               *)
CloseBalance ==
  /\ correctionReport = {} /\ balance.documents > 0
  /\ correctionReport' = {[balance |-> balance,
                           netImprovement |-> balance.corrected - balance.introduced,
                           preference |-> balance.improvement - balance.regression]}
  /\ UNCHANGED <<added, balance>>

CorrectionNext == AddDocument \/ CloseBalance
CorrectionSpec == CorrectionInit /\ [][CorrectionNext]_correctionVars
-----------------------------------------------------------------------------
(* The balance of the corrections adds up: the errors before are those     *)
(* corrected or kept, the errors after those introduced or kept, so the    *)
(* net improvement is the difference between the two texts, missing stages *)
(* included; every document improves, regresses or does not change; and    *)
(* every rate lies between 0 and 1.                                        *)
CorrectionAddsUp ==
  \A r \in correctionReport :
    LET b == r.balance IN
    /\ r.netImprovement = b.errorsBefore - b.errorsAfter
    /\ b.errorsBefore = b.corrected + b.kept
    /\ b.errorsAfter = b.introduced + b.kept
    /\ b.improvement + b.regression + b.noChange = b.documents
    /\ b.rawEdits <= b.rawTotal /\ b.sysInsertions <= b.sysTotal
    /\ b.overNormalized <= b.correctOcr
=============================================================================
