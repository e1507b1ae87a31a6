--------------------------- MODULE EntityAnalysis ---------------------------
(***************************************************************************)
(* evaluation/ner.py: how well the named entities survive a pipeline.  The *)
(* entities of the output, whose offsets are in the transcription, are     *)
(* reprojected into the ground truth's text, paired with its entities by   *)
(* overlap, and counted per document into the totals of the pipeline; then *)
(* the analysis of the view is built.  A failure of the build fails the    *)
(* evaluation of the run.                                                  *)
(***************************************************************************)
EXTENDS TextMetrics

CONSTANTS
  Letters, MaxLetters,     \* a text: its characters, and how many at most
  Labels,                  \* of the entities, compared as they are folded
  MaxEntities,             \* of a text
  MaxDocuments,            \* a bound of the corpus
  MaxMentions              \* _MAX_MISSED, _MAX_HALLUCINATED

\* Categories come from finitely many documents, of finite length.
ASSUME EntityAssumption ==
  IsFiniteSet(Labels) /\ MaxLetters \in Nat /\ MaxEntities \in Nat /\ MaxMentions \in Nat

VARIABLES
  tally,          \* the accumulator of the pipeline
  counts,         \* the counts of the last document, and what they are of
  entityReport    \* the analysis of the view, once built

entityVars == <<tally, counts, entityReport>>

(* Entities of a text, with their offsets: start excluded, end included    *)
(* when positions are counted from 1.                                      *)
EntitiesIn(text) ==
  {e \in [label : Labels, start : 0 .. Len(text), end : 0 .. Len(text)] : e.start < e.end}
EntityLists(text) ==
  {SetToSeq(S) : S \in UNION {kSubset(n, EntitiesIn(text)) : n \in 0 .. MaxEntities}}

(* build_position_map: the boundary before each character of the output,   *)
(* and after its last, as a boundary of the reference.  A character with   *)
(* no counterpart falls on the boundary after the last one that has.       *)
PositionMap(reference, hypothesis, alignment) ==
  [j \in 0 .. Len(hypothesis) |->
     IF j = Len(hypothesis) THEN Len(reference)
     ELSE IF \E k \in Indices(alignment) : alignment[k][2] = j + 1
          THEN (CHOOSE pair \in ToSet(alignment) : pair[2] = j + 1)[1] - 1
          ELSE Max({0} \cup {pair[1] : pair \in {q \in ToSet(alignment) : q[2] <= j}})]

Remap(entities, position) ==
  LET moved(e) == [label |-> e.label, start |-> position[e.start],
                   end |-> Max({position[e.start], position[e.end]})]
      remapped[n \in 0 .. Len(entities)] ==
        IF n = 0 THEN <<>> ELSE Append(remapped[n - 1], moved(entities[n]))
  IN remapped[Len(entities)]

(* Intersection over union of two spans, and whether it reaches a half.    *)
Shared(a, b) ==
  LET start == IF a.start >= b.start THEN a.start ELSE b.start
      end == IF a.end <= b.end THEN a.end ELSE b.end
  IN IF start < end THEN end - start ELSE 0
Spanned(a, b) == (a.end - a.start) + (b.end - b.start) - Shared(a, b)
Compatible(a, b) ==
  a.label = b.label /\ 2 * Shared(a, b) >= Spanned(a, b) /\ Spanned(a, b) > 0

(* align_entities: pairs taken greedily, the best overlap first, then in   *)
(* the order of the lists; an entity is paired once at most.               *)
OverlapsMore(refs, hyps, c, d) ==
  LET overlap(e) == Shared(refs[e[1]], hyps[e[2]])
      spanned(e) == Spanned(refs[e[1]], hyps[e[2]])
      first == overlap(c) * spanned(d)
      second == overlap(d) * spanned(c)
  IN \/ first > second
     \/ first = second /\ (c[1] < d[1] \/ (c[1] = d[1] /\ c[2] < d[2]))
Candidates(refs, hyps) ==
  {c \in Indices(refs) \X Indices(hyps) : Compatible(refs[c[1]], hyps[c[2]])}
InOrderOfOverlap(refs, hyps) ==
  LET candidates == Candidates(refs, hyps)
  IN CHOOSE s \in [1 .. Cardinality(candidates) -> candidates] :
       \A j, k \in DOMAIN s : j < k => OverlapsMore(refs, hyps, s[j], s[k])

\* Mutation: an entity of the output may be paired with several.
TakesReferenceOnly(matches, c) == \E m \in matches : m[1] = c[1]
Taken(matches, c) == \E m \in matches : m[1] = c[1] \/ m[2] = c[2]

AlignEntities(refs, hyps) ==
  LET pairs == InOrderOfOverlap(refs, hyps)
      matches[n \in 0 .. Len(pairs)] ==
        IF n = 0 THEN {}
        ELSE LET before == matches[n - 1]
             IN IF Taken(before, pairs[n]) THEN before ELSE before \cup {pairs[n]}
  IN matches[Len(pairs)]

PerLabel(entities, chosen) ==
  [l \in Labels |-> Cardinality({i \in chosen : entities[i].label = l})]

(* compute_ner *)
ComputeNer(reference, hypothesis, gold, found, alignment) ==
  LET hyps == Remap(found, PositionMap(reference, hypothesis, alignment))
      matches == AlignEntities(gold, hyps)
      missed == Indices(gold) \ {m[1] : m \in matches}
      invented == Indices(hyps) \ {m[2] : m \in matches}
  IN [tp |-> PerLabel(gold, {m[1] : m \in matches}),
      fn |-> PerLabel(gold, missed),
      fp |-> PerLabel(hyps, invented),
      missed |-> [k \in 1 .. Cardinality(missed) |-> gold[InOrder(missed)[k]]],
      hallucinated |-> [k \in 1 .. Cardinality(invented) |-> hyps[InOrder(invented)[k]]],
      goldSize |-> Len(gold), foundSize |-> Len(found),
      same |-> reference = hypothesis /\ gold = found]

NoneYet == [l \in Labels |-> 0]
NoCounts ==
  [tp |-> NoneYet, fn |-> NoneYet, fp |-> NoneYet, missed |-> <<>>, hallucinated |-> <<>>,
   goldSize |-> 0, foundSize |-> 0, same |-> TRUE]

EntityInit ==
  /\ tally = [documents |-> 0, tp |-> NoneYet, fn |-> NoneYet, fp |-> NoneYet,
              missed |-> <<>>, hallucinated |-> <<>>, goldSize |-> 0, foundSize |-> 0]
  /\ counts = NoCounts
  /\ entityReport = <<>>

Plus(x, y) == [l \in Labels |-> x[l] + y[l]]
Mentions(kept, entities) ==
  kept \o SubSeq([k \in Indices(entities) |-> entities[k].label], 1,
                 Min({Len(entities), MaxMentions - Len(kept)}))

(* What the counts of one document may be, whatever its two texts, their   *)
(* alignment and the entities found in each.                               *)
PossibleCounts ==
  LET texts == BoundedSeq(Letters, MaxLetters)
      counted(reference, hypothesis) ==
        {ComputeNer(reference, hypothesis, gold, found, alignment) :
           gold \in EntityLists(reference), found \in EntityLists(hypothesis),
           alignment \in Opcodes(reference, hypothesis)}
  IN UNION {counted(pair[1], pair[2]) : pair \in texts \X texts}

(* EntitiesCollector.observe                                               *)
Observe ==
  /\ tally.documents < MaxDocuments /\ entityReport = <<>>
  /\ \E c \in PossibleCounts :
       /\ counts' = c
       /\ tally' = [documents |-> tally.documents + 1,
                    tp |-> Plus(tally.tp, c.tp), fn |-> Plus(tally.fn, c.fn),
                    fp |-> Plus(tally.fp, c.fp),
                    missed |-> Mentions(tally.missed, c.missed),
                    hallucinated |-> Mentions(tally.hallucinated, c.hallucinated),
                    goldSize |-> tally.goldSize + c.goldSize,
                    foundSize |-> tally.foundSize + c.foundSize]
  /\ UNCHANGED entityReport

Sum(perLabel) == SumFunction(perLabel)
Support(l) == tally.tp[l] + tally.fn[l]
Present(l) == Support(l) + tally.fp[l] > 0

(* EntitiesCollector.build and _row: one row per category that is present. *)
(* EntityCategoryScore refuses a row whose support is 0, and the whole     *)
(* build fails with it.                                                    *)
BuildEntities ==
  /\ entityReport = <<>> /\ tally.documents > 0
  /\ Sum(tally.tp) + Sum(tally.fn) > 0
  /\ entityReport' =
       IF \E l \in Labels : Present(l) /\ Support(l) = 0
       THEN [status |-> "ValidationError", rows |-> {}]
       ELSE [status |-> "built", rows |-> {l \in Labels : Present(l)}]
  /\ UNCHANGED <<tally, counts>>

(* No entity of a ground truth was observed: there is no analysis.         *)
NoEntities ==
  /\ entityReport = <<>> /\ tally.documents > 0
  /\ Sum(tally.tp) + Sum(tally.fn) = 0
  /\ entityReport' = [status |-> "none", rows |-> {}]
  /\ UNCHANGED <<tally, counts>>

EntityNext == Observe \/ BuildEntities \/ NoEntities
EntitySpec == EntityInit /\ [][EntityNext]_entityVars
-----------------------------------------------------------------------------
(* Every entity is counted once: those of the ground truth are found or    *)
(* missed, those of the outputs are right or hallucinated, also category   *)
(* by category and over the documents.  In a document, nothing is both     *)
(* missed and hallucinated that could have been paired; and an output      *)
(* identical to the ground truth has no error.                             *)
EntitiesAddUp ==
  /\ Sum(tally.tp) + Sum(tally.fn) = tally.goldSize
  /\ Sum(tally.tp) + Sum(tally.fp) = tally.foundSize
  /\ Len(tally.missed) = Min({MaxMentions, Sum(tally.fn)})
  /\ Len(tally.hallucinated) = Min({MaxMentions, Sum(tally.fp)})
  /\ \A m \in ToSet(counts.missed), h \in ToSet(counts.hallucinated) : ~Compatible(m, h)
  /\ counts.same => counts.missed = <<>> /\ counts.hallucinated = <<>>

(* The rows of a pipeline are its categories that are present, with an     *)
(* entity found, missed or hallucinated, as the payload's comment says.    *)
PresentCategoriesAreReported ==
  entityReport # <<>> /\ tally.goldSize > 0
    => entityReport.rows = {l \in Labels : Present(l)}
=============================================================================
