---------------------------- MODULE Restitution ----------------------------
(***************************************************************************)
(* What survives of the numbers, numerals and signs of the references: the *)
(* collectors of the structured data, of the roman numerals and of the     *)
(* philological markers over the texts of one pipeline, the reliability of *)
(* its confidences, and the balance of its corrector's decisions.  A text  *)
(* is a sequence of items, each one of the kinds these sections look for.  *)
(***************************************************************************)
EXTENDS TextMetrics

CONSTANTS
  MaxItemsShown,   \* items of a text
  MaxEffort        \* documents and items of all the texts shown, if several

\* Texts are of finite length.
ASSUME RestitutionAssumption == MaxItemsShown \in Nat

VARIABLES
  family,        \* the items the texts are made of
  shown,         \* what was counted in each pair of texts
  verdicts,      \* the lines a corrector decided
  restitution    \* the sections, once built

restitutionVars == <<family, shown, verdicts, restitution>>

Numeral(spelling, case, j, regnal) ==
  [kind |-> "roman", spelling |-> spelling, case |-> case, j |-> j, regnal |-> regnal]
Arabic(value, regnal) == [kind |-> "arabic", value |-> value, regnal |-> regnal]
Folio(form, key) == [kind |-> "foliation", form |-> form, key |-> key]
Mark(kind, sign) == [kind |-> kind, sign |-> sign]

NumeralValues == [xiii |-> 13, iiii |-> 4, iv |-> 4, v |-> 5]
OneLetter == {"v"}
NumeralForms ==
  {Numeral("xiii", case, FALSE, FALSE) : case \in {"lower", "upper", "title"}}
    \cup {Numeral("xiii", "lower", TRUE, FALSE), Arabic(13, FALSE)}
RegnalYears ==
  {Numeral(s, "upper", FALSE, TRUE) : s \in {"iiii", "iv", "v"}}
    \cup {Numeral("iiii", "upper", FALSE, FALSE), Arabic(4, TRUE)}
Foliations ==
  {Folio("fol. 12r", "12r"), Folio("f. 12r", "12r"), Folio("f. 12", "12"), Arabic(12, FALSE)}
Abbreviations ==
  {Mark("sign", "per"), Mark("expansion", "per"), Mark("sign", "et"), Mark("expansion", "et")}
ArchaicLetters == {Mark("long_s", "s"), Mark("ampersand", "&"), Mark("letter", "s")}
Families == {NumeralForms, RegnalYears, Foliations, Abbreviations, ArchaicLetters}
-----------------------------------------------------------------------------
(* The sequences of a text, by category: their exact form, and the key     *)
(* that two forms of the same value share.  A numeral after "an" is one of *)
(* a single case, without the final j.                                     *)
Categories == {"foliation", "regnal"}
IsRegnal(item) ==
  \/ item.kind = "arabic" /\ item.regnal
  \/ item.kind = "roman" /\ item.regnal /\ item.case # "title" /\ ~item.j
ValueOf(item) == IF item.kind = "roman" THEN NumeralValues[item.spelling] ELSE item.value
InCategory(item, category) ==
  IF category = "regnal" THEN IsRegnal(item) ELSE item.kind = category
KeyOf(item) == IF item.kind = "foliation" THEN item.key ELSE ValueOf(item)
SequencesIn(text, category) == AtPlaces(text, {i \in Indices(text) : InCategory(text[i], category)})
Keys(items) == [i \in Indices(items) |-> KeyOf(items[i])]

KeptOf(reference, hypothesis) ==
  SumFunction([x \in ToSet(reference) |-> Kept(x, reference, hypothesis)])
\* Mutation: an item found again counts for each that expects it.
SequencesPresent(reference, hypothesis, category) ==
  LET expected == SequencesIn(reference, category)
      found == SequencesIn(hypothesis, category)
  IN [total |-> Len(expected),
      strict |-> Cardinality({i \in Indices(expected) : expected[i] \in ToSet(found)}),
      value |-> KeptOf(Keys(expected), Keys(found))]

SequenceCounts(reference, hypothesis, category) ==
  LET expected == SequencesIn(reference, category)
      found == SequencesIn(hypothesis, category)
  IN [total |-> Len(expected), strict |-> KeptOf(expected, found),
      value |-> KeptOf(Keys(expected), Keys(found))]
-----------------------------------------------------------------------------
(* What becomes of a numeral: the first status that holds.  The searches   *)
(* are over the whole hypothesis, for each numeral of the reference of two *)
(* letters or more; the years above may be of one.                         *)
Swapped(case) == CASE case = "lower" -> "upper" [] case = "upper" -> "lower" [] OTHER -> "mixed"
EndsInI(numeral) == numeral.spelling \notin {"iv", "v"}
WrittenAs(numeral, case, j, text) ==
  \E i \in Indices(text) :
    /\ text[i].kind = "roman" /\ text[i].spelling = numeral.spelling
    /\ text[i].case = case /\ text[i].j = j

Classify(numeral, text) ==
  IF WrittenAs(numeral, numeral.case, numeral.j, text) THEN "strict_preserved"
  ELSE IF WrittenAs(numeral, Swapped(numeral.case), numeral.j, text) THEN "case_changed"
  ELSE IF /\ EndsInI(numeral)
          /\ \E case \in {numeral.case, Swapped(numeral.case)} :
               WrittenAs(numeral, case, ~numeral.j, text)
  THEN "j_dropped"
  ELSE IF \E i \in Indices(text) : text[i].kind = "arabic" /\ text[i].value = ValueOf(numeral)
  THEN "converted_to_arabic"
  ELSE "lost"
Statuses == {"strict_preserved", "case_changed", "j_dropped", "converted_to_arabic", "lost"}

IsDetected(item) == item.kind = "roman" /\ item.spelling \notin OneLetter
Numerals(text) == AtPlaces(text, {i \in Indices(text) : IsDetected(text[i])})
RomanCounts(reference, hypothesis) ==
  LET numerals == Numerals(reference)
  IN [status \in Statuses |->
        Cardinality({k \in Indices(numerals) : Classify(numerals[k], hypothesis) = status})]
-----------------------------------------------------------------------------
(* The signs, found anywhere in the hypothesis, or their expansions; and   *)
(* the markers found at their place, in a stretch the alignment left equal.*)
Signs(text) == {text[i].sign : i \in {k \in Indices(text) : text[k].kind = "sign"}}
FamilyCounts(sign, reference, hypothesis) ==
  LET total == Count(Mark("sign", sign), reference)
      strict == Count(Mark("sign", sign), hypothesis)
      expanded == Count(Mark("expansion", sign), hypothesis)
  IN [total |-> total, strict |-> Min({total, strict}),
      expansion |-> Min({total, strict + expanded})]

EqualPairs(reference, hypothesis, alignment) ==
  {k \in Indices(alignment) : reference[alignment[k][1]] = hypothesis[alignment[k][2]]}
Targets == {"long_s", "ampersand"}
Places(text) == {i \in Indices(text) : text[i].kind \in Targets}
PreservationCounts(reference, hypothesis, alignment) ==
  LET right == {alignment[k][1] : k \in EqualPairs(reference, hypothesis, alignment)}
  IN [total |-> Cardinality(Places(reference)), wrong |-> Cardinality(Places(reference) \ right)]
AirObservation(reference, hypothesis, alignment) ==
  LET faithful == {alignment[k][2] : k \in EqualPairs(reference, hypothesis, alignment)}
  IN [total |-> Cardinality(Places(hypothesis)), added |-> Cardinality(Places(hypothesis) \ faithful)]
-----------------------------------------------------------------------------
(* Each item of the output bears a confidence, in hundredths; it is right  *)
(* if the reference still has one like it.                                 *)
Confidences == {50, 100}
NBins == 10
BinOf(confidence) == Min({(confidence * NBins) \div 100, NBins - 1})
Correct(reference, hypothesis) ==
  {i \in Indices(hypothesis) :
     Count(hypothesis[i], SubSeq(hypothesis, 1, i)) <= Count(hypothesis[i], reference)}
Calibration(reference, hypothesis, confidence) ==
  [b \in 0 .. NBins - 1 |->
     LET mine == {i \in Indices(hypothesis) : BinOf(confidence[i]) = b}
     IN [count |-> Cardinality(mine), hits |-> Cardinality(mine \cap Correct(reference, hypothesis)),
         claimed |-> SumFunctionOnSet(confidence, mine)]]

(* The lines a corrector decided: a text is what is read of it and what    *)
(* lies beyond its first characters (_MAX_CHARS); a proposal is not cut.   *)
LineTexts == {<<h, t>> : h \in {"a", "b"}, t \in {"", "more"}}
NoProposal == <<>>
Decisions ==
  [source : LineTexts, final : LineTexts, proposed : LineTexts \cup {NoProposal}, code : BOOLEAN]
Cut(text) == <<text[1], "">>
Verdict(line) ==
  IF Cut(line.final) # Cut(line.source) THEN "changed"
  ELSE IF line.code \/ line.proposed \notin {NoProposal, Cut(line.source)} THEN "refused"
  ELSE "untouched"
-----------------------------------------------------------------------------
RestitutionInit ==
  /\ family \in Families
  /\ shown = <<>>
  /\ verdicts = <<>>
  /\ restitution = <<>>

Effort ==
  FoldLeft(LAMBDA sum, x : sum + 1 + Len(x.reference) + Len(x.hypothesis), 0, shown)
ShowTexts ==
  /\ restitution = <<>>
  /\ verdicts = <<>>
  /\ \E reference, hypothesis \in BoundedSeq(family, MaxItemsShown) :
     /\ shown = <<>> \/ Effort + 1 + Len(reference) + Len(hypothesis) <= MaxEffort
     /\ \E alignment \in Opcodes(reference, hypothesis),
           confidence \in [Indices(hypothesis) -> Confidences] :
          shown' = Append(shown,
         [reference |-> reference, hypothesis |-> hypothesis,
          sequences |-> [c \in Categories |-> SequenceCounts(reference, hypothesis, c)],
          romans |-> RomanCounts(reference, hypothesis),
          signs |-> [s \in Signs(reference) |-> FamilyCounts(s, reference, hypothesis)],
          places |-> PreservationCounts(reference, hypothesis, alignment),
          archaisms |-> AirObservation(reference, hypothesis, alignment),
          bins |-> Calibration(reference, hypothesis, confidence)])
  /\ UNCHANGED <<family, verdicts, restitution>>

Decide ==
  /\ restitution = <<>>
  /\ shown = <<>>
  /\ Len(verdicts) < 2
  /\ \E line \in Decisions : verdicts' = Append(verdicts, [line |-> line, verdict |-> Verdict(line)])
  /\ UNCHANGED <<family, shown, restitution>>

(* A section there is nothing to tell in is left out: {} or no key.        *)
Structured(c) ==
  [n \in {"total", "strict", "value"} |->
     SumFunction([i \in Indices(shown) |-> shown[i].sequences[c][n]])]
Roman == [s \in Statuses |-> SumFunction([i \in Indices(shown) |-> shown[i].romans[s]])]
Philology(sign) ==
  [n \in {"total", "strict", "expansion"} |->
     SumFunction([i \in Indices(shown) |->
                    IF sign \in DOMAIN shown[i].signs THEN shown[i].signs[sign][n] ELSE 0])]
Reliability ==
  [b \in 0 .. NBins - 1 |->
     [n \in {"count", "hits", "claimed"} |->
        SumFunction([i \in Indices(shown) |-> shown[i].bins[b][n]])]]
DecidedAs(v) == Cardinality({i \in Indices(verdicts) : verdicts[i].verdict = v})

BuildRestitution ==
  /\ restitution = <<>>
  /\ shown # <<>> \/ verdicts # <<>>
  /\ restitution' =
       [structured |-> [c \in {k \in Categories : Structured(k).total > 0} |-> Structured(c)],
        roman |-> IF \A s \in Statuses : Roman[s] = 0 THEN {} ELSE {Roman},
        philology |-> [s \in UNION {Signs(shown[i].reference) : i \in Indices(shown)} |-> Philology(s)],
        reliability |-> Reliability,
        decisions |-> [v \in {"changed", "refused", "untouched"} |-> DecidedAs(v)]]
  /\ UNCHANGED <<family, shown, verdicts>>

RestitutionNext == ShowTexts \/ Decide \/ BuildRestitution
RestitutionSpec == RestitutionInit /\ [][RestitutionNext]_restitutionVars
-----------------------------------------------------------------------------
(* Under every lens no more is found than was expected, and no less than   *)
(* under the stricter one; a numeral that dates a year and is found as it  *)
(* was written is so for both sections, when both look for the years: not  *)
(* when one is dated by a number, or by a numeral of one letter.           *)
YearsAreDetected(text) ==
  \A k \in Indices(text) : IsRegnal(text[k]) => IsDetected(text[k])
LensesAreNested ==
  /\ \A c \in DOMAIN restitution.structured :
       LET n == restitution.structured[c]
       IN n.strict <= n.value /\ n.value <= n.total
  /\ \A s \in DOMAIN restitution.philology :
       LET n == restitution.philology[s]
       IN n.strict <= n.expansion /\ n.expansion <= n.total /\ n.total > 0
  /\ \A r \in restitution.roman :
       "regnal" \in DOMAIN restitution.structured
         /\ (\A i \in Indices(shown) : YearsAreDetected(shown[i].reference))
           => restitution.structured["regnal"].strict <= r.strict_preserved

(* What is preserved of the archaic letters, seen from the reference, is   *)
(* what is not added, seen from the output.                                *)
PreservedIsNotAdded(pair) ==
  pair.places.total - pair.places.wrong = pair.archaisms.total - pair.archaisms.added

(* The expected error of the confidences is at most the largest, and as    *)
(* many items are right as both texts have in common.                      *)
Gap(b) == LET r == restitution.reliability[b]
          IN Max({100 * r.hits - r.claimed, r.claimed - 100 * r.hits})
BinsUsed == {b \in DOMAIN restitution.reliability : restitution.reliability[b].count > 0}
ReliabilityAddsUp ==
  LET of(n) == SumFunction([b \in BinsUsed |-> restitution.reliability[b][n]])
  IN /\ of("count") = SumFunction([i \in Indices(shown) |-> Len(shown[i].hypothesis)])
     /\ of("hits") = SumFunction([i \in Indices(shown) |->
                                    KeptOf(shown[i].reference, shown[i].hypothesis)])
     /\ BinsUsed # {} =>
          \E b \in BinsUsed :
            SumFunction([c \in BinsUsed |-> Gap(c)]) * restitution.reliability[b].count <= Gap(b) * of("count")

(* A corrected line is never counted as one the corrector refused to       *)
(* change, nor a refusal as a line nobody had anything to say about.       *)
DecisionsAddUp ==
  LET line(i) == verdicts[i].line
      changed == Cardinality({i \in Indices(verdicts) : Cut(line(i).source) # Cut(line(i).final)})
      silent == Cardinality({i \in Indices(verdicts) :
                               ~line(i).code /\ line(i).proposed = NoProposal
                               /\ line(i).final = line(i).source})
  IN /\ restitution.decisions["changed"] = changed
     /\ restitution.decisions["untouched"] >= silent
     /\ restitution.decisions["refused"] + restitution.decisions["untouched"] = Len(verdicts) - changed

(* The sections on what survives count the same texts and agree.           *)
RestitutionAddsUp ==
  restitution # <<>> =>
    /\ LensesAreNested
    /\ \A i \in Indices(shown) : PreservedIsNotAdded(shown[i])
    /\ ReliabilityAddsUp
    /\ DecisionsAddUp

(* roman.py says of the status "lost": no trace of the value is left.      *)
LostLeavesNoTrace ==
  \A i \in Indices(shown) : LET pair == shown[i] IN
    \A k \in Indices(Numerals(pair.reference)), l \in Indices(pair.hypothesis) :
      /\ Classify(Numerals(pair.reference)[k], pair.hypothesis) = "lost"
      /\ pair.hypothesis[l].kind = "roman"
      => ValueOf(pair.hypothesis[l]) # ValueOf(Numerals(pair.reference)[k])
=============================================================================
