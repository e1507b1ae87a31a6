---------------------------- MODULE EngineAnswers ----------------------------
(***************************************************************************)
(* What an engine answers and what its adapter makes of it: the artifacts  *)
(* of the step, in the order they are written.  A text is a sequence of    *)
(* words; an answer has parts: chunks, words, boxes or lines.              *)
(***************************************************************************)
EXTENDS EngineCatalog, Ranks, SequencesExt, FiniteSetsExt

CONSTANTS
  MaxParts,      \* bound: the parts of an answer
  Words,         \* the words of a text
  Coordinates,   \* of the boxes
  LineIds,       \* the identifiers of lines; "" stands for none
  LastPage       \* bound: the pages of a layout

ASSUME AnswersAssumption ==
  /\ MaxParts \in Nat /\ LastPage \in Nat
  /\ Coordinates \subseteq Nat

Parts(S) == UNION {[1 .. n -> S] : n \in 0 .. MaxParts}

-----------------------------------------------------------------------------
(* The chunks of a chat answer; those that carry no text are left aside,   *)
(* and an answer without a choice or a content is an empty text.           *)

ChatAnswers == Parts(Words \union {"other"})
NormalizeContent(chunks) == AtPlaces(chunks, {i \in DOMAIN chunks : chunks[i] # "other"})

-----------------------------------------------------------------------------
(* The words an OCR engine reads; for some of them it gives a confidence.  *)

Readings == Parts([word : Words, known : BOOLEAN])
TextOf(reading) == [i \in DOMAIN reading |-> reading[i].word]

\* Where the word is, from the cursor on.
Find(reading, word, cursor) ==
  Min({i \in cursor .. Len(reading) : reading[i].word = word})

\* Mutation: every word is looked for from the start of the line.
PlacesFromStart(reading) ==
  [n \in DOMAIN reading |-> Find(reading, reading[n].word, 1)]

\* Each word is looked for after the one before it.
Places(reading) ==
  LET place[n \in 0 .. Len(reading)] ==
        IF n = 0 THEN 0 ELSE Find(reading, reading[n].word, place[n - 1] + 1)
  IN  [n \in DOMAIN reading |-> place[n]]

\* The tokens of the words whose place has a confidence.
Tokens(reading) ==
  LET token == [n \in DOMAIN reading |-> [word |-> reading[n].word, at |-> Places(reading)[n]]]
  IN  AtPlaces(token, {n \in DOMAIN reading : reading[token[n].at].known})

-----------------------------------------------------------------------------
(* The boxes of a detector: those below the least score are dropped, the   *)
(* others are sorted from top to bottom, then from left to right.          *)

MinScore == 1
Boxes == Parts([x : Coordinates, y : Coordinates, score : 0 .. 1])
Precedes(a, b) == a.y < b.y \/ (a.y = b.y /\ a.x < b.x)

\* The sort is stable: boxes with the same corner stay as they came.
CanonicalLayout(boxes) ==
  LET kept == AtPlaces(boxes, {i \in DOMAIN boxes : boxes[i].score >= MinScore})
      rank(i) == Cardinality({j \in DOMAIN kept :
                   Precedes(kept[j], kept[i]) \/ (~Precedes(kept[i], kept[j]) /\ j < i)}) + 1
  IN  [n \in DOMAIN kept |-> kept[CHOOSE i \in DOMAIN kept : rank(i) = n]]

-----------------------------------------------------------------------------
(* The lines of a layout, in the order of the pages.  "inner" tells those  *)
(* of a region inside another one; "words" is the text their words spell,  *)
(* if they have words.  A page does not use an identifier twice.           *)

Lines ==
  [page : 1 .. LastPage, id : LineIds \union {""}, inner : BOOLEAN, text : {"read"}, words : {"read"}]

Layouts ==
  {lines \in Parts(Lines) :
     \A i, j \in DOMAIN lines :
       i < j => /\ lines[i].page <= lines[j].page
                /\ lines[i].page = lines[j].page => lines[i].id = "" \/ lines[i].id # lines[j].id}

\* Mutation: the words of a line outlive its text.
RetellWithWords(line, text) == [line EXCEPT !.text = text]

\* A line whose text is replaced loses its words.
Retell(line, text) == [line EXCEPT !.text = text, !.words = "none"]

\* A file ALTO near the image and the readings of an OCR engine, by line, if
\* there are any.
AltoAnswers == [lines : Layouts, sidecar : BOOLEAN, known : SUBSET LineIds]
Covered(a) == {i \in DOMAIN a.lines : a.lines[i].id \in a.known}

ApplyOcr(a) ==
  [i \in DOMAIN a.lines |-> IF a.sidecar /\ i \in Covered(a) THEN Retell(a.lines[i], "ocr") ELSE a.lines[i]]

\* A sidecar that covers no line, or a line of a region of the page without
\* an identifier, is refused; the regions inside others are not looked at.
AltoRefused(a) ==
  \/ a.sidecar /\ Covered(a) = {} /\ a.lines # <<>>
  \/ \E i \in DOMAIN a.lines : ~a.lines[i].inner /\ a.lines[i].id = ""

-----------------------------------------------------------------------------
(* A corrector that decides of each line by its identity.                  *)

DecisionAnswers ==
  UNION {{[lines |-> lines, finals |-> finals] : finals \in [DOMAIN lines -> {"read", "fixed"}]} : lines \in Layouts}

\* layout_to_manifest refuses a line without an identifier, at any depth.
ManifestRefused(a) == \E i \in DOMAIN a.lines : a.lines[i].id = ""

\* Mutation: an identifier is taken for an identity.
IdentityById(line) == <<line.id>>

Identity(line) == <<line.page, line.id>>

\* The text decided for a line: the last one given to its identity.
Decided(a, line) ==
  a.finals[Max({i \in DOMAIN a.lines : Identity(a.lines[i]) = Identity(line)})]

ApplyDecisions(a) ==
  [i \in DOMAIN a.lines |->
     IF Decided(a, a.lines[i]) = a.lines[i].text THEN a.lines[i]
     ELSE Retell(a.lines[i], Decided(a, a.lines[i]))]

Decisions(a) ==
  [i \in DOMAIN a.lines |-> [page |-> a.lines[i].page, id |-> a.lines[i].id, final |-> a.finals[i]]]

\* The flat text leaves out the regions inside others, as to_text does.
Flatten(lines) ==
  AtPlaces([i \in DOMAIN lines |-> lines[i].text], {i \in DOMAIN lines : ~lines[i].inner})

-----------------------------------------------------------------------------
(* Entities: spans of the text, under short labels.                        *)

ShortLabel ==
  [PERSON |-> "PER", PER |-> "PER", LOC |-> "LOC", GPE |-> "LOC", ORG |-> "ORG",
   DATE |-> "DATE", TIME |-> "DATE", MISC |-> "MISC"]
Label(l) == IF l \in DOMAIN ShortLabel THEN ShortLabel[l] ELSE l

EntityAnswers ==
  UNION {[text : {text}, spans : SUBSET [label : {"GPE", "LAW"}, at : DOMAIN text]] : text \in Parts(Words)}

Entities(a) ==
  [text |-> a.text, entities |-> {[label |-> Label(s.label), at |-> s.at, text |-> a.text[s.at]] : s \in a.spans}]

-----------------------------------------------------------------------------
(* By dialect: the answers, those the adapter refuses, the artifacts.      *)

\* The confidences of kraken may end before the line does.
ReadingsOf(e) ==
  IF e.kind = "kraken"
  THEN {r \in Readings : \A n \in 2 .. Len(r) : r[n].known => r[n - 1].known}
  ELSE Readings

Answers(e) ==
  CASE e.dialect = "chat"      -> ChatAnswers
    [] e.dialect = "reading"   -> ReadingsOf(e)
    [] e.dialect = "boxes"     -> Boxes
    [] e.dialect = "layout"    -> Layouts
    [] e.dialect = "alto"      -> AltoAnswers
    [] e.dialect = "decisions" -> DecisionAnswers
    [] e.dialect = "entities"  -> EntityAnswers

Refused(e, answer) ==
  \/ e.dialect = "alto" /\ AltoRefused(answer)
  \/ e.dialect = "decisions" /\ ManifestRefused(answer)

Artifact(type, content) == [type |-> type, content |-> content]

Artifacts(e, answer) ==
  CASE e.dialect = "chat"     -> <<Artifact(LlmOutput(e.role), NormalizeContent(answer))>>
    [] e.dialect = "boxes"    -> <<Artifact("layout", CanonicalLayout(answer))>>
    [] e.dialect = "layout"   -> <<Artifact("layout", answer)>>
    [] e.dialect = "alto"     -> <<Artifact("layout", ApplyOcr(answer))>>
    [] e.dialect = "entities" -> <<Artifact("entities", Entities(answer))>>
    [] e.dialect = "decisions" ->
         <<Artifact("layout", ApplyDecisions(answer)),
           Artifact("corrected_text", Flatten(ApplyDecisions(answer))),
           Artifact("decisions", Decisions(answer))>>
    [] e.dialect = "reading" ->
         <<Artifact("raw_text", TextOf(answer))>>
         \o (IF "confidences" \in e.declares THEN <<Artifact("confidences", Tokens(answer))>> ELSE <<>>)
         \o (IF "alto_xml" \in e.declares THEN <<Artifact("alto_xml", TextOf(answer))>> ELSE <<>>)
=============================================================================
