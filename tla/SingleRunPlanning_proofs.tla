----------------------- MODULE SingleRunPlanning_proofs -----------------------
(***************************************************************************)
(* What SingleRunPlanning checks for three competitors, for any engines,   *)
(* endpoints and number of competitors, be they identical: the competitors *)
(* stay apart, each is scored on the text its entities are read in, no two *)
(* outputs of a pipeline are written to the same file, and what the        *)
(* planning accepts can be executed, module by module.                     *)
(***************************************************************************)
EXTENDS SingleRunPlanning, FiniteSetTheorems, TLAPS

-----------------------------------------------------------------------------
(* What a plan gives its competitor.                                       *)

\* Where the recognizer of the i-th competitor, or its LLM, finds its parameters.
Reader(c, i) == <<ModelReader(c), Suffix(i)>>

\* The parameters of a module say whether a model is given.
TellsModel(kw, c) == ("model" \in DOMAIN kw) = c.model

\* Each form of parameters of a reader tells the model of the competitor.
LEMMA ReaderKwargs ==
  ASSUME NEW c \in Competitors, NEW i \in Nat, NEW role
  PROVE  /\ TellsModel(LlmKwargs(c, i, role), c)
         /\ TellsModel(RecognizerKwargs(c, i), c)
         /\ TellsModel(OcrKwargs(i) @@ WithAlto(c) @@ WithModel(c), c)
<1>. c.model \in BOOLEAN
  BY DEF Competitors
<1>1. "model" \in DOMAIN WithModel(c) <=> c.model
  BY DEF WithModel, NoKwargs
<1>2. "model" \notin DOMAIN WithAlto(c)
  BY DEF WithAlto, NoKwargs
<1>3. TellsModel(LlmKwargs(c, i, role), c)
  BY <1>1 DEF LlmKwargs, TellsModel, @@
<1>4. TellsModel(RecognizerKwargs(c, i), c)
  <2>1. TellsModel(LlmKwargs(c, i, "zero_shot"), c)
    BY <1>1 DEF LlmKwargs, TellsModel, @@
  <2>2. TellsModel(OcrKwargs(i) @@ WithModel(c), c)
    BY <1>1 DEF OcrKwargs, TellsModel, @@
  <2>. QED  BY <2>1, <2>2 DEF RecognizerKwargs
<1>5. TellsModel(OcrKwargs(i) @@ WithAlto(c) @@ WithModel(c), c)
  BY <1>1, <1>2 DEF OcrKwargs, TellsModel, @@
<1>. QED  BY <1>3, <1>4, <1>5

\* The parameters of the i-th competitor are filed under names of its own, but
\* for those of its remote segmenter.
OwnKeys(kwargs, i) ==
  \A a \in DOMAIN kwargs : a[2] = Suffix(i) \/ a[1] = "remote_segmenter"

\* A plan files the parameters of its reader, and they tell its model.
LEMMA PlanFacts ==
  ASSUME NEW c \in Competitors, NEW i \in Nat, NEW plan \in PlansOf(c, i)
  PROVE  /\ Reader(c, i) \in DOMAIN plan.kwargs
         /\ TellsModel(plan.kwargs[Reader(c, i)], c)
         /\ OwnKeys(plan.kwargs, i)
         /\ ModelReader(c) \in Engines
<1>. USE ReaderKwargs
<1>0. OwnKeys(NerKwargs(c, i), i)
  BY DEF OwnKeys, NerKwargs, :>
<1>1. CASE plan \in HybridPlans(c, i)
  <2>1. c.mode = None /\ c.engine \in Engines
    BY <1>1 DEF HybridPlans, Engines
  <2>. DEFINE mine == Reader(c, i) :> RecognizerKwargs(c, i)
              text == <<"layout_to_text", Suffix(i)>> :> [label |-> Suffix(i)]
              seg  == IF c.segmenter = "remote_segmenter"
                      THEN <<c.segmenter, Shared>> :> [endpoint |-> c.endpoint]
                      ELSE <<>>
  <2>2. plan.kwargs = mine @@ text @@ seg @@ NerKwargs(c, i)
    BY <1>1, <2>1 DEF HybridPlans, Reader, ModelReader
  <2>3. OwnKeys(mine, i) /\ OwnKeys(text, i) /\ OwnKeys(seg, i)
    BY DEF OwnKeys, Reader, :>
  <2>. HIDE DEF text, seg
  <2>4. Reader(c, i) \in DOMAIN plan.kwargs
        /\ plan.kwargs[Reader(c, i)] = RecognizerKwargs(c, i)
    BY <2>2 DEF @@, :>
  <2>5. OwnKeys(plan.kwargs, i)
    BY <1>0, <2>2, <2>3 DEF OwnKeys, @@
  <2>. QED  BY <2>1, <2>4, <2>5 DEF ModelReader
<1>2. CASE plan \in OcrPlans(c, i) /\ c.mode = None
  <2>. DEFINE kw   == OcrKwargs(i) @@ WithAlto(c) @@ WithModel(c)
              mine == Reader(c, i) :> kw
  <2>1. plan.kwargs = mine @@ NerKwargs(c, i) /\ c.engine \in Engines
    BY <1>2 DEF OcrPlans, Reader, ModelReader, Engines
  <2>2. TellsModel(kw, c)
    OBVIOUS
  <2>. HIDE DEF kw
  <2>3. OwnKeys(mine, i)
    BY DEF OwnKeys, Reader, :>
  <2>4. Reader(c, i) \in DOMAIN plan.kwargs /\ plan.kwargs[Reader(c, i)] = kw
    BY <2>1 DEF @@, :>
  <2>5. OwnKeys(plan.kwargs, i)
    BY <1>0, <2>1, <2>3 DEF OwnKeys, @@
  <2>. QED  BY <1>2, <2>1, <2>2, <2>4, <2>5 DEF ModelReader
<1>3. CASE plan \in ZeroShotPlans(c, i) /\ c.mode = "zero_shot"
  <2>. DEFINE kw   == LlmKwargs(c, i, "zero_shot")
              mine == Reader(c, i) :> kw
  <2>1. plan.kwargs = mine @@ NerKwargs(c, i) /\ c.engine \in Engines
    BY <1>3 DEF ZeroShotPlans, Reader, ModelReader, Engines
  <2>2. TellsModel(kw, c)
    OBVIOUS
  <2>. HIDE DEF kw
  <2>3. OwnKeys(mine, i)
    BY DEF OwnKeys, Reader, :>
  <2>4. Reader(c, i) \in DOMAIN plan.kwargs /\ plan.kwargs[Reader(c, i)] = kw
    BY <2>1 DEF @@, :>
  <2>5. OwnKeys(plan.kwargs, i)
    BY <1>0, <2>1, <2>3 DEF OwnKeys, @@
  <2>. QED  BY <1>3, <2>1, <2>2, <2>4, <2>5 DEF ModelReader
<1>4. CASE plan \in ChainPlans(c, i) /\ c.mode \notin {None, "zero_shot"}
  <2>. DEFINE kw   == LlmKwargs(c, i, c.mode)
              mine == Reader(c, i) :> kw
              ocr  == <<c.engine, Suffix(i)>> :> (OcrKwargs(i) @@ WithAlto(c))
  <2>1. plan.kwargs = mine @@ ocr @@ NerKwargs(c, i) /\ c.llm \in Engines
    BY <1>4 DEF ChainPlans, Reader, ModelReader, Engines
  <2>2. TellsModel(kw, c)
    OBVIOUS
  <2>3. OwnKeys(mine, i) /\ OwnKeys(ocr, i)
    BY DEF OwnKeys, Reader, :>
  <2>. HIDE DEF kw, ocr
  <2>4. Reader(c, i) \in DOMAIN plan.kwargs /\ plan.kwargs[Reader(c, i)] = kw
    BY <2>1 DEF @@, :>
  <2>5. OwnKeys(plan.kwargs, i)
    BY <1>0, <2>1, <2>3 DEF OwnKeys, @@
  <2>. QED  BY <1>4, <2>1, <2>2, <2>4, <2>5 DEF ModelReader
<1>. QED
  BY <1>1, <1>2, <1>3, <1>4 DEF PlansOf

-----------------------------------------------------------------------------
(* The form of the plans.                                                  *)

\* A sequence of four, as the end of one of three.
LEMMA FourSteps ==
  ASSUME NEW p, NEW q, NEW r, NEW s
  PROVE  <<p, q, r>> \o <<s>> = <<p, q, r, s>>
<1>. DEFINE left == <<p, q, r>> \o <<s>>
            right == <<p, q, r, s>>
<1>1. left[1] = p /\ left[2] = q /\ left[3] = r /\ left[4] = s
  OBVIOUS
<1>2. left = [n \in 1..4 |-> left[n]]
  OBVIOUS
<1>3. right[1] = p /\ right[2] = q /\ right[3] = r /\ right[4] = s
  OBVIOUS
<1>4. right = [n \in 1..4 |-> right[n]]
  OBVIOUS
<1>. HIDE DEF left, right
<1>5. \A n \in 1..4 : left[n] = right[n]
  <2>1. \A n \in 1..4 : n \in {1, 2, 3, 4}
    OBVIOUS
  <2>. QED  BY <2>1, <1>1, <1>3
<1>6. left = right
  BY <1>2, <1>4, <1>5
<1>. QED  BY <1>6 DEF left, right

\* The steps of a hybrid competitor.
SegmentStep(c)      == Step("segment", <<c.segmenter, Shared>>, {"IMAGE"}, {"LAYOUT"}, <<>>)
RecognizeStep(c, i) == Step("recognize", <<c.engine, Suffix(i)>>, {"LAYOUT", "IMAGE"},
                            {"LAYOUT"}, "LAYOUT" :> "segment")
ReadingStep(i)      == Step("text", <<"layout_to_text", Suffix(i)>>, {"LAYOUT"}, {"RAW_TEXT"},
                            "LAYOUT" :> "recognize")
AssembleStep        == Step("assemble", <<"alto_assembler", Shared>>, {"LAYOUT"}, {"ALTO_XML"},
                            "LAYOUT" :> "recognize")

\* The steps of a plan but the extraction of entities, which comes last.
Body(c, i) ==
  CASE c.segmenter # None ->
         IF c.alto THEN <<SegmentStep(c), RecognizeStep(c, i), ReadingStep(i), AssembleStep>>
                   ELSE <<SegmentStep(c), RecognizeStep(c, i), ReadingStep(i)>>
    [] c.segmenter = None /\ c.mode = None        -> <<OcrStep(c, i)>>
    [] c.segmenter = None /\ c.mode = "zero_shot" -> <<VlmStep(c, i)>>
    [] OTHER                                      -> <<OcrStep(c, i), LlmStep(c, i)>>

\* The text that is scored, and the step that makes it.
BodyText(c) == IF c.segmenter # None \/ c.mode \in {None, "zero_shot"}
               THEN "RAW_TEXT" ELSE "CORRECTED_TEXT"
BodyFrom(c) ==
  CASE c.segmenter # None                         -> "text"
    [] c.segmenter = None /\ c.mode = None        -> "ocr"
    [] c.segmenter = None /\ c.mode = "zero_shot" -> "vlm"
    [] OTHER                                      -> "llm"

\* What the planning requires of a competitor it accepts.
Accepted(c) ==
  /\ c.engine \in OcrEngines \union VlmEngines
  /\ c.segmenter # None => c.mode = None /\ c.llm = None
  /\ c.segmenter = None /\ c.mode = None => c.engine \in OcrEngines /\ c.llm = None
  /\ c.segmenter = None /\ c.mode = "zero_shot" => c.engine \in VlmEngines /\ c.llm = None
  /\ c.segmenter = None /\ c.mode \notin {None, "zero_shot"} =>
       /\ c.engine \in OcrEngines
       /\ c.llm \in IF c.mode = "text_only" THEN LlmEngines ELSE VlmEngines
       /\ c.llm # None
  /\ c.segmenter = "remote_segmenter" => c.endpoint # None
  /\ c.segmenter = None /\ c.alto => c.engine = "tesseract"

\* A plan is the steps of its competitor, then the extraction of entities; the
\* competitor is one that the planning accepts.
LEMMA PlanShape ==
  ASSUME NEW c \in Competitors, NEW i \in Nat, NEW plan \in PlansOf(c, i)
  PROVE  /\ plan.steps = Body(c, i) \o NerSteps(c, i, BodyText(c), BodyFrom(c))
         /\ Accepted(c)
<1>1. CASE c.segmenter # None
  <2>1. plan \in HybridPlans(c, i)
    BY <1>1 DEF PlansOf
  <2>2. Accepted(c)
    BY <1>1, <2>1 DEF HybridPlans, Accepted
  <2>3. plan.steps = HybridSteps(c, i)
    BY <2>1 DEF HybridPlans
  <2>4. HybridSteps(c, i) = Body(c, i) \o NerSteps(c, i, "RAW_TEXT", "text")
    <3>1. HybridSteps(c, i) =
            <<SegmentStep(c), RecognizeStep(c, i), ReadingStep(i)>>
              \o (IF c.alto THEN <<AssembleStep>> ELSE <<>>)
              \o NerSteps(c, i, "RAW_TEXT", "text")
      BY DEF HybridSteps, SegmentStep, RecognizeStep, ReadingStep, AssembleStep
    <3>2. <<SegmentStep(c), RecognizeStep(c, i), ReadingStep(i)>>
            \o (IF c.alto THEN <<AssembleStep>> ELSE <<>>) = Body(c, i)
      <4>1. <<SegmentStep(c), RecognizeStep(c, i), ReadingStep(i)>> \o <<AssembleStep>>
              = <<SegmentStep(c), RecognizeStep(c, i), ReadingStep(i), AssembleStep>>
        BY FourSteps
      <4>2. <<SegmentStep(c), RecognizeStep(c, i), ReadingStep(i)>> \o <<>>
              = <<SegmentStep(c), RecognizeStep(c, i), ReadingStep(i)>>
        OBVIOUS
      <4>. QED  BY Zenon, <1>1, <4>1, <4>2 DEF Body
    <3>. QED  BY <3>1, <3>2
  <2>. QED  BY <1>1, <2>2, <2>3, <2>4 DEF BodyText, BodyFrom
<1>2. CASE c.segmenter = None /\ c.mode = None
  <2>1. plan \in OcrPlans(c, i) /\ AltoSupported(c)
    BY <1>2 DEF PlansOf, None
  <2>2. Accepted(c)
    BY <1>2, <2>1 DEF OcrPlans, Accepted, AltoSupported, None
  <2>3. plan.steps = <<OcrStep(c, i)>> \o NerSteps(c, i, "RAW_TEXT", "ocr")
    BY <2>1 DEF OcrPlans
  <2>. QED  BY <1>2, <2>2, <2>3 DEF Body, BodyText, BodyFrom, None
<1>3. CASE c.segmenter = None /\ c.mode = "zero_shot"
  <2>1. plan \in ZeroShotPlans(c, i) /\ AltoSupported(c)
    BY <1>3 DEF PlansOf, None
  <2>2. Accepted(c)
    BY <1>3, <2>1 DEF ZeroShotPlans, Accepted, AltoSupported, None
  <2>3. plan.steps = <<VlmStep(c, i)>> \o NerSteps(c, i, "RAW_TEXT", "vlm")
    BY <2>1 DEF ZeroShotPlans
  <2>. QED  BY <1>3, <2>2, <2>3 DEF Body, BodyText, BodyFrom, None
<1>4. CASE c.segmenter = None /\ c.mode \notin {None, "zero_shot"}
  <2>1. plan \in ChainPlans(c, i) /\ AltoSupported(c)
    BY <1>4 DEF PlansOf
  <2>2. c.llm # None
    BY <2>1, RunPlanningAssumption DEF ChainPlans
  <2>3. Accepted(c)
    BY <1>4, <2>1, <2>2 DEF ChainPlans, Accepted, AltoSupported, None
  <2>4. plan.steps = <<OcrStep(c, i), LlmStep(c, i)>>
                     \o NerSteps(c, i, "CORRECTED_TEXT", "llm")
    BY <2>1 DEF ChainPlans
  <2>. QED  BY <1>4, <2>3, <2>4 DEF Body, BodyText, BodyFrom
<1>. QED
  BY <1>1, <1>2, <1>3, <1>4

\* The steps by their fields.
Fields(s, id, kind, ins, outs) ==
  s.id = id /\ s.adapter[1] = kind /\ s.ins = ins /\ s.outs = outs

\* The fields of the steps of a competitor.
LEMMA BodyFields ==
  ASSUME NEW c, NEW i
  PROVE  /\ Fields(SegmentStep(c), "segment", c.segmenter, {"IMAGE"}, {"LAYOUT"})
         /\ Fields(RecognizeStep(c, i), "recognize", c.engine, {"LAYOUT", "IMAGE"}, {"LAYOUT"})
         /\ Fields(ReadingStep(i), "text", "layout_to_text", {"LAYOUT"}, {"RAW_TEXT"})
         /\ Fields(AssembleStep, "assemble", "alto_assembler", {"LAYOUT"}, {"ALTO_XML"})
         /\ Fields(OcrStep(c, i), "ocr", c.engine, {"IMAGE"}, OcrOutputs(c))
         /\ Fields(VlmStep(c, i), "vlm", c.engine, {"IMAGE"}, {"RAW_TEXT"})
         /\ Fields(LlmStep(c, i), "llm", c.llm,
                   IF c.mode = "text_only" THEN {"RAW_TEXT"} ELSE {"RAW_TEXT", "IMAGE"},
                   {"CORRECTED_TEXT"})
  BY DEF SegmentStep, RecognizeStep, ReadingStep, AssembleStep, OcrStep, VlmStep, LlmStep,
         Step, Fields

\* A sequence of its own elements.
IsSteps(body) == body \in Seq({body[n] : n \in DOMAIN body})

\* The step that extracts the entities of a text.
Extracts(ner, i, text, from) ==
  /\ Fields(ner, "ner", "ner", {text}, {"ENTITIES"})
  /\ ner.adapter = <<"ner", Suffix(i)>>
  /\ ner.from = (text :> from)

\* The extraction of entities adds one step to the others, or none.
LEMMA NerLast ==
  ASSUME NEW c, NEW i, NEW text, NEW from, NEW body, IsSteps(body)
  PROVE  \/ body \o NerSteps(c, i, text, from) = body
         \/ \E ner : /\ body \o NerSteps(c, i, text, from) = Append(body, ner)
                     /\ Extracts(ner, i, text, from)
<1>. DEFINE ner == Step("ner", <<"ner", Suffix(i)>>, {text}, {"ENTITIES"}, text :> from)
<1>1. Extracts(ner, i, text, from)
  BY DEF Step, Fields, Extracts
<1>2. NerSteps(c, i, text, from) = IF c.ner THEN <<ner>> ELSE <<>>
  BY DEF NerSteps
<1>. HIDE DEF ner
<1>3. body \o NerSteps(c, i, text, from) \in {Append(body, ner), body}
  BY <1>2 DEF IsSteps
<1>. QED  BY <1>1, <1>3

\* The steps of a competitor are a sequence.
LEMMA BodyIsSeq ==
  ASSUME NEW c, NEW i
  PROVE  IsSteps(Body(c, i))
<1>. SUFFICES ASSUME NEW b, b = Body(c, i)
              PROVE  IsSteps(b)
  OBVIOUS
<1>1. \/ b = <<SegmentStep(c), RecognizeStep(c, i), ReadingStep(i), AssembleStep>>
      \/ b = <<SegmentStep(c), RecognizeStep(c, i), ReadingStep(i)>>
      \/ b = <<OcrStep(c, i)>> \/ b = <<VlmStep(c, i)>> \/ b = <<OcrStep(c, i), LlmStep(c, i)>>
  BY DEF Body
<1>. QED  BY <1>1 DEF IsSteps

-----------------------------------------------------------------------------
(* The text of a plan that is scored, and that the entities are read in.   *)

\* The first steps of a plan: none extracts entities, and they produce the text.
Produces(body, text) ==
  /\ body \in Seq({body[n] : n \in DOMAIN body})
  /\ \A n \in DOMAIN body : body[n].id # "ner"
  /\ text = "RAW_TEXT" => "CORRECTED_TEXT" \notin Outputs(body)
  /\ text \in {"RAW_TEXT", "CORRECTED_TEXT"} \intersect Outputs(body)

\* The steps of a plan score a text and read the entities in it.
ScoresItsEntities(steps) ==
  /\ Candidate(steps) # None
  /\ \A n \in DOMAIN steps : steps[n].id = "ner" => steps[n].ins = {Candidate(steps)}

\* The extraction of entities, after steps that produce its text, reads the one
\* that is scored.
LEMMA EntitiesLast ==
  ASSUME NEW c, NEW i, NEW text, NEW from, NEW body, Produces(body, text)
  PROVE  ScoresItsEntities(body \o NerSteps(c, i, text, from))
<1>. SUFFICES ASSUME NEW steps, steps = body \o NerSteps(c, i, text, from)
              PROVE  ScoresItsEntities(steps)
  OBVIOUS
<1>. DEFINE m == Len(body)
<1>1. m \in Nat /\ DOMAIN body = 1..m
  BY DEF Produces
<1>2. CASE ~c.ner
  <2>1. steps = body
    BY <1>2 DEF NerSteps, Produces
  <2>. QED  BY <2>1 DEF Produces, ScoresItsEntities, Candidate, None
<1>3. CASE c.ner
  <2>. DEFINE ner == Step("ner", <<"ner", Suffix(i)>>, {text}, {"ENTITIES"}, text :> from)
  <2>1. /\ DOMAIN steps = 1..(m + 1)
        /\ \A n \in 1..m : steps[n] = body[n]
        /\ steps[m + 1] = ner
    <3>. HIDE DEF ner
    <3>1. NerSteps(c, i, text, from) = <<ner>>
      BY <1>3 DEF NerSteps, ner
    <3>. QED  BY <3>1, <1>1 DEF Produces
  <2>2. ner.id = "ner" /\ ner.ins = {text} /\ ner.outs = {"ENTITIES"}
    BY DEF Step
  <2>. HIDE DEF ner
  <2>3. Outputs(steps) = Outputs(body) \union {"ENTITIES"}
    BY <1>1, <2>1, <2>2 DEF Outputs
  <2>4. Candidate(steps) = text
    BY <2>3 DEF Produces, Candidate
  <2>5. \A n \in DOMAIN steps : steps[n].id = "ner" => n = m + 1
    BY <1>1, <2>1 DEF Produces
  <2>. QED  BY <2>1, <2>2, <2>4, <2>5 DEF ScoresItsEntities, None, Produces
<1>. QED  BY <1>2, <1>3

\* The steps of a competitor make the text, and no better one.
LEMMA BodyProduces ==
  ASSUME NEW c, NEW i
  PROVE  Produces(Body(c, i), BodyText(c))
<1>. SUFFICES ASSUME NEW b, b = Body(c, i), IsSteps(b)
              PROVE  Produces(b, BodyText(c))
  BY BodyIsSeq
<1>. DEFINE p == SegmentStep(c)  q == RecognizeStep(c, i)  r == ReadingStep(i)
            o == OcrStep(c, i)   v == VlmStep(c, i)        l == LlmStep(c, i)
            a == AssembleStep
<1>1. /\ p.id # "ner" /\ q.id # "ner" /\ r.id # "ner" /\ a.id # "ner"
      /\ o.id # "ner" /\ v.id # "ner" /\ l.id # "ner"
      /\ p.outs = {"LAYOUT"} /\ q.outs = {"LAYOUT"} /\ r.outs = {"RAW_TEXT"}
      /\ a.outs = {"ALTO_XML"} /\ v.outs = {"RAW_TEXT"} /\ l.outs = {"CORRECTED_TEXT"}
      /\ "RAW_TEXT" \in o.outs /\ "CORRECTED_TEXT" \notin o.outs
  BY BodyFields DEF Fields, OcrOutputs
<1>2. \/ b \in {<<p, q, r, a>>, <<p, q, r>>, <<o>>, <<v>>} /\ BodyText(c) = "RAW_TEXT"
      \/ b = <<o, l>> /\ BodyText(c) = "CORRECTED_TEXT"
  BY DEF Body, BodyText
<1>. HIDE DEF p, q, r, o, v, l, a
<1>3. CASE b \in {<<p, q, r, a>>, <<p, q, r>>, <<o>>, <<v>>} /\ BodyText(c) = "RAW_TEXT"
  <2>1. \A n \in DOMAIN b : b[n] \in {p, q, r, a, o, v}
    BY <1>3
  <2>2. \E n \in DOMAIN b : "RAW_TEXT" \in b[n].outs
    <3>1. b[1] = o \/ b[1] = v \/ b[3] = r
      BY <1>3
    <3>2. 1 \in DOMAIN b /\ (b[1] # o /\ b[1] # v => 3 \in DOMAIN b)
      BY <1>3
    <3>. QED  BY <1>1, <3>1, <3>2
  <2>3. \A n \in DOMAIN b : b[n].id # "ner" /\ "CORRECTED_TEXT" \notin b[n].outs
    BY <1>1, <2>1
  <2>4. "CORRECTED_TEXT" \notin Outputs(b) /\ "RAW_TEXT" \in Outputs(b)
    BY <2>2, <2>3 DEF Outputs
  <2>. QED  BY <1>3, <2>3, <2>4 DEF Produces, IsSteps
<1>4. CASE b = <<o, l>> /\ BodyText(c) = "CORRECTED_TEXT"
  BY <1>1, <1>4 DEF Produces, Outputs
<1>. QED  BY <1>2, <1>3, <1>4

\* Every plan scores the text of its last reader.
LEMMA PlanScores ==
  ASSUME NEW c \in Competitors, NEW i \in Nat, NEW plan \in PlansOf(c, i)
  PROVE  ScoresItsEntities(plan.steps)
<1>1. plan.steps = Body(c, i) \o NerSteps(c, i, BodyText(c), BodyFrom(c))
  BY PlanShape
<1>2. Produces(Body(c, i), BodyText(c))
  BY BodyProduces
<1>3. ScoresItsEntities(Body(c, i) \o NerSteps(c, i, BodyText(c), BodyFrom(c)))
  BY <1>2, EntitiesLast
<1>. QED  BY <1>1, <1>3

-----------------------------------------------------------------------------
(* The files of a plan.                                                    *)

\* The steps whose file tells the type of the artifact.
TellsItsType(s, t) ==
  LET a == s.adapter IN
  \/ IsFanout(s) /\ a[1] \in Engines \union {"precomputed_region"} /\ t = "LAYOUT"
  \/ /\ ~IsFanout(s)
     /\ \/ a[1] = "layout_to_text" /\ t = "RAW_TEXT"
        \/ a[1] = "alto_assembler" /\ t = "ALTO_XML"
        \/ a[1] \in Singletons \ {"alto_assembler"} /\ t = "LAYOUT"
        \/ IsLlm(a) /\ t \in {"RAW_TEXT", "CORRECTED_TEXT"}
        \/ /\ a[1] \in OcrEngines \union {"ner", "saknussemm"}
           /\ t \in {"RAW_TEXT", "CORRECTED_TEXT", "ALTO_XML", "ENTITIES", "LAYOUT", "DECISIONS"}

\* The second parts of the names of the files of a type.
FileNames(t) ==
  CASE t = "RAW_TEXT"       -> {"txt", "raw.txt"}
    [] t = "CORRECTED_TEXT" -> {"corrected.txt"}
    [] t = "ALTO_XML"       -> {"alto.xml"}
    [] t = "ENTITIES"       -> {"entities.json"}
    [] t = "LAYOUT"         -> {"layout.json"}
    [] t = "DECISIONS"      -> {"decisions.json"}

\* The second part of the name of a file is one of those of its type.
LEMMA FileTellsType ==
  ASSUME NEW s, NEW t, TellsItsType(s, t)
  PROVE  /\ FileOf(s, t)[2] \in FileNames(t)
         /\ t \in {"RAW_TEXT", "CORRECTED_TEXT", "ALTO_XML", "ENTITIES", "LAYOUT", "DECISIONS"}
<1>. USE DEF Singletons, Segmenters
<1>. DEFINE a == s.adapter
<1>1. CASE IsFanout(s) /\ a[1] \in Engines \union {"precomputed_region"} /\ t = "LAYOUT"
  <2>1. a[1] \notin Singletons /\ a[1] # "layout_to_text"
    BY <1>1, KindsAssumption DEF OwnModules
  <2>. QED  BY <1>1, <2>1 DEF FileOf, FileNames
<1>2. CASE ~IsFanout(s) /\ a[1] = "layout_to_text" /\ t = "RAW_TEXT"
  <2>1. ~IsLlm(a)
    BY <1>2, KindsAssumption DEF IsLlm, Engines, OwnModules
  <2>. QED  BY <1>2, <2>1 DEF FileOf, FileNames
<1>3. CASE ~IsFanout(s) /\ a[1] = "alto_assembler" /\ t = "ALTO_XML"
  <2>1. ~IsLlm(a)
    BY <1>3, KindsAssumption DEF IsLlm, Engines
  <2>. QED  BY <1>3, <2>1 DEF FileOf, FileNames
<1>4. CASE ~IsFanout(s) /\ a[1] \in Singletons \ {"alto_assembler"} /\ t = "LAYOUT"
  <2>1. ~IsLlm(a) /\ a[1] # "layout_to_text"
    BY <1>4, KindsAssumption DEF IsLlm, Engines
  <2>. QED  BY <1>4, <2>1 DEF FileOf, FileNames
<1>5. CASE ~IsFanout(s) /\ IsLlm(a) /\ t \in {"RAW_TEXT", "CORRECTED_TEXT"}
  <2>1. a[1] \notin Singletons /\ a[1] # "layout_to_text"
    BY <1>5, KindsAssumption DEF IsLlm, Engines, OwnModules
  <2>. QED  BY <1>5, <2>1 DEF FileOf, FileNames, LlmFile
<1>6. CASE /\ ~IsFanout(s) /\ a[1] \in OcrEngines \union {"ner", "saknussemm"}
           /\ t \in {"RAW_TEXT", "CORRECTED_TEXT", "ALTO_XML", "ENTITIES", "LAYOUT", "DECISIONS"}
  <2>1. a[1] \notin Singletons /\ a[1] # "layout_to_text" /\ ~IsLlm(a)
    BY <1>6, KindsAssumption DEF IsLlm, Engines, OwnModules
  <2>. QED  BY <1>6, <2>1 DEF FileOf, FileNames
<1>. QED  BY <1>1, <1>2, <1>3, <1>4, <1>5, <1>6 DEF TellsItsType

\* No two outputs of the steps are written to the same file.
FilesApart(steps) ==
  \A m, n \in DOMAIN steps : \A t \in steps[m].outs, u \in steps[n].outs :
    FileOf(steps[m], t) = FileOf(steps[n], u) => m = n /\ t = u

\* The outputs of a type are told apart by their maker, or by the first part of
\* the name of their file.
MakersApart(steps) ==
  /\ \A n \in DOMAIN steps : \A t \in steps[n].outs : TellsItsType(steps[n], t)
  /\ \A m, n \in DOMAIN steps : \A t \in steps[m].outs \intersect steps[n].outs :
       m # n => FileOf(steps[m], t)[1] # FileOf(steps[n], t)[1]

\* Outputs that are so told apart are written to files of their own.
LEMMA MakersApartFiles ==
  ASSUME NEW steps, MakersApart(steps)
  PROVE  FilesApart(steps)
<1>. SUFFICES ASSUME NEW m \in DOMAIN steps, NEW n \in DOMAIN steps,
                     NEW t \in steps[m].outs, NEW u \in steps[n].outs,
                     FileOf(steps[m], t) = FileOf(steps[n], u)
              PROVE  m = n /\ t = u
  BY DEF FilesApart
<1>1. /\ FileOf(steps[m], t)[2] \in FileNames(t) /\ FileOf(steps[n], u)[2] \in FileNames(u)
      /\ {t, u} \subseteq {"RAW_TEXT", "CORRECTED_TEXT", "ALTO_XML", "ENTITIES", "LAYOUT",
                            "DECISIONS"}
  BY FileTellsType DEF MakersApart
<1>2. FileNames(t) \intersect FileNames(u) # {}
  BY <1>1
<1>3. t = u
  BY <1>1, <1>2 DEF FileNames
<1>. QED  BY <1>3 DEF MakersApart

\* The layout of a segmenter and that of a fan-out.
LEMMA LayoutFiles ==
  ASSUME NEW s, NEW f,
         s.adapter[1] \in Singletons \ {"alto_assembler"}, ~IsFanout(s),
         IsFanout(f), f.adapter[1] \in Engines \union {"precomputed_region"}
  PROVE  /\ TellsItsType(s, "LAYOUT") /\ TellsItsType(f, "LAYOUT")
         /\ FileOf(s, "LAYOUT")[1] = <<s.adapter[1]>>
         /\ FileOf(f, "LAYOUT")[1] = <<"filled">>
<1>1. s.adapter[1] # "layout_to_text" /\ s.adapter[1] # "alto_assembler"
      /\ s.adapter[1] \in Singletons
  BY DEF Singletons, Segmenters
<1>2. ~IsLlm(s.adapter)
  BY <1>1, KindsAssumption DEF IsLlm, Engines
<1>3. f.adapter[1] # "layout_to_text" /\ f.adapter[1] # "alto_assembler"
      /\ f.adapter[1] \notin Singletons
  BY KindsAssumption DEF OwnModules, Singletons, Segmenters
<1>4. FileOf(s, "LAYOUT") = <<<<s.adapter[1]>>, "layout.json">>
  BY <1>1, <1>2 DEF FileOf
<1>5. FileOf(f, "LAYOUT") = <<<<"filled">>, "layout.json">>
  BY <1>3 DEF FileOf
<1>. QED  BY <1>1, <1>4, <1>5 DEF TellsItsType

\* The steps of a competitor, but the extraction of entities, write apart.
LEMMA BodyMakers ==
  ASSUME NEW c \in Competitors, NEW i, Accepted(c)
  PROVE  /\ MakersApart(Body(c, i))
         /\ \A n \in DOMAIN Body(c, i) : "ENTITIES" \notin Body(c, i)[n].outs
<1>. SUFFICES ASSUME NEW b, b = Body(c, i)
              PROVE  MakersApart(b) /\ \A n \in DOMAIN b : "ENTITIES" \notin b[n].outs
  OBVIOUS
<1>. DEFINE p == SegmentStep(c)  q == RecognizeStep(c, i)  r == ReadingStep(i)
            o == OcrStep(c, i)   v == VlmStep(c, i)        l == LlmStep(c, i)
            a == AssembleStep
<1>1. CASE c.segmenter # None
  <2>1. c.segmenter \in Segmenters /\ c.engine \in Engines
    BY <1>1 DEF Competitors, Segmenters, Accepted, Engines
  <2>2. TellsItsType(r, "RAW_TEXT") /\ TellsItsType(a, "ALTO_XML")
    BY BodyFields DEF TellsItsType, IsFanout, Fields
  <2>3. /\ TellsItsType(p, "LAYOUT") /\ TellsItsType(q, "LAYOUT")
        /\ FileOf(p, "LAYOUT")[1] = <<c.segmenter>>
        /\ FileOf(q, "LAYOUT")[1] = <<"filled">>
    <3>0. /\ Fields(p, "segment", c.segmenter, {"IMAGE"}, {"LAYOUT"})
          /\ Fields(q, "recognize", c.engine, {"LAYOUT", "IMAGE"}, {"LAYOUT"})
      BY BodyFields
    <3>2. c.segmenter \in Singletons \ {"alto_assembler"}
      BY <2>1 DEF Segmenters, Singletons
    <3>. HIDE DEF p, q
    <3>1. /\ p.adapter[1] = c.segmenter /\ ~IsFanout(p)
          /\ q.adapter[1] = c.engine /\ IsFanout(q)
      BY <3>0 DEF Fields, IsFanout
    <3>. QED  BY <2>1, <3>1, <3>2, LayoutFiles
  <2>4. c.segmenter # "filled"
    BY <2>1 DEF Segmenters
  <2>5. p.outs = {"LAYOUT"} /\ q.outs = {"LAYOUT"} /\ r.outs = {"RAW_TEXT"}
        /\ a.outs = {"ALTO_XML"}
    BY BodyFields DEF Fields
  <2>6. b = IF c.alto THEN <<p, q, r, a>> ELSE <<p, q, r>>
    BY <1>1 DEF Body
  <2>. HIDE DEF p, q, r, a
  <2>7. CASE b = <<p, q, r, a>>
    <3>1. DOMAIN b = {1, 2, 3, 4} /\ b[1] = p /\ b[2] = q /\ b[3] = r /\ b[4] = a
      BY <2>7
    <3>. QED  BY <3>1, <2>2, <2>3, <2>4, <2>5 DEF MakersApart
  <2>8. CASE b = <<p, q, r>>
    <3>1. DOMAIN b = {1, 2, 3} /\ b[1] = p /\ b[2] = q /\ b[3] = r
      BY <2>8
    <3>. QED  BY <3>1, <2>2, <2>3, <2>4, <2>5 DEF MakersApart
  <2>. QED  BY <2>6, <2>7, <2>8
<1>2. CASE c.segmenter = None
  <2>1. c.engine \in OcrEngines => /\ TellsItsType(o, "RAW_TEXT") /\ TellsItsType(o, "ALTO_XML")
    BY BodyFields DEF TellsItsType, IsFanout, Fields
  <2>2. c.engine \in VlmEngines => TellsItsType(v, "RAW_TEXT")
    BY BodyFields DEF TellsItsType, IsFanout, Fields, IsLlm
  <2>3. c.llm \in LlmEngines \union VlmEngines => TellsItsType(l, "CORRECTED_TEXT")
    BY BodyFields DEF TellsItsType, IsFanout, Fields, IsLlm
  <2>4. /\ o.outs \subseteq {"RAW_TEXT", "ALTO_XML"} /\ v.outs = {"RAW_TEXT"}
        /\ l.outs = {"CORRECTED_TEXT"}
    BY BodyFields DEF Fields, OcrOutputs
  <2>5. \/ b = <<o>> /\ c.engine \in OcrEngines
        \/ b = <<v>> /\ c.engine \in VlmEngines
        \/ b = <<o, l>> /\ c.engine \in OcrEngines /\ c.llm \in LlmEngines \union VlmEngines
    BY <1>2 DEF Body, Accepted
  <2>. HIDE DEF o, v, l
  <2>. QED  BY <2>1, <2>2, <2>3, <2>4, <2>5 DEF MakersApart
<1>. QED  BY <1>1, <1>2

\* Nor does the extraction of entities write over them.
LEMMA PlanFiles ==
  ASSUME NEW c \in Competitors, NEW i \in Nat, NEW plan \in PlansOf(c, i)
  PROVE  FilesApart(plan.steps)
<1>. DEFINE b == Body(c, i)
<1>1. /\ plan.steps = b \o NerSteps(c, i, BodyText(c), BodyFrom(c))
      /\ Accepted(c)
  BY PlanShape
<1>2. MakersApart(b) /\ \A n \in DOMAIN b : "ENTITIES" \notin b[n].outs
  BY <1>1, BodyMakers
<1>3. IsSteps(b)
  BY BodyIsSeq
<1>. HIDE DEF b
<1>. SUFFICES ASSUME NEW steps, steps = plan.steps
              PROVE  MakersApart(steps)
  BY MakersApartFiles
<1>. DEFINE text == BodyText(c)  from == BodyFrom(c)
<1>0. steps = b \o NerSteps(c, i, text, from)
  BY <1>1
<1>. HIDE DEF text, from
<1>1a. \/ steps = b
       \/ \E ner : steps = Append(b, ner) /\ Fields(ner, "ner", "ner", {text}, {"ENTITIES"})
  <2>1. \/ b \o NerSteps(c, i, text, from) = b
        \/ \E ner : /\ b \o NerSteps(c, i, text, from) = Append(b, ner)
                    /\ Extracts(ner, i, text, from)
    BY <1>3, NerLast
  <2>. QED  BY <2>1, <1>0 DEF Extracts
<1>4. CASE steps = b
  BY <1>2, <1>4
<1>5. ASSUME NEW ner, steps = Append(b, ner), Fields(ner, "ner", "ner", {text}, {"ENTITIES"})
      PROVE  MakersApart(steps)
  <2>1. /\ DOMAIN steps = 1..(Len(b) + 1)
        /\ Len(b) \in Nat /\ DOMAIN b = 1..Len(b)
        /\ \A n \in 1..Len(b) : steps[n] = b[n]
        /\ steps[Len(b) + 1] = ner
    BY <1>5, <1>3 DEF IsSteps
  <2>2. TellsItsType(ner, "ENTITIES") /\ ner.outs = {"ENTITIES"}
    BY <1>5 DEF TellsItsType, IsFanout, Fields
  <2>3. \A n \in DOMAIN steps : (n \in DOMAIN b /\ steps[n] = b[n]) \/ n = Len(b) + 1
    BY <2>1
  <2>4. \A n \in DOMAIN b : steps[n] = b[n]
    BY <2>1
  <2>5. steps[Len(b) + 1] = ner
    BY <2>1
  <2>6. \A n \in DOMAIN steps : \A t \in steps[n].outs : TellsItsType(steps[n], t)
    BY <1>2, <2>2, <2>3, <2>5 DEF MakersApart
  <2>7. ASSUME NEW m \in DOMAIN steps, NEW n \in DOMAIN steps, m # n,
               NEW t \in steps[m].outs \intersect steps[n].outs
        PROVE  FileOf(steps[m], t)[1] # FileOf(steps[n], t)[1]
    <3>1. m \in DOMAIN b /\ n \in DOMAIN b
      BY <1>2, <2>2, <2>3, <2>5, <2>7
    <3>. QED  BY <1>2, <2>4, <2>7, <3>1 DEF MakersApart
  <2>. QED  BY <2>6, <2>7 DEF MakersApart
<1>. QED  BY <1>1a, <1>4, <1>5

\* Nor do two outputs of a run of one pipeline: the layout that is filled or
\* corrected does not replace the one it is made from.
LEMMA SingleFiles ==
  ASSUME NEW r \in Requests, NEW plan \in SinglePlans(r)
  PROVE  FilesApart(plan.steps)
<1>. SUFFICES ASSUME NEW steps, steps = plan.steps
              PROVE  MakersApart(steps)
  BY MakersApartFiles
<1>1. CASE plan \in SegmentationPlans(r)
  <2>. DEFINE p == Step("seg", <<r.segmenter, Shared>>, {"IMAGE"}, {"LAYOUT"}, <<>>)
  <2>1. p.outs = {"LAYOUT"} /\ p.id = "seg" /\ p.adapter[1] = r.segmenter
    BY DEF Step
  <2>2. r.segmenter \in Segmenters /\ steps = <<p>>
    BY <1>1 DEF SegmentationPlans
  <2>. HIDE DEF p
  <2>3. TellsItsType(p, "LAYOUT")
    BY <2>1, <2>2 DEF TellsItsType, IsFanout, Singletons, Segmenters
  <2>. QED  BY <2>1, <2>2, <2>3 DEF MakersApart
<1>2. CASE plan \in HybridRunPlans(r)
  <2>. DEFINE p == Step("segment", <<r.segmenter, Shared>>, {"IMAGE"}, {"LAYOUT"}, <<>>)
              q == Step("recognize", <<r.ocr, Label>>, {"LAYOUT", "IMAGE"}, {"LAYOUT"},
                        "LAYOUT" :> "segment")
              a == Step("assemble", <<"alto_assembler", Shared>>, {"LAYOUT"}, {"ALTO_XML"},
                        "LAYOUT" :> "recognize")
  <2>1. /\ p.outs = {"LAYOUT"} /\ p.id = "segment" /\ p.adapter[1] = r.segmenter
        /\ q.outs = {"LAYOUT"} /\ q.id = "recognize" /\ q.adapter[1] = r.ocr
        /\ a.outs = {"ALTO_XML"} /\ a.id = "assemble" /\ a.adapter[1] = "alto_assembler"
    BY DEF Step
  <2>2. /\ r.segmenter \in Segmenters \union {"precomputed_layout"}
        /\ r.ocr \in Engines \union {"precomputed_region"}
        /\ steps = <<p, q, a>>
    BY <1>2 DEF HybridRunPlans, Engines
  <2>. HIDE DEF p, q, a
  <2>3. /\ r.segmenter \in Singletons \ {"alto_assembler"} /\ r.segmenter # "filled"
    BY <2>2 DEF Segmenters, Singletons
  <2>4. /\ TellsItsType(p, "LAYOUT") /\ TellsItsType(q, "LAYOUT")
        /\ FileOf(p, "LAYOUT")[1] = <<r.segmenter>>
        /\ FileOf(q, "LAYOUT")[1] = <<"filled">>
    BY <2>1, <2>2, <2>3, LayoutFiles DEF IsFanout
  <2>5. TellsItsType(a, "ALTO_XML")
    BY <2>1 DEF TellsItsType, IsFanout
  <2>6. DOMAIN steps = {1, 2, 3} /\ steps[1] = p /\ steps[2] = q /\ steps[3] = a
    BY <2>2
  <2>. QED  BY <2>1, <2>3, <2>4, <2>5, <2>6 DEF MakersApart
<1>3. CASE plan \in CorrectionPlans(r)
  <2>. DEFINE p == Step("source", <<"alto_source", Shared>>, {"IMAGE"}, {"LAYOUT"},
                        "IMAGE" :> "__initial__")
              q == Step("brut", <<"layout_to_text", Label>>, {"LAYOUT"}, {"RAW_TEXT"},
                        "LAYOUT" :> "source")
              a == Step("corr", <<"saknussemm", Label>>, {"LAYOUT"},
                        {"LAYOUT", "CORRECTED_TEXT", "DECISIONS"}, "LAYOUT" :> "source")
  <2>1. /\ p.outs = {"LAYOUT"} /\ p.id = "source" /\ p.adapter[1] = "alto_source"
        /\ q.outs = {"RAW_TEXT"} /\ q.id = "brut" /\ q.adapter[1] = "layout_to_text"
        /\ a.outs = {"LAYOUT", "CORRECTED_TEXT", "DECISIONS"} /\ a.id = "corr"
        /\ a.adapter = <<"saknussemm", Label>>
    BY DEF Step
  <2>2. steps = <<p, q, a>>
    BY <1>3 DEF CorrectionPlans, CorrectionSteps
  <2>. HIDE DEF p, q, a
  <2>3. ~IsLlm(p.adapter) /\ ~IsLlm(q.adapter) /\ ~IsLlm(a.adapter)
    BY <2>1, KindsAssumption DEF IsLlm, Engines, OwnModules, Singletons
  <2>4. FileOf(p, "LAYOUT") = <<<<"alto_source">>, "layout.json">>
    BY <2>1, <2>3 DEF FileOf, IsFanout, Singletons, Segmenters
  <2>5. FileOf(a, "LAYOUT") = <<Label, "layout.json">>
    BY <2>1, <2>3 DEF FileOf, IsFanout, Singletons, Segmenters
  <2>6. /\ TellsItsType(p, "LAYOUT") /\ TellsItsType(q, "RAW_TEXT")
        /\ TellsItsType(a, "LAYOUT") /\ TellsItsType(a, "CORRECTED_TEXT")
        /\ TellsItsType(a, "DECISIONS")
    BY <2>1 DEF TellsItsType, IsFanout, Singletons, Segmenters
  <2>7. DOMAIN steps = {1, 2, 3} /\ steps[1] = p /\ steps[2] = q /\ steps[3] = a
    BY <2>2
  <2>8. <<"alto_source">> # Label
    BY DEF Label
  <2>9. FileOf(p, "LAYOUT")[1] # FileOf(a, "LAYOUT")[1]
    BY <2>4, <2>5, <2>8
  <2>. QED  BY <2>1, <2>6, <2>7, <2>9 DEF MakersApart
<1>. QED  BY <1>1, <1>2, <1>3 DEF SinglePlans, Requests

-----------------------------------------------------------------------------
(* The inputs of a plan.                                                   *)

\* Every input of every step is found, and the image is that of the document.
Resolved(steps) ==
  \A n \in DOMAIN steps : \A t \in steps[n].ins :
    /\ Source(steps, n, t) # None
    /\ t = "IMAGE" => Source(steps, n, t) = "__initial__"

\* A step takes the image of the document, and anything else from a step before.
TakesImage(s) == "IMAGE" \in DOMAIN s.from => s.from["IMAGE"] = "__initial__"
TakesFrom(steps, n, t) ==
  /\ t \in DOMAIN steps[n].from /\ steps[n].from[t] \notin {"__initial__", None}
  /\ \E m \in 1..(n - 1) : t \in steps[m].outs /\ steps[m].id = steps[n].from[t]

\* All the steps do, and none makes an image.
Fed(steps) ==
  /\ \A n \in DOMAIN steps : "IMAGE" \notin steps[n].outs
  /\ \E len \in Nat : DOMAIN steps = 1..len
  /\ \A n \in DOMAIN steps : \A t \in steps[n].ins :
       IF t = "IMAGE" THEN TakesImage(steps[n]) ELSE TakesFrom(steps, n, t)

\* A plan whose steps are so fed has all its inputs.
LEMMA FedIsResolved ==
  ASSUME NEW steps, Fed(steps)
  PROVE  Resolved(steps)
<1>. SUFFICES ASSUME NEW n \in DOMAIN steps, NEW t \in steps[n].ins
              PROVE  /\ Source(steps, n, t) # None
                     /\ t = "IMAGE" => Source(steps, n, t) = "__initial__"
  BY DEF Resolved
<1>1. CASE t = "IMAGE"
  <2>1. TakesImage(steps[n])
    BY <1>1 DEF Fed
  <2>2. Producers(steps, n, t) = {}
    BY <1>1 DEF Fed, Producers
  <2>3. PoolSource(steps, n, t) = "__initial__"
    BY <1>1, <2>2 DEF PoolSource
  <2>4. Source(steps, n, t) = "__initial__"
    BY <1>1, <2>1, <2>3 DEF Source, TakesImage
  <2>. QED  BY <2>4 DEF None
<1>2. CASE t # "IMAGE"
  <2>1. TakesFrom(steps, n, t)
    BY <1>2 DEF Fed
  <2>2. \E m \in Producers(steps, n, t) : steps[m].id = steps[n].from[t]
    BY <2>1 DEF TakesFrom, Producers
  <2>3. Source(steps, n, t) = steps[n].from[t]
    BY <2>1, <2>2 DEF Source, TakesFrom
  <2>. QED  BY <1>2, <2>1, <2>3 DEF TakesFrom
<1>. QED  BY <1>1, <1>2

\* A step that takes an artifact takes it from the step of this name.
Takes(s, t, id) == t \in DOMAIN s.from /\ s.from[t] = id
\* From whom the steps of a competitor take their inputs.
LEMMA BodyTakes ==
  ASSUME NEW c, NEW i
  PROVE  /\ TakesImage(SegmentStep(c)) /\ TakesImage(RecognizeStep(c, i))
         /\ TakesImage(OcrStep(c, i)) /\ TakesImage(VlmStep(c, i))
         /\ TakesImage(LlmStep(c, i))
         /\ Takes(RecognizeStep(c, i), "LAYOUT", "segment")
         /\ Takes(ReadingStep(i), "LAYOUT", "recognize")
         /\ Takes(AssembleStep, "LAYOUT", "recognize")
         /\ Takes(LlmStep(c, i), "RAW_TEXT", "ocr")
  BY DEF SegmentStep, RecognizeStep, ReadingStep, AssembleStep, OcrStep, VlmStep, LlmStep,
         Step, Takes, TakesImage, :>, @@

\* The steps of a competitor, but the extraction of entities, are fed, and one
\* makes the text that is scored.
LEMMA BodyFed ==
  ASSUME NEW c \in Competitors, NEW i, Accepted(c)
  PROVE  /\ Fed(Body(c, i))
         /\ \E m \in DOMAIN Body(c, i) : /\ BodyText(c) \in Body(c, i)[m].outs
                                        /\ Body(c, i)[m].id = BodyFrom(c)
<1>. SUFFICES ASSUME NEW b, b = Body(c, i)
              PROVE  /\ Fed(b)
                     /\ \E m \in DOMAIN b : BodyText(c) \in b[m].outs /\ b[m].id = BodyFrom(c)
  OBVIOUS
<1>. DEFINE p == SegmentStep(c)  q == RecognizeStep(c, i)  r == ReadingStep(i)
            o == OcrStep(c, i)   v == VlmStep(c, i)        l == LlmStep(c, i)
            a == AssembleStep
<1>1. /\ TakesImage(p) /\ TakesImage(q) /\ TakesImage(o) /\ TakesImage(v) /\ TakesImage(l)
      /\ Takes(q, "LAYOUT", "segment") /\ Takes(r, "LAYOUT", "recognize")
      /\ Takes(a, "LAYOUT", "recognize") /\ Takes(l, "RAW_TEXT", "ocr")
  BY BodyTakes
<1>2. /\ p.id = "segment" /\ p.ins = {"IMAGE"} /\ p.outs = {"LAYOUT"}
      /\ q.id = "recognize" /\ q.ins = {"LAYOUT", "IMAGE"} /\ q.outs = {"LAYOUT"}
      /\ r.id = "text" /\ r.ins = {"LAYOUT"} /\ r.outs = {"RAW_TEXT"}
      /\ a.id = "assemble" /\ a.ins = {"LAYOUT"} /\ a.outs = {"ALTO_XML"}
      /\ o.id = "ocr" /\ o.ins = {"IMAGE"} /\ o.outs = OcrOutputs(c)
      /\ v.id = "vlm" /\ v.ins = {"IMAGE"} /\ v.outs = {"RAW_TEXT"}
      /\ l.id = "llm" /\ l.outs = {"CORRECTED_TEXT"} /\ l.ins \subseteq {"RAW_TEXT", "IMAGE"}
  BY BodyFields DEF Fields
<1>3. "RAW_TEXT" \in OcrOutputs(c) /\ "IMAGE" \notin OcrOutputs(c)
  BY DEF OcrOutputs
<1>4. \/ c.segmenter # None /\ b = <<p, q, r, a>>
      \/ c.segmenter # None /\ b = <<p, q, r>>
      \/ c.segmenter = None /\ c.mode = None /\ b = <<o>>
      \/ c.segmenter = None /\ c.mode = "zero_shot" /\ b = <<v>>
      \/ c.segmenter = None /\ c.mode \notin {None, "zero_shot"} /\ b = <<o, l>>
  BY DEF Body
<1>. HIDE DEF p, q, r, o, v, l, a
<1>5. CASE c.segmenter # None /\ b = <<p, q, r, a>>
  <2>1. DOMAIN b = 1..4 /\ b[1] = p /\ b[2] = q /\ b[3] = r /\ b[4] = a
    BY <1>5
  <2>2. \A n \in 1..4 : n \in {1, 2, 3, 4}
    OBVIOUS
  <2>3. 1 \in 1..(2 - 1) /\ 2 \in 1..(3 - 1) /\ 2 \in 1..(4 - 1)
    OBVIOUS
  <2>4. /\ TakesFrom(b, 2, "LAYOUT") /\ TakesFrom(b, 3, "LAYOUT") /\ TakesFrom(b, 4, "LAYOUT")
    BY <1>1, <1>2, <2>1, <2>3 DEF TakesFrom, Takes, None
  <2>5. BodyText(c) = "RAW_TEXT" /\ BodyFrom(c) = "text"
    BY <1>5 DEF BodyText, BodyFrom
  <2>. QED  BY <1>1, <1>2, <2>1, <2>2, <2>4, <2>5 DEF Fed
<1>6. CASE c.segmenter # None /\ b = <<p, q, r>>
  <2>1. DOMAIN b = 1..3 /\ b[1] = p /\ b[2] = q /\ b[3] = r
    BY <1>6
  <2>2. \A n \in 1..3 : n \in {1, 2, 3}
    OBVIOUS
  <2>3. 1 \in 1..(2 - 1) /\ 2 \in 1..(3 - 1)
    OBVIOUS
  <2>4. /\ TakesFrom(b, 2, "LAYOUT") /\ TakesFrom(b, 3, "LAYOUT")
    BY <1>1, <1>2, <2>1, <2>3 DEF TakesFrom, Takes, None
  <2>5. BodyText(c) = "RAW_TEXT" /\ BodyFrom(c) = "text"
    BY <1>6 DEF BodyText, BodyFrom
  <2>. QED  BY <1>1, <1>2, <2>1, <2>2, <2>4, <2>5 DEF Fed
<1>7. CASE c.segmenter = None /\ c.mode = None /\ b = <<o>>
  <2>1. DOMAIN b = 1..1 /\ b[1] = o
    BY <1>7
  <2>2. BodyText(c) = "RAW_TEXT" /\ BodyFrom(c) = "ocr"
    BY <1>7 DEF BodyText, BodyFrom, None
  <2>. QED  BY <1>1, <1>2, <1>3, <2>1, <2>2 DEF Fed
<1>8. CASE c.segmenter = None /\ c.mode = "zero_shot" /\ b = <<v>>
  <2>1. DOMAIN b = 1..1 /\ b[1] = v
    BY <1>8
  <2>2. BodyText(c) = "RAW_TEXT" /\ BodyFrom(c) = "vlm"
    BY <1>8 DEF BodyText, BodyFrom, None
  <2>. QED  BY <1>1, <1>2, <2>1, <2>2 DEF Fed
<1>9. CASE c.segmenter = None /\ c.mode \notin {None, "zero_shot"} /\ b = <<o, l>>
  <2>1. DOMAIN b = 1..2 /\ b[1] = o /\ b[2] = l
    BY <1>9
  <2>2. \A n \in 1..2 : n \in {1, 2}
    OBVIOUS
  <2>3. TakesFrom(b, 2, "RAW_TEXT")
    <3>1. 1 \in 1..(2 - 1)
      OBVIOUS
    <3>. QED  BY <1>1, <1>2, <1>3, <2>1, <3>1 DEF TakesFrom, Takes, None
  <2>4. BodyText(c) = "CORRECTED_TEXT" /\ BodyFrom(c) = "llm"
    BY <1>9 DEF BodyText, BodyFrom, None
  <2>. QED  BY <1>1, <1>2, <1>3, <2>1, <2>2, <2>3, <2>4 DEF Fed
<1>. QED  BY <1>4, <1>5, <1>6, <1>7, <1>8, <1>9

\* So is the extraction of entities.
LEMMA PlanResolved ==
  ASSUME NEW c \in Competitors, NEW i \in Nat, NEW plan \in PlansOf(c, i)
  PROVE  Resolved(plan.steps)
<1>. DEFINE b == Body(c, i)  text == BodyText(c)  from == BodyFrom(c)
<1>1. plan.steps = b \o NerSteps(c, i, text, from) /\ Accepted(c)
  BY PlanShape
<1>2. Fed(b) /\ \E m \in DOMAIN b : text \in b[m].outs /\ b[m].id = from
  BY <1>1, BodyFed
<1>3. IsSteps(b)
  BY BodyIsSeq
<1>3a. text # "IMAGE" /\ from \notin {"__initial__", None}
  BY DEF BodyText, BodyFrom, None
<1>. HIDE DEF b, text, from
<1>. SUFFICES ASSUME NEW steps, steps = plan.steps
              PROVE  Fed(steps)
  BY FedIsResolved
<1>4. \/ steps = b
      \/ \E ner : steps = Append(b, ner) /\ Extracts(ner, i, text, from)
  <2>1. \/ b \o NerSteps(c, i, text, from) = b
        \/ \E ner : /\ b \o NerSteps(c, i, text, from) = Append(b, ner)
                    /\ Extracts(ner, i, text, from)
    BY <1>3, NerLast
  <2>. QED  BY <2>1, <1>1
<1>5. CASE steps = b
  BY <1>2, <1>5
<1>6. ASSUME NEW ner, steps = Append(b, ner), Extracts(ner, i, text, from)
      PROVE  Fed(steps)
  <2>1. /\ DOMAIN steps = 1..(Len(b) + 1)
        /\ Len(b) \in Nat /\ DOMAIN b = 1..Len(b)
        /\ \A n \in 1..Len(b) : steps[n] = b[n]
        /\ steps[Len(b) + 1] = ner
    BY <1>6, <1>3 DEF IsSteps
  <2>2. /\ ner.ins = {text} /\ ner.outs = {"ENTITIES"}
        /\ text \in DOMAIN ner.from /\ ner.from[text] = from
    BY <1>6 DEF Extracts, Fields, :>
  <2>. DEFINE m == Len(b)
  <2>. HIDE DEF m
  <2>3. /\ DOMAIN steps = 1..(m + 1) /\ m \in Nat /\ DOMAIN b = 1..m
        /\ \A n \in 1..m : steps[n] = b[n]
        /\ steps[m + 1] = ner
    BY <2>1 DEF m
  <2>4. TakesFrom(steps, m + 1, text)
    <3>1. PICK k \in DOMAIN b : text \in b[k].outs /\ b[k].id = from
      BY <1>2
    <3>2. k \in 1..((m + 1) - 1) /\ steps[k] = b[k]
      BY <2>3
    <3>. QED  BY <3>1, <3>2, <2>2, <2>3, <1>3a DEF TakesFrom
  <2>5. ASSUME NEW n \in 1..m, NEW t \in steps[n].ins
        PROVE  IF t = "IMAGE" THEN TakesImage(steps[n]) ELSE TakesFrom(steps, n, t)
    <3>1. IF t = "IMAGE" THEN TakesImage(b[n]) ELSE TakesFrom(b, n, t)
      BY <2>3, <2>5, <1>2 DEF Fed
    <3>2. \A k \in 1..(n - 1) : steps[k] = b[k]
      BY <2>3, <2>5
    <3>3. steps[n] = b[n]
      BY <2>3, <2>5
    <3>. QED  BY <3>1, <3>2, <3>3 DEF TakesFrom
  <2>6. \A n \in DOMAIN steps : "IMAGE" \notin steps[n].outs
    <3>1. \A n \in 1..m : "IMAGE" \notin steps[n].outs
      BY <2>3, <1>2 DEF Fed
    <3>. QED  BY <3>1, <2>2, <2>3
  <2>7. \A n \in DOMAIN steps : n \in 1..m \/ n = m + 1
    BY <2>3
  <2>8. \E len \in Nat : DOMAIN steps = 1..len
    <3>1. m + 1 \in Nat
      BY <2>3
    <3>. QED  BY <3>1, <2>3
  <2>9. ASSUME NEW n \in DOMAIN steps, NEW t \in steps[n].ins
        PROVE  IF t = "IMAGE" THEN TakesImage(steps[n]) ELSE TakesFrom(steps, n, t)
    <3>1. CASE n \in 1..m
      BY <2>5, <2>9, <3>1
    <3>2. CASE n = m + 1
      BY <2>2, <2>3, <2>4, <2>9, <3>2, <1>3a
    <3>. QED  BY <2>7, <3>1, <3>2
  <2>. QED  BY <2>6, <2>8, <2>9 DEF Fed
<1>. QED  BY <1>4, <1>5, <1>6

\* The steps of a run of one pipeline are fed.
LEMMA SingleResolved ==
  ASSUME NEW r \in Requests, NEW plan \in SinglePlans(r)
  PROVE  Resolved(plan.steps)
<1>. SUFFICES ASSUME NEW steps, steps = plan.steps
              PROVE  Fed(steps)
  BY FedIsResolved
<1>1. CASE plan \in SegmentationPlans(r)
  <2>. DEFINE p == Step("seg", <<r.segmenter, Shared>>, {"IMAGE"}, {"LAYOUT"}, <<>>)
  <2>1. p.ins = {"IMAGE"} /\ p.outs = {"LAYOUT"} /\ TakesImage(p)
    BY DEF Step, TakesImage
  <2>2. steps = <<p>>
    BY <1>1 DEF SegmentationPlans
  <2>. HIDE DEF p
  <2>3. DOMAIN steps = 1..1 /\ steps[1] = p
    BY <2>2
  <2>. QED  BY <2>1, <2>3 DEF Fed
<1>2. CASE plan \in HybridRunPlans(r)
  <2>. DEFINE p == Step("segment", <<r.segmenter, Shared>>, {"IMAGE"}, {"LAYOUT"}, <<>>)
              q == Step("recognize", <<r.ocr, Label>>, {"LAYOUT", "IMAGE"}, {"LAYOUT"},
                        "LAYOUT" :> "segment")
              a == Step("assemble", <<"alto_assembler", Shared>>, {"LAYOUT"}, {"ALTO_XML"},
                        "LAYOUT" :> "recognize")
  <2>1. /\ p.id = "segment" /\ p.ins = {"IMAGE"} /\ p.outs = {"LAYOUT"} /\ TakesImage(p)
        /\ q.id = "recognize" /\ q.ins = {"LAYOUT", "IMAGE"} /\ q.outs = {"LAYOUT"}
        /\ TakesImage(q) /\ Takes(q, "LAYOUT", "segment")
        /\ a.ins = {"LAYOUT"} /\ a.outs = {"ALTO_XML"} /\ Takes(a, "LAYOUT", "recognize")
    BY DEF Step, TakesImage, Takes, :>
  <2>2. steps = <<p, q, a>>
    BY <1>2 DEF HybridRunPlans
  <2>. HIDE DEF p, q, a
  <2>3. DOMAIN steps = 1..3 /\ steps[1] = p /\ steps[2] = q /\ steps[3] = a
    BY <2>2
  <2>4. \A n \in 1..3 : n \in {1, 2, 3}
    OBVIOUS
  <2>5. 1 \in 1..(2 - 1) /\ 2 \in 1..(3 - 1)
    OBVIOUS
  <2>6. TakesFrom(steps, 2, "LAYOUT") /\ TakesFrom(steps, 3, "LAYOUT")
    BY <2>1, <2>3, <2>5 DEF TakesFrom, Takes, None
  <2>. QED  BY <2>1, <2>3, <2>4, <2>6 DEF Fed
<1>3. CASE plan \in CorrectionPlans(r)
  <2>. DEFINE p == Step("source", <<"alto_source", Shared>>, {"IMAGE"}, {"LAYOUT"},
                        "IMAGE" :> "__initial__")
              q == Step("brut", <<"layout_to_text", Label>>, {"LAYOUT"}, {"RAW_TEXT"},
                        "LAYOUT" :> "source")
              a == Step("corr", <<"saknussemm", Label>>, {"LAYOUT"},
                        {"LAYOUT", "CORRECTED_TEXT", "DECISIONS"}, "LAYOUT" :> "source")
  <2>1. /\ p.id = "source" /\ p.ins = {"IMAGE"} /\ p.outs = {"LAYOUT"} /\ TakesImage(p)
        /\ q.ins = {"LAYOUT"} /\ q.outs = {"RAW_TEXT"} /\ Takes(q, "LAYOUT", "source")
        /\ a.ins = {"LAYOUT"} /\ a.outs = {"LAYOUT", "CORRECTED_TEXT", "DECISIONS"}
        /\ Takes(a, "LAYOUT", "source")
    BY DEF Step, TakesImage, Takes, :>
  <2>2. steps = <<p, q, a>>
    BY <1>3 DEF CorrectionPlans, CorrectionSteps
  <2>. HIDE DEF p, q, a
  <2>3. DOMAIN steps = 1..3 /\ steps[1] = p /\ steps[2] = q /\ steps[3] = a
    BY <2>2
  <2>4. \A n \in 1..3 : n \in {1, 2, 3}
    OBVIOUS
  <2>5. 1 \in 1..(2 - 1) /\ 1 \in 1..(3 - 1)
    OBVIOUS
  <2>6. TakesFrom(steps, 2, "LAYOUT") /\ TakesFrom(steps, 3, "LAYOUT")
    BY <2>1, <2>3, <2>5 DEF TakesFrom, Takes, None
  <2>. QED  BY <2>1, <2>3, <2>4, <2>6 DEF Fed
<1>. QED  BY <1>1, <1>2, <1>3 DEF SinglePlans, Requests

-----------------------------------------------------------------------------
(* The modules of a plan.                                                  *)

\* What the run needs of a step: the registry builds its module, or misses the
\* model that the request leaves out, and the module reads and makes what the
\* step says.
Runs(s, excused) ==
  LET a == s.adapter IN
  /\ Builds(a) \/ (ModelLeftOut(a) /\ excused)
  /\ IsReader(s) =>
       /\ Reads(a) \subseteq s.ins
       /\ IF IsFanout(s) THEN "RAW_TEXT" \in Makes(a) ELSE s.outs \subseteq Makes(a)

\* A module named by its kind alone needs no parameter but an endpoint.
LEMMA SharedRuns ==
  ASSUME NEW s, s.adapter[1] \in Singletons, s.adapter[2] = Shared,
         s.adapter[1] = "remote_segmenter" => "endpoint" \in DOMAIN KwargsOf(s.adapter)
  PROVE  Runs(s, FALSE)
<1>. DEFINE a == s.adapter
<1>1. a[1] \notin NeedsModel /\ a[1] # "saknussemm" /\ a[1] # "precomputed_region"
  BY DEF NeedsModel, Singletons, Segmenters
<1>2. ~IsReader(s)
  BY <1>1, KindsAssumption DEF IsReader
<1>3. Builds(a)
  BY <1>1 DEF Builds, ModelLeftOut
<1>. QED  BY <1>2, <1>3 DEF Runs

\* Any other is named by its label, and may need a model.
LEMMA LabelledBuilds ==
  ASSUME NEW a, a[1] \in Labelled, LabelOf(a) = a[2], NEW excused \in BOOLEAN,
         a[1] = "saknussemm" /\ KwargsOf(a).producer = "ollama" =>
           "model" \in DOMAIN KwargsOf(a),
         a[1] \in NeedsModel => "model" \in DOMAIN KwargsOf(a) \/ excused
  PROVE  Builds(a) \/ (ModelLeftOut(a) /\ excused)
<1>1. a[1] \notin Singletons
  BY KindsAssumption DEF Labelled, OwnModules, Singletons, Segmenters
<1>2. a[1] # "remote_segmenter"
  BY <1>1 DEF Singletons, Segmenters
<1>3. CASE ModelLeftOut(a)
  BY <1>3 DEF ModelLeftOut
<1>4. CASE ~ModelLeftOut(a)
  BY <1>1, <1>2, <1>4 DEF Builds
<1>. QED  BY <1>3, <1>4

\* An engine is no module of the project's own.
LEMMA EngineKinds ==
  ASSUME NEW e \in Engines
  PROVE  /\ e \in Labelled /\ e \notin Singletons /\ e \notin OwnModules
         /\ e # "saknussemm" /\ e # "precomputed_region"
         /\ e \in OcrEngines <=> e \notin LlmEngines \union VlmEngines
  BY KindsAssumption DEF Labelled, OwnModules, Engines

\* The step of an engine that recognizes, in a page or in its regions.
LEMMA RecognizerRuns ==
  ASSUME NEW s, NEW excused \in BOOLEAN, s.adapter[1] \in Engines,
         s.ins \in {{"IMAGE"}, {"LAYOUT", "IMAGE"}},
         "label" \in DOMAIN KwargsOf(s.adapter),
         KwargsOf(s.adapter).label = s.adapter[2],
         "model" \in DOMAIN KwargsOf(s.adapter) \/ excused,
         s.adapter[1] \notin OcrEngines =>
           /\ "role" \in DOMAIN KwargsOf(s.adapter)
           /\ KwargsOf(s.adapter).role = "zero_shot",
         \/ IsFanout(s)
         \/ s.outs = {"RAW_TEXT"}
         \/ /\ s.adapter[1] \in OcrEngines /\ "alto" \in DOMAIN KwargsOf(s.adapter)
            /\ s.outs = {"RAW_TEXT", "ALTO_XML"}
  PROVE  Runs(s, excused)
<1>. DEFINE a == s.adapter
<1>1. a[1] \in Labelled /\ a[1] # "saknussemm" /\ a[1] # "precomputed_region"
      /\ (a[1] \in OcrEngines <=> ~IsLlm(a))
  BY EngineKinds DEF IsLlm
<1>2. LabelOf(a) = a[2]
  BY <1>1 DEF LabelOf
<1>3. Builds(a) \/ (ModelLeftOut(a) /\ excused)
  BY <1>1, <1>2, LabelledBuilds
<1>4. CASE a[1] \in OcrEngines
  <2>1. Reads(a) = {"IMAGE"} /\ "RAW_TEXT" \in Makes(a)
    BY <1>1, <1>4 DEF Reads, Makes
  <2>2. "alto" \in DOMAIN KwargsOf(a) => Makes(a) = {"RAW_TEXT", "ALTO_XML"}
    BY <1>1, <1>4 DEF Makes
  <2>. QED  BY <1>3, <1>4, <2>1, <2>2 DEF Runs
<1>5. CASE a[1] \notin OcrEngines
  <2>1. RoleOf(a) = "zero_shot"
    BY <1>5 DEF RoleOf
  <2>2. Reads(a) = {"IMAGE"} /\ Makes(a) = {"RAW_TEXT"}
    BY <1>1, <1>5, <2>1 DEF Reads, Makes, RoleReads, RoleMakes
  <2>. QED  BY <1>3, <1>5, <2>2 DEF Runs
<1>. QED  BY <1>4, <1>5

\* The step of a model that corrects the text of a recognizer.
LEMMA CorrectorRuns ==
  ASSUME NEW c \in Competitors, NEW i, Accepted(c), c.segmenter = None,
         c.mode \notin {None, "zero_shot"},
         KwargsOf(LlmStep(c, i).adapter) = LlmKwargs(c, i, c.mode)
  PROVE  Runs(LlmStep(c, i), TRUE)
<1>. SUFFICES ASSUME NEW s, s = LlmStep(c, i)
              PROVE  Runs(s, TRUE)
  OBVIOUS
<1>. DEFINE a == s.adapter
<1>1. /\ a = <<c.llm, Suffix(i)>> /\ s.outs = {"CORRECTED_TEXT"} /\ ~IsFanout(s)
      /\ s.ins = IF c.mode = "text_only" THEN {"RAW_TEXT"} ELSE {"RAW_TEXT", "IMAGE"}
  BY DEF LlmStep, Step, IsFanout
<1>2. c.llm \in LlmEngines \union VlmEngines
  BY DEF Accepted
<1>3. a[1] \in Labelled /\ a[1] # "saknussemm" /\ a[1] # "precomputed_region" /\ IsLlm(a)
  BY <1>1, <1>2, EngineKinds DEF IsLlm, Engines
<1>4. /\ "label" \in DOMAIN KwargsOf(a) /\ KwargsOf(a)["label"] = Suffix(i)
      /\ "role" \in DOMAIN KwargsOf(a) /\ KwargsOf(a).role = c.mode
  BY DEF LlmKwargs, @@
<1>5. LabelOf(a) = a[2]
  BY <1>1, <1>3, <1>4 DEF LabelOf
<1>6. Builds(a) \/ (ModelLeftOut(a) /\ TRUE)
  BY <1>3, <1>5, LabelledBuilds
<1>7. RoleOf(a) = c.mode /\ c.mode \in {"text_only", "text_and_image"}
  BY <1>4 DEF RoleOf, Competitors
<1>8. Reads(a) \subseteq s.ins /\ Makes(a) = {"CORRECTED_TEXT"}
  BY <1>1, <1>3, <1>7 DEF Reads, Makes, RoleReads, RoleMakes
<1>. QED  BY <1>1, <1>6, <1>8 DEF Runs

\* The modules of the project's own that their label alone builds.
LabelBuilt == {"layout_to_text", "ner"}

\* The step of such a module.
LEMMA OwnModuleRuns ==
  ASSUME NEW s, s.adapter[1] \in LabelBuilt,
         "label" \in DOMAIN KwargsOf(s.adapter),
         KwargsOf(s.adapter).label = s.adapter[2]
  PROVE  Runs(s, FALSE)
<1>. DEFINE a == s.adapter
<1>1. a[1] \in Labelled /\ a[1] # "saknussemm" /\ a[1] # "precomputed_region"
      /\ a[1] \notin NeedsModel
  BY DEF Labelled, OwnModules, NeedsModel, LabelBuilt
<1>2. ~IsReader(s)
  BY <1>1, KindsAssumption DEF IsReader, OwnModules, LabelBuilt
<1>3. LabelOf(a) = a[2]
  BY <1>1 DEF LabelOf
<1>4. Builds(a) \/ (ModelLeftOut(a) /\ FALSE)
  BY <1>1, <1>3, LabelledBuilds
<1>. QED  BY <1>2, <1>4 DEF Runs

\* The parameters of a plan are in the table of the run; of the segmenter that
\* the competitors share, that an endpoint is.
Kept(kwargs) ==
  \A a \in DOMAIN kwargs :
    IF a[1] = "remote_segmenter" THEN "endpoint" \in DOMAIN KwargsOf(a)
                                 ELSE KwargsOf(a) = kwargs[a]

\* What is read in a dictionary over another.
LEMMA MergeReads ==
  ASSUME NEW f, NEW g, NEW a
  PROVE  /\ a \in DOMAIN f => a \in DOMAIN (f @@ g) /\ (f @@ g)[a] = f[a]
         /\ a \notin DOMAIN f /\ a \in DOMAIN g => a \in DOMAIN (f @@ g) /\ (f @@ g)[a] = g[a]
         /\ a \in DOMAIN (f @@ g) => a \in DOMAIN f \/ a \in DOMAIN g
  BY DEF @@

\* What is read in a function of one point.
LEMMA PointReads ==
  ASSUME NEW k, NEW v
  PROVE  DOMAIN (k :> v) = {k} /\ (k :> v)[k] = v
  BY DEF :>

\* The parameters of the extraction of entities.
LEMMA NerReads ==
  ASSUME NEW c, NEW i
  PROVE  c.ner => /\ <<"ner", Suffix(i)>> \in DOMAIN NerKwargs(c, i)
                  /\ NerKwargs(c, i)[<<"ner", Suffix(i)>>]
                       = [label |-> Suffix(i), model |-> TRUE]
<1>. DEFINE n == <<"ner", Suffix(i)>>
            kw == [label |-> Suffix(i), model |-> TRUE]
<1>1. NerKwargs(c, i) = IF c.ner THEN n :> kw ELSE <<>>
  BY DEF NerKwargs
<1>2. DOMAIN (n :> kw) = {n} /\ (n :> kw)[n] = kw
  BY PointReads
<1>. HIDE DEF n, kw
<1>3. c.ner => n \in DOMAIN NerKwargs(c, i) /\ NerKwargs(c, i)[n] = kw
  BY <1>1, <1>2
<1>. QED  BY <1>3 DEF n, kw

\* Where a plan files the parameters of the extraction of entities.
NerFiled(c, i, kwargs) ==
  c.ner => /\ <<"ner", Suffix(i)>> \in DOMAIN kwargs
           /\ kwargs[<<"ner", Suffix(i)>>] = [label |-> Suffix(i), model |-> TRUE]

\* The parameters that a hybrid competitor files.
LEMMA HybridKwargs ==
  ASSUME NEW c \in Competitors, NEW i \in Nat, NEW plan \in HybridPlans(c, i)
  PROVE  /\ <<c.engine, Suffix(i)>> \in DOMAIN plan.kwargs
         /\ plan.kwargs[<<c.engine, Suffix(i)>>] = RecognizerKwargs(c, i)
         /\ <<"layout_to_text", Suffix(i)>> \in DOMAIN plan.kwargs
         /\ plan.kwargs[<<"layout_to_text", Suffix(i)>>] = [label |-> Suffix(i)]
         /\ c.segmenter = "remote_segmenter" => <<c.segmenter, Shared>> \in DOMAIN plan.kwargs
         /\ NerFiled(c, i, plan.kwargs)
<1>. DEFINE e == <<c.engine, Suffix(i)>>
            w == <<"layout_to_text", Suffix(i)>>
            g == <<c.segmenter, Shared>>
            n == <<"ner", Suffix(i)>>
            mine == e :> RecognizerKwargs(c, i)
            text == w :> [label |-> Suffix(i)]
            seg  == IF c.segmenter = "remote_segmenter"
                    THEN g :> [endpoint |-> c.endpoint] ELSE <<>>
            ner  == NerKwargs(c, i)
            kw   == [label |-> Suffix(i)]
            nkw  == [label |-> Suffix(i), model |-> TRUE]
<1>1. plan.kwargs = ((mine @@ text) @@ seg) @@ ner /\ c.engine \in Engines
  BY DEF HybridPlans, Engines
<1>2. c.engine \notin {"layout_to_text", "ner"}
  BY <1>1, EngineKinds DEF OwnModules
<1>3. w # e /\ n # e /\ n # w
  BY <1>2
<1>4. /\ DOMAIN mine = {e} /\ mine[e] = RecognizerKwargs(c, i)
      /\ DOMAIN text = {w} /\ text[w] = kw
  BY PointReads
<1>5. /\ c.segmenter = "remote_segmenter" => g \in DOMAIN seg
      /\ n \notin DOMAIN seg
  <2>1. CASE c.segmenter = "remote_segmenter"
    <3>1. DOMAIN seg = {g}
      BY <2>1, PointReads
    <3>2. n # g
      BY <2>1
    <3>. QED  BY <3>1, <3>2
  <2>2. CASE c.segmenter # "remote_segmenter"
    BY <2>2
  <2>. QED  BY <2>1, <2>2
<1>6. c.ner => n \in DOMAIN ner /\ ner[n] = nkw
  BY NerReads
<1>. HIDE DEF mine, text, seg, ner, e, w, g, n, kw, nkw
<1>7. /\ e \in DOMAIN (mine @@ text) /\ (mine @@ text)[e] = RecognizerKwargs(c, i)
      /\ w \in DOMAIN (mine @@ text) /\ (mine @@ text)[w] = kw
      /\ n \notin DOMAIN (mine @@ text)
  BY <1>3, <1>4, MergeReads
<1>. DEFINE h == mine @@ text
<1>. HIDE DEF h
<1>8. /\ e \in DOMAIN (h @@ seg) /\ (h @@ seg)[e] = RecognizerKwargs(c, i)
      /\ w \in DOMAIN (h @@ seg) /\ (h @@ seg)[w] = kw
      /\ n \notin DOMAIN (h @@ seg)
      /\ c.segmenter = "remote_segmenter" => g \in DOMAIN (h @@ seg)
  BY <1>5, <1>7, MergeReads DEF h
<1>. DEFINE j == h @@ seg
<1>9. plan.kwargs = j @@ ner
  BY <1>1 DEF h
<1>. HIDE DEF j
<1>10. /\ e \in DOMAIN (j @@ ner) /\ (j @@ ner)[e] = RecognizerKwargs(c, i)
       /\ w \in DOMAIN (j @@ ner) /\ (j @@ ner)[w] = kw
       /\ c.ner => n \in DOMAIN (j @@ ner) /\ (j @@ ner)[n] = nkw
       /\ c.segmenter = "remote_segmenter" => g \in DOMAIN (j @@ ner)
  BY <1>6, <1>8, MergeReads DEF j
<1>. QED  BY <1>9, <1>10 DEF e, w, g, n, kw, nkw, NerFiled

\* Those of a competitor that reads whole pages with one engine.
LEMMA PageKwargs ==
  ASSUME NEW c \in Competitors, NEW i \in Nat, c.engine \in Engines, NEW kwargs, NEW kw,
         kwargs = (<<c.engine, Suffix(i)>> :> kw) @@ NerKwargs(c, i)
  PROVE  /\ <<c.engine, Suffix(i)>> \in DOMAIN kwargs
         /\ kwargs[<<c.engine, Suffix(i)>>] = kw
         /\ NerFiled(c, i, kwargs)
<1>. DEFINE e == <<c.engine, Suffix(i)>>
            n == <<"ner", Suffix(i)>>
            one == e :> kw
            ner == NerKwargs(c, i)
            nkw == [label |-> Suffix(i), model |-> TRUE]
<1>1. n # e
  BY EngineKinds DEF OwnModules
<1>2. c.ner => n \in DOMAIN ner /\ ner[n] = nkw
  BY NerReads
<1>3. DOMAIN one = {e} /\ one[e] = kw
  BY PointReads
<1>4. kwargs = one @@ ner
  OBVIOUS
<1>. HIDE DEF e, n, nkw, ner, one
<1>5. /\ e \in DOMAIN (one @@ ner) /\ (one @@ ner)[e] = kw
      /\ c.ner => n \in DOMAIN (one @@ ner) /\ (one @@ ner)[n] = nkw
  BY <1>1, <1>2, <1>3, MergeReads
<1>. QED  BY <1>4, <1>5 DEF e, n, nkw, NerFiled

\* Those of a chain: the engine and the model that corrects it differ, since an
\* engine has one role, and neither hides the other.
LEMMA ChainKwargs ==
  ASSUME NEW c \in Competitors, NEW i \in Nat, NEW plan \in ChainPlans(c, i)
  PROVE  /\ <<c.engine, Suffix(i)>> \in DOMAIN plan.kwargs
         /\ plan.kwargs[<<c.engine, Suffix(i)>>] = OcrKwargs(i) @@ WithAlto(c)
         /\ <<c.llm, Suffix(i)>> \in DOMAIN plan.kwargs
         /\ plan.kwargs[<<c.llm, Suffix(i)>>] = LlmKwargs(c, i, c.mode)
         /\ NerFiled(c, i, plan.kwargs)
<1>. DEFINE e == <<c.engine, Suffix(i)>>
            l == <<c.llm, Suffix(i)>>
            n == <<"ner", Suffix(i)>>
            okw == OcrKwargs(i) @@ WithAlto(c)
            lkw == LlmKwargs(c, i, c.mode)
            llm == l :> lkw
            ocr == e :> okw
            ner == NerKwargs(c, i)
            nkw == [label |-> Suffix(i), model |-> TRUE]
<1>1. /\ plan.kwargs = (llm @@ ocr) @@ ner /\ c.engine \in OcrEngines
      /\ c.llm \in LlmEngines \union VlmEngines
  BY DEF ChainPlans
<1>2. c.engine # c.llm /\ c.engine # "ner" /\ c.llm # "ner"
  BY <1>1, KindsAssumption, EngineKinds DEF OwnModules, Engines
<1>3. e # l /\ e # n /\ n # l
  BY <1>2
<1>4. c.ner => n \in DOMAIN ner /\ ner[n] = nkw
  BY NerReads
<1>5. DOMAIN llm = {l} /\ llm[l] = lkw /\ DOMAIN ocr = {e} /\ ocr[e] = okw
  BY PointReads
<1>. HIDE DEF e, l, n, okw, lkw, llm, ocr, ner, nkw
<1>. DEFINE h == llm @@ ocr
<1>6. /\ e \in DOMAIN h /\ h[e] = okw /\ l \in DOMAIN h /\ h[l] = lkw /\ n \notin DOMAIN h
  BY <1>3, <1>5, MergeReads
<1>. HIDE DEF h
<1>7. /\ e \in DOMAIN (h @@ ner) /\ (h @@ ner)[e] = okw
      /\ l \in DOMAIN (h @@ ner) /\ (h @@ ner)[l] = lkw
      /\ c.ner => n \in DOMAIN (h @@ ner) /\ (h @@ ner)[n] = nkw
  BY <1>4, <1>6, MergeReads
<1>8. plan.kwargs = h @@ ner
  BY <1>1 DEF h
<1>. QED  BY <1>7, <1>8 DEF e, l, n, okw, lkw, nkw, NerFiled

\* Every step of a plan runs with the parameters that the plan files.
LEMMA PlanRuns ==
  ASSUME NEW c \in Competitors, NEW i \in Nat, NEW plan \in PlansOf(c, i), Kept(plan.kwargs)
  PROVE  \A n \in DOMAIN plan.steps : Runs(plan.steps[n], ~c.model \/ c.llm # None)
<1>. DEFINE b == Body(c, i)  text == BodyText(c)  from == BodyFrom(c)
            excused == ~c.model \/ c.llm # None
            kwargs == plan.kwargs
<1>1. plan.steps = b \o NerSteps(c, i, text, from) /\ Accepted(c)
  BY PlanShape
<1>2. c.model \in BOOLEAN /\ c.engine \in Engines
  BY <1>1 DEF Competitors, Accepted, Engines
<1>3. "model" \in DOMAIN WithModel(c) <=> c.model
  BY <1>2 DEF WithModel, NoKwargs
<1>4. "alto" \in DOMAIN WithAlto(c) <=> c.alto
  <2>1. c.alto \in BOOLEAN
    BY DEF Competitors
  <2>. QED  BY <2>1 DEF WithAlto, NoKwargs
<1>5. \A s, x : Runs(s, FALSE) \/ (x /\ Runs(s, TRUE)) => Runs(s, x)
  BY DEF Runs
<1>6. \A s : Runs(s, FALSE) => Runs(s, excused)
  BY <1>5
<1>7. /\ NerFiled(c, i, kwargs)
      /\ \A n \in DOMAIN b : Runs(b[n], excused)
  <2>1. CASE c.segmenter # None
    <3>. DEFINE p == SegmentStep(c)  q == RecognizeStep(c, i)  r == ReadingStep(i)
                a == AssembleStep
    <3>1. plan \in HybridPlans(c, i)
      BY <2>1 DEF PlansOf
    <3>2. /\ KwargsOf(<<c.engine, Suffix(i)>>) = RecognizerKwargs(c, i)
          /\ KwargsOf(<<"layout_to_text", Suffix(i)>>) = [label |-> Suffix(i)]
          /\ c.segmenter = "remote_segmenter" =>
               "endpoint" \in DOMAIN KwargsOf(<<c.segmenter, Shared>>)
          /\ NerFiled(c, i, kwargs)
      <4>1. c.engine # "remote_segmenter"
        BY <1>2, RunPlanningAssumption DEF Engines
      <4>. QED  BY <3>1, <4>1, HybridKwargs DEF Kept
    <3>3. Runs(p, FALSE)
      <4>1. p.adapter = <<c.segmenter, Shared>>
        BY DEF SegmentStep, Step
      <4>2. c.segmenter \in Singletons
        BY <2>1 DEF Competitors, Singletons, Segmenters
      <4>. HIDE DEF p
      <4>3. /\ p.adapter[1] \in Singletons /\ p.adapter[2] = Shared
            /\ p.adapter[1] = "remote_segmenter" => "endpoint" \in DOMAIN KwargsOf(p.adapter)
        BY <3>2, <4>1, <4>2
      <4>. QED  BY <4>3, SharedRuns
    <3>4. Runs(a, FALSE)
      <4>1. a.adapter = <<"alto_assembler", Shared>>
        BY DEF AssembleStep, Step
      <4>2. "alto_assembler" \in Singletons
        BY DEF Singletons
      <4>. HIDE DEF a
      <4>3. /\ a.adapter[1] \in Singletons /\ a.adapter[2] = Shared
            /\ a.adapter[1] # "remote_segmenter"
        BY <4>1, <4>2
      <4>. QED  BY <4>3, SharedRuns
    <3>5. Runs(r, FALSE)
      <4>1. r.adapter = <<"layout_to_text", Suffix(i)>>
        BY DEF ReadingStep, Step
      <4>. HIDE DEF r
      <4>2. KwargsOf(r.adapter) = [label |-> Suffix(i)]
        BY <3>2, <4>1
      <4>3. /\ r.adapter[1] \in LabelBuilt
            /\ "label" \in DOMAIN KwargsOf(r.adapter)
            /\ KwargsOf(r.adapter).label = r.adapter[2]
        BY <4>1, <4>2 DEF LabelBuilt
      <4>. QED  BY <4>3, OwnModuleRuns
    <3>6. Runs(q, excused)
      <4>1. /\ q.adapter = <<c.engine, Suffix(i)>> /\ q.id = "recognize"
            /\ q.ins = {"LAYOUT", "IMAGE"}
        BY DEF RecognizeStep, Step
      <4>. DEFINE kw == KwargsOf(q.adapter)
      <4>2. kw = RecognizerKwargs(c, i)
        BY <3>2, <4>1
      <4>3. /\ "label" \in DOMAIN kw /\ kw.label = Suffix(i)
            /\ "model" \in DOMAIN kw <=> c.model
            /\ c.engine \notin OcrEngines => "role" \in DOMAIN kw /\ kw.role = "zero_shot"
        <5>1. CASE c.engine \in VlmEngines
          <6>1. kw = LlmKwargs(c, i, "zero_shot")
            BY <4>2, <5>1 DEF RecognizerKwargs
          <6>. HIDE DEF kw
          <6>. QED  BY <6>1, <1>3 DEF LlmKwargs, @@
        <5>2. CASE c.engine \notin VlmEngines
          <6>1. kw = OcrKwargs(i) @@ WithModel(c)
            BY <4>2, <5>2 DEF RecognizerKwargs
          <6>2. c.engine \in OcrEngines
            BY <5>2, <1>1 DEF Accepted
          <6>. HIDE DEF kw
          <6>. QED  BY <6>1, <6>2, <1>3 DEF OcrKwargs, @@
        <5>. QED  BY <5>1, <5>2
      <4>. HIDE DEF q
      <4>4. /\ q.adapter[1] \in Engines /\ q.ins \in {{"IMAGE"}, {"LAYOUT", "IMAGE"}}
            /\ "label" \in DOMAIN KwargsOf(q.adapter)
            /\ KwargsOf(q.adapter).label = q.adapter[2]
            /\ "model" \in DOMAIN KwargsOf(q.adapter) \/ excused
            /\ q.adapter[1] \notin OcrEngines =>
                 /\ "role" \in DOMAIN KwargsOf(q.adapter)
                 /\ KwargsOf(q.adapter).role = "zero_shot"
            /\ IsFanout(q) /\ excused \in BOOLEAN
        BY <1>2, <4>1, <4>3 DEF IsFanout
      <4>. HIDE DEF excused
      <4>. QED  BY <4>4, RecognizerRuns
    <3>7. b = <<p, q, r, a>> \/ b = <<p, q, r>>
      BY <2>1 DEF Body
    <3>. HIDE DEF p, q, r, a, b, excused
    <3>8. \A n \in DOMAIN b : b[n] \in {p, q, r, a}
      BY <3>7
    <3>. QED  BY <1>6, <3>2, <3>3, <3>4, <3>5, <3>6, <3>8
  <2>2. CASE c.segmenter = None /\ c.mode \in {None, "zero_shot"}
    <3>. DEFINE s == IF c.mode = None THEN OcrStep(c, i) ELSE VlmStep(c, i)
                kw == IF c.mode = None THEN OcrKwargs(i) @@ WithAlto(c) @@ WithModel(c)
                                       ELSE LlmKwargs(c, i, "zero_shot")
    <3>1. kwargs = (<<c.engine, Suffix(i)>> :> kw) @@ NerKwargs(c, i)
      <4>1. CASE c.mode = None
        BY <2>2, <4>1 DEF PlansOf, OcrPlans, None
      <4>2. CASE c.mode = "zero_shot"
        BY <2>2, <4>2 DEF PlansOf, ZeroShotPlans, None
      <4>. QED  BY <2>2, <4>1, <4>2
    <3>2. KwargsOf(<<c.engine, Suffix(i)>>) = kw /\ NerFiled(c, i, kwargs)
      <4>1. c.engine # "remote_segmenter"
        BY <1>2, RunPlanningAssumption DEF Engines
      <4>. HIDE DEF kw
      <4>. QED  BY <1>2, <3>1, <4>1, PageKwargs DEF Kept
    <3>3. /\ "label" \in DOMAIN kw /\ kw.label = Suffix(i)
          /\ "model" \in DOMAIN kw <=> c.model
          /\ c.mode = None => ("alto" \in DOMAIN kw <=> c.alto)
          /\ c.mode = "zero_shot" => "role" \in DOMAIN kw /\ kw.role = "zero_shot"
      <4>1. CASE c.mode = None
        <5>1. kw = OcrKwargs(i) @@ WithAlto(c) @@ WithModel(c)
          BY <4>1
        <5>2. "alto" \notin DOMAIN WithModel(c) /\ "model" \notin DOMAIN WithAlto(c)
          BY DEF WithModel, WithAlto, NoKwargs
        <5>. HIDE DEF kw
        <5>. QED  BY <4>1, <5>1, <5>2, <1>3, <1>4 DEF OcrKwargs, @@, None
      <4>2. CASE c.mode = "zero_shot"
        <5>1. kw = LlmKwargs(c, i, "zero_shot")
          BY <4>2 DEF None
        <5>. HIDE DEF kw
        <5>. QED  BY <4>2, <5>1, <1>3 DEF LlmKwargs, @@, None
      <4>. QED  BY <2>2, <4>1, <4>2
    <3>4. /\ s.adapter = <<c.engine, Suffix(i)>> /\ s.ins = {"IMAGE"}
          /\ c.mode = None => s.outs = OcrOutputs(c)
          /\ c.mode = "zero_shot" => s.outs = {"RAW_TEXT"}
      BY DEF OcrStep, VlmStep, Step, None
    <3>5. /\ c.mode = None => c.engine \in OcrEngines
          /\ c.mode = "zero_shot" => c.engine \in VlmEngines
      BY <2>2, <1>1 DEF Accepted
    <3>6. b = <<s>>
      BY <2>2 DEF Body, None
    <3>. HIDE DEF s, kw, b
    <3>7. KwargsOf(s.adapter) = kw
      BY <3>2, <3>4
    <3>8. \/ s.outs = {"RAW_TEXT"}
          \/ /\ s.adapter[1] \in OcrEngines /\ "alto" \in DOMAIN KwargsOf(s.adapter)
             /\ s.outs = {"RAW_TEXT", "ALTO_XML"}
      BY <2>2, <3>3, <3>4, <3>5, <3>7 DEF OcrOutputs
    <3>9. s.adapter[1] \notin OcrEngines =>
            "role" \in DOMAIN KwargsOf(s.adapter) /\ KwargsOf(s.adapter).role = "zero_shot"
      BY <2>2, <3>3, <3>4, <3>5, <3>7
    <3>10. Runs(s, excused)
      <4>1. /\ s.adapter[1] \in Engines /\ s.ins \in {{"IMAGE"}, {"LAYOUT", "IMAGE"}}
            /\ "label" \in DOMAIN KwargsOf(s.adapter)
            /\ KwargsOf(s.adapter).label = s.adapter[2]
            /\ "model" \in DOMAIN KwargsOf(s.adapter) \/ excused
            /\ excused \in BOOLEAN
        BY <1>2, <3>3, <3>4, <3>7
      <4>. HIDE DEF excused
      <4>. QED  BY <4>1, <3>8, <3>9, RecognizerRuns
    <3>. QED  BY <3>2, <3>6, <3>10
  <2>3. CASE c.segmenter = None /\ c.mode \notin {None, "zero_shot"}
    <3>. DEFINE s == OcrStep(c, i)  l == LlmStep(c, i)
    <3>1. plan \in ChainPlans(c, i)
      BY <2>3 DEF PlansOf
    <3>2. /\ KwargsOf(<<c.engine, Suffix(i)>>) = OcrKwargs(i) @@ WithAlto(c)
          /\ KwargsOf(<<c.llm, Suffix(i)>>) = LlmKwargs(c, i, c.mode)
          /\ NerFiled(c, i, kwargs)
      <4>1. c.engine # "remote_segmenter" /\ c.llm # "remote_segmenter"
        BY <3>1, RunPlanningAssumption DEF ChainPlans
      <4>. QED  BY <3>1, <4>1, ChainKwargs DEF Kept
    <3>3. c.llm # None /\ c.engine \in OcrEngines
      BY <2>3, <1>1 DEF Accepted
    <3>4. Runs(l, TRUE)
      <4>1. l.adapter = <<c.llm, Suffix(i)>>
        BY DEF LlmStep, Step
      <4>. QED  BY <1>1, <2>3, <3>2, <4>1, CorrectorRuns
    <3>5. Runs(s, TRUE)
      <4>1. /\ s.adapter = <<c.engine, Suffix(i)>> /\ s.ins = {"IMAGE"} /\ s.outs = OcrOutputs(c)
        BY DEF OcrStep, Step
      <4>. DEFINE kw == KwargsOf(s.adapter)
      <4>2. kw = OcrKwargs(i) @@ WithAlto(c)
        BY <3>2, <4>1
      <4>. HIDE DEF kw, s
      <4>3. /\ "label" \in DOMAIN kw /\ kw.label = Suffix(i)
            /\ "alto" \in DOMAIN kw <=> c.alto
        BY <4>2, <1>4 DEF OcrKwargs, @@
      <4>4. s.outs = {"RAW_TEXT"} \/ ("alto" \in DOMAIN kw /\ s.outs = {"RAW_TEXT", "ALTO_XML"})
        BY <4>1, <4>3 DEF OcrOutputs
      <4>5. /\ s.adapter[1] \in OcrEngines /\ s.adapter[1] \in Engines
            /\ s.ins \in {{"IMAGE"}, {"LAYOUT", "IMAGE"}} /\ kw.label = s.adapter[2]
        BY <1>2, <3>3, <4>1, <4>3
      <4>6. \/ s.outs = {"RAW_TEXT"}
            \/ /\ s.adapter[1] \in OcrEngines /\ "alto" \in DOMAIN kw
               /\ s.outs = {"RAW_TEXT", "ALTO_XML"}
        BY <4>4, <4>5
      <4>. QED  BY <4>3, <4>5, <4>6, RecognizerRuns DEF kw
    <3>6. b = <<s, l>>
      BY <2>3 DEF Body
    <3>7. excused
      BY <3>3
    <3>. HIDE DEF s, l, b, excused
    <3>8. Runs(s, excused) /\ Runs(l, excused)
      BY <3>4, <3>5, <3>7, <1>5
    <3>. QED  BY <3>2, <3>6, <3>8
  <2>. QED  BY <2>1, <2>2, <2>3
<1>8. IsSteps(b)
  BY BodyIsSeq
<1>. HIDE DEF b, text, from, excused
<1>9. CASE ~c.ner
  <2>1. plan.steps = b
    BY <1>1, <1>8, <1>9 DEF NerSteps, IsSteps
  <2>2. \A n \in DOMAIN plan.steps : Runs(plan.steps[n], excused)
    BY <1>7, <2>1
  <2>. QED  BY Zenon, <2>2 DEF excused
<1>10. CASE c.ner
  <2>1. \/ plan.steps = b
        \/ \E ner : plan.steps = Append(b, ner) /\ Extracts(ner, i, text, from)
    <3>1. \/ b \o NerSteps(c, i, text, from) = b
          \/ \E ner : /\ b \o NerSteps(c, i, text, from) = Append(b, ner)
                      /\ Extracts(ner, i, text, from)
      BY <1>8, NerLast
    <3>. QED  BY <1>1, <3>1
  <2>2. KwargsOf(<<"ner", Suffix(i)>>) = [label |-> Suffix(i), model |-> TRUE]
    BY <1>7, <1>10 DEF NerFiled, Kept
  <2>3. ASSUME plan.steps = b
        PROVE  \A n \in DOMAIN plan.steps : Runs(plan.steps[n], excused)
    BY <1>7, <2>3
  <2>4. ASSUME NEW ner, plan.steps = Append(b, ner), Extracts(ner, i, text, from)
        PROVE  \A n \in DOMAIN plan.steps : Runs(plan.steps[n], excused)
    <3>1. \A n \in DOMAIN plan.steps : \/ n \in DOMAIN b /\ plan.steps[n] = b[n]
                                      \/ plan.steps[n] = ner
      BY <1>8, <2>4 DEF IsSteps
    <3>2. ner.adapter = <<"ner", Suffix(i)>>
      BY <2>4 DEF Extracts
    <3>3. KwargsOf(ner.adapter) = [label |-> Suffix(i), model |-> TRUE]
      BY <2>2, <3>2
    <3>4. /\ ner.adapter[1] \in LabelBuilt
          /\ "label" \in DOMAIN KwargsOf(ner.adapter)
          /\ KwargsOf(ner.adapter).label = ner.adapter[2]
      BY <3>2, <3>3 DEF LabelBuilt
    <3>5. Runs(ner, FALSE)
      BY <3>4, OwnModuleRuns
    <3>. QED  BY <1>6, <1>7, <3>1, <3>5
  <2>5. \A n \in DOMAIN plan.steps : Runs(plan.steps[n], excused)
    BY <2>1, <2>3, <2>4
  <2>. QED  BY Zenon, <2>5 DEF excused
<1>. QED  BY <1>9, <1>10

\* So does every step of a run of one pipeline, whose request may give no model.
LEMMA SingleRuns ==
  ASSUME NEW r \in Requests, NEW plan \in SinglePlans(r), adapterKwargs = plan.kwargs
  PROVE  \A n \in DOMAIN plan.steps : Runs(plan.steps[n], TRUE)
<1>. SUFFICES ASSUME NEW steps, steps = plan.steps
              PROVE  \A n \in DOMAIN steps : Runs(steps[n], TRUE)
  OBVIOUS
<1>1. \A s : Runs(s, FALSE) => Runs(s, TRUE)
  BY DEF Runs
<1>2. \A a : a \in DOMAIN plan.kwargs => KwargsOf(a) = plan.kwargs[a]
  BY DEF KwargsOf
\* The segmenter, with its endpoint.
<1>3. r.segmenter = "remote_segmenter" =>
        /\ <<r.segmenter, Shared>> \in DOMAIN SegmenterKwargs(r)
        /\ SegmenterKwargs(r)[<<r.segmenter, Shared>>] = [endpoint |-> r.endpoint]
  <2>. DEFINE g == <<r.segmenter, Shared>>
              kw == [endpoint |-> r.endpoint]
  <2>1. SegmenterKwargs(r) = IF r.segmenter = "remote_segmenter" THEN g :> kw ELSE <<>>
    BY DEF SegmenterKwargs
  <2>2. DOMAIN (g :> kw) = {g} /\ (g :> kw)[g] = kw
    BY PointReads
  <2>. HIDE DEF g, kw
  <2>3. r.segmenter = "remote_segmenter" =>
          g \in DOMAIN SegmenterKwargs(r) /\ SegmenterKwargs(r)[g] = kw
    BY <2>1, <2>2
  <2>. QED  BY <2>3 DEF g, kw
<1>4. CASE plan \in SegmentationPlans(r)
  <2>. DEFINE p == Step("seg", <<r.segmenter, Shared>>, {"IMAGE"}, {"LAYOUT"}, <<>>)
  <2>1. p.adapter = <<r.segmenter, Shared>>
    BY DEF Step
  <2>2. /\ r.segmenter \in Singletons /\ steps = <<p>> /\ plan.kwargs = SegmenterKwargs(r)
    BY <1>4 DEF SegmentationPlans, Singletons, Segmenters
  <2>. HIDE DEF p
  <2>3. r.segmenter = "remote_segmenter" =>
          KwargsOf(<<r.segmenter, Shared>>) = [endpoint |-> r.endpoint]
    BY <1>2, <1>3, <2>2
  <2>4. /\ p.adapter[1] \in Singletons /\ p.adapter[2] = Shared
        /\ p.adapter[1] = "remote_segmenter" => "endpoint" \in DOMAIN KwargsOf(p.adapter)
    BY <2>1, <2>2, <2>3
  <2>5. Runs(p, TRUE)
    BY Zenon, <1>1, <2>4, SharedRuns
  <2>6. \A n \in DOMAIN steps : steps[n] = p
    BY <2>2
  <2>. QED  BY <2>5, <2>6
<1>5. CASE plan \in HybridRunPlans(r)
  <2>. DEFINE p == Step("segment", <<r.segmenter, Shared>>, {"IMAGE"}, {"LAYOUT"}, <<>>)
              q == Step("recognize", <<r.ocr, Label>>, {"LAYOUT", "IMAGE"}, {"LAYOUT"},
                        "LAYOUT" :> "segment")
              a == Step("assemble", <<"alto_assembler", Shared>>, {"LAYOUT"}, {"ALTO_XML"},
                        "LAYOUT" :> "recognize")
              e == <<r.ocr, Label>>
              g == <<r.segmenter, Shared>>
              kw == RegionKwargs(r)
              one == e :> kw
  <2>1. /\ p.adapter = g /\ a.adapter = <<"alto_assembler", Shared>>
        /\ q.adapter = e /\ q.id = "recognize" /\ q.ins = {"LAYOUT", "IMAGE"}
    BY DEF Step
  <2>2. /\ r.segmenter \in Singletons /\ "alto_assembler" \in Singletons
        /\ r.ocr \in Engines \union {"precomputed_region"}
        /\ r.ocr \in OcrEngines \union VlmEngines \union {"precomputed_region"}
        /\ steps = <<p, q, a>> /\ plan.kwargs = one @@ SegmenterKwargs(r)
    BY <1>5 DEF HybridRunPlans, Singletons, Segmenters, Engines
  <2>3. DOMAIN one = {e} /\ one[e] = kw
    BY PointReads
  <2>4. g # e
    <3>1. r.segmenter # r.ocr
      BY <2>2, KindsAssumption DEF Singletons, Segmenters
    <3>. QED  BY <3>1
  <2>. HIDE DEF one, kw
  <2>5. /\ KwargsOf(e) = kw
        /\ r.segmenter = "remote_segmenter" => KwargsOf(g) = [endpoint |-> r.endpoint]
    <3>. HIDE DEF g, e
    <3>1. e \in DOMAIN plan.kwargs /\ plan.kwargs[e] = kw
      BY <2>2, <2>3, MergeReads
    <3>2. r.segmenter = "remote_segmenter" =>
            g \in DOMAIN plan.kwargs /\ plan.kwargs[g] = [endpoint |-> r.endpoint]
      BY <1>3, <2>2, <2>3, <2>4, MergeReads DEF g
    <3>. QED  BY <1>2, <3>1, <3>2
  <2>. HIDE DEF p, q, a
  <2>6. Runs(p, FALSE)
    <3>1. /\ p.adapter[1] \in Singletons /\ p.adapter[2] = Shared
          /\ p.adapter[1] = "remote_segmenter" => "endpoint" \in DOMAIN KwargsOf(p.adapter)
      BY <2>1, <2>2, <2>5
    <3>. QED  BY <3>1, SharedRuns
  <2>7. Runs(a, FALSE)
    <3>1. /\ a.adapter[1] \in Singletons /\ a.adapter[2] = Shared
          /\ a.adapter[1] # "remote_segmenter"
      BY <2>1, <2>2
    <3>. QED  BY <3>1, SharedRuns
  <2>8. Runs(q, TRUE)
    <3>1. CASE r.ocr = "precomputed_region"
      <4>1. kw = [source_label |-> Label]
        <5>1. r.ocr \notin VlmEngines
          BY <3>1, KindsAssumption DEF OwnModules, Engines
        <5>. QED  BY <3>1, <5>1 DEF kw, RegionKwargs
      <4>2. /\ q.adapter[1] = "precomputed_region" /\ q.adapter[2] = Label
            /\ "source_label" \in DOMAIN KwargsOf(q.adapter)
            /\ KwargsOf(q.adapter)["source_label"] = Label
        BY <3>1, <2>1, <2>5, <4>1
      <4>3. "precomputed_region" \in Labelled /\ ~IsLlm(q.adapter)
        BY <4>2, KindsAssumption DEF Labelled, OwnModules, IsLlm, Engines
      <4>4. LabelOf(q.adapter) = q.adapter[2]
        BY <4>2 DEF LabelOf
      <4>5. Builds(q.adapter) \/ (ModelLeftOut(q.adapter) /\ TRUE)
        BY <4>2, <4>3, <4>4, LabelledBuilds
      <4>6. Reads(q.adapter) = {"IMAGE"} /\ "RAW_TEXT" \in Makes(q.adapter)
        BY <4>3 DEF Reads, Makes
      <4>. QED  BY <2>1, <4>5, <4>6 DEF Runs, IsFanout
    <3>2. CASE r.ocr # "precomputed_region"
      <4>1. /\ "label" \in DOMAIN kw /\ kw.label = Label
            /\ r.ocr \notin OcrEngines => "role" \in DOMAIN kw /\ kw.role = "zero_shot"
        <5>1. CASE r.ocr \in VlmEngines
          BY <3>2, <5>1 DEF kw, RegionKwargs, @@
        <5>2. CASE r.ocr \notin VlmEngines
          BY <2>2, <3>2, <5>2 DEF kw, RegionKwargs, @@
        <5>. QED  BY <5>1, <5>2
      <4>2. KwargsOf(q.adapter) = kw
        BY <2>1, <2>5
      <4>3. /\ q.adapter[1] \in Engines /\ q.ins \in {{"IMAGE"}, {"LAYOUT", "IMAGE"}}
            /\ "label" \in DOMAIN KwargsOf(q.adapter)
            /\ KwargsOf(q.adapter).label = q.adapter[2]
            /\ q.adapter[1] \notin OcrEngines =>
                 /\ "role" \in DOMAIN KwargsOf(q.adapter)
                 /\ KwargsOf(q.adapter).role = "zero_shot"
            /\ IsFanout(q)
        BY <2>1, <2>2, <3>2, <4>1, <4>2 DEF IsFanout
      <4>. QED  BY <4>3, RecognizerRuns
    <3>. QED  BY <3>1, <3>2
  <2>9. Runs(p, TRUE) /\ Runs(q, TRUE) /\ Runs(a, TRUE)
    BY Zenon, <1>1, <2>6, <2>7, <2>8
  <2>10. \A n \in DOMAIN steps : steps[n] \in {p, q, a}
    BY <2>2
  <2>. QED  BY <2>9, <2>10
<1>6. CASE plan \in CorrectionPlans(r)
  <2>. DEFINE p == Step("source", <<"alto_source", Shared>>, {"IMAGE"}, {"LAYOUT"},
                        "IMAGE" :> "__initial__")
              q == Step("brut", <<"layout_to_text", Label>>, {"LAYOUT"}, {"RAW_TEXT"},
                        "LAYOUT" :> "source")
              a == Step("corr", <<"saknussemm", Label>>, {"LAYOUT"},
                        {"LAYOUT", "CORRECTED_TEXT", "DECISIONS"}, "LAYOUT" :> "source")
              w == <<"layout_to_text", Label>>
              k == <<"saknussemm", Label>>
              tkw == [label |-> Label]
              kw == [label |-> Label, producer |-> r.producer] @@ WithModel(r)
              text == w :> tkw
              corr == k :> kw
  <2>1. /\ p.adapter = <<"alto_source", Shared>> /\ q.adapter = w /\ a.adapter = k
    BY DEF Step
  <2>2. /\ steps = <<p, q, a>> /\ plan.kwargs = text @@ corr
        /\ r.producer = "rules" \/ (r.producer = "ollama" /\ r.model)
    BY <1>6 DEF CorrectionPlans, CorrectionSteps
  <2>3. DOMAIN text = {w} /\ text[w] = tkw /\ DOMAIN corr = {k} /\ corr[k] = kw /\ k # w
    BY PointReads
  <2>. HIDE DEF p, q, a, text, corr
  <2>4. /\ "label" \in DOMAIN kw /\ kw.label = Label /\ kw.producer = r.producer
        /\ r.model => "model" \in DOMAIN kw
    <3>1. r.model => "model" \in DOMAIN WithModel(r)
      BY DEF WithModel
    <3>. QED  BY <3>1 DEF @@
  <2>. HIDE DEF kw, k, w, tkw
  <2>5. KwargsOf(w) = tkw /\ KwargsOf(k) = kw
    <3>1. /\ w \in DOMAIN plan.kwargs /\ plan.kwargs[w] = tkw
          /\ k \in DOMAIN plan.kwargs /\ plan.kwargs[k] = kw
      BY <2>2, <2>3, MergeReads
    <3>. QED  BY <1>2, <3>1
  <2>6. Runs(p, FALSE)
    <3>1. /\ p.adapter[1] \in Singletons /\ p.adapter[2] = Shared
          /\ p.adapter[1] # "remote_segmenter"
      BY <2>1 DEF Singletons
    <3>. QED  BY <3>1, SharedRuns
  <2>7. Runs(q, FALSE)
    <3>1. q.adapter[1] = "layout_to_text" /\ q.adapter[2] = Label /\ KwargsOf(q.adapter) = tkw
      BY <2>1, <2>5 DEF w
    <3>2. /\ q.adapter[1] \in LabelBuilt /\ "label" \in DOMAIN KwargsOf(q.adapter)
          /\ KwargsOf(q.adapter).label = q.adapter[2]
      BY <3>1 DEF LabelBuilt, tkw
    <3>. QED  BY <3>2, OwnModuleRuns
  <2>8. Runs(a, TRUE)
    <3>1. a.adapter[1] = "saknussemm" /\ a.adapter[2] = Label /\ KwargsOf(a.adapter) = kw
      BY <2>1, <2>5 DEF k
    <3>2. /\ a.adapter[1] \in Labelled /\ a.adapter[1] # "precomputed_region"
          /\ ~IsReader(a)
      BY <3>1, KindsAssumption DEF Labelled, OwnModules, IsReader
    <3>3. LabelOf(a.adapter) = a.adapter[2]
      BY <2>4, <3>1, <3>2 DEF LabelOf
    <3>4. a.adapter[1] = "saknussemm" /\ KwargsOf(a.adapter).producer = "ollama" =>
            "model" \in DOMAIN KwargsOf(a.adapter)
      BY <2>2, <2>4, <3>1
    <3>5. Builds(a.adapter) \/ (ModelLeftOut(a.adapter) /\ TRUE)
      BY <3>2, <3>3, <3>4, LabelledBuilds
    <3>. QED  BY <3>2, <3>5 DEF Runs
  <2>9. Runs(p, TRUE) /\ Runs(q, TRUE) /\ Runs(a, TRUE)
    BY Zenon, <1>1, <2>6, <2>7, <2>8
  <2>10. \A n \in DOMAIN steps : steps[n] \in {p, q, a}
    BY <2>2
  <2>. QED  BY <2>9, <2>10
<1>. QED  BY <1>4, <1>5, <1>6 DEF SinglePlans, Requests

-----------------------------------------------------------------------------
(* The invariant.                                                          *)

\* What a pipeline can be: a name and the steps of some plan.
AnyPlans ==
  (UNION {PlansOf(c, i) : c \in Competitors, i \in Nat})
    \union (UNION {SinglePlans(r) : r \in Requests})
PlannedPipelines ==
  {[name |-> <<plan.base, n>>, steps |-> plan.steps] : plan \in AnyPlans, n \in Nat}

\* A competitor has the pipeline of its rank; a run of one pipeline has none.
PlanTyped ==
  /\ competitors \in Seq(Competitors)
  /\ pipelines \in Seq(PlannedPipelines)
  /\ IF competitors = <<>> THEN status = "planning" => pipelines = <<>>
                           ELSE Len(pipelines) = Len(competitors)

\* The pipelines of a base name; their numbers do not exceed how many they are,
\* so that the next number is new.
Bearers(base) == {k \in DOMAIN pipelines : pipelines[k].name[1] = base}
NumbersAreCounted ==
  /\ \A k \in DOMAIN pipelines :
       pipelines[k].name[2] <= Cardinality(Bearers(pipelines[k].name[1]))
  /\ \A j, k \in DOMAIN pipelines : pipelines[j].name = pipelines[k].name => j = k

\* The parameters of each reader are filed, and are those of its competitor.
ReadersAreFiled ==
  \A k \in DOMAIN competitors : LET c == competitors[k] IN
    /\ ModelReader(c) \in Engines
    /\ Reader(c, k - 1) \in DOMAIN adapterKwargs
    /\ TellsModel(adapterKwargs[Reader(c, k - 1)], c)

\* The pipeline of a competitor has the steps of its plan.
StepsArePlanned ==
  \A k \in DOMAIN competitors :
    \E plan \in PlansOf(competitors[k], k - 1) : pipelines[k].steps = plan.steps

PlanInv == PlanTyped /\ NumbersAreCounted /\ ReadersAreFiled /\ StepsArePlanned

\* The bearers of a name are finitely many.
LEMMA BearersFinite ==
  ASSUME PlanTyped, NEW base
  PROVE  IsFiniteSet(Bearers(base)) /\ Cardinality(Bearers(base)) \in Nat
<1>1. DOMAIN pipelines = 1..Len(pipelines) /\ Len(pipelines) \in Nat
  BY DEF PlanTyped
<1>2. IsFiniteSet(DOMAIN pipelines)
  BY <1>1, FS_Interval
<1>3. Bearers(base) \subseteq DOMAIN pipelines
  BY DEF Bearers
<1>. QED  BY <1>2, <1>3, FS_Subset, FS_CardinalityType

\* The steps of a plan become a pipeline.
LEMMA PlanPipeline ==
  ASSUME NEW plan \in AnyPlans, NEW n \in Nat
  PROVE  /\ [name |-> <<plan.base, n>>, steps |-> plan.steps] \in PlannedPipelines
  BY DEF PlannedPipelines

\* Nothing is planned at the beginning.
LEMMA PlanInv_init == Init => PlanInv
  BY DEF Init, PlanInv, PlanTyped, NumbersAreCounted, ReadersAreFiled, StepsArePlanned

\* The number of a new pipeline is one more than the bearers of its base name.
LEMMA OccurrenceCounts ==
  ASSUME NEW base
  PROVE  Occurrence(base) = 1 + Cardinality(Bearers(base))
  BY Zenon DEF Occurrence, Bearers

\* The pipeline of a new competitor is numbered past those of its base name.
LEMMA NumbersAreCounted_step ==
  ASSUME PlanInv, NEW base, NEW steps,
         pipelines' = Append(pipelines, [name |-> <<base, Occurrence(base)>>, steps |-> steps])
  PROVE  NumbersAreCounted'
<1>. DEFINE n   == Len(pipelines)
            new == [name |-> <<base, Occurrence(base)>>, steps |-> steps]
            After(b) == {k \in DOMAIN pipelines' : pipelines'[k].name[1] = b}
<1>1. n \in Nat /\ DOMAIN pipelines = 1..n /\ DOMAIN pipelines' = 1..(n + 1)
  BY DEF PlanInv, PlanTyped
<1>2. (\A k \in 1..n : pipelines'[k] = pipelines[k]) /\ pipelines'[n + 1] = new
  BY <1>1 DEF PlanInv, PlanTyped
<1>3. \A b : /\ IsFiniteSet(Bearers(b)) /\ Cardinality(Bearers(b)) \in Nat
  BY BearersFinite DEF PlanInv
<1>4. Occurrence(base) = Cardinality(Bearers(base)) + 1
  BY <1>3, OccurrenceCounts
<1>5. \A k \in 1..n : pipelines[k].name[2] \in Nat
  BY <1>1 DEF PlanInv, PlanTyped, PlannedPipelines
<1>6. After(base) = Bearers(base) \union {n + 1}
      /\ Cardinality(After(base)) = Cardinality(Bearers(base)) + 1
  <2>1. After(base) = Bearers(base) \union {n + 1} /\ n + 1 \notin Bearers(base)
    BY <1>1, <1>2 DEF Bearers
  <2>. QED  BY <2>1, <1>3, FS_AddElement
<1>7. ASSUME NEW b, b # base
      PROVE  After(b) = Bearers(b)
  BY <1>1, <1>2, <1>7 DEF Bearers
<1>. HIDE DEF After
<1>8. \A k \in DOMAIN pipelines' :
        pipelines'[k].name[2] <= Cardinality(After(pipelines'[k].name[1]))
  <2>1. SUFFICES ASSUME NEW k \in 1..(n + 1)
                 PROVE  pipelines'[k].name[2] <= Cardinality(After(pipelines'[k].name[1]))
    BY <1>1
  <2>2. CASE k = n + 1
    <3>1. new.name[1] = base /\ new.name[2] = Occurrence(base)
      OBVIOUS
    <3>2. Occurrence(base) <= Cardinality(After(base))
      BY <1>3, <1>4, <1>6
    <3>3. pipelines'[k] = new
      BY <2>2, <1>2
    <3>4. pipelines'[k].name[1] = base /\ pipelines'[k].name[2] = Occurrence(base)
      BY <3>1, <3>3
    <3>. QED  BY Zenon, <3>2, <3>4
  <2>3. CASE k \in 1..n /\ pipelines[k].name[1] = base
    <3>1. pipelines[k].name[2] <= Cardinality(Bearers(base))
      BY <2>3, <1>1 DEF PlanInv, NumbersAreCounted
    <3>2. pipelines[k].name[2] \in Nat
      BY <2>3, <1>5
    <3>3. pipelines[k].name[2] <= Cardinality(After(base))
      BY <3>1, <3>2, <1>3, <1>6
    <3>4. pipelines'[k] = pipelines[k]
      BY <2>3, <1>2
    <3>. QED  BY Zenon, <2>3, <3>3, <3>4
  <2>4. CASE k \in 1..n /\ pipelines[k].name[1] # base
    <3>1. pipelines[k].name[2] <= Cardinality(Bearers(pipelines[k].name[1]))
      BY <2>4, <1>1 DEF PlanInv, NumbersAreCounted
    <3>. QED  BY <2>4, <3>1, <1>2, <1>7
  <2>. QED  BY <2>2, <2>3, <2>4, <1>1
<1>9. \A k \in 1..n : pipelines[k].name # new.name
  <2>1. SUFFICES ASSUME NEW k \in 1..n, pipelines[k].name = new.name
                 PROVE  FALSE
    OBVIOUS
  <2>2. pipelines[k].name[1] = base /\ pipelines[k].name[2] = Occurrence(base)
    BY <2>1
  <2>3. pipelines[k].name[2] <= Cardinality(Bearers(base))
    BY <2>2, <1>1 DEF PlanInv, NumbersAreCounted
  <2>. QED  BY <2>2, <2>3, <1>3, <1>4
<1>10. \A j, k \in 1..n : pipelines[j].name = pipelines[k].name => j = k
  BY <1>1 DEF PlanInv, NumbersAreCounted
<1>11. \A j, k \in DOMAIN pipelines' : pipelines'[j].name = pipelines'[k].name => j = k
  <2>1. SUFFICES ASSUME NEW j \in 1..(n + 1), NEW k \in 1..(n + 1),
                        pipelines'[j].name = pipelines'[k].name
                 PROVE  j = k
    BY <1>1
  <2>2. CASE j \in 1..n /\ k \in 1..n
    BY <2>1, <2>2, <1>2, <1>10
  <2>3. CASE j = n + 1 /\ k \in 1..n
    BY <2>1, <2>3, <1>2, <1>9
  <2>4. CASE j \in 1..n /\ k = n + 1
    BY <2>1, <2>4, <1>2, <1>9
  <2>. QED  BY <2>2, <2>3, <2>4, <1>1
<1>. QED  BY <1>8, <1>11 DEF NumbersAreCounted, Bearers, After

\* The parameters of a new competitor are added to the table and hide none of
\* those of the readers before it.
LEMMA ReadersAreFiled_step ==
  ASSUME PlanInv, NEW c \in Competitors, NEW plan \in PlansOf(c, Len(competitors)),
         competitors' = Append(competitors, c),
         adapterKwargs' = plan.kwargs @@ adapterKwargs
  PROVE  ReadersAreFiled'
<1>. DEFINE n == Len(competitors)
<1>1. n \in Nat /\ DOMAIN competitors = 1..n /\ DOMAIN competitors' = 1..(n + 1)
  BY DEF PlanInv, PlanTyped
<1>2. (\A k \in 1..n : competitors'[k] = competitors[k]) /\ competitors'[n + 1] = c
  BY <1>1 DEF PlanInv, PlanTyped
<1>3. /\ Reader(c, n) \in DOMAIN plan.kwargs
      /\ TellsModel(plan.kwargs[Reader(c, n)], c)
      /\ OwnKeys(plan.kwargs, n)
      /\ ModelReader(c) \in Engines
  BY <1>1, PlanFacts
<1>. SUFFICES ASSUME NEW k \in 1..(n + 1)
              PROVE  /\ ModelReader(competitors'[k]) \in Engines
                     /\ Reader(competitors'[k], k - 1) \in DOMAIN adapterKwargs'
                     /\ TellsModel(adapterKwargs'[Reader(competitors'[k], k - 1)],
                                   competitors'[k])
  BY <1>1 DEF ReadersAreFiled, Reader, Suffix, TellsModel, ModelReader, Engines
<1>4. CASE k = n + 1
  <2>1. competitors'[k] = c /\ k - 1 = n
    BY <1>4, <1>1, <1>2
  <2>2. Reader(c, n) \in DOMAIN adapterKwargs'
        /\ adapterKwargs'[Reader(c, n)] = plan.kwargs[Reader(c, n)]
    BY <1>3 DEF @@
  <2>. QED  BY <2>1, <2>2, <1>3
<1>5. CASE k \in 1..n
  <2>. DEFINE d == competitors[k]
  <2>1. competitors'[k] = d
    BY <1>5, <1>2
  <2>2. /\ ModelReader(d) \in Engines
        /\ Reader(d, k - 1) \in DOMAIN adapterKwargs
        /\ TellsModel(adapterKwargs[Reader(d, k - 1)], d)
    BY <1>5, <1>1 DEF PlanInv, ReadersAreFiled
  <2>3. Reader(d, k - 1) \notin DOMAIN plan.kwargs
    <3>1. ModelReader(d) # "remote_segmenter"
      BY <2>2, RunPlanningAssumption DEF Engines
    <3>2. Suffix(k - 1) # Suffix(n)
      BY <1>5, <1>1 DEF Suffix
    <3>. QED  BY <3>1, <3>2, <1>3 DEF OwnKeys, Reader
  <2>4. Reader(d, k - 1) \in DOMAIN adapterKwargs'
        /\ adapterKwargs'[Reader(d, k - 1)] = adapterKwargs[Reader(d, k - 1)]
    BY <2>2, <2>3 DEF @@
  <2>. QED  BY <2>1, <2>2, <2>4
<1>. QED  BY <1>4, <1>5, <1>1

\* A planning that ends leaves its pipelines as they are.
LEMMA PlanInv_ended ==
  ASSUME PlanInv, UNCHANGED <<competitors, pipelines, adapterKwargs>>, status' # "planning"
  PROVE  PlanInv'
<1>1. PlanTyped'
  BY DEF PlanInv, PlanTyped
<1>2. NumbersAreCounted'
  BY DEF PlanInv, NumbersAreCounted, Bearers
<1>3. ReadersAreFiled'
  BY DEF PlanInv, ReadersAreFiled, Reader, Suffix, TellsModel, ModelReader, Engines
<1>4. StepsArePlanned'
  BY DEF PlanInv, StepsArePlanned
<1>. QED  BY <1>1, <1>2, <1>3, <1>4 DEF PlanInv

\* Every step of a planning preserves the invariant.
LEMMA PlanInv_step == PlanInv /\ [AnyRunNext]_vars => PlanInv'
<1>. SUFFICES ASSUME PlanInv, [AnyRunNext]_vars PROVE PlanInv'
  OBVIOUS
<1>1. ASSUME NEW c \in Competitors, AddCompetitor(c) PROVE PlanInv'
  <2>1. CASE PlansOf(c, Len(pipelines)) = {}
    <3>1. UNCHANGED <<competitors, pipelines, adapterKwargs>> /\ status' # "planning"
      BY <1>1, <2>1 DEF AddCompetitor
    <3>. QED  BY <3>1, PlanInv_ended
  <2>2. CASE PlansOf(c, Len(pipelines)) # {}
    <3>1. PICK plan \in PlansOf(c, Len(pipelines)) :
            /\ competitors' = Append(competitors, c)
            /\ pipelines' = Append(pipelines,
                 [name |-> <<plan.base, Occurrence(plan.base)>>, steps |-> plan.steps])
            /\ adapterKwargs' = plan.kwargs @@ adapterKwargs
            /\ status' = status
      BY <1>1, <2>2 DEF AddCompetitor, Update
    <3>2. Len(pipelines) = Len(competitors) /\ Len(pipelines) \in Nat
      BY <1>1 DEF AddCompetitor, PlanInv, PlanTyped
    <3>3. PlanTyped'
      <4>1. plan \in AnyPlans
        BY <3>2 DEF AnyPlans
      <4>2. Occurrence(plan.base) \in Nat
        BY BearersFinite, OccurrenceCounts DEF PlanInv
      <4>3. [name |-> <<plan.base, Occurrence(plan.base)>>, steps |-> plan.steps]
              \in PlannedPipelines
        BY <4>1, <4>2, PlanPipeline
      <4>. HIDE DEF PlannedPipelines
      <4>4. competitors' \in Seq(Competitors) /\ competitors' # <<>>
        BY <3>1 DEF PlanTyped, PlanInv
      <4>5. pipelines' \in Seq(PlannedPipelines)
        BY <3>1, <4>3 DEF PlanTyped, PlanInv
      <4>6. Len(pipelines') = Len(competitors')
        BY <3>1, <3>2 DEF PlanTyped, PlanInv
      <4>. QED  BY <4>4, <4>5, <4>6 DEF PlanTyped
    <3>4. NumbersAreCounted'
      BY <3>1, NumbersAreCounted_step
    <3>5. ReadersAreFiled'
      BY <3>1, <3>2, ReadersAreFiled_step
    <3>6. StepsArePlanned'
      <4>1. Len(competitors) \in Nat /\ DOMAIN competitors = 1..Len(competitors)
            /\ DOMAIN competitors' = 1..(Len(competitors) + 1)
        BY <3>1 DEF PlanInv, PlanTyped
      <4>2. \A k \in DOMAIN competitors : /\ competitors'[k] = competitors[k]
                                          /\ pipelines'[k] = pipelines[k]
        BY <3>1, <3>2, <4>1 DEF PlanInv, PlanTyped
      <4>3. /\ competitors'[Len(competitors) + 1] = c
            /\ pipelines'[Len(competitors) + 1].steps = plan.steps
        <5>. DEFINE new == [name |-> <<plan.base, Occurrence(plan.base)>>, steps |-> plan.steps]
        <5>1. new.steps = plan.steps
          OBVIOUS
        <5>. HIDE DEF new
        <5>2. pipelines'[Len(pipelines) + 1] = new
          BY <3>1, <3>2 DEF new, PlanInv, PlanTyped
        <5>. QED  BY <3>1, <3>2, <5>1, <5>2 DEF PlanInv, PlanTyped
      <4>4. \A k \in DOMAIN competitors' :
              \E p \in PlansOf(competitors'[k], k - 1) : pipelines'[k].steps = p.steps
        <5>1. SUFFICES ASSUME NEW k \in 1..(Len(competitors) + 1)
                       PROVE  \E p \in PlansOf(competitors'[k], k - 1) :
                                pipelines'[k].steps = p.steps
          BY <4>1
        <5>2. CASE k \in DOMAIN competitors
          BY <5>2, <4>2 DEF PlanInv, StepsArePlanned
        <5>3. CASE k = Len(competitors) + 1
          <6>1. plan \in PlansOf(competitors'[k], k - 1)
            <7>1. k - 1 = Len(pipelines)
              BY <5>3, <3>2
            <7>. QED  BY <5>3, <4>3, <7>1
          <6>. QED  BY <5>3, <4>3, <6>1
        <5>. QED  BY <5>2, <5>3, <4>1
      <4>. QED  BY <4>4 DEF StepsArePlanned
    <3>. QED  BY <3>3, <3>4, <3>5, <3>6 DEF PlanInv
  <2>. QED  BY <2>1, <2>2
<1>2. CASE Finish
  BY <1>2, PlanInv_ended DEF Finish
<1>3. ASSUME NEW r \in Requests, PlanSingle(r) PROVE PlanInv'
  <2>1. competitors = <<>> /\ competitors' = <<>> /\ status' # "planning"
    BY <1>3 DEF PlanSingle, PlanInv, PlanTyped
  <2>2. CASE SinglePlans(r) = {}
    BY <1>3, <2>1, <2>2 DEF PlanSingle, PlanInv, PlanTyped, NumbersAreCounted, Bearers,
                            ReadersAreFiled, StepsArePlanned
  <2>3. CASE SinglePlans(r) # {}
    <3>1. PICK plan \in SinglePlans(r) :
            pipelines' = <<[name |-> <<plan.base, 1>>, steps |-> plan.steps]>>
      BY <1>3, <2>3 DEF PlanSingle
    <3>2. PlanTyped'
      <4>1. [name |-> <<plan.base, 1>>, steps |-> plan.steps] \in PlannedPipelines
        <5>1. SinglePlans(r) \in {SinglePlans(q) : q \in Requests}
          BY <1>3
        <5>2. plan \in AnyPlans
          BY <5>1 DEF AnyPlans
        <5>. QED  BY <5>2, PlanPipeline
      <4>. QED  BY <2>1, <3>1, <4>1 DEF PlanTyped
    <3>3. NumbersAreCounted'
      <4>1. DOMAIN pipelines' = {1} /\ pipelines'[1].name = <<plan.base, 1>>
        BY <3>1
      <4>2. Bearers(plan.base)' = {1}
        BY <4>1 DEF Bearers
      <4>3. Cardinality(Bearers(plan.base)') = 1
        BY <4>2, FS_Singleton
      <4>. QED  BY <4>1, <4>3 DEF NumbersAreCounted, Bearers
    <3>4. ReadersAreFiled'
      BY <2>1 DEF ReadersAreFiled
    <3>5. StepsArePlanned'
      BY <2>1 DEF StepsArePlanned
    <3>. QED  BY <3>2, <3>3, <3>4, <3>5 DEF PlanInv
  <2>. QED  BY <2>2, <2>3
<1>4. CASE UNCHANGED vars
  BY <1>4 DEF vars, PlanInv, PlanTyped, NumbersAreCounted, Bearers,
              ReadersAreFiled, StepsArePlanned, Reader, Suffix, TellsModel,
              ModelReader, Engines
<1>. QED  BY <1>1, <1>2, <1>3, <1>4 DEF AnyRunNext, Next

-----------------------------------------------------------------------------
(* The parameters of the plans, in the table they are merged in.           *)

\* A plan that files parameters of a remote segmenter files its endpoint.
EndpointIn(kwargs) ==
  \A a \in DOMAIN kwargs : a[1] = "remote_segmenter" => "endpoint" \in DOMAIN kwargs[a]

\* The endpoint stays in a merge.
LEMMA EndpointMerge ==
  ASSUME NEW f, NEW g, EndpointIn(f), EndpointIn(g)
  PROVE  EndpointIn(f @@ g)
  BY DEF EndpointIn, @@

\* It is in the parameters of one module, if they are not of a remote segmenter
\* or hold it.
LEMMA EndpointPoint ==
  ASSUME NEW k, NEW v, k[1] # "remote_segmenter" \/ "endpoint" \in DOMAIN v
  PROVE  EndpointIn(k :> v)
  BY DEF EndpointIn, :>

\* Every plan files the endpoint of its remote segmenter.
LEMMA PlanEndpoint ==
  ASSUME NEW c \in Competitors, NEW i \in Nat, NEW plan \in PlansOf(c, i)
  PROVE  EndpointIn(plan.kwargs)
<1>1. Accepted(c)
  BY PlanShape
<1>2. /\ c.engine # "remote_segmenter"
      /\ c.llm \in Engines => c.llm # "remote_segmenter"
  BY <1>1, RunPlanningAssumption DEF Accepted, Engines
<1>3. EndpointIn(<<>>)
  BY DEF EndpointIn
<1>4. EndpointIn(NerKwargs(c, i))
  <2>. DEFINE n == <<"ner", Suffix(i)>>
              kw == [label |-> Suffix(i), model |-> TRUE]
  <2>1. n[1] # "remote_segmenter"
    OBVIOUS
  <2>2. NerKwargs(c, i) = IF c.ner THEN n :> kw ELSE <<>>
    BY DEF NerKwargs
  <2>. HIDE DEF n, kw
  <2>3. EndpointIn(n :> kw)
    BY <2>1, EndpointPoint
  <2>. QED  BY <1>3, <2>2, <2>3
<1>. DEFINE e == <<c.engine, Suffix(i)>>  l == <<c.llm, Suffix(i)>>
            w == <<"layout_to_text", Suffix(i)>>  g == <<c.segmenter, Shared>>
<1>5. e[1] # "remote_segmenter" /\ w[1] # "remote_segmenter"
      /\ (c.llm \in Engines => l[1] # "remote_segmenter")
  BY <1>2
<1>. HIDE DEF e, l, w, g
<1>6. \A kw : /\ EndpointIn(e :> kw) /\ EndpointIn(w :> kw)
              /\ c.llm \in Engines => EndpointIn(l :> kw)
  BY <1>5, EndpointPoint
<1>7. CASE plan \in HybridPlans(c, i)
  <2>. DEFINE mine == e :> RecognizerKwargs(c, i)
              text == w :> [label |-> Suffix(i)]
              ekw  == [endpoint |-> c.endpoint]
              seg  == IF c.segmenter = "remote_segmenter" THEN g :> ekw ELSE <<>>
  <2>1. plan.kwargs = ((mine @@ text) @@ seg) @@ NerKwargs(c, i)
    BY <1>7 DEF HybridPlans, e, w, g
  <2>2. EndpointIn(seg)
    <3>1. "endpoint" \in DOMAIN ekw
      OBVIOUS
    <3>. HIDE DEF ekw
    <3>2. EndpointIn(g :> ekw)
      BY <3>1, EndpointPoint
    <3>. QED  BY <1>3, <3>2
  <2>3. EndpointIn(mine) /\ EndpointIn(text)
    BY <1>6
  <2>. HIDE DEF mine, text, seg
  <2>4. EndpointIn(mine @@ text)
    BY <2>3, EndpointMerge
  <2>5. EndpointIn((mine @@ text) @@ seg)
    BY <2>2, <2>4, EndpointMerge
  <2>. QED  BY <1>4, <2>1, <2>5, EndpointMerge
<1>8. ASSUME NEW kw, plan.kwargs = (e :> kw) @@ NerKwargs(c, i)
      PROVE  EndpointIn(plan.kwargs)
  BY <1>4, <1>6, <1>8, EndpointMerge
<1>9. CASE plan \in OcrPlans(c, i)
  BY <1>8, <1>9 DEF OcrPlans, e
<1>10. CASE plan \in ZeroShotPlans(c, i)
  BY <1>8, <1>10 DEF ZeroShotPlans, e
<1>11. CASE plan \in ChainPlans(c, i)
  <2>. DEFINE mine == l :> LlmKwargs(c, i, c.mode)
              ocr  == e :> (OcrKwargs(i) @@ WithAlto(c))
  <2>1. plan.kwargs = (mine @@ ocr) @@ NerKwargs(c, i) /\ c.llm \in Engines
    BY <1>11 DEF ChainPlans, e, l, Engines
  <2>2. EndpointIn(mine) /\ EndpointIn(ocr)
    BY <1>6, <2>1
  <2>. HIDE DEF mine, ocr
  <2>3. EndpointIn(mine @@ ocr)
    BY <2>2, EndpointMerge
  <2>. QED  BY <1>4, <2>1, <2>3, EndpointMerge
<1>. QED  BY <1>7, <1>9, <1>10, <1>11 DEF PlansOf

\* The parameters that the plan of each pipeline files are in the table: those
\* of the later competitors hide none of them, but the endpoint of a segmenter
\* by another endpoint.  A run of one pipeline has the table of its plan.
KwargsInv ==
  /\ \A k \in DOMAIN competitors : \E plan \in PlansOf(competitors[k], k - 1) :
       pipelines[k].steps = plan.steps /\ Kept(plan.kwargs)
  /\ competitors = <<>> /\ pipelines # <<>> =>
       \E r \in Requests : \E plan \in SinglePlans(r) :
         /\ \A k \in DOMAIN pipelines : pipelines[k].steps = plan.steps
         /\ adapterKwargs = plan.kwargs

\* A planning that leaves its pipelines leaves their parameters.
LEMMA KwargsInv_ended ==
  ASSUME KwargsInv, UNCHANGED <<competitors, pipelines, adapterKwargs>>
  PROVE  KwargsInv'
  BY DEF KwargsInv, Kept, KwargsOf

\* A new competitor hides none of the parameters of those before it.
LEMMA KwargsInv_add ==
  ASSUME PlanInv, KwargsInv, NEW c \in Competitors,
         NEW plan \in PlansOf(c, Len(competitors)), NEW pipeline, pipeline.steps = plan.steps,
         Len(pipelines) = Len(competitors),
         competitors' = Append(competitors, c),
         pipelines' = Append(pipelines, pipeline),
         adapterKwargs' = plan.kwargs @@ adapterKwargs
  PROVE  KwargsInv'
<1>. DEFINE n == Len(competitors)
<1>1. n \in Nat /\ DOMAIN competitors = 1..n /\ DOMAIN competitors' = 1..(n + 1)
  BY DEF PlanInv, PlanTyped
<1>2. /\ \A k \in 1..n : competitors'[k] = competitors[k] /\ pipelines'[k] = pipelines[k]
      /\ competitors'[n + 1] = c /\ pipelines'[n + 1] = pipeline
  BY <1>1 DEF PlanInv, PlanTyped
<1>3. EndpointIn(plan.kwargs) /\ OwnKeys(plan.kwargs, n)
  BY <1>1, PlanEndpoint, PlanFacts
<1>4. /\ \A a \in DOMAIN plan.kwargs : KwargsOf(a)' = plan.kwargs[a]
      /\ \A a : a \notin DOMAIN plan.kwargs => KwargsOf(a)' = KwargsOf(a)
  BY MergeReads DEF KwargsOf, @@
<1>. HIDE DEF n
<1>5. Kept(plan.kwargs)'
  BY <1>3, <1>4 DEF Kept, EndpointIn
<1>6. ASSUME NEW k \in 1..n, NEW p \in PlansOf(competitors[k], k - 1), Kept(p.kwargs)
      PROVE  Kept(p.kwargs)'
  <2>1. competitors[k] \in Competitors /\ k - 1 \in Nat
    BY <1>1 DEF PlanInv, PlanTyped
  <2>2. OwnKeys(p.kwargs, k - 1)
    BY <2>1, PlanFacts
  <2>3. Suffix(k - 1) # Suffix(n)
    BY <1>1 DEF Suffix
  <2>4. ASSUME NEW a \in DOMAIN p.kwargs
        PROVE  IF a[1] = "remote_segmenter" THEN "endpoint" \in DOMAIN KwargsOf(a)'
                                            ELSE KwargsOf(a)' = p.kwargs[a]
    <3>1. IF a[1] = "remote_segmenter" THEN "endpoint" \in DOMAIN KwargsOf(a)
                                       ELSE KwargsOf(a) = p.kwargs[a]
      BY <1>6 DEF Kept
    <3>2. CASE a \in DOMAIN plan.kwargs
      <4>1. a[1] = "remote_segmenter"
        BY <1>3, <2>2, <2>3, <3>2 DEF OwnKeys
      <4>. QED  BY <1>3, <1>4, <3>2, <4>1 DEF EndpointIn
    <3>3. CASE a \notin DOMAIN plan.kwargs
      BY <1>4, <3>1, <3>3
    <3>. QED  BY <3>2, <3>3
  <2>. QED  BY <2>4 DEF Kept
<1>7. \A k \in DOMAIN competitors' : \E p \in PlansOf(competitors'[k], k - 1) :
        pipelines'[k].steps = p.steps /\ Kept(p.kwargs)'
  <2>1. SUFFICES ASSUME NEW k \in 1..(n + 1)
                 PROVE  \E p \in PlansOf(competitors'[k], k - 1) :
                          pipelines'[k].steps = p.steps /\ Kept(p.kwargs)'
    BY <1>1 DEF n
  <2>2. CASE k = n + 1
    <3>1. k - 1 = n /\ competitors'[k] = c /\ pipelines'[k] = pipeline
      BY <2>2, <1>1, <1>2
    <3>2. plan \in PlansOf(competitors'[k], k - 1)
      BY <3>1 DEF n
    <3>. QED  BY <3>1, <3>2, <1>5
  <2>3. CASE k \in 1..n
    <3>1. PICK p \in PlansOf(competitors[k], k - 1) :
            pipelines[k].steps = p.steps /\ Kept(p.kwargs)
      BY <2>3, <1>1 DEF KwargsInv
    <3>2. Kept(p.kwargs)'
      BY <2>3, <3>1, <1>6
    <3>. QED  BY <2>3, <1>2, <3>1, <3>2
  <2>. QED  BY <2>1, <2>2, <2>3, <1>1
<1>8. competitors' # <<>>
  BY <1>1
<1>. QED  BY <1>7, <1>8 DEF KwargsInv, Kept, KwargsOf

\* No parameter is filed at the beginning.
LEMMA KwargsInv_init == Init => KwargsInv
  BY DEF Init, KwargsInv

\* Every step of a planning keeps the parameters of the plans.
LEMMA KwargsInv_step == PlanInv /\ KwargsInv /\ [AnyRunNext]_vars => KwargsInv'
<1>. SUFFICES ASSUME PlanInv, KwargsInv, [AnyRunNext]_vars PROVE KwargsInv'
  OBVIOUS
<1>1. ASSUME NEW c \in Competitors, AddCompetitor(c) PROVE KwargsInv'
  <2>1. CASE PlansOf(c, Len(pipelines)) = {}
    BY <1>1, <2>1, KwargsInv_ended DEF AddCompetitor
  <2>2. CASE PlansOf(c, Len(pipelines)) # {}
    <3>1. PICK plan \in PlansOf(c, Len(pipelines)) :
            /\ competitors' = Append(competitors, c)
            /\ pipelines' = Append(pipelines,
                 [name |-> <<plan.base, Occurrence(plan.base)>>, steps |-> plan.steps])
            /\ adapterKwargs' = plan.kwargs @@ adapterKwargs
      BY <1>1, <2>2 DEF AddCompetitor, Update
    <3>2. Len(pipelines) = Len(competitors)
      BY <1>1 DEF AddCompetitor, PlanInv, PlanTyped
    <3>. DEFINE new == [name |-> <<plan.base, Occurrence(plan.base)>>, steps |-> plan.steps]
    <3>3. new.steps = plan.steps
      OBVIOUS
    <3>. HIDE DEF new
    <3>4. pipelines' = Append(pipelines, new)
      BY <3>1 DEF new
    <3>5. plan \in PlansOf(c, Len(competitors))
      BY <3>2
    <3>. QED  BY <3>1, <3>2, <3>3, <3>4, <3>5, KwargsInv_add
  <2>. QED  BY <2>1, <2>2
<1>2. CASE Finish
  BY <1>2, KwargsInv_ended DEF Finish
<1>3. ASSUME NEW r \in Requests, PlanSingle(r) PROVE KwargsInv'
  <2>1. competitors = <<>> /\ competitors' = <<>>
    BY <1>3 DEF PlanSingle, PlanInv, PlanTyped
  <2>2. CASE SinglePlans(r) = {}
    BY <1>3, <2>2, KwargsInv_ended DEF PlanSingle
  <2>3. CASE SinglePlans(r) # {}
    <3>1. PICK plan \in SinglePlans(r) :
            /\ pipelines' = <<[name |-> <<plan.base, 1>>, steps |-> plan.steps]>>
            /\ adapterKwargs' = plan.kwargs
      BY <1>3, <2>3 DEF PlanSingle
    <3>. DEFINE new == [name |-> <<plan.base, 1>>, steps |-> plan.steps]
    <3>2. new.steps = plan.steps
      OBVIOUS
    <3>. HIDE DEF new
    <3>3. pipelines' = <<new>>
      BY <3>1 DEF new
    <3>4. \A k \in DOMAIN pipelines' : pipelines'[k].steps = plan.steps
      BY <3>2, <3>3
    <3>. QED  BY <1>3, <2>1, <3>1, <3>4 DEF KwargsInv
  <2>. QED  BY <2>2, <2>3
<1>4. CASE UNCHANGED vars
  BY <1>4, KwargsInv_ended DEF vars
<1>. QED  BY <1>1, <1>2, <1>3, <1>4 DEF AnyRunNext, Next

\* Every input of every pipeline is found.
LEMMA PlansResolve == PlanInv => InputsResolve
<1>1. SUFFICES ASSUME PlanInv, NEW k \in DOMAIN pipelines
               PROVE  Resolved(pipelines[k].steps)
  BY Zenon DEF InputsResolve, Resolved
<1>2. pipelines[k] \in PlannedPipelines
  BY <1>1 DEF PlanInv, PlanTyped
<1>3. PICK plan \in AnyPlans : pipelines[k].steps = plan.steps
  BY <1>2 DEF PlannedPipelines
<1>4. CASE \E c \in Competitors, i \in Nat : plan \in PlansOf(c, i)
  BY <1>3, <1>4, PlanResolved
<1>5. CASE \E r \in Requests : plan \in SinglePlans(r)
  BY <1>3, <1>5, SingleResolved
<1>. QED  BY <1>4, <1>5, <1>3 DEF AnyPlans

\* Every step of every pipeline runs, with the table of the whole run.
LEMMA PlansRun ==
  ASSUME PlanInv, KwargsInv, NEW k \in DOMAIN pipelines, NEW n \in DOMAIN pipelines[k].steps
  PROVE  Runs(pipelines[k].steps[n],
              \/ competitors = <<>> \/ ~competitors[k].model \/ competitors[k].llm # None)
<1>. DEFINE excused == competitors = <<>> \/ ~competitors[k].model \/ competitors[k].llm # None
<1>1. CASE competitors = <<>>
  <2>1. pipelines # <<>>
    OBVIOUS
  <2>2. PICK r \in Requests : \E plan \in SinglePlans(r) :
          pipelines[k].steps = plan.steps /\ adapterKwargs = plan.kwargs
    BY <1>1, <2>1 DEF KwargsInv
  <2>2a. PICK plan \in SinglePlans(r) :
          pipelines[k].steps = plan.steps /\ adapterKwargs = plan.kwargs
    BY <2>2
  <2>3. Runs(pipelines[k].steps[n], TRUE)
    BY <2>2a, SingleRuns
  <2>. QED  BY <1>1, <2>3 DEF Runs
<1>2. CASE competitors # <<>>
  <2>1. k \in DOMAIN competitors /\ competitors[k] \in Competitors /\ k - 1 \in Nat
    BY <1>2 DEF PlanInv, PlanTyped
  <2>2. PICK plan \in PlansOf(competitors[k], k - 1) :
          pipelines[k].steps = plan.steps /\ Kept(plan.kwargs)
    BY <2>1 DEF KwargsInv
  <2>3. Runs(pipelines[k].steps[n], ~competitors[k].model \/ competitors[k].llm # None)
    BY <2>1, <2>2, PlanRuns
  <2>. QED  BY <2>3 DEF Runs
<1>. QED  BY <1>1, <1>2

-----------------------------------------------------------------------------

\* Competitors stay apart, for any engines and any number of competitors: no
\* two pipelines share a name, and the parameters of a competitor's recognizer,
\* or of its LLM in a chain, are still its own in the table they are merged in.
THEOREM PlannedCompetitorsStayApart == AnyRunSpec => []CompetitorsStayApart
<1>1. PlanInv => CompetitorsStayApart
  BY DEF PlanInv, NumbersAreCounted, ReadersAreFiled, CompetitorsStayApart, Reader, TellsModel
<1>. QED  BY PlanInv_init, PlanInv_step, <1>1, PTL DEF AnyRunSpec

\* Every competitor is scored on its most elaborate text, and its entities are
\* read in this very text, whatever the engines, the modes and the options.
THEOREM EntitiesAreOfScoredText == AnyRunSpec => []EntitiesMatchScoredText
<1>1. PlanInv => EntitiesMatchScoredText
  <2>1. SUFFICES ASSUME PlanInv, NEW k \in DOMAIN competitors
                 PROVE  ScoresItsEntities(pipelines[k].steps)
    BY DEF EntitiesMatchScoredText, ScoresItsEntities
  <2>2. PICK plan \in PlansOf(competitors[k], k - 1) : pipelines[k].steps = plan.steps
    BY <2>1 DEF PlanInv, StepsArePlanned
  <2>3. competitors[k] \in Competitors /\ k - 1 \in Nat
    BY <2>1 DEF PlanInv, PlanTyped
  <2>. QED  BY <2>2, <2>3, PlanScores
<1>. QED  BY PlanInv_init, PlanInv_step, <1>1, PTL DEF AnyRunSpec

\* Two outputs of a pipeline are never written to the same file of its
\* workspace, for any engines and any request: the names that the modules give
\* tell the type of the artifact, and the two layouts of a pipeline differ by
\* their makers.
THEOREM OutputsAreKeptApart == AnyRunSpec => []OutputsDoNotCollide
<1>1. PlanInv => OutputsDoNotCollide
  <2>1. SUFFICES ASSUME PlanInv, NEW k \in DOMAIN pipelines
                 PROVE  FilesApart(pipelines[k].steps)
    BY Zenon DEF OutputsDoNotCollide, FilesApart
  <2>2. pipelines[k] \in PlannedPipelines
    BY <2>1 DEF PlanInv, PlanTyped
  <2>3. PICK plan \in AnyPlans : pipelines[k].steps = plan.steps
    BY <2>2 DEF PlannedPipelines
  <2>4. CASE \E c \in Competitors, i \in Nat : plan \in PlansOf(c, i)
    BY <2>3, <2>4, PlanFiles
  <2>5. CASE \E r \in Requests : plan \in SinglePlans(r)
    BY <2>3, <2>5, SingleFiles
  <2>. QED  BY <2>4, <2>5 DEF AnyPlans
<1>. QED  BY PlanInv_init, PlanInv_step, <1>1, PTL DEF AnyRunSpec

\* An accepted plan can be executed, whatever the engines and the competitors it
\* is merged with: the registry builds every module from the parameters filed
\* under its name, every input is found, and a module that recognizes or corrects
\* reads inputs of its step and makes its outputs.  Excepted are the engines left
\* without the model they need, by the request or as the first stage of a chain;
\* and the endpoint filed for a remote segmenter may be another competitor's.
THEOREM AcceptedPlansCanRun == AnyRunSpec => []AcceptedCanRun
<1>1. PlanInv /\ KwargsInv => AcceptedCanRun
  BY Zenon, PlansResolve, PlansRun DEF AcceptedCanRun, Runs
<1>. QED  BY PlanInv_init, PlanInv_step, KwargsInv_init, KwargsInv_step, <1>1, PTL DEF AnyRunSpec
=============================================================================
