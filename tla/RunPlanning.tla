----------------------------- MODULE RunPlanning -----------------------------
(***************************************************************************)
(* The planning of a benchmark (cinoc.app.run_planning): the competitors   *)
(* of a request become, one after the other, the pipelines of one run and  *)
(* the parameters of their modules, or the request is refused.  With it,   *)
(* what the run makes of a plan: how the executor resolves the inputs of a *)
(* step and which output the evaluation scores.                            *)
(*                                                                         *)
(* Models, languages and prompts are left out, but for whether a model is  *)
(* given.  A module is named by its kind and the suffix of its competitor  *)
(* ("tesseract:c0"), or by its kind alone.  Its parameters are those the   *)
(* plan gives, as a function of their names.                               *)
(***************************************************************************)
EXTENDS Naturals, Sequences, FiniteSets

CONSTANTS
  OcrEngines, LlmEngines, VlmEngines,  \* the wired engines, by role
  Endpoints,        \* endpoints of remote segmenters
  MaxCompetitors    \* bound: competitors of a request

None   == "none"
Shared == "shared"

ASSUME RunPlanningAssumption ==
  /\ {None, "remote_segmenter"} \intersect (OcrEngines \union LlmEngines \union VlmEngines) = {}
  /\ None \notin Endpoints
  /\ MaxCompetitors \in Nat

\* A function of one point, and a dictionary over another: the operators of the
\* module TLC, defined here so that the provers see through them.
k :> v == [x \in {k} |-> v]
f @@ g == [x \in DOMAIN f \union DOMAIN g |-> IF x \in DOMAIN f THEN f[x] ELSE g[x]]

VARIABLES
  competitors,   \* those planned so far
  pipelines,     \* their pipelines
  adapterKwargs, \* the parameters of their modules
  status         \* "planning", "planned", "refused"

vars == <<competitors, pipelines, adapterKwargs, status>>

Engines == OcrEngines \union LlmEngines \union VlmEngines

\* A mode is that of the request; an endpoint goes with a remote segmenter.
Competitors ==
  {c \in [engine : Engines,
          mode : {None, "text_only", "text_and_image", "zero_shot"},
          segmenter : {None, "pp_doclayout", "remote_segmenter"},
          endpoint : Endpoints \union {None},
          llm : Engines \union {None},
          model : BOOLEAN, alto : BOOLEAN, ner : BOOLEAN] :
     c.endpoint # None => c.segmenter = "remote_segmenter"}

-----------------------------------------------------------------------------
(* Steps.                                                                  *)

Step(id, adapter, ins, outs, from) ==
  [id |-> id, adapter |-> adapter, ins |-> ins, outs |-> outs, from |-> from]

\* The suffix of the i-th competitor's own modules.
Suffix(i) == <<"c", i>>

OcrOutputs(c) == {"RAW_TEXT"} \union (IF c.alto THEN {"ALTO_XML"} ELSE {})

OcrStep(c, i) == Step("ocr", <<c.engine, Suffix(i)>>, {"IMAGE"}, OcrOutputs(c), <<>>)

VlmStep(c, i) == Step("vlm", <<c.engine, Suffix(i)>>, {"IMAGE"}, {"RAW_TEXT"}, <<>>)

\* Mutation: the image is looked for in the outputs of the OCR.
LlmReadsImageOfOcr(c, i) ==
  Step("llm", <<c.llm, Suffix(i)>>,
       IF c.mode = "text_only" THEN {"RAW_TEXT"} ELSE {"RAW_TEXT", "IMAGE"},
       {"CORRECTED_TEXT"}, [t \in {"RAW_TEXT", "IMAGE"} |-> "ocr"])

\* text_and_image: the model reads the initial image with the text.
LlmStep(c, i) ==
  IF c.mode = "text_only"
  THEN Step("llm", <<c.llm, Suffix(i)>>, {"RAW_TEXT"}, {"CORRECTED_TEXT"},
            "RAW_TEXT" :> "ocr")
  ELSE Step("llm", <<c.llm, Suffix(i)>>, {"RAW_TEXT", "IMAGE"}, {"CORRECTED_TEXT"},
            "RAW_TEXT" :> "ocr" @@ "IMAGE" :> "__initial__")

\* Mutation: the entities are always read in the text of the OCR.
NerReadsOcr(c, i, text, from) ==
  IF c.ner THEN << Step("ner", <<"ner", Suffix(i)>>, {"RAW_TEXT"}, {"ENTITIES"},
                        "RAW_TEXT" :> "ocr") >>
           ELSE <<>>

NerSteps(c, i, text, from) ==
  IF c.ner THEN << Step("ner", <<"ner", Suffix(i)>>, {text}, {"ENTITIES"}, text :> from) >>
           ELSE <<>>

HybridSteps(c, i) ==
  << Step("segment", <<c.segmenter, Shared>>, {"IMAGE"}, {"LAYOUT"}, <<>>),
     Step("recognize", <<c.engine, Suffix(i)>>, {"LAYOUT", "IMAGE"}, {"LAYOUT"},
          "LAYOUT" :> "segment"),
     Step("text", <<"layout_to_text", Suffix(i)>>, {"LAYOUT"}, {"RAW_TEXT"},
          "LAYOUT" :> "recognize") >>
  \o (IF c.alto THEN << Step("assemble", <<"alto_assembler", Shared>>, {"LAYOUT"},
                             {"ALTO_XML"}, "LAYOUT" :> "recognize") >>
                ELSE <<>>)
  \o NerSteps(c, i, "RAW_TEXT", "text")

-----------------------------------------------------------------------------
(* The plan of one competitor: its name, its steps and its parameters; no  *)
(* plan when it is refused.                                                *)

NoKwargs     == <<>>
WithModel(c) == IF c.model THEN [model |-> TRUE] ELSE NoKwargs
WithAlto(c)  == IF c.alto THEN [alto |-> TRUE] ELSE NoKwargs

OcrKwargs(i) == [label |-> Suffix(i)]

\* _llm_kwargs
LlmKwargs(c, i, role) == [label |-> Suffix(i), role |-> role] @@ WithModel(c)

RecognizerKwargs(c, i) ==
  IF c.engine \in VlmEngines THEN LlmKwargs(c, i, "zero_shot")
                             ELSE OcrKwargs(i) @@ WithModel(c)

NerKwargs(c, i) ==
  IF c.ner THEN <<"ner", Suffix(i)>> :> [label |-> Suffix(i), model |-> TRUE] ELSE <<>>

HybridPlans(c, i) ==
  IF /\ c.engine \in OcrEngines \union VlmEngines
     /\ c.mode = None /\ c.llm = None
     /\ c.segmenter = "remote_segmenter" => c.endpoint # None
  THEN {[base |-> <<c.segmenter, c.engine>>,
         steps |-> HybridSteps(c, i),
         kwargs |-> (<<c.engine, Suffix(i)>> :> RecognizerKwargs(c, i))
                    @@ (<<"layout_to_text", Suffix(i)>> :> [label |-> Suffix(i)])
                    @@ (IF c.segmenter = "remote_segmenter"
                        THEN <<c.segmenter, Shared>> :> [endpoint |-> c.endpoint]
                        ELSE <<>>)
                    @@ NerKwargs(c, i)]}
  ELSE {}

OcrPlans(c, i) ==
  IF c.engine \in OcrEngines /\ c.llm = None
  THEN {[base |-> <<c.engine>>,
         steps |-> <<OcrStep(c, i)>> \o NerSteps(c, i, "RAW_TEXT", "ocr"),
         kwargs |-> (<<c.engine, Suffix(i)>> :>
                      (OcrKwargs(i) @@ WithAlto(c) @@ WithModel(c)))
                    @@ NerKwargs(c, i)]}
  ELSE {}

ZeroShotPlans(c, i) ==
  IF c.engine \in VlmEngines /\ c.llm = None
  THEN {[base |-> <<c.engine, "zero-shot">>,
         steps |-> <<VlmStep(c, i)>> \o NerSteps(c, i, "RAW_TEXT", "vlm"),
         kwargs |-> (<<c.engine, Suffix(i)>> :> LlmKwargs(c, i, "zero_shot"))
                    @@ NerKwargs(c, i)]}
  ELSE {}

\* The model of the request is that of the LLM.
ChainPlans(c, i) ==
  IF /\ c.engine \in OcrEngines
     /\ c.llm \in IF c.mode = "text_only" THEN LlmEngines ELSE VlmEngines
  THEN {[base |-> <<c.engine, c.llm>>,
         steps |-> <<OcrStep(c, i), LlmStep(c, i)>>
                   \o NerSteps(c, i, "CORRECTED_TEXT", "llm"),
         kwargs |-> (<<c.llm, Suffix(i)>> :> LlmKwargs(c, i, c.mode))
                    @@ (<<c.engine, Suffix(i)>> :> (OcrKwargs(i) @@ WithAlto(c)))
                    @@ NerKwargs(c, i)]}
  ELSE {}

\* Outside of the hybrid pipelines, only tesseract emits ALTO.
AltoSupported(c) == c.alto => c.engine = "tesseract"

PlansOf(c, i) ==
  CASE c.segmenter # None                          -> HybridPlans(c, i)
    [] c.segmenter = None /\ ~AltoSupported(c)     -> {}
    [] c.segmenter = None /\ AltoSupported(c)      ->
         CASE c.mode = None        -> OcrPlans(c, i)
           [] c.mode = "zero_shot" -> ZeroShotPlans(c, i)
           [] OTHER                -> ChainPlans(c, i)

-----------------------------------------------------------------------------
(* plan_benchmark_run                                                      *)

Init ==
  /\ competitors = <<>>
  /\ pipelines = <<>>
  /\ adapterKwargs = <<>>
  /\ status = "planning"

\* Mutation: every duplicate gets the suffix #2.
CountSeen(base) == IF \E k \in DOMAIN pipelines : pipelines[k].name[1] = base
                   THEN 2 ELSE 1

\* seen: how many pipelines bear this base name, with the new one.
Occurrence(base) ==
  1 + Cardinality({k \in DOMAIN pipelines : pipelines[k].name[1] = base})

\* adapter_kwargs.update(kwargs): the last one wins.
Update(kwargs) == kwargs @@ adapterKwargs

AddCompetitor(c) ==
  /\ status = "planning" /\ Len(pipelines) < MaxCompetitors
  /\ LET plans == PlansOf(c, Len(pipelines)) IN
     IF plans = {}
     THEN status' = "refused" /\ UNCHANGED <<competitors, pipelines, adapterKwargs>>
     ELSE \E plan \in plans :
       /\ competitors' = Append(competitors, c)
       /\ pipelines' = Append(pipelines,
            [name |-> <<plan.base, Occurrence(plan.base)>>, steps |-> plan.steps])
       /\ adapterKwargs' = Update(plan.kwargs)
       /\ UNCHANGED status

\* A benchmark needs one competitor at least.
Finish ==
  /\ status = "planning"
  /\ status' = IF pipelines = <<>> THEN "refused" ELSE "planned"
  /\ UNCHANGED <<competitors, pipelines, adapterKwargs>>

Next == (\E c \in Competitors : AddCompetitor(c)) \/ Finish

Spec == Init /\ [][Next]_vars

-----------------------------------------------------------------------------
(* What the run makes of the plan.                                         *)

\* Who produced the version of type t that the executor passes to step n of a
\* pipeline (_resolve_inputs): the source the step names, else the last step
\* before n that produces t, else the initial image; None if nobody.
Producers(steps, n, t) == {m \in 1..(n - 1) : t \in steps[m].outs}
PoolSource(steps, n, t) ==
  LET ms == Producers(steps, n, t) IN
  CASE ms # {}                  -> steps[CHOOSE m \in ms : \A k \in ms : k <= m].id
    [] ms = {} /\ t = "IMAGE"   -> "__initial__"
    [] ms = {} /\ t # "IMAGE"   -> None
Source(steps, n, t) ==
  LET from == steps[n].from IN
  IF t \in DOMAIN from /\ from[t] # "__initial__"
  THEN IF \E m \in Producers(steps, n, t) : steps[m].id = from[t]
       THEN from[t] ELSE None
  ELSE PoolSource(steps, n, t)

Outputs(steps) == UNION {steps[n].outs : n \in DOMAIN steps}

\* _candidate_for: the most downstream text.
Candidate(steps) ==
  CASE "CORRECTED_TEXT" \in Outputs(steps) -> "CORRECTED_TEXT"
    [] "CORRECTED_TEXT" \notin Outputs(steps) /\ "RAW_TEXT" \in Outputs(steps)
                                           -> "RAW_TEXT"
    [] OTHER                               -> None

-----------------------------------------------------------------------------
(* Properties.                                                             *)

\* Every input of every step is found when the run executes the plan, and an
\* image is always the one of the document, whatever the steps before it.
InputsResolve ==
  \A k \in DOMAIN pipelines : LET steps == pipelines[k].steps IN
    \A n \in DOMAIN steps : \A t \in steps[n].ins :
      /\ Source(steps, n, t) # None
      /\ t = "IMAGE" => Source(steps, n, t) = "__initial__"

\* Every competitor is scored on its most elaborate text, and the entities
\* are extracted from this very text.
EntitiesMatchScoredText ==
  \A k \in DOMAIN competitors : LET steps == pipelines[k].steps IN
    /\ Candidate(steps) # None
    /\ \A n \in DOMAIN steps :
         steps[n].id = "ner" => steps[n].ins = {Candidate(steps)}

\* Competitors stay apart, be they identical: results are indexed by the name
\* of the pipeline, and no two share one; the parameters of a competitor's
\* recognizer, or of its LLM in a chain, are those of its own request.
ModelReader(c) == IF c.mode \in {None, "zero_shot"} THEN c.engine ELSE c.llm
CompetitorsStayApart ==
  /\ \A j, k \in DOMAIN pipelines :
       pipelines[j].name = pipelines[k].name => j = k
  /\ \A k \in DOMAIN competitors : LET c == competitors[k] IN
       ("model" \in DOMAIN adapterKwargs[<<ModelReader(c), Suffix(k - 1)>>]) = c.model

\* The same of its segmenter: what _pipeline_for_competitor says, that each
\* competitor has its own instances of modules, without collision.
OwnSegmenter ==
  \A k \in DOMAIN competitors :
    competitors[k].segmenter = "remote_segmenter" =>
      adapterKwargs[<<"remote_segmenter", Shared>>].endpoint
        = competitors[k].endpoint
=============================================================================
