-------------------------- MODULE SingleRunPlanning --------------------------
(***************************************************************************)
(* The planning of all the runs: the benchmarks of RunPlanning, extended   *)
(* here, and the runs of a single pipeline: segmentation and hybrid        *)
(* transcription (cinoc.app.structure_planning), structured correction of  *)
(* existing ALTO files (cinoc.app.correction_planning).                    *)
(*                                                                         *)
(* With them, what the run makes of a plan before it executes it: the      *)
(* registry (cinoc.app.modules.registry) builds a module from the name and *)
(* the parameters that the plan gives, and this module reads and makes     *)
(* what its parameters say, whatever its step declares.                    *)
(***************************************************************************)
EXTENDS RunPlanning

Segmenters == {"pp_doclayout", "remote_segmenter"}

\* A request of a run of one pipeline.  What is free text in a request (the
\* label, the host, the prompt) is left out; source: whether a source_label is
\* given, unknown names stand for whatever no plan knows.
Requests ==
  {r \in [kind : {"segmentation", "hybrid", "correction"},
          segmenter : Segmenters \union {"precomputed_layout", "unknown"},
          ocr : Engines \union {"precomputed_region", "unknown"},
          producer : {"rules", "ollama", "unknown"},
          endpoint : Endpoints \union {None},
          source : BOOLEAN, model : BOOLEAN] :
     /\ r.kind # "hybrid" => r.ocr = "unknown" /\ ~r.source
     /\ r.kind = "correction" => r.segmenter = "unknown"
     /\ r.kind # "correction" => r.producer = "unknown"
     /\ r.endpoint # None => r.segmenter = "remote_segmenter"}

Label == <<"label">>

SegmenterKwargs(r) ==
  IF r.segmenter = "remote_segmenter"
  THEN <<r.segmenter, Shared>> :> [endpoint |-> r.endpoint] ELSE <<>>

EndpointGiven(r) == r.segmenter = "remote_segmenter" => r.endpoint # None

SegmentationPlans(r) ==
  IF r.segmenter \in Segmenters /\ EndpointGiven(r)
  THEN {[base |-> <<r.segmenter>>,
         steps |-> <<Step("seg", <<r.segmenter, Shared>>, {"IMAGE"}, {"LAYOUT"}, <<>>)>>,
         kwargs |-> SegmenterKwargs(r)]}
  ELSE {}

\* _hybrid_recognizer
RegionKwargs(r) ==
  CASE r.ocr = "precomputed_region" -> [source_label |-> Label]
    [] r.ocr \in VlmEngines         -> [label |-> Label, role |-> "zero_shot"] @@ WithModel(r)
    [] OTHER                        -> [label |-> Label] @@ WithModel(r)

HybridRunPlans(r) ==
  IF /\ r.segmenter \in Segmenters \union {"precomputed_layout"}
     /\ r.ocr \in OcrEngines \union VlmEngines \union {"precomputed_region"}
     /\ r.ocr = "precomputed_region" => r.source
     /\ EndpointGiven(r)
  THEN {[base |-> <<"hybrid">>,
         steps |->
           << Step("segment", <<r.segmenter, Shared>>, {"IMAGE"}, {"LAYOUT"}, <<>>),
              Step("recognize", <<r.ocr, Label>>, {"LAYOUT", "IMAGE"}, {"LAYOUT"},
                   "LAYOUT" :> "segment"),
              Step("assemble", <<"alto_assembler", Shared>>, {"LAYOUT"}, {"ALTO_XML"},
                   "LAYOUT" :> "recognize") >>,
         kwargs |-> (<<r.ocr, Label>> :> RegionKwargs(r)) @@ SegmenterKwargs(r)]}
  ELSE {}

\* The text before correction is that of the layout before correction.
CorrectionSteps ==
  << Step("source", <<"alto_source", Shared>>, {"IMAGE"}, {"LAYOUT"},
          "IMAGE" :> "__initial__"),
     Step("brut", <<"layout_to_text", Label>>, {"LAYOUT"}, {"RAW_TEXT"},
          "LAYOUT" :> "source"),
     Step("corr", <<"saknussemm", Label>>, {"LAYOUT"},
          {"LAYOUT", "CORRECTED_TEXT", "DECISIONS"}, "LAYOUT" :> "source") >>

CorrectionPlans(r) ==
  IF r.producer = "rules" \/ (r.producer = "ollama" /\ r.model)
  THEN {[base |-> <<"alto", IF r.model THEN "model" ELSE r.producer>>,
         steps |-> CorrectionSteps,
         kwargs |-> (<<"layout_to_text", Label>> :> [label |-> Label])
                    @@ (<<"saknussemm", Label>> :>
                          ([label |-> Label, producer |-> r.producer] @@ WithModel(r)))]}
  ELSE {}

SinglePlans(r) == CASE r.kind = "segmentation" -> SegmentationPlans(r)
                    [] r.kind = "hybrid"       -> HybridRunPlans(r)
                    [] r.kind = "correction"   -> CorrectionPlans(r)

\* The builder of the request gives a specification of one pipeline.
PlanSingle(r) ==
  /\ status = "planning" /\ pipelines = <<>>
  /\ IF SinglePlans(r) = {}
     THEN status' = "refused" /\ UNCHANGED <<pipelines, adapterKwargs>>
     ELSE \E plan \in SinglePlans(r) :
       /\ pipelines' = <<[name |-> <<plan.base, 1>>, steps |-> plan.steps]>>
       /\ adapterKwargs' = plan.kwargs
       /\ status' = "planned"
  /\ UNCHANGED competitors

AnyRunNext == Next \/ \E r \in Requests : PlanSingle(r)

AnyRunSpec == Init /\ [][AnyRunNext]_vars

-----------------------------------------------------------------------------
(* The registry and the modules it builds.                                 *)

\* Kinds whose module is named by the kind alone, and the others.
Singletons == Segmenters \union {"precomputed_layout", "alto_assembler", "alto_source"}
OwnModules == {"precomputed_region", "layout_to_text", "ner", "saknussemm"}
Labelled   == Engines \union OwnModules

\* A kind has one builder, and one role: it reads images or texts.
ASSUME KindsAssumption ==
  /\ Engines \intersect (Singletons \union OwnModules) = {}
  /\ OcrEngines \intersect (LlmEngines \union VlmEngines) = {}

\* Engines that are not built without a model.
NeedsModel == {"kraken", "pero", "calamari"}

\* adapter_kwargs.get(name, {})
KwargsOf(a) == IF a \in DOMAIN adapterKwargs THEN adapterKwargs[a] ELSE NoKwargs

LabelOf(a) ==
  LET kw == KwargsOf(a)
      key == IF a[1] = "precomputed_region" THEN "source_label" ELSE "label"
  IN  IF key \in DOMAIN kw THEN kw[key] ELSE <<>>

ModelLeftOut(a) == a[1] \in NeedsModel /\ "model" \notin DOMAIN KwargsOf(a)

\* ModuleRegistry.build: the builder takes the parameters, and the module it
\* makes has the name asked for.
Builds(a) ==
  /\ a[1] \in Singletons \union Labelled
  /\ IF a[1] \in Singletons THEN a[2] = Shared ELSE a[2] = LabelOf(a)
  /\ ~ModelLeftOut(a)
  /\ a[1] = "remote_segmenter" => "endpoint" \in DOMAIN KwargsOf(a)
  /\ a[1] = "saknussemm" /\ KwargsOf(a).producer = "ollama" =>
       "model" \in DOMAIN KwargsOf(a)

RoleOf(a) == IF "role" \in DOMAIN KwargsOf(a) THEN KwargsOf(a).role ELSE "text_only"

\* llm_input_types, llm_output_type
RoleReads(role) == CASE role = "text_only"      -> {"RAW_TEXT"}
                     [] role = "text_and_image" -> {"RAW_TEXT", "IMAGE"}
                     [] role = "zero_shot"      -> {"IMAGE"}
RoleMakes(role) == IF role = "zero_shot" THEN "RAW_TEXT" ELSE "CORRECTED_TEXT"

IsLlm(a) == a[1] \in LlmEngines \union VlmEngines

\* What the module of a recognition or correction step reads and makes.
Reads(a) == IF IsLlm(a) THEN RoleReads(RoleOf(a)) ELSE {"IMAGE"}
Makes(a) == IF IsLlm(a) THEN {RoleMakes(RoleOf(a))}
            ELSE {"RAW_TEXT"} \union (IF "alto" \in DOMAIN KwargsOf(a) THEN {"ALTO_XML"} ELSE {})

IsFanout(s)  == s.id = "recognize"
IsReader(s)  == s.adapter[1] \in Engines \union {"precomputed_region"}

\* Mutation: an LLM names its text like an OCR engine.
LlmFileTxt(t) == "txt"

\* write_text_artifact
LlmFile(t) == IF t = "CORRECTED_TEXT" THEN "corrected.txt" ELSE "raw.txt"

\* The name under which a module writes an output in the workspace of the
\* pipeline, for one document; fanout and the two modules that derive a file
\* from a layout do not put their label in it.
FileOf(s, t) ==
  LET a == s.adapter IN
  CASE IsFanout(s)               -> <<<<"filled">>, "layout.json">>
    [] a[1] = "layout_to_text"   -> <<<<"layout">>, "txt">>
    [] a[1] = "alto_assembler"   -> <<<<>>, "alto.xml">>
    [] a[1] \in Singletons /\ t = "LAYOUT"
                                 -> <<<<a[1]>>, "layout.json">>
    [] ~IsFanout(s) /\ IsLlm(a) -> <<a[2], LlmFile(t)>>
    [] OTHER -> <<a[2], CASE t = "RAW_TEXT"       -> "txt"
                          [] t = "CORRECTED_TEXT" -> "corrected.txt"
                          [] t = "ALTO_XML"       -> "alto.xml"
                          [] t = "ENTITIES"       -> "entities.json"
                          [] t = "LAYOUT"         -> "layout.json"
                          [] t = "DECISIONS"      -> "decisions.json">>

-----------------------------------------------------------------------------
(* Properties.                                                             *)

\* An accepted plan can be executed: the registry builds each module from the
\* parameters filed under its name, every input of every step is found, and a
\* module that recognizes or corrects reads inputs of its step and makes the
\* outputs its step declares (in a fan-out, reads a region and makes its text).
\* Excepted is the model of an engine that needs one, when the request gives
\* none or the engine starts a chain, which leaves it out (README, section 6).
\* Of a remote segmenter it only says that an endpoint is filed, which may be
\* the one of another competitor (section 6).
AcceptedCanRun ==
  status = "planned" =>
  /\ InputsResolve
  /\ \A k \in DOMAIN pipelines : \A n \in DOMAIN pipelines[k].steps :
    LET s == pipelines[k].steps[n]  a == s.adapter IN
    /\ \/ Builds(a)
       \/ /\ ModelLeftOut(a)
          /\ \/ competitors = <<>>
             \/ ~competitors[k].model
             \/ competitors[k].llm # None
    /\ IsReader(s) =>
         /\ Reads(a) \subseteq s.ins
         /\ IF IsFanout(s) THEN "RAW_TEXT" \in Makes(a) ELSE s.outs \subseteq Makes(a)

\* The steps of a pipeline share a workspace: no two outputs of one document
\* are written to the same file, so that a text is still there when what was
\* made of it is compared with it.
OutputsDoNotCollide ==
  status = "planned" => \A k \in DOMAIN pipelines : LET steps == pipelines[k].steps IN
    \A m, n \in DOMAIN steps : \A t \in steps[m].outs, u \in steps[n].outs :
      FileOf(steps[m], t) = FileOf(steps[n], u) => m = n /\ t = u
=============================================================================
