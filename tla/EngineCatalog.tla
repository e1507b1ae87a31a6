---------------------------- MODULE EngineCatalog ----------------------------
(***************************************************************************)
(* The adapters of the recognition, correction, layout and entity engines  *)
(* (cinoc.adapters.llm, ocr, layout, ner): what each one declares, what it *)
(* needs in order to run and looks for in this order, which failures its   *)
(* call can meet and which of them it turns into an AdapterStepError.      *)
(* Beside them, what the page of engines looks for before it says that an  *)
(* engine is ready (cinoc.app.engines).                                    *)
(*                                                                         *)
(* The failures: "gone", a file to read is not there; "refused", an error  *)
(* of the provider or a connection cut; "torn", a body that is not JSON;   *)
(* "unfit", an answer or a file without what is expected; "model", a model *)
(* that does not load; "foreign", any other exception of a library.        *)
(***************************************************************************)
EXTENDS Naturals, Sequences, FiniteSets

Engine(kind, role, declares, needs, dialect, meets, isolates) ==
  [kind |-> kind, role |-> role, declares |-> declares, needs |-> needs,
   dialect |-> dialect, meets |-> meets, isolates |-> isolates]

-----------------------------------------------------------------------------
(* Language models: three roles each.                                      *)

Roles == {"text_only", "text_and_image", "zero_shot"}

LlmOutput(role) == IF role = "zero_shot" THEN "raw_text" ELSE "corrected_text"

Chat(kind, needs, meets, isolates) ==
  {Engine(kind, role, {LlmOutput(role)}, needs, "chat", meets, isolates) : role \in Roles}

OpenAI    == Chat("openai", <<"OPENAI_API_KEY", "openai">>, {"refused", "foreign"}, {"refused"})
Anthropic == Chat("anthropic", <<"ANTHROPIC_API_KEY", "anthropic">>, {"refused", "foreign"}, {"refused"})
Mistral   == Chat("mistral", <<"MISTRAL_API_KEY", "mistralai">>, {"refused", "foreign"}, {"refused", "foreign"})
Ollama    == Chat("ollama", <<"httpx">>, {"refused", "torn", "unfit", "foreign"}, {"refused", "unfit"})

-----------------------------------------------------------------------------
(* Recognition of an image.                                                *)

Ocr(kind, needs, meets, isolates) == Engine(kind, "", {"raw_text"}, needs, "reading", meets, isolates)

MistralOcr ==
  Ocr("mistral_ocr", <<"MISTRAL_API_KEY", "mistralai">>, {"refused", "foreign"}, {"refused", "foreign"})
GoogleVision ==
  Ocr("google_vision", <<"GOOGLE_VISION_API_KEY", "httpx">>, {"refused", "torn", "unfit"}, {"refused", "unfit"})
AzureDocIntel ==
  Ocr("azure_di", <<"AZURE_DOC_INTEL_ENDPOINT", "AZURE_DOC_INTEL_KEY", "httpx">>,
      {"refused", "torn", "unfit"}, {"refused", "unfit"})
Pero     == Ocr("pero", <<"cv2", "pero_ocr">>, {"model", "foreign"}, {"model", "gone"})
Calamari == Ocr("calamari", <<"numpy", "calamari_ocr", "PIL">>, {"model", "foreign"}, {"model"})
Kraken ==
  [Ocr("kraken", <<"kraken", "PIL">>, {"model", "foreign"}, {"model"})
     EXCEPT !.declares = {"raw_text", "confidences"}]
Tesseract(alto) ==
  [Ocr("tesseract", <<"pytesseract", "tesseract">>, {"foreign"}, {"gone", "foreign"})
     EXCEPT !.declares = {"raw_text", "confidences"} \union (IF alto THEN {"alto_xml"} ELSE {})]
Precomputed       == Ocr("precomputed", <<>>, {"unfit"}, {"gone", "unfit"})
PrecomputedRegion == Ocr("precomputed_region", <<>>, {"unfit"}, {"gone", "unfit"})

-----------------------------------------------------------------------------
(* Layouts and entities.                                                   *)

Layouter(kind, needs, dialect, meets, isolates) ==
  Engine(kind, "", {"layout"}, needs, dialect, meets, isolates)

PPDocLayout       == Layouter("pp_doclayout", <<"paddlex">>, "boxes", {"foreign"}, {})
RemoteSegmenter   ==
  Layouter("remote_segmenter", <<"httpx">>, "boxes", {"refused", "torn", "unfit", "foreign"}, {"refused", "unfit"})
PrecomputedLayout == Layouter("precomputed_layout", <<>>, "layout", {"unfit"}, {"gone", "unfit"})
AltoSource        == Layouter("alto_source", <<>>, "alto", {"unfit"}, {"gone", "unfit"})
Saknussemm ==
  Engine("saknussemm", "", {"layout", "corrected_text", "decisions"}, <<"saknussemm">>, "decisions",
         {"unfit", "foreign"}, {"gone", "unfit"})
SpacyNer ==
  Engine("ner", "", {"entities"}, <<"spacy">>, "entities", {"model", "foreign"}, {"gone", "model"})

Engines ==
  OpenAI \union Anthropic \union Mistral \union Ollama \union
  {MistralOcr, GoogleVision, AzureDocIntel, Pero, Calamari, Kraken, Precomputed, PrecomputedRegion} \union
  {Tesseract(alto) : alto \in BOOLEAN} \union
  {PPDocLayout, RemoteSegmenter, PrecomputedLayout, AltoSource, Saknussemm, SpacyNer}

\* The libraries that an engine imports beside its own.
LibrariesBeside == {"cv2", "numpy", "PIL"}

\* Those that hand on a file they found near the image.
IsReplay(e) == e.kind \in {"precomputed", "precomputed_layout"}

\* Those that read their input before they look for what they need.
ReadsFirst(e) == e.role # "" \/ e.kind \in {"ner", "saknussemm"}

-----------------------------------------------------------------------------
(* The page of engines.                                                    *)

LocalLooksFor ==
  [precomputed |-> {}, tesseract |-> {"tesseract", "pytesseract"}, kraken |-> {"kraken"},
   pero |-> {"pero_ocr"}, calamari |-> {"calamari_ocr"}, ollama |-> {"httpx"}]

\* Mutation: a key is taken for an engine that is installed.
CloudLooksForKeys ==
  [mistral_ocr |-> {"MISTRAL_API_KEY"}, google_vision |-> {"GOOGLE_VISION_API_KEY"},
   azure_di |-> {"AZURE_DOC_INTEL_ENDPOINT", "AZURE_DOC_INTEL_KEY"}, openai |-> {"OPENAI_API_KEY"},
   anthropic |-> {"ANTHROPIC_API_KEY"}, mistral |-> {"MISTRAL_API_KEY"}]

CloudLooksFor ==
  [mistral_ocr |-> {"mistralai", "MISTRAL_API_KEY"}, google_vision |-> {"httpx", "GOOGLE_VISION_API_KEY"},
   azure_di |-> {"httpx", "AZURE_DOC_INTEL_ENDPOINT", "AZURE_DOC_INTEL_KEY"},
   openai |-> {"openai", "OPENAI_API_KEY"}, anthropic |-> {"anthropic", "ANTHROPIC_API_KEY"},
   mistral |-> {"mistralai", "MISTRAL_API_KEY"}]

SegmenterLooksFor == [pp_doclayout |-> {"paddlex"}, remote_segmenter |-> {"httpx"}]

NerLooksFor == [ner |-> {"spacy"}]

\* Whether the page says of a kind that it is ready, with this equipment.
SaidReady(kind, equipment) ==
  \E looks \in {LocalLooksFor, CloudLooksFor, SegmenterLooksFor, NerLooksFor} :
    kind \in DOMAIN looks /\ looks[kind] \subseteq equipment
=============================================================================
