\* Up to three competitors, which may all be the same; one engine built without
\* a model and one that needs one, one provider with vision, and a remote
\* segmenter that is always refused for want of an endpoint
\* (RunPlanningSegmenter has endpoints).
CONSTANTS
  OcrEngines = {"tesseract", "kraken"}
  LlmEngines = {"openai"}
  VlmEngines = {"openai"}
  Endpoints = {}
  MaxCompetitors = 3
SPECIFICATION AnyRunSpec
\* Planning ends.
CHECK_DEADLOCK FALSE
INVARIANTS
  AcceptedCanRun
  OutputsDoNotCollide
  EntitiesMatchScoredText
  CompetitorsStayApart
