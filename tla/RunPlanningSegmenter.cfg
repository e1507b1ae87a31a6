CONSTANTS
  OcrEngines = {"tesseract", "kraken"}
  LlmEngines = {"openai"}
  VlmEngines = {"openai"}
  Endpoints = {"e1", "e2"}
  MaxCompetitors = 2
SPECIFICATION Spec
\* Planning ends.
CHECK_DEADLOCK FALSE
INVARIANTS
  OwnSegmenter
