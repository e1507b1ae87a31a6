\* Two documents whose names differ, two regions each; two images of the
\* document and two artifacts: a text and an ALTO file.
CONSTANTS
  Docs = {d1, d2}
  Aliased = {}
  NRegions = 2
  None = None
  Torn = Torn
  Images = {i1, i2}
  Types = {"RAW_TEXT", "ALTO_XML"}
SPECIFICATION UnitSpec
INVARIANTS
  OutputsAreOwn
  ReloadsAreIdentical
PROPERTIES
  CancelWithinOneRegion
  
  SavedOnceForAll
