\* Two documents whose ids differ by / and _ only, one region each.
CONSTANTS
  Docs = {d1, d2}
  Aliased = {d1, d2}
  NRegions = 1
  None = None
  Torn = Torn
SPECIFICATION Spec
INVARIANT
  OutputsAreOwn
