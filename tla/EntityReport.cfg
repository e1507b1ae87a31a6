\* One document, with an entity of its own on either side, is enough.
CONSTANTS
  Letters = {x}
  MaxLetters = 1
  Labels = {PER, LOC}
  MaxEntities = 1
  MaxDocuments = 1
  MaxMentions = 1
SPECIFICATION EntitySpec
CHECK_DEADLOCK FALSE
INVARIANTS
  PresentCategoriesAreReported
