\* Texts of at most two words of two, seven words in all; two pipelines over
\* two documents. For the sections, two pairs of texts of at most three lines
\* together (in the code four words make an insertion, a token may come
\* twice at most and five of the worst lines are kept). For the numbers and signs, one pair of texts of two, or
\* smaller ones together. Two documents for the entities, two entities each
\* on either side.
CONSTANTS
  TopLines = 2
  MaxLines = 3
  MaxTotal = 3
  MaxShown = 2
  MinInsert = 2
  MaxFreq = 1
  MaxItemsShown = 2
  MaxEffort = 4
  Words = {a, b}
  MaxWords = 2
  MaxCorpusWords = 7
  Engines = {p1, p2}
  NoText = NoText
  Lexicon = {c, d}
  MaxLength = 2
  Pages = 2
  Absent = Absent
  Letters = {x}
  MaxLetters = 2
  Labels = {PER, LOC}
  MaxEntities = 2
  MaxDocuments = 2
  MaxMentions = 2
SPECIFICATION ResultsSpec
SYMMETRY WordSymmetry
\* Every analysis is over once its report is made.
CHECK_DEADLOCK FALSE
INVARIANTS
  SectionsAgree
  ErrorsAreAllTold
  BalancesAddUp

