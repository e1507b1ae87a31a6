\* Three engines, whose names are not in the order of the manifest, on three
\* documents. The scores of two engines on two documents are any of four, the
\* others 30; an analysis is of any of the engines; the map of the words has at
\* most five words. The limits of the code (columns of 16 words, a cutoff at
\* nine tenths, 60 cards to a page) are made small, so that each is passed.
\* Three times a file is given to a reader, which is enough for one to be
\* chosen again and for two to be read at once.
\* Four runs complete at two times and are recorded in any order.
CONSTANTS
  NoScore = NoScore
  PlotWidth = 60
  MaxDuels = 1
  HeatmapRows = 2
  VariantRows = 2
  ColumnRows = 1
  QuantileTenths = 5
  PageSize = 1
  Files = {f1, f2, f3}
  TooLarge = {f3}
  MaxChoices = 3
  OtherRate = 60
  NEngines = 3
  NDocuments = 3
  Rates = {0, 30, 120}
  MaxMissed = 5
  MaxRuns = 4
  MaxStamp = 2
  Values = {0, 1, 2}
  Surprise = 600
SPECIFICATION PagesSpec
\* A visitor may have done all there is to do; a report is only read.
CHECK_DEADLOCK FALSE
INVARIANTS
  ReportTellsTheResult
  PageShowsWhatWasAskedFor
  RuptureIsExtremal
