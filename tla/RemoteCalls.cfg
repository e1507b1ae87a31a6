\* Three calls and two threads that cancel. Three threads compete for the
\* slots (1 or 2) of two providers; three attempts, so that the first, a
\* middle and the last one are distinct. Three polls of an analysis, where the
\* code has 60. Two parts to an answer.
CONSTANTS
  Calls = {h1, h2, h3}
  Cancellers = {k1, k2}
  Threads = {t1, t2, t3}
  Providers = {p1, p2}
  Limits = {1, 2}
  Attempts = 3
  MaxCalls = 1
  MaxPolls = 3
  MaxParts = 2
  Words = {"a", "b"}
  Coordinates = {0, 1}
  LineIds = {"l1", "l2"}
  LastPage = 2
SPECIFICATION RemoteSpec
INVARIANTS
  NoHandleLost
  SlotsConserved
  ReadyEnginesRun
  EnginesDeliver
PROPERTIES
  InterruptionIsNotAFailure
  CancelUnblocks
  CallsComeBack
