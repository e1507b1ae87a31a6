\* Two corpora, two requests that delete and a run that reads; two jobs that
\* save and two previews; three threads at the cache, over three of its
\* periods; two addresses over more than two windows.
CONSTANTS
  Makers = {m1, m2}
  Deleters = {k1, k2}
  Readers = {r1}
  NFiles = 2
  MaxItems = 3
  PerPage = 2
  MaxRedirects = 1
  Jobs = {j1, j2}
  NDocs = 1
  Previewers = {p1, p2}
  Downloaders = {d1}
  Nobody = Nobody
  Askers = {a1, a2, a3}
  Ttl = 2
  MaxTime = 6
  Addresses = {x1, x2}
  Watched = x1
  MaxRequests = 2
  Window = 3
  MaxTick = 7
SPECIFICATION WebSpec
\* Every request is served.
CHECK_DEADLOCK FALSE
INVARIANTS
  DiskMatchesRegistry
  PreviewIsRecent
  ArchiveHoldsTheRun
  ServedIsRecent
  RateIsBounded
  ImportIsFaithful
