\* One competitor on three documents: the second is remote, the third may have
\* no image; two threads, one more step than a single poll, a client that may
\* ask for a cancellation.  The web gives no resume store, the command line
\* does: with one the engine has both ways of planning a unit.
CONSTANTS
  NPipelines = 1
  NDocs = 3
  NSteps = 2
  MaxWorkers = 2
  RemoteDocs = {2}
  ImagelessDocs = {3}
  ResumeEnabled = TRUE
  Requests = {c1}
SPECIFICATION FairJobSpec
INVARIANTS
  ProgressCountsResults
  ResultsFaithful
  WorkspaceOutlivesPool
  ReturnedRunIsComplete
  DoneHasReport
  CancelledLeavesNothing
PROPERTIES
  CancelStopsWithinOneStep
  CancelInTimeIsHonoured
  LifecycleLiveSpec
