----------------------------- MODULE JobRunner ------------------------------
(***************************************************************************)
(* One background job: JobRunner.launch and its thread (_execute), which   *)
(* drives one call of orchestrator.run (module Orchestrator, extended      *)
(* here), JobRunner.cancel called by concurrent HTTP requests, and the     *)
(* JobStore in which both read and publish the state of the job.           *)
(*                                                                         *)
(* Jobs share no mutable state but the dictionaries of the JobStore and of *)
(* the JobRunner, each entry under its lock: one job stands for all.  The  *)
(* current Job of the store is the last snapshot of its journal, since     *)
(* update and progress change both in one critical section.                *)
(***************************************************************************)
EXTENDS Orchestrator, Sequences

CONSTANT Requests   \* the HTTP requests that will ask for a cancellation

VARIABLES
  thread,       \* where the job's thread is
  history,      \* JobStore._history of the job
  caught,       \* the exception _execute is handling
  reportFile,   \* reports_dir/<run_id>.json
  published,    \* whether the publisher returned a URL
  recorded,     \* whether the HistoryStore holds the run
  request       \* progress of each cancellation request

jobVars == <<thread, history, caught, reportFile, published, recorded,
             request>>
allVars == <<vars, jobVars>>

Thread   == {"absent", "registered", "building", "running", "dumping",
             "writing", "publishing", "recording", "finishing", "exited"}
JobState == {"pending", "running", "done", "failed", "cancelled"}
Terminal == {"done", "failed", "cancelled"}
Job      == [state : JobState, done : Nat, total : Nat,
             report_name : BOOLEAN, published_url : BOOLEAN]

job        == history[Len(history)]
IsTerminal == history # <<>> /\ job.state \in Terminal

JobTypeOK ==
  /\ TypeOK
  /\ thread \in Thread
  /\ history \in Seq(Job)
  /\ caught \in Raised
  /\ reportFile \in {"absent", "partial", "complete"}
  /\ published \in BOOLEAN
  /\ recorded \in BOOLEAN
  /\ request \in [Requests -> {"idle", "armed", "acked", "refused"}]

JobInit ==
  /\ Init
  /\ thread = "absent"
  /\ history = <<>>
  /\ caught = "none"
  /\ reportFile = "absent"
  /\ published = FALSE
  /\ recorded = FALSE
  /\ request = [c \in Requests |-> "idle"]

-----------------------------------------------------------------------------
(* JobStore                                                                *)

Create == history' = <<[state |-> "pending", done |-> 0, total |-> 0,
                        report_name |-> FALSE, published_url |-> FALSE]>>

\* JobStore.update replaces the state, the report name and the URL.
Update(s, report, url) ==
  history' = Append(history, [job EXCEPT !.state = s, !.report_name = report,
                                         !.published_url = url])

\* JobStore.progress keeps the state.
Progress(n, total) ==
  history' = Append(history, [job EXCEPT !.done = n, !.total = total])

-----------------------------------------------------------------------------
(* JobRunner.launch and the job's thread                                   *)

\* The job is created and its control and thread registered before launch
\* returns the id: nobody can name the job earlier.
Launch ==
  /\ thread = "absent"
  /\ Create
  /\ thread' = "registered"
  /\ UNCHANGED <<vars, caught, reportFile, published, recorded, request>>

ThreadStarts ==
  /\ thread = "registered"
  /\ Update("running", FALSE, FALSE)
  /\ thread' = "building"
  /\ UNCHANGED <<vars, caught, reportFile, published, recorded, request>>

\* build_spec materializes the corpus into the workspace of the job.
BuildSpec ==
  /\ thread = "building"
  /\ \/ thread' = "running" /\ UNCHANGED caught
     \/ thread' = "finishing" /\ caught' = "error"
  /\ UNCHANGED <<vars, history, reportFile, published, recorded, request>>

\* A step of the orchestrator.  Its progress callback is JobStore.progress.
EngineStep ==
  /\ thread = "running"
  /\ RunStep
  /\ IF ticks' # ticks THEN Progress(ticks', TotalUnits) ELSE UNCHANGED history
  /\ UNCHANGED <<thread, caught, reportFile, published, recorded, request>>

\* Mutation: the outcome of the run is not looked at before the dump.
EngineReturnsAnyhow ==
  /\ thread = "running" /\ phase = "ended"
  /\ caught' = raised
  /\ thread' = "dumping"
  /\ UNCHANGED <<vars, history, reportFile, published, recorded, request>>

EngineReturns ==
  /\ thread = "running" /\ phase = "ended"
  /\ caught' = raised
  /\ thread' = IF raised = "none" THEN "dumping" ELSE "finishing"
  /\ UNCHANGED <<vars, history, reportFile, published, recorded, request>>

\* mkdir, then dump_run_result opens the file (truncating it) ...
DumpOpens ==
  /\ thread = "dumping"
  /\ \/ thread' = "writing" /\ reportFile' = "partial" /\ UNCHANGED caught
     \/ thread' = "finishing" /\ caught' = "error" /\ UNCHANGED reportFile
  /\ UNCHANGED <<vars, history, published, recorded, request>>

\* Mutation: a failed write is treated as best effort.
DumpWritesSafe ==
  /\ thread = "writing"
  /\ thread' = "publishing" /\ reportFile' \in {"partial", "complete"}
  /\ UNCHANGED <<vars, history, caught, published, recorded, request>>

\* ... and writes it.
DumpWrites ==
  /\ thread = "writing"
  /\ \/ thread' = "publishing" /\ reportFile' = "complete" /\ UNCHANGED caught
     \/ thread' = "finishing" /\ caught' = "error" /\ UNCHANGED reportFile
  /\ UNCHANGED <<vars, history, published, recorded, request>>

\* _publish_safe: a URL, or None when the publisher is inactive or fails.
PublishSafe ==
  /\ thread = "publishing"
  /\ published' \in BOOLEAN
  /\ thread' = "recording"
  /\ UNCHANGED <<vars, history, caught, reportFile, recorded, request>>

\* _record_safe: the run enters the history, or the failure is logged.
RecordSafe ==
  /\ thread = "recording"
  /\ recorded' \in BOOLEAN
  /\ thread' = "finishing"
  /\ UNCHANGED <<vars, history, caught, reportFile, published, request>>

\* Mutation: no catch-all, the thread dies of an unexpected exception.
FinishOrDie ==
  /\ thread = "finishing"
  /\ \/ caught = "cancelled" /\ Update("cancelled", FALSE, FALSE)
     \/ caught = "error"     /\ UNCHANGED history
     \/ caught = "none"      /\ Update("done", TRUE, published)
  /\ thread' = "exited"
  /\ UNCHANGED <<vars, caught, reportFile, published, recorded, request>>

\* The except and else clauses of _execute.
Finish ==
  /\ thread = "finishing"
  /\ \/ caught = "cancelled" /\ Update("cancelled", FALSE, FALSE)
     \/ caught = "error"     /\ Update("failed", FALSE, FALSE)
     \/ caught = "none"      /\ Update("done", TRUE, published)
  /\ thread' = "exited"
  /\ UNCHANGED <<vars, caught, reportFile, published, recorded, request>>

-----------------------------------------------------------------------------
(* JobRunner.cancel, called by a request that knows the id                 *)

Refuses == IsTerminal

\* The control is looked up, then the state of the job is read ...
CancelCheck(c) ==
  /\ request[c] = "idle" /\ thread # "absent"
  /\ request' = [request EXCEPT ![c] = IF Refuses THEN "refused"
                                                  ELSE "armed"]
  /\ UNCHANGED <<vars, thread, history, caught, reportFile, published,
                 recorded>>

\* Mutation: the request publishes the end of the job itself.
CancelPublishes(c) ==
  /\ request[c] = "armed"
  /\ cancelEvent' = TRUE
  /\ Update("cancelled", FALSE, FALSE)
  /\ request' = [request EXCEPT ![c] = "acked"]
  /\ UNCHANGED <<runVars, thread, caught, reportFile, published, recorded>>

\* ... and the control triggered, in whatever state the job is by then.
CancelTrigger(c) ==
  /\ request[c] = "armed"
  /\ cancelEvent' = TRUE
  /\ request' = [request EXCEPT ![c] = "acked"]
  /\ UNCHANGED <<runVars, thread, history, caught, reportFile, published,
                 recorded>>

-----------------------------------------------------------------------------
ThreadStep ==
  \/ ThreadStarts \/ BuildSpec \/ EngineReturns
  \/ DumpOpens \/ DumpWrites \/ PublishSafe \/ RecordSafe \/ Finish

JobOver == thread = "exited" /\ UNCHANGED allVars

JobNext ==
  \/ Launch \/ ThreadStep \/ EngineStep
  \/ \E c \in Requests : CancelCheck(c) \/ CancelTrigger(c)
  \/ JobOver

\* The job's thread runs on its own and inside the orchestrator, the pool's
\* threads run between their steps, and a request that has begun is served.
\* Nothing is assumed of a module that was entered: the deadline of a run is
\* infinite, which some adapters hand to their client as no timeout at all,
\* so that EndStep may never happen.
EngineMainStep == EngineStep /\ MainStep
EnginePoolStep(u) == EngineStep /\ (StartUnit(u) \/ PollCancel(u) \/ EnterStep(u))

JobFairness ==
  /\ WF_allVars(ThreadStep)
  /\ WF_allVars(EngineMainStep)
  /\ \A u \in Unit : WF_allVars(EnginePoolStep(u))
  /\ \A c \in Requests : WF_allVars(CancelTrigger(c))

JobSpec     == JobInit /\ [][JobNext]_allVars
FairJobSpec == JobSpec /\ JobFairness

-----------------------------------------------------------------------------
(* Properties.                                                             *)

\* A terminal snapshot is the last of the journal: neither a late progress
\* callback, nor a cancellation, nor the job's own thread publishes after it,
\* so that a client that has seen it may close its stream.
TerminalIsFinal == [][IsTerminal => history' = history]_allVars

\* A job shows "done" only once its report can be read in full, under the
\* name it gives, with every unit counted.
DoneHasReport ==
  IsTerminal /\ job.state = "done" =>
    /\ job.report_name
    /\ reportFile = "complete"
    /\ job.done = TotalUnits

\* Nothing works for a job that is over: when a client sees the end, no
\* thread of its pool is inside a module or has a unit left to take.
QuietWhenOver ==
  IsTerminal => inStep = {} /\ Queued = {} /\ Running = {}

\* A cancelled job was asked to stop, and it left no report, no publication
\* and no entry in the history of runs.
CancelledLeavesNothing ==
  IsTerminal /\ job.state = "cancelled" =>
    /\ \E c \in Requests : request[c] = "acked"
    /\ reportFile = "absent" /\ ~published /\ ~recorded

\* cancel answers False only for a job that is over.
RefusedOnlyWhenOver ==
  \A c \in Requests : request[c] = "refused" => IsTerminal

\* A cancellation that precedes the start of some unit is honoured: that unit
\* polls it before its first step, so the job never shows "done".
UnitsToStart == {u \in pending : future[u] \in {"none", "queued"}}
CancelInTimeIsHonoured ==
  [](cancelEvent /\ UnitsToStart # {} =>
       [](IsTerminal => job.state # "done"))

\* The journal of the job is the one its clients were promised.
Lifecycle == INSTANCE JobLifecycle WITH
  Units <- TotalUnits,
  log   <- [i \in DOMAIN history |-> [state |-> history[i].state,
                                      done  |-> history[i].done]]
LifecycleSpec     == Lifecycle!Spec

\* Every module that is entered is left: it answers, or raises.
ModulesReturn == \A u \in Unit : []<>(u \notin inStep)

\* The journal is the one that was promised, and a job that was created ends,
\* whatever is cancelled, dropped or failing: only a module that never returns
\* can hold it.
LifecycleLiveSpec == LifecycleSpec /\ (ModulesReturn => Lifecycle!Progress)
=============================================================================
