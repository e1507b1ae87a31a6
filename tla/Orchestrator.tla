---------------------------- MODULE Orchestrator ----------------------------
(***************************************************************************)
(* One call of cinoc.app.orchestrator.run: every pipeline of a benchmark   *)
(* on every document of a corpus.  The main thread builds the modules,     *)
(* localizes remote images, plans the units (reloading those a resume      *)
(* store already holds), submits the others to a ThreadPoolExecutor,       *)
(* collects their futures as they complete and assembles the result.  The  *)
(* pool's threads run PipelineExecutor.execute_document, which polls the   *)
(* cancellation event before each step.                                    *)
(*                                                                         *)
(* A unit is a pipeline on a document.  Units are numbered in the order of *)
(* the spec (pipelines outside, documents inside): the order in which they *)
(* are planned, submitted, taken by the pool (its queue is FIFO) and       *)
(* assembled.  Artifacts are abstracted to whether a unit has any.         *)
(***************************************************************************)
EXTENDS Naturals, FiniteSets

CONSTANTS
  NPipelines,     \* number of pipelines (competitors) of the spec
  NDocs,          \* number of documents of the corpus
  NSteps,         \* number of steps of every pipeline
  MaxWorkers,     \* what max_workers, CINOC_MAX_WORKERS or cpu_count chose
  RemoteDocs,     \* documents whose image_uri is an http(s) URL
  ImagelessDocs,  \* documents that may be without image_uri
  ResumeEnabled   \* whether a resume_store is given (the CLI only)

TotalUnits == NPipelines * NDocs
Doc        == 1 .. NDocs
Unit       == 1 .. TotalUnits
DocOf(u)   == ((u - 1) % NDocs) + 1

ASSUME OrchestratorAssumption ==
  /\ NPipelines \in Nat
  /\ NDocs \in Nat
  /\ TotalUnits \in Nat
  /\ NSteps \in Nat \ {0}
  /\ MaxWorkers \in Nat \ {0}
  /\ RemoteDocs \subseteq Doc
  /\ ImagelessDocs \subseteq Doc
  /\ RemoteDocs \intersect ImagelessDocs = {}
  /\ ResumeEnabled \in BOOLEAN

Phase   == {"build", "materialize", "plan", "submit", "collect", "drain",
            "persist", "assemble", "ended"}
Raised  == {"none", "cancelled", "error"}
Future  == {"none", "queued", "running", "ok", "isolated", "cancelled",
            "crashed", "dropped"}
Settled == {"ok", "isolated", "cancelled", "crashed"}

VARIABLES
  phase,         \* where the main thread is in run()
  raised,        \* the exception run() is propagating or has raised
  cursor,        \* next document to localize, or next unit to plan
  unreachable,   \* documents whose image could not be downloaded
  pending,       \* units to execute
  workers,       \* size of the thread pool, 0 before it exists
  future,        \* state of the future of each unit
  polled,        \* units past the poll of a step, not yet in its module
  inStep,        \* units inside a module's execute
  stepsDone,     \* number of steps each unit has completed
  results,       \* what run() holds for each unit
  ticks,         \* _ProgressCounter._done, also the last value reported
  collected,     \* futures the main thread has consumed
  saved,         \* units written to the resume store by this run
  cancelEvent    \* the event of the RunControl shared with the caller

runVars == <<phase, raised, cursor, unreachable, pending, workers, future,
             polled, inStep, stepsDone, results, ticks, collected, saved>>
vars    == <<runVars, cancelEvent>>

poolVars == <<workers, future, polled, inStep, stepsDone>>

Queued  == {u \in Unit : future[u] = "queued"}
Running == {u \in Unit : future[u] = "running"}

TypeOK ==
  /\ phase \in Phase
  /\ raised \in Raised
  /\ cursor \in Nat \ {0}
  /\ unreachable \subseteq Doc
  /\ pending \subseteq Unit
  /\ workers \in Nat
  /\ future \in [Unit -> Future]
  /\ polled \subseteq Unit
  /\ inStep \subseteq Unit
  /\ stepsDone \in [Unit -> 0 .. NSteps]
  /\ results \in [Unit -> {"absent", "empty", "artifacts"}]
  /\ ticks \in Nat
  /\ collected \subseteq Unit
  /\ saved \subseteq Unit
  /\ cancelEvent \in BOOLEAN

RunInit ==
  /\ phase = "build"
  /\ raised = "none"
  /\ cursor = 1
  /\ unreachable = {}
  /\ pending = {}
  /\ workers = 0
  /\ future = [u \in Unit |-> "none"]
  /\ polled = {}
  /\ inStep = {}
  /\ stepsDone = [u \in Unit |-> 0]
  /\ results = [u \in Unit |-> "absent"]
  /\ ticks = 0
  /\ collected = {}
  /\ saved = {}

Init == RunInit /\ cancelEvent = FALSE

-----------------------------------------------------------------------------
(* The main thread, before the pool exists.                                *)

\* The exception e leaves run() with no pool to wait for.
Abort(e) == phase' = "ended" /\ raised' = e

\* registry.build of every module, then one workspace per pipeline; either
\* may raise.
BuildModules ==
  /\ phase = "build"
  /\ \/ phase' = "materialize" /\ UNCHANGED raised
     \/ Abort("error")
  /\ UNCHANGED <<cursor, unreachable, pending, poolVars, results, ticks,
                 collected, saved, cancelEvent>>

\* One turn of the loop of _materialize_remote_images.  A CorpusHttpError
\* marks the document; any other exception of download leaves run().
MaterializeDocument ==
  /\ phase = "materialize" /\ cursor <= NDocs
  /\ \/ /\ cursor' = cursor + 1
        /\ UNCHANGED <<phase, raised, unreachable>>
     \/ /\ cursor \in RemoteDocs
        /\ cursor' = cursor + 1
        /\ unreachable' = unreachable \union {cursor}
        /\ UNCHANGED <<phase, raised>>
     \/ /\ cursor \in RemoteDocs
        /\ Abort("error")
        /\ UNCHANGED <<cursor, unreachable>>
  /\ UNCHANGED <<pending, poolVars, results, ticks, collected, saved,
                 cancelEvent>>

MaterializeDone ==
  /\ phase = "materialize" /\ cursor > NDocs
  /\ phase' = "plan"
  /\ cursor' = 1
  /\ UNCHANGED <<raised, unreachable, pending, poolVars, results, ticks,
                 collected, saved, cancelEvent>>

\* Mutations of Record: the branches that isolate a unit leave before the
\* tick; keep what a failed unit produced.
RecordWithoutTick(u, r) ==
  /\ results' = [results EXCEPT ![u] = r]
  /\ ticks' = IF r = "empty" THEN ticks ELSE ticks + 1
RecordKeepsPartial(u, r) ==
  /\ results' = [results EXCEPT ![u] = "artifacts"]
  /\ ticks' = ticks + 1

\* results[unit] = r, then progress.tick().
Record(u, r) ==
  /\ results' = [results EXCEPT ![u] = r]
  /\ ticks' = ticks + 1

\* One turn of the loop of step 1: an unreachable image fails the unit, a
\* cache hit fills it, every other unit is pending.
PlanUnit ==
  /\ phase = "plan" /\ cursor <= TotalUnits
  /\ \/ /\ DocOf(cursor) \in unreachable
        /\ Record(cursor, "empty")
        /\ UNCHANGED pending
     \/ /\ DocOf(cursor) \notin unreachable
        /\ ResumeEnabled
        /\ Record(cursor, "artifacts")
        /\ UNCHANGED pending
     \/ /\ DocOf(cursor) \notin unreachable
        /\ pending' = pending \union {cursor}
        /\ UNCHANGED <<results, ticks>>
  /\ cursor' = cursor + 1
  /\ UNCHANGED <<phase, raised, unreachable, poolVars, collected, saved,
                 cancelEvent>>

ResolveWorkers(nPending) ==
  LET chosen == IF MaxWorkers < nPending THEN MaxWorkers ELSE nPending
  IN  IF chosen < 1 THEN 1 ELSE chosen

\* The pool is created only when something is pending.
PlanDone ==
  /\ phase = "plan" /\ cursor > TotalUnits
  /\ IF pending = {}
     THEN phase' = "persist" /\ UNCHANGED workers
     ELSE /\ phase' = "submit"
          /\ workers' = ResolveWorkers(Cardinality(pending))
  /\ UNCHANGED <<raised, cursor, unreachable, pending, future, polled,
                 inStep, stepsDone, results, ticks, collected, saved, cancelEvent>>

-----------------------------------------------------------------------------
(* The main thread, with the pool.                                         *)

\* A document of which no unit was submitted or reloaded may have no image.
MayLackImage(d) ==
  /\ d \in ImagelessDocs
  /\ \A u \in Unit : DocOf(u) = d => future[u] = "none" /\ results[u] # "artifacts"

\* One turn of the comprehension that submits.  _initial_inputs raises for a
\* document without an image: the `with` block of the pool is left at once.
SubmitUnit(u) ==
  /\ phase = "submit"
  /\ u \in pending /\ future[u] = "none"
  /\ \A v \in pending : future[v] = "none" => u <= v
  /\ \/ /\ future' = [future EXCEPT ![u] = "queued"]
        /\ UNCHANGED <<phase, raised>>
     \/ /\ MayLackImage(DocOf(u))
        /\ phase' = "drain" /\ raised' = "error"
        /\ UNCHANGED future
  /\ UNCHANGED <<cursor, unreachable, pending, workers, polled, inStep,
                 stepsDone, results, ticks, collected, saved, cancelEvent>>

SubmitDone ==
  /\ phase = "submit"
  /\ \A u \in pending : future[u] # "none"
  /\ phase' = "collect"
  /\ UNCHANGED <<raised, cursor, unreachable, pending, poolVars, results,
                 ticks, collected, saved, cancelEvent>>

\* Mutation: cancel_futures is left out.
DropNothing == future

\* pool.shutdown(wait=False, cancel_futures=True)
DropQueued == [u \in Unit |-> IF future[u] = "queued" THEN "dropped"
                                                     ELSE future[u]]

\* Mutation: the except clause catches the cancellation as well.
IsolatesCancellation(f) == f \in {"isolated", "cancelled"}

\* except (AdapterStepError, PipelineStepError)
Isolates(f) == f = "isolated"

\* as_completed yields a future.  Success and a step error record the unit;
\* a cancellation drops what is queued; any other exception leaves the
\* `with` block, which lets the pool finish what was submitted.
CollectFuture(u) ==
  /\ phase = "collect"
  /\ u \in pending \ collected
  /\ future[u] \in Settled
  /\ collected' = collected \union {u}
  /\ CASE future[u] = "ok" ->
            /\ Record(u, "artifacts")
            /\ UNCHANGED <<phase, raised, future>>
       [] Isolates(future[u]) ->
            /\ Record(u, "empty")
            /\ UNCHANGED <<phase, raised, future>>
       [] future[u] = "cancelled" /\ ~Isolates(future[u]) ->
            /\ future' = DropQueued
            /\ phase' = "drain" /\ raised' = "cancelled"
            /\ UNCHANGED <<results, ticks>>
       [] OTHER ->
            /\ phase' = "drain" /\ raised' = "error"
            /\ UNCHANGED <<results, ticks, future>>
  /\ UNCHANGED <<cursor, unreachable, pending, workers, polled, inStep,
                 stepsDone, saved, cancelEvent>>

CollectDone ==
  /\ phase = "collect"
  /\ collected = pending
  /\ phase' = "persist"
  /\ UNCHANGED <<raised, cursor, unreachable, pending, poolVars, results,
                 ticks, collected, saved, cancelEvent>>

\* Mutation: a pool that is not waited for once its queue is empty.
QueueIdle == Queued = {}

PoolIdle == Queued = {} /\ Running = {}

\* Leaving the `with` block of the pool waits for its threads.
Drain ==
  /\ phase = "drain"
  /\ PoolIdle
  /\ phase' = "ended"
  /\ UNCHANGED <<raised, cursor, unreachable, pending, poolVars, results,
                 ticks, collected, saved, cancelEvent>>

\* Step 3: resume_store.save of each unit that succeeded, best effort.
PersistSaves ==
  /\ phase = "persist"
  /\ phase' = "assemble"
  /\ IF ResumeEnabled
     THEN saved' \in SUBSET {u \in pending : future[u] = "ok"}
     ELSE UNCHANGED saved
  /\ UNCHANGED <<raised, cursor, unreachable, pending, poolVars, results,
                 ticks, collected, cancelEvent>>

\* Step 4: results[unit] of every unit in spec order (a KeyError if one is
\* missing), the manifest, the artifact sink, evaluate_run.
Assemble ==
  /\ phase = "assemble"
  /\ phase' = "ended"
  /\ \/ /\ \A u \in Unit : results[u] # "absent"
        /\ raised' = "none"
     \/ raised' = "error"
  /\ UNCHANGED <<cursor, unreachable, pending, poolVars, results, ticks,
                 collected, saved, cancelEvent>>

-----------------------------------------------------------------------------
(* The pool's threads: PipelineExecutor.execute_document.                  *)

\* An idle thread of the pool takes the oldest unit of the queue.
StartUnit(u) ==
  /\ future[u] = "queued"
  /\ \A v \in Queued : u <= v
  /\ Cardinality(Running) < workers
  /\ future' = [future EXCEPT ![u] = "running"]
  /\ UNCHANGED <<phase, raised, cursor, unreachable, pending, workers, polled,
                 inStep, stepsDone, results, ticks, collected, saved,
                 cancelEvent>>

\* Mutations: the event is polled once per unit; before every step but the
\* first.
StopsAtFirstStep(u) == cancelEvent /\ stepsDone[u] = 0
StopsBetweenSteps(u) == cancelEvent /\ stepsDone[u] > 0

\* ctrl.raise_if_cancelled()
MustStop(u) == cancelEvent
LastStep(u) == stepsDone[u] + 1 = NSteps

\* The head of the loop over the steps: the cancellation is polled ...
PollCancel(u) ==
  /\ future[u] = "running" /\ u \notin polled \union inStep
  /\ IF MustStop(u)
     THEN future' = [future EXCEPT ![u] = "cancelled"] /\ UNCHANGED polled
     ELSE polled' = polled \union {u} /\ UNCHANGED future
  /\ UNCHANGED <<phase, raised, cursor, unreachable, pending, workers, inStep,
                 stepsDone, results, ticks, collected, saved, cancelEvent>>

\* ... the module and its inputs are resolved (a PipelineStepError if they
\* are not there), the module is entered, whatever was cancelled meanwhile.
EnterStep(u) ==
  /\ u \in polled
  /\ polled' = polled \ {u}
  /\ \/ inStep' = inStep \union {u} /\ UNCHANGED future
     \/ future' = [future EXCEPT ![u] = "isolated"] /\ UNCHANGED inStep
  /\ UNCHANGED <<phase, raised, cursor, unreachable, pending, workers,
                 stepsDone, results, ticks, collected, saved, cancelEvent>>

\* module.execute (or the fan-out) returns or raises: a step error, the
\* cancellation if the module polls it too, anything else.
EndStep(u) ==
  /\ u \in inStep
  /\ inStep' = inStep \ {u}
  /\ \/ /\ stepsDone' = [stepsDone EXCEPT ![u] = @ + 1]
        /\ future' = [future EXCEPT ![u] =
                        IF LastStep(u) THEN "ok" ELSE "running"]
     \/ /\ future' = [future EXCEPT ![u] = "isolated"]
        /\ UNCHANGED stepsDone
     \/ /\ cancelEvent
        /\ future' = [future EXCEPT ![u] = "cancelled"]
        /\ UNCHANGED stepsDone
     \/ /\ future' = [future EXCEPT ![u] = "crashed"]
        /\ UNCHANGED stepsDone
  /\ UNCHANGED <<phase, raised, cursor, unreachable, pending, workers, polled,
                 results, ticks, collected, saved, cancelEvent>>

\* The owner of the RunControl calls trigger_cancel.
TriggerCancel ==
  /\ ~cancelEvent /\ cancelEvent' = TRUE
  /\ UNCHANGED runVars

-----------------------------------------------------------------------------
MainStep ==
  \/ BuildModules \/ MaterializeDocument \/ MaterializeDone
  \/ PlanUnit \/ PlanDone
  \/ (\E u \in Unit : SubmitUnit(u)) \/ SubmitDone
  \/ (\E u \in Unit : CollectFuture(u)) \/ CollectDone
  \/ Drain \/ PersistSaves \/ Assemble

PoolStep(u) == StartUnit(u) \/ PollCancel(u) \/ EnterStep(u) \/ EndStep(u)

RunStep == MainStep \/ \E u \in Unit : PoolStep(u)

\* run() has returned or raised: nothing is left to do.
Over == phase = "ended" /\ UNCHANGED vars

Next == RunStep \/ TriggerCancel \/ Over

Spec == Init /\ [][Next]_vars

-----------------------------------------------------------------------------
(* Properties.                                                             *)

\* The progress reported by _ProgressCounter is the number of units whose
\* result run() holds: no branch records a unit without a tick or ticks
\* twice for one, and the bar never passes the total.
ProgressCountsResults ==
  ticks = Cardinality({u \in Unit : results[u] # "absent"})

\* Once the collection is over every unit has its entry, whichever way it
\* ended: step 4 reads results[unit] for all of them without a KeyError.
AssemblyTotal ==
  phase \in {"persist", "assemble"} =>
    \A u \in Unit : results[u] # "absent"

Outcome(f) == CASE f = "ok"       -> "artifacts"
                [] f = "isolated" -> "empty"
                [] OTHER          -> "absent"

\* What run() holds for an executed unit depends on how this unit ended and
\* on nothing else, in particular not on the order of completion.
ResultsFaithful ==
  \A u \in pending :
    results[u] = IF u \in collected THEN Outcome(future[u]) ELSE "absent"

\* The temporary workspace is removed when run() ends: by then no thread of
\* the pool is inside a module or may still enter one, even when the run is
\* abandoned on a cancellation or an unexpected exception.
WorkspaceOutlivesPool ==
  phase \in {"persist", "assemble", "ended"} =>
    inStep = {} /\ Queued = {} /\ Running = {}

\* A run that returns was not cut short: no unit was dropped, cancelled or
\* crashed, though a cancellation may have come too late to matter.
ReturnedRunIsComplete ==
  phase = "ended" /\ raised = "none" =>
    \A u \in Unit : /\ results[u] # "absent"
                    /\ future[u] \in {"none", "ok", "isolated"}

\* A step error of a unit never takes the other units down: the pool is
\* abandoned on an error only if a unit raised something else, or a document
\* had no image to start from.
StepErrorsAreIsolated ==
  phase = "drain" /\ raised = "error" =>
    \/ \E u \in collected : future[u] = "crashed"
    \/ \E u \in pending : future[u] = "none" /\ DocOf(u) \in ImagelessDocs

\* The cancellation is polled before every step: from the moment the event is
\* set, a unit completes at most the step it is in (or was about to enter);
\* this says something of the units that have more than one step to go.
CancelStopsWithinOneStep ==
  \A u \in Unit, n \in {m \in 0 .. NSteps : m + 1 < NSteps} :
    [](cancelEvent /\ stepsDone[u] = n => [](stepsDone[u] <= n + 1))

\* After the run gives up on a cancellation the pool starts nothing: the
\* threads only finish the units they are executing.
CancelledRunStartsNothing ==
  [][raised = "cancelled" =>
       \A u \in Unit : future'[u] = "running" => future[u] = "running"]_vars
=============================================================================
