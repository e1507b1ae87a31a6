-------------------------- MODULE JobRunner_proofs --------------------------
(***************************************************************************)
(* Proofs about Orchestrator and JobRunner, for any number of pipelines,   *)
(* documents, steps, workers and clients.  The job's thread drives the     *)
(* engine by its own steps only, so that every behaviour of JobSpec is one *)
(* of Orchestrator's Spec and the invariant proved of it in the first part *)
(* is used in the second as it stands.                                     *)
(***************************************************************************)
EXTENDS JobRunner, FiniteSetTheorems, SequenceTheorems, TLAPS

(* The engine: Orchestrator.                                               *)

Early   == {"build", "materialize", "plan"}
Working == Early \union {"submit", "collect", "persist", "assemble"}

\* An exception is being propagated or was raised exactly when run() has left
\* the normal course of its phases.
RaisedInv ==
  /\ phase \in Working => raised = "none"
  /\ phase = "drain" => raised # "none"

\* A thread of the pool that is past a poll executes a running unit, and is
\* at one place of it; only pending units have a future; a unit that may
\* still take a step has one left.
ThreadInv ==
  /\ polled \union inStep \subseteq Running
  /\ polled \intersect inStep = {}
  /\ \A u \in Unit : future[u] # "none" => u \in pending
  /\ \A u \in Unit :
       future[u] \in {"none", "queued", "running"} => stepsDone[u] < NSteps

\* What planning leaves behind: before the cursor a unit is pending or has a
\* result, after it nothing is known of it.
PlanInv ==
  /\ phase \in Early => collected = {} /\ \A u \in Unit : future[u] = "none"
  /\ phase \in {"build", "materialize"} =>
       pending = {} /\ \A u \in Unit : results[u] = "absent"
  /\ phase = "plan" =>
       \A u \in Unit : IF u < cursor THEN u \in pending \/ results[u] # "absent"
                                     ELSE u \notin pending /\ results[u] = "absent"
  /\ phase \notin Early \union {"ended"} =>
       \A u \in Unit : u \in pending \/ results[u] # "absent"

\* What collecting has consumed: nothing before it, and only units that were
\* recorded until an exception ends it.
CollectInv ==
  /\ collected \subseteq pending
  /\ \A u \in collected : future[u] \in Settled
  /\ phase = "submit" => collected = {}
  /\ phase = "collect" => \A u \in collected : future[u] \in {"ok", "isolated"}
  /\ phase \in {"persist", "assemble"} \/ (phase = "ended" /\ raised = "none") =>
       /\ collected = pending
       /\ \A u \in pending : future[u] \in {"ok", "isolated"}
       /\ \A u \in Unit : u \in pending \/ results[u] # "absent"

\* The pool is idle when run() is over, and its queue is empty as soon as the
\* run gave up on a cancellation.
IdleInv ==
  /\ phase = "ended" => Queued = {} /\ Running = {}
  /\ raised = "cancelled" => Queued = {}

IInv == /\ TypeOK /\ RaisedInv /\ ThreadInv /\ PlanInv /\ CollectInv /\ IdleInv
        /\ ResultsFaithful /\ ProgressCountsResults /\ StepErrorsAreIsolated

-----------------------------------------------------------------------------
LEMMA TotalUnitsNat == TotalUnits \in Nat
  BY OrchestratorAssumption

\* The steps of the main thread and of the pool are the actions below.
LEMMA StepCases ==
  ASSUME [Next]_vars
  PROVE  \/ BuildModules \/ MaterializeDocument \/ MaterializeDone
         \/ PlanUnit \/ PlanDone \/ SubmitDone \/ CollectDone
         \/ Drain \/ PersistSaves \/ Assemble \/ TriggerCancel
         \/ UNCHANGED vars
         \/ \E u \in Unit : \/ SubmitUnit(u) \/ CollectFuture(u) \/ StartUnit(u)
                            \/ PollCancel(u) \/ EnterStep(u) \/ EndStep(u)
  BY DEF Next, RunStep, MainStep, PoolStep, Over

LEMMA WorkersNat == ASSUME NEW n \in Nat PROVE ResolveWorkers(n) \in Nat
  BY OrchestratorAssumption DEF ResolveWorkers

LEMMA UnitsFinite ==
  ASSUME NEW S \in SUBSET Unit
  PROVE  IsFiniteSet(S) /\ Cardinality(S) \in Nat
<1>1. IsFiniteSet(Unit)
  BY TotalUnitsNat, FS_Interval DEF Unit
<1>2. QED
  BY <1>1, FS_Subset, FS_CardinalityType

LEMMA TypeOK_init == Init => TypeOK
<1> SUFFICES ASSUME Init PROVE TypeOK
  OBVIOUS
<1> USE DEF Init, RunInit
<1>1. phase \in Phase /\ raised \in Raised /\ cancelEvent \in BOOLEAN
  BY DEF Phase, Raised
<1>2. future \in [Unit -> Future] /\ stepsDone \in [Unit -> 0 .. NSteps]
  BY OrchestratorAssumption DEF Future
<1>3. results \in [Unit -> {"absent", "empty", "artifacts"}]
  OBVIOUS
<1>4. QED
  BY <1>1, <1>2, <1>3 DEF TypeOK

LEMMA TypeOK_step ==
  ASSUME TypeOK, ThreadInv, [Next]_vars
  PROVE  TypeOK'
<1> USE OrchestratorAssumption, TotalUnitsNat
    DEF TypeOK, Phase, Raised, poolVars
<1>1. ASSUME BuildModules PROVE TypeOK'
  BY <1>1 DEF BuildModules, Abort
<1>2. ASSUME MaterializeDocument PROVE TypeOK'
  BY <1>2 DEF MaterializeDocument, Abort
<1>3. ASSUME MaterializeDone \/ SubmitDone \/ CollectDone \/ Drain PROVE TypeOK'
  BY <1>3 DEF MaterializeDone, SubmitDone, CollectDone, Drain
<1>4. ASSUME PlanUnit PROVE TypeOK'
  <2>1. cursor \in Unit
    BY <1>4 DEF PlanUnit, Unit
  <2>2. pending' \subseteq Unit
    BY <1>4, <2>1 DEF PlanUnit
  <2>3. QED
    BY <1>4, <2>2 DEF PlanUnit, Record
<1>5. ASSUME PlanDone PROVE TypeOK'
  BY <1>5, WorkersNat, UnitsFinite DEF PlanDone
<1>6. ASSUME NEW u \in Unit, SubmitUnit(u) PROVE TypeOK'
  BY <1>6 DEF SubmitUnit, Future
<1>7. ASSUME NEW u \in Unit, CollectFuture(u) PROVE TypeOK'
  <2>1. DropQueued \in [Unit -> Future]
    BY DEF DropQueued, Future
  <2>2. future' \in [Unit -> Future]
    BY <1>7, <2>1 DEF CollectFuture, Isolates
  <2>3. /\ ticks' \in Nat
        /\ results' \in [Unit -> {"absent", "empty", "artifacts"}]
        /\ phase' \in Phase /\ raised' \in Raised
    BY <1>7 DEF CollectFuture, Isolates, Record
  <2>4. QED
    BY <1>7, <2>2, <2>3 DEF CollectFuture
<1>8. ASSUME PersistSaves PROVE TypeOK'
  BY <1>8 DEF PersistSaves
<1>9. ASSUME Assemble PROVE TypeOK'
  BY <1>9 DEF Assemble
<1>10. ASSUME NEW u \in Unit, StartUnit(u) \/ PollCancel(u) \/ EnterStep(u)
       PROVE  TypeOK'
  BY <1>10 DEF StartUnit, PollCancel, EnterStep, Future
<1>11. ASSUME NEW u \in Unit, EndStep(u) PROVE TypeOK'
  <2>1. stepsDone[u] + 1 \in 0 .. NSteps
    BY <1>11 DEF EndStep, ThreadInv, Running
  <2>2. stepsDone' \in [Unit -> 0 .. NSteps]
    BY <1>11, <2>1 DEF EndStep
  <2>3. future' \in [Unit -> Future]
    BY <1>11 DEF EndStep, Future
  <2>4. QED
    BY <1>11, <2>2, <2>3 DEF EndStep
<1>12. ASSUME TriggerCancel \/ UNCHANGED vars PROVE TypeOK'
  BY <1>12 DEF TriggerCancel, vars, runVars
<1>13. QED
  BY StepCases, <1>1, <1>2, <1>3, <1>4, <1>5, <1>6, <1>7, <1>8, <1>9, <1>10,
     <1>11, <1>12

-----------------------------------------------------------------------------
\* The parts of IInv, one after the other.

LEMMA RaisedInv_step ==
  ASSUME TypeOK, RaisedInv, [Next]_vars
  PROVE  RaisedInv'
<1> USE DEF RaisedInv, Early, Working, TypeOK, Phase, poolVars
<1>1. ASSUME BuildModules \/ MaterializeDocument PROVE RaisedInv'
  BY <1>1 DEF BuildModules, Abort, MaterializeDocument, Abort
<1>2. ASSUME NEW u \in Unit, CollectFuture(u) PROVE RaisedInv'
  BY <1>2 DEF CollectFuture, Isolates, Record, DropQueued
<1>3. ASSUME MaterializeDone \/ PlanUnit \/ PlanDone \/ SubmitDone \/ CollectDone
       \/ Drain \/ PersistSaves \/ Assemble
      PROVE  RaisedInv'
  BY <1>3 DEF MaterializeDone, PlanUnit, Record, PlanDone, SubmitDone, CollectDone,
         Drain, PersistSaves, Assemble
<1>4. ASSUME NEW u \in Unit, SubmitUnit(u) \/ StartUnit(u) \/ PollCancel(u)
       \/ EnterStep(u) \/ EndStep(u)
      PROVE  RaisedInv'
  BY <1>4 DEF SubmitUnit, StartUnit, PollCancel, EnterStep, EndStep
<1>5. ASSUME TriggerCancel \/ UNCHANGED vars
      PROVE  RaisedInv'
  BY <1>5 DEF TriggerCancel, vars, runVars
<1>6. QED
  BY StepCases, <1>1, <1>2, <1>3, <1>4, <1>5

LEMMA ThreadInv_step ==
  ASSUME TypeOK, ThreadInv, [Next]_vars
  PROVE  ThreadInv'
<1> USE DEF ThreadInv, Running, TypeOK, poolVars
<1>1. ASSUME PlanUnit PROVE ThreadInv'
  BY <1>1 DEF PlanUnit, Record
<1>2. ASSUME NEW u \in Unit, SubmitUnit(u) PROVE ThreadInv'
  BY <1>2 DEF SubmitUnit
<1>3. ASSUME NEW u \in Unit, CollectFuture(u) PROVE ThreadInv'
  BY <1>3 DEF CollectFuture, Isolates, Record, DropQueued, Settled
<1>4. ASSUME NEW u \in Unit, StartUnit(u) PROVE ThreadInv'
  BY <1>4 DEF StartUnit
<1>5. ASSUME NEW u \in Unit, PollCancel(u) PROVE ThreadInv'
  BY <1>5 DEF PollCancel
<1>6. ASSUME NEW u \in Unit, EnterStep(u) PROVE ThreadInv'
  BY <1>6 DEF EnterStep
<1>7. ASSUME NEW u \in Unit, EndStep(u) PROVE ThreadInv'
  BY <1>7, OrchestratorAssumption DEF EndStep, LastStep
<1>8. ASSUME BuildModules \/ MaterializeDocument \/ MaterializeDone \/ PlanDone
       \/ SubmitDone \/ CollectDone \/ Drain \/ PersistSaves \/ Assemble
      PROVE  ThreadInv'
  BY <1>8 DEF BuildModules, Abort, MaterializeDocument, Abort, MaterializeDone,
         PlanDone, SubmitDone, CollectDone, Drain, PersistSaves, Assemble
<1>9. ASSUME TriggerCancel \/ UNCHANGED vars
      PROVE  ThreadInv'
  BY <1>9 DEF TriggerCancel, vars, runVars
<1>10. QED
  BY StepCases, <1>1, <1>2, <1>3, <1>4, <1>5, <1>6, <1>7, <1>8, <1>9

LEMMA PlanInv_step ==
  ASSUME TypeOK, RaisedInv, ThreadInv, PlanInv, ResultsFaithful, [Next]_vars
  PROVE  PlanInv'
<1> USE DEF PlanInv, Early, TypeOK, ThreadInv, Running, poolVars
<1>1. ASSUME PlanUnit PROVE PlanInv'
  <2>1. cursor \in Unit /\ cursor' = cursor + 1 /\ phase' = "plan"
    BY <1>1, TotalUnitsNat DEF PlanUnit, Unit
  <2>2. \A u \in Unit : u < cursor' <=> u < cursor \/ u = cursor
    BY <2>1, TotalUnitsNat DEF Unit
  <2>3. \A u \in Unit : u # cursor =>
          results'[u] = results[u] /\ (u \in pending' <=> u \in pending)
    BY <1>1 DEF PlanUnit, Record
  <2>4. cursor \in pending' \/ results'[cursor] # "absent"
    BY <1>1, <2>1 DEF PlanUnit, Record
  <2>5. UNCHANGED <<collected, future>>
    BY <1>1 DEF PlanUnit
  <2>6. phase = "plan"
    BY <1>1 DEF PlanUnit
  <2>7. QED
    BY <2>1, <2>2, <2>3, <2>4, <2>5, <2>6
<1>2. ASSUME PlanDone PROVE PlanInv'
  BY <1>2, TotalUnitsNat DEF PlanDone, Unit
<1>3. ASSUME MaterializeDone PROVE PlanInv'
  BY <1>3 DEF MaterializeDone, Unit
<1>4. ASSUME NEW u \in Unit, SubmitUnit(u) PROVE PlanInv'
  BY <1>4 DEF SubmitUnit
<1>5. ASSUME NEW u \in Unit, CollectFuture(u) PROVE PlanInv'
  BY <1>5 DEF CollectFuture, Isolates, Record, DropQueued
<1>6. ASSUME BuildModules \/ MaterializeDocument \/ SubmitDone \/ CollectDone \/ Drain
       \/ PersistSaves \/ Assemble
      PROVE  PlanInv'
  BY <1>6 DEF BuildModules, Abort, MaterializeDocument, Abort, SubmitDone, CollectDone,
         Drain, PersistSaves, Assemble
<1>7. ASSUME NEW u \in Unit, StartUnit(u) \/ PollCancel(u) \/ EnterStep(u) \/ EndStep(u)
      PROVE  PlanInv'
  BY <1>7 DEF StartUnit, PollCancel, EnterStep, EndStep
<1>8. ASSUME TriggerCancel \/ UNCHANGED vars
      PROVE  PlanInv'
  BY <1>8 DEF TriggerCancel, vars, runVars
<1>9. QED
  BY StepCases, <1>1, <1>2, <1>3, <1>4, <1>5, <1>6, <1>7, <1>8

LEMMA CollectInv_step ==
  ASSUME TypeOK, RaisedInv, ThreadInv, PlanInv, CollectInv, [Next]_vars
  PROVE  CollectInv'
<1> USE DEF CollectInv, Early, Working, TypeOK, Settled, poolVars
<1>1. ASSUME PlanUnit PROVE CollectInv'
  BY <1>1 DEF PlanUnit, Record, PlanInv
<1>2. ASSUME PlanDone PROVE CollectInv'
  <2>1. \A u \in Unit : u < cursor
    BY <1>2, TotalUnitsNat DEF PlanDone, Unit
  <2>2. \A u \in Unit : u \in pending \/ results[u] # "absent"
    BY <1>2, <2>1 DEF PlanDone, PlanInv
  <2>3. collected = {} /\ phase' \in {"persist", "submit"}
    BY <1>2 DEF PlanDone, PlanInv
  <2>4. phase' = "persist" => pending = {}
    BY <1>2 DEF PlanDone
  <2>5. UNCHANGED <<collected, pending, future, results>>
    BY <1>2 DEF PlanDone
  <2>6. QED
    BY <2>2, <2>3, <2>4, <2>5
<1>3. ASSUME SubmitDone PROVE CollectInv'
  BY <1>3 DEF SubmitDone, PlanInv
<1>4. ASSUME NEW u \in Unit, CollectFuture(u) PROVE CollectInv'
  BY <1>4 DEF CollectFuture, Isolates, Record, DropQueued, RaisedInv
<1>5. ASSUME CollectDone PROVE CollectInv'
  BY <1>5 DEF CollectDone, PlanInv
<1>6. ASSUME Drain PROVE CollectInv'
  BY <1>6 DEF Drain, RaisedInv
<1>7. ASSUME NEW u \in Unit, StartUnit(u) PROVE CollectInv'
  BY <1>7 DEF StartUnit, ThreadInv, Running
<1>8. ASSUME NEW u \in Unit, PollCancel(u) PROVE CollectInv'
  BY <1>8 DEF PollCancel, ThreadInv, Running
<1>9. ASSUME NEW u \in Unit, EnterStep(u) PROVE CollectInv'
  BY <1>9 DEF EnterStep, ThreadInv, Running
<1>10. ASSUME NEW u \in Unit, EndStep(u) PROVE CollectInv'
  BY <1>10 DEF EndStep, ThreadInv, Running
<1>11. ASSUME BuildModules \/ MaterializeDocument \/ MaterializeDone \/ PersistSaves
       \/ Assemble
      PROVE  CollectInv'
  BY <1>11 DEF BuildModules, Abort, MaterializeDocument, Abort, MaterializeDone,
         PersistSaves, Assemble
<1>12. ASSUME NEW u \in Unit, SubmitUnit(u)
      PROVE  CollectInv'
  BY <1>12 DEF SubmitUnit
<1>13. ASSUME TriggerCancel \/ UNCHANGED vars
      PROVE  CollectInv'
  BY <1>13 DEF TriggerCancel, vars, runVars
<1>14. QED
  BY StepCases, <1>1, <1>2, <1>3, <1>4, <1>5, <1>6, <1>7, <1>8, <1>9, <1>10, <1>11,
         <1>12, <1>13

LEMMA IdleInv_step ==
  ASSUME TypeOK, RaisedInv, ThreadInv, PlanInv, CollectInv, IdleInv, [Next]_vars
  PROVE  IdleInv'
<1> USE DEF IdleInv, TypeOK, Queued, Running, poolVars
<1>1. ASSUME BuildModules \/ MaterializeDocument PROVE IdleInv'
  BY <1>1 DEF BuildModules, Abort, MaterializeDocument, Abort, PlanInv, Early
<1>2. ASSUME NEW u \in Unit, SubmitUnit(u) PROVE IdleInv'
  BY <1>2 DEF SubmitUnit, RaisedInv, Working
<1>3. ASSUME NEW u \in Unit, CollectFuture(u) PROVE IdleInv'
  BY <1>3 DEF CollectFuture, Isolates, Record, DropQueued, RaisedInv, Working
<1>4. ASSUME Assemble PROVE IdleInv'
  BY <1>4 DEF Assemble, CollectInv, ThreadInv
<1>5. ASSUME Drain PROVE IdleInv'
  BY <1>5 DEF Drain, PoolIdle
<1>6. ASSUME NEW u \in Unit, StartUnit(u) PROVE IdleInv'
  BY <1>6 DEF StartUnit
<1>7. ASSUME NEW u \in Unit, EndStep(u) \/ EnterStep(u) \/ PollCancel(u) PROVE IdleInv'
  BY <1>7 DEF EndStep, EnterStep, PollCancel, ThreadInv
<1>8. ASSUME MaterializeDone \/ PlanUnit \/ PlanDone \/ SubmitDone \/ CollectDone
       \/ PersistSaves
      PROVE  IdleInv'
  BY <1>8 DEF MaterializeDone, PlanUnit, Record, PlanDone, SubmitDone, CollectDone,
         PersistSaves
<1>9. ASSUME TriggerCancel \/ UNCHANGED vars
      PROVE  IdleInv'
  BY <1>9 DEF TriggerCancel, vars, runVars
<1>10. QED
  BY StepCases, <1>1, <1>2, <1>3, <1>4, <1>5, <1>6, <1>7, <1>8, <1>9

LEMMA ResultsFaithful_step ==
  ASSUME TypeOK, ThreadInv, PlanInv, CollectInv, ResultsFaithful, [Next]_vars
  PROVE  ResultsFaithful'
<1> USE DEF ResultsFaithful, Outcome, TypeOK, Settled, poolVars
<1>1. ASSUME PlanUnit PROVE ResultsFaithful'
  <2>1. cursor \in Unit /\ cursor \notin pending /\ results[cursor] = "absent"
    BY <1>1, TotalUnitsNat DEF PlanUnit, PlanInv, Unit
  <2>2. collected = {} /\ UNCHANGED <<collected, future>>
    BY <1>1 DEF PlanUnit, PlanInv, Early
  <2>3. \A u \in pending : results'[u] = results[u]
    BY <1>1, <2>1 DEF PlanUnit, Record
  <2>4. cursor \in pending' => results'[cursor] = "absent"
    BY <1>1, <2>1 DEF PlanUnit, Record
  <2>5. pending' \subseteq pending \union {cursor}
    BY <1>1 DEF PlanUnit
  <2>6. QED
    BY <2>2, <2>3, <2>4, <2>5
<1>2. ASSUME NEW u \in Unit, SubmitUnit(u) PROVE ResultsFaithful'
  BY <1>2 DEF SubmitUnit, CollectInv
<1>3. ASSUME NEW u \in Unit, CollectFuture(u) PROVE ResultsFaithful'
  BY <1>3 DEF CollectFuture, Isolates, Record, DropQueued, CollectInv
<1>4. ASSUME NEW u \in Unit, StartUnit(u) PROVE ResultsFaithful'
  BY <1>4 DEF StartUnit, CollectInv
<1>5. ASSUME NEW u \in Unit, EndStep(u) \/ EnterStep(u)
       \/ PollCancel(u) PROVE ResultsFaithful'
  <2>1. u \notin collected
    BY <1>5 DEF EndStep, EnterStep, PollCancel, CollectInv, ThreadInv, Running
  <2>2. \A v \in Unit : v # u => future'[v] = future[v]
    BY <1>5 DEF EndStep, EnterStep, PollCancel
  <2>3. UNCHANGED <<pending, collected, results>>
    BY <1>5 DEF EndStep, EnterStep, PollCancel
  <2>4. QED
    BY <2>1, <2>2, <2>3
<1>6. ASSUME BuildModules \/ MaterializeDocument \/ MaterializeDone \/ PlanDone
       \/ SubmitDone \/ CollectDone \/ Drain \/ PersistSaves \/ Assemble
      PROVE  ResultsFaithful'
  BY <1>6 DEF BuildModules, Abort, MaterializeDocument, Abort, MaterializeDone,
         PlanDone, SubmitDone, CollectDone, Drain, PersistSaves, Assemble
<1>7. ASSUME TriggerCancel \/ UNCHANGED vars
      PROVE  ResultsFaithful'
  BY <1>7 DEF TriggerCancel, vars, runVars
<1>8. QED
  BY StepCases, <1>1, <1>2, <1>3, <1>4, <1>5, <1>6, <1>7

LEMMA StepErrors_step ==
  ASSUME TypeOK, RaisedInv, ThreadInv, CollectInv, StepErrorsAreIsolated, [Next]_vars
  PROVE  StepErrorsAreIsolated'
<1> USE DEF StepErrorsAreIsolated, TypeOK, Settled, poolVars
<1>1. ASSUME NEW u \in Unit, SubmitUnit(u) PROVE StepErrorsAreIsolated'
  BY <1>1 DEF SubmitUnit, MayLackImage
<1>2. ASSUME NEW u \in Unit, CollectFuture(u) PROVE StepErrorsAreIsolated'
  BY <1>2 DEF CollectFuture, Isolates, Record, DropQueued, CollectInv
<1>3. ASSUME NEW u \in Unit, StartUnit(u) PROVE StepErrorsAreIsolated'
  BY <1>3 DEF StartUnit, CollectInv
<1>4. ASSUME NEW u \in Unit, EndStep(u) \/ EnterStep(u)
       \/ PollCancel(u) PROVE StepErrorsAreIsolated'
  BY <1>4 DEF EndStep, EnterStep, PollCancel, CollectInv, ThreadInv, Running
<1>5. ASSUME BuildModules \/ MaterializeDocument \/ MaterializeDone \/ PlanUnit
       \/ PlanDone \/ SubmitDone \/ CollectDone \/ Drain \/ PersistSaves \/ Assemble
      PROVE  StepErrorsAreIsolated'
  BY <1>5 DEF BuildModules, Abort, MaterializeDocument, Abort, MaterializeDone,
         PlanUnit, Record, PlanDone, SubmitDone, CollectDone, Drain, PersistSaves,
         Assemble
<1>6. ASSUME TriggerCancel \/ UNCHANGED vars
      PROVE  StepErrorsAreIsolated'
  BY <1>6 DEF TriggerCancel, vars, runVars
<1>7. QED
  BY StepCases, <1>1, <1>2, <1>3, <1>4, <1>5, <1>6

\* Recording a unit without a result adds one to the progress and one unit
\* to those that have a result.
Held == {u \in Unit : results[u] # "absent"}

LEMMA Record_counts ==
  ASSUME TypeOK, ProgressCountsResults, NEW u \in Unit, results[u] = "absent",
         NEW r \in {"empty", "artifacts"}, Record(u, r)
  PROVE  ProgressCountsResults'
<1>1. Held' = Held \union {u} /\ u \notin Held
  BY DEF Held, Record, TypeOK
<1>2. Cardinality(Held') = Cardinality(Held) + 1
  BY <1>1, UnitsFinite, FS_AddElement DEF Held
<1>3. QED
  BY <1>2 DEF Record, ProgressCountsResults, Held

LEMMA Progress_step ==
  ASSUME TypeOK, PlanInv, ResultsFaithful, ProgressCountsResults, [Next]_vars
  PROVE  ProgressCountsResults'
<1> USE DEF TypeOK, ProgressCountsResults, poolVars
<1>1. ASSUME PlanUnit PROVE ProgressCountsResults'
  <2>1. cursor \in Unit /\ results[cursor] = "absent"
    BY <1>1, TotalUnitsNat DEF PlanUnit, PlanInv, Unit
  <2>2. CASE \E r \in {"empty", "artifacts"} : Record(cursor, r)
    BY <2>1, <2>2, Record_counts
  <2>3. CASE UNCHANGED <<results, ticks>>
    BY <2>3
  <2>4. QED
    BY <1>1, <2>2, <2>3 DEF PlanUnit
<1>2. ASSUME NEW u \in Unit, CollectFuture(u) PROVE ProgressCountsResults'
  <2>1. results[u] = "absent"
    BY <1>2 DEF CollectFuture, ResultsFaithful
  <2>2. CASE \E r \in {"empty", "artifacts"} : Record(u, r)
    BY <2>1, <2>2, Record_counts
  <2>3. CASE UNCHANGED <<results, ticks>>
    BY <2>3
  <2>4. QED
    BY <1>2, <2>2, <2>3 DEF CollectFuture, Isolates
<1>3. ASSUME BuildModules \/ MaterializeDocument \/ MaterializeDone \/ PlanDone
       \/ SubmitDone \/ CollectDone \/ Drain \/ PersistSaves \/ Assemble
      PROVE  ProgressCountsResults'
  BY <1>3 DEF BuildModules, Abort, MaterializeDocument, Abort, MaterializeDone,
         PlanDone, SubmitDone, CollectDone, Drain, PersistSaves, Assemble
<1>4. ASSUME NEW u \in Unit, SubmitUnit(u) \/ StartUnit(u) \/ PollCancel(u)
       \/ EnterStep(u) \/ EndStep(u)
      PROVE  ProgressCountsResults'
  BY <1>4 DEF SubmitUnit, StartUnit, PollCancel, EnterStep, EndStep
<1>5. ASSUME TriggerCancel \/ UNCHANGED vars
      PROVE  ProgressCountsResults'
  BY <1>5 DEF TriggerCancel, vars, runVars
<1>6. QED
  BY StepCases, <1>1, <1>2, <1>3, <1>4, <1>5

-----------------------------------------------------------------------------
LEMMA IInv_init == Init => IInv
<1> SUFFICES ASSUME Init PROVE IInv
  OBVIOUS
<1>1. TypeOK
  BY TypeOK_init
<1>2. RaisedInv /\ CollectInv /\ IdleInv /\ PlanInv
  BY DEF Init, RunInit, RaisedInv, CollectInv, IdleInv, PlanInv, Early, Working,
         Queued, Running
<1>3. ThreadInv
  BY OrchestratorAssumption DEF Init, RunInit, ThreadInv, Running
<1>4. ResultsFaithful /\ StepErrorsAreIsolated
  BY DEF Init, RunInit, ResultsFaithful, StepErrorsAreIsolated
<1>5. ProgressCountsResults
  <2>1. {u \in Unit : results[u] # "absent"} = {}
    BY DEF Init, RunInit
  <2>2. QED
    BY <2>1, FS_EmptySet DEF Init, RunInit, ProgressCountsResults
<1>6. QED
  BY <1>1, <1>2, <1>3, <1>4, <1>5 DEF IInv

LEMMA IInv_step == IInv /\ [Next]_vars => IInv'
<1> SUFFICES ASSUME IInv, [Next]_vars PROVE IInv'
  OBVIOUS
<1> USE DEF IInv
<1>1. TypeOK' /\ RaisedInv' /\ ThreadInv'
  BY TypeOK_step, RaisedInv_step, ThreadInv_step
<1>2. PlanInv' /\ CollectInv' /\ IdleInv'
  BY PlanInv_step, CollectInv_step, IdleInv_step
<1>3. ResultsFaithful' /\ ProgressCountsResults' /\ StepErrorsAreIsolated'
  BY ResultsFaithful_step, Progress_step, StepErrors_step
<1>4. QED
  BY <1>1, <1>2, <1>3

LEMMA IInv_always == Spec => []IInv
  BY IInv_init, IInv_step, PTL DEF Spec

-----------------------------------------------------------------------------
\* Every state has the types TypeOK gives; no unit counts more steps than its
\* pipeline has.
THEOREM OrchestratorTyped == Spec => []TypeOK
<1>1. IInv => TypeOK
  BY DEF IInv
<1>2. QED
  BY <1>1, IInv_always, PTL

\* The progress bar of run() is exact in every state.
THEOREM ProgressIsExact == Spec => []ProgressCountsResults
<1>1. IInv => ProgressCountsResults
  BY DEF IInv
<1>2. QED
  BY <1>1, IInv_always, PTL

\* The results do not depend on the order in which units complete.
THEOREM ResultsIndependentOfOrder == Spec => []ResultsFaithful
<1>1. IInv => ResultsFaithful
  BY DEF IInv
<1>2. QED
  BY <1>1, IInv_always, PTL

\* The assembly finds an entry for every unit.
THEOREM AssemblyFindsAll == Spec => []AssemblyTotal
<1>1. IInv => AssemblyTotal
  BY DEF IInv, CollectInv, ResultsFaithful, Outcome, AssemblyTotal
<1>2. QED
  BY <1>1, IInv_always, PTL

\* The workspace is never removed under a thread of the pool.
THEOREM WorkspaceIsSafe == Spec => []WorkspaceOutlivesPool
<1>1. IInv => WorkspaceOutlivesPool
  BY DEF IInv, TypeOK, IdleInv, CollectInv, ThreadInv, Queued, Running,
         WorkspaceOutlivesPool
<1>2. QED
  BY <1>1, IInv_always, PTL

\* A run that returns is complete.
THEOREM ReturnedRunsAreComplete == Spec => []ReturnedRunIsComplete
<1>1. IInv => ReturnedRunIsComplete
  <2> SUFFICES ASSUME IInv, phase = "ended", raised = "none", NEW u \in Unit
               PROVE  results[u] # "absent" /\ future[u] \in {"none", "ok", "isolated"}
    BY DEF ReturnedRunIsComplete
  <2>1. CASE u \in pending
    BY <2>1 DEF IInv, CollectInv, ResultsFaithful, Outcome
  <2>2. CASE u \notin pending
    BY <2>2 DEF IInv, CollectInv, ThreadInv
  <2>3. QED
    BY <2>1, <2>2
<1>2. QED
  BY <1>1, IInv_always, PTL

\* The error of a step stays with its unit.
THEOREM StepErrorsStayIsolated == Spec => []StepErrorsAreIsolated
<1>1. IInv => StepErrorsAreIsolated
  BY DEF IInv
<1>2. QED
  BY <1>1, IInv_always, PTL

\* Nothing starts once the run gave up on a cancellation: its queue is empty.
THEOREM CancelledRunsStartNothing == Spec => CancelledRunStartsNothing
<1>1. IInv /\ IInv' /\ [Next]_vars
      => [raised = "cancelled" =>
            \A u \in Unit : future'[u] = "running" => future[u] = "running"]_vars
  <2> SUFFICES ASSUME IInv, [Next]_vars, raised = "cancelled",
                      NEW u \in Unit, future'[u] = "running"
               PROVE  future[u] = "running"
    OBVIOUS
  <2>1. Queued = {} /\ phase \notin Working
    BY DEF IInv, IdleInv, RaisedInv
  <2>2. ASSUME NEW v \in Unit, StartUnit(v) PROVE FALSE
    BY <2>1, <2>2 DEF StartUnit, Queued
  <2>3. ASSUME NEW v \in Unit, PollCancel(v) \/ EnterStep(v) \/ EndStep(v)
        PROVE  future[u] = "running"
    BY <2>3 DEF PollCancel, EnterStep, EndStep, IInv, ThreadInv, Running, TypeOK
  <2>4. ASSUME NEW v \in Unit, SubmitUnit(v) \/ CollectFuture(v)
        PROVE  future[u] = "running"
    BY <2>1, <2>4 DEF SubmitUnit, CollectFuture, Working, Early
  <2>5. ASSUME UNCHANGED future PROVE future[u] = "running"
    BY <2>5
  <2>6. QED
    BY StepCases, <2>2, <2>3, <2>4, <2>5 DEF BuildModules, MaterializeDocument,
       MaterializeDone, PlanUnit, PlanDone, SubmitDone, CollectDone, Drain,
       PersistSaves, Assemble, TriggerCancel, poolVars, runVars, vars
<1>2. QED
  BY <1>1, IInv_always, PTL DEF Spec, CancelledRunStartsNothing

\* After the cancellation a unit completes at most one more step: it has not
\* yet completed it, or it has and must poll before the next one.
OneStepLeft(u, n) ==
  /\ cancelEvent
  /\ \/ stepsDone[u] <= n
     \/ stepsDone[u] = n + 1 /\ u \notin polled \union inStep

LEMMA OneStepLeft_step ==
  ASSUME NEW u \in Unit, NEW n \in 0 .. NSteps, IInv, OneStepLeft(u, n), [Next]_vars
  PROVE  OneStepLeft(u, n)'
<1> USE OrchestratorAssumption DEF OneStepLeft
<1>1. stepsDone[u] \in Nat
  BY DEF IInv, TypeOK
<1>2. ASSUME NEW v \in Unit, PollCancel(v) PROVE OneStepLeft(u, n)'
  BY <1>2 DEF PollCancel, MustStop
<1>3. ASSUME NEW v \in Unit, EnterStep(v) PROVE OneStepLeft(u, n)'
  BY <1>3 DEF EnterStep
<1>4. ASSUME NEW v \in Unit, EndStep(v) PROVE OneStepLeft(u, n)'
  <2>1. CASE v = u
    <3>1. u \notin polled' \union inStep'
      BY <1>4, <2>1 DEF EndStep, IInv, ThreadInv
    <3>2. stepsDone'[u] \in {stepsDone[u], stepsDone[u] + 1} /\ stepsDone[u] <= n
      BY <1>4, <2>1 DEF EndStep, IInv, TypeOK
    <3>3. cancelEvent'
      BY <1>4 DEF EndStep
    <3>4. QED
      BY <1>1, <3>1, <3>2, <3>3
  <2>2. CASE v # u
    BY <1>4, <2>2 DEF EndStep, IInv, TypeOK
  <2>3. QED
    BY <2>1, <2>2
<1>5. ASSUME UNCHANGED <<stepsDone, polled, inStep>>, cancelEvent' PROVE OneStepLeft(u,
       n)'
  BY <1>5
<1>6. QED
  BY StepCases, <1>2, <1>3, <1>4, <1>5 DEF BuildModules, MaterializeDocument,
     MaterializeDone, PlanUnit, PlanDone, SubmitUnit, SubmitDone, CollectFuture,
     CollectDone, Drain, PersistSaves, Assemble, StartUnit, TriggerCancel,
     poolVars, runVars, vars

\* The cancellation takes effect within one step of every unit.
THEOREM CancellationIsPrompt == Spec => CancelStopsWithinOneStep
<1> SUFFICES ASSUME NEW u \in Unit, NEW n \in {m \in 0 .. NSteps : m + 1 < NSteps}
             PROVE  Spec => [](cancelEvent /\ stepsDone[u] = n
                                 => [](stepsDone[u] <= n + 1))
  BY DEF CancelStopsWithinOneStep
<1>1. IInv /\ cancelEvent /\ stepsDone[u] = n => OneStepLeft(u, n)
  BY OrchestratorAssumption DEF OneStepLeft
<1>2. IInv /\ OneStepLeft(u, n) /\ [Next]_vars => OneStepLeft(u, n)'
  BY OneStepLeft_step
<1>3. IInv /\ OneStepLeft(u, n) => stepsDone[u] <= n + 1
  BY OrchestratorAssumption DEF OneStepLeft, IInv, TypeOK
<1>4. QED
  BY <1>1, <1>2, <1>3, IInv_always, PTL DEF Spec

-----------------------------------------------------------------------------
(* The job: JobRunner.                                                     *)

Before == {"absent", "registered", "building"}
Files  == {"dumping", "writing", "publishing", "recording"}

\* The engine has not moved before the job's thread calls it, and is over
\* when the thread has left it normally; a failure of build_spec skips it.
EngineInv ==
  /\ thread \in Before => phase = "build" /\ raised = "none"
  /\ thread \in Files => phase = "ended" /\ raised = "none"
  /\ thread \in {"finishing", "exited"} => phase \in {"build", "ended"}

\* What the journal shows of the thread.
JournalInv ==
  /\ thread = "absent" <=> history = <<>>
  /\ thread = "registered" => job.state = "pending"
  /\ thread \in {"building", "running", "finishing"} \union Files
       => job.state = "running"
  /\ thread = "exited" =>
       /\ job.state \in Terminal
       /\ job.state = "done" <=> caught = "none"
       /\ job.state = "cancelled" <=> caught = "cancelled"
       /\ job.state = "done" => job.report_name
  /\ history # <<>> => job.done = ticks

\* The exception _execute handles, and the files written by then.
FilesInv ==
  /\ thread \notin {"finishing", "exited"} => caught = "none"
  /\ thread \in Before \union {"running", "dumping"} \/ caught = "cancelled" =>
       reportFile = "absent" /\ ~published /\ ~recorded
  /\ thread = "writing" => ~published /\ ~recorded
  /\ thread \in {"publishing", "recording"} => reportFile = "complete"
  /\ thread \in {"finishing", "exited"} /\ caught = "none" =>
       reportFile = "complete" /\ phase = "ended" /\ raised = "none"
  /\ caught = "cancelled" => raised = "cancelled"

\* A cancellation seen by the engine was triggered by some request.
SignalInv ==
  /\ raised = "cancelled" => cancelEvent
  /\ \A u \in Unit : future[u] = "cancelled" => cancelEvent
  /\ cancelEvent => \E c \in Requests : request[c] = "acked"

JInv == /\ IInv /\ JobTypeOK /\ EngineInv /\ JournalInv /\ FilesInv
        /\ SignalInv /\ RefusedOnlyWhenOver

-----------------------------------------------------------------------------
LEMMA JobImpliesEngineStep == [JobNext]_allVars => [Next]_vars
  BY DEF JobNext, Launch, ThreadStep, ThreadStarts, BuildSpec, EngineStep,
     EngineReturns, DumpOpens, DumpWrites, PublishSafe, RecordSafe, Finish,
     CancelCheck, CancelTrigger, JobOver, Next, TriggerCancel, allVars, vars, runVars

LEMMA JobImpliesEngine == JobSpec => Spec
<1>1. JobInit => Init
  BY DEF JobInit
<1>2. QED
  BY <1>1, JobImpliesEngineStep, PTL DEF JobSpec, Spec

-----------------------------------------------------------------------------
\* The effects of the operations of the store on the journal.
LEMMA LastIsAJob ==
  ASSUME history \in Seq(Job), history # <<>>
  PROVE  job \in Job
<1>1. Len(history) \in 1 .. Len(history)
  BY EmptySeq, LenProperties
<1>2. QED
  BY <1>1, ElementOfSeq DEF job

LEMMA Appended ==
  ASSUME history \in Seq(Job), NEW x \in Job, history' = Append(history, x)
  PROVE  history' \in Seq(Job) /\ history' # <<>> /\ job' = x
  BY AppendProperties DEF job

LEMMA Updated ==
  ASSUME history \in Seq(Job), history # <<>>,
         NEW s \in JobState, NEW r \in BOOLEAN, NEW w \in BOOLEAN, Update(s, r, w)
  PROVE  /\ history' \in Seq(Job) /\ history' # <<>>
         /\ job'.state = s /\ job'.done = job.done
         /\ job'.report_name = r
<1> DEFINE x == [job EXCEPT !.state = s, !.report_name = r, !.published_url = w]
<1>1. job \in Job
  BY LastIsAJob
<1>2. x \in Job /\ x.state = s /\ x.done = job.done /\ x.report_name = r
  BY <1>1 DEF Job
<1>3. history' = Append(history, x)
  BY DEF Update
<1> HIDE DEF x
<1>4. QED
  BY <1>2, <1>3, Appended

LEMMA Progressed ==
  ASSUME history \in Seq(Job), history # <<>>,
         NEW n \in Nat, NEW t \in Nat, Progress(n, t)
  PROVE  /\ history' \in Seq(Job) /\ history' # <<>>
         /\ job'.state = job.state /\ job'.done = n
<1> DEFINE x == [job EXCEPT !.done = n, !.total = t]
<1>1. job \in Job
  BY LastIsAJob
<1>2. x \in Job /\ x.state = job.state /\ x.done = n
  BY <1>1 DEF Job
<1>3. history' = Append(history, x)
  BY DEF Progress
<1> HIDE DEF x
<1>4. QED
  BY <1>2, <1>3, Appended

LEMMA Created ==
  ASSUME Create
  PROVE  /\ history' \in Seq(Job) /\ history' # <<>>
         /\ job'.state = "pending" /\ job'.done = 0
<1> DEFINE x == [state |-> "pending", done |-> 0, total |-> 0,
                 report_name |-> FALSE, published_url |-> FALSE]
<1>1. x \in Job /\ x.state = "pending" /\ x.done = 0
  BY DEF Job, JobState
<1>2. history' = <<x>>
  BY DEF Create
<1> HIDE DEF x
<1>3. history' \in Seq(Job) /\ history' # <<>> /\ job' = x
  BY <1>1, <1>2 DEF job
<1>4. QED
  BY <1>1, <1>3

\* An engine step that counts a unit counts one; a step that counts none
\* leaves the journal alone.
LEMMA OneTick == ASSUME IInv, RunStep PROVE ticks' \in {ticks, ticks + 1}
<1>1. ASSUME NEW u \in Unit, CollectFuture(u) PROVE ticks' \in {ticks, ticks + 1}
  BY <1>1 DEF CollectFuture, Record
<1>2. QED
  BY <1>1 DEF RunStep, MainStep, PoolStep, BuildModules, MaterializeDocument,
     MaterializeDone, PlanUnit, Record, PlanDone, SubmitUnit, SubmitDone, CollectDone,
     Drain, PersistSaves, Assemble, StartUnit, PollCancel, EnterStep, EndStep, poolVars

-----------------------------------------------------------------------------
\* Each conjunct of JInv is preserved by every step.
LEMMA JInv_init == JobInit => JInv
<1> SUFFICES ASSUME JobInit PROVE JInv
  OBVIOUS
<1>1. IInv /\ TypeOK
  BY IInv_init, TypeOK_init DEF JobInit
<1>2. JobTypeOK
  BY <1>1, EmptySeq DEF JobInit, JobTypeOK, Thread, Raised
<1>3. EngineInv /\ JournalInv /\ FilesInv /\ SignalInv /\ RefusedOnlyWhenOver
  BY DEF JobInit, Init, RunInit, EngineInv, JournalInv, FilesInv, SignalInv,
     RefusedOnlyWhenOver, Before, Files
<1>4. QED
  BY <1>1, <1>2, <1>3 DEF JInv

\* The journal stays a sequence of snapshots and is never emptied.
LEMMA Journal_step ==
  ASSUME JInv, [JobNext]_allVars
  PROVE  history' \in Seq(Job) /\ (history # <<>> => history' # <<>>)
<1> USE DEF JInv, JobTypeOK, JournalInv
<1>1. ASSUME Launch PROVE history' \in Seq(Job) /\ history' # <<>>
  BY <1>1, Created DEF Launch
<1>2. ASSUME ThreadStarts PROVE history' \in Seq(Job) /\ history' # <<>>
  BY <1>2, Updated DEF ThreadStarts, JobState
<1>3. ASSUME EngineStep PROVE history' \in Seq(Job) /\ history' # <<>>
  <2>1. history # <<>> /\ ticks \in Nat
    BY <1>3 DEF EngineStep, IInv, TypeOK
  <2>2. CASE ticks' = ticks
    BY <1>3, <2>1, <2>2 DEF EngineStep
  <2>3. CASE ticks' # ticks
    BY <1>3, <2>1, <2>3, OneTick, TotalUnitsNat, Progressed DEF EngineStep
  <2>4. QED
    BY <2>2, <2>3
<1>4. ASSUME Finish PROVE history' \in Seq(Job) /\ history' # <<>>
  <2>1. history # <<>>
    BY <1>4 DEF Finish
  <2>2. QED
    BY <1>4, <2>1, Updated DEF Finish, JobState
<1>5. ASSUME NEW c \in Requests, CancelCheck(c) \/ CancelTrigger(c)
      PROVE  UNCHANGED history
  BY <1>5 DEF CancelCheck, CancelTrigger
<1>6. QED
  BY <1>1, <1>2, <1>3, <1>4, <1>5 DEF JobNext, ThreadStep, BuildSpec, EngineReturns,
     DumpOpens, DumpWrites, PublishSafe, RecordSafe, JobOver, allVars, jobVars

LEMMA JobTypeOK_step == ASSUME JInv, IInv', [JobNext]_allVars PROVE JobTypeOK'
<1> USE DEF JInv, JobTypeOK, Thread, Raised
<1>1. TypeOK' /\ history' \in Seq(Job)
  BY Journal_step DEF IInv
<1>2. ASSUME NEW c \in Requests, CancelCheck(c) \/ CancelTrigger(c)
      PROVE  JobTypeOK'
  BY <1>1, <1>2 DEF CancelCheck, CancelTrigger
<1>3. CASE Launch \/ EngineStep \/ JobOver \/ UNCHANGED allVars
  BY <1>1, <1>3 DEF Launch, EngineStep, JobOver, allVars, jobVars
<1>4. CASE ThreadStep
  BY <1>1, <1>4 DEF ThreadStep, ThreadStarts, BuildSpec, EngineReturns, DumpOpens,
     DumpWrites, PublishSafe, RecordSafe, Finish, IInv, TypeOK
<1>5. QED
  BY <1>2, <1>3, <1>4 DEF JobNext

LEMMA EngineInv_step == ASSUME JInv, [JobNext]_allVars PROVE EngineInv'
<1> USE DEF JInv, EngineInv, Before, Files
<1>1. CASE Launch \/ JobOver \/ UNCHANGED allVars
  BY <1>1 DEF Launch, JobOver, allVars, jobVars, vars, runVars
<1>2. CASE EngineStep
  BY <1>2 DEF EngineStep
<1>3. CASE ThreadStep
  BY <1>3 DEF ThreadStep, ThreadStarts, BuildSpec, EngineReturns, DumpOpens,
     DumpWrites, PublishSafe, RecordSafe, Finish, vars, runVars
<1>4. ASSUME NEW c \in Requests, CancelCheck(c) \/ CancelTrigger(c)
      PROVE  EngineInv'
  BY <1>4 DEF CancelCheck, CancelTrigger, vars, runVars
<1>5. QED
  BY <1>1, <1>2, <1>3, <1>4 DEF JobNext

LEMMA FilesInv_step == ASSUME JInv, [JobNext]_allVars PROVE FilesInv'
<1> USE DEF JInv, FilesInv, Before, Files
<1>1. CASE Launch \/ JobOver \/ UNCHANGED allVars
  BY <1>1 DEF Launch, JobOver, allVars, jobVars, vars, runVars
<1>2. CASE EngineStep
  BY <1>2 DEF EngineStep
<1>3. CASE ThreadStarts
  BY <1>3 DEF ThreadStarts, vars, runVars
<1>4. CASE BuildSpec
  BY <1>4 DEF BuildSpec, vars, runVars
<1>5. CASE EngineReturns
  BY <1>5 DEF EngineReturns, vars, runVars
<1>6. CASE DumpOpens \/ DumpWrites
  BY <1>6 DEF DumpOpens, DumpWrites, vars, runVars
<1>7. CASE PublishSafe \/ RecordSafe
  BY <1>7 DEF PublishSafe, RecordSafe, vars, runVars, EngineInv
<1>8. CASE Finish
  BY <1>8 DEF Finish, vars, runVars
<1>9. ASSUME NEW c \in Requests, CancelCheck(c) \/ CancelTrigger(c)
      PROVE  FilesInv'
  BY <1>9 DEF CancelCheck, CancelTrigger, vars, runVars
<1>10. QED
  BY <1>1, <1>2, <1>3, <1>4, <1>5, <1>6, <1>7, <1>8,
     <1>9 DEF JobNext, ThreadStep

LEMMA JournalInv_step == ASSUME JInv, [JobNext]_allVars PROVE JournalInv'
<1> USE DEF JInv, JobTypeOK, JournalInv, Files
<1>1. CASE Launch
  <2>1. ticks = 0
    <3>1. \A u \in Unit : results[u] = "absent"
      BY <1>1 DEF Launch, EngineInv, Before, IInv, PlanInv
    <3>2. {u \in Unit : results[u] # "absent"} = {}
      BY <3>1
    <3>3. QED
      BY <3>2, FS_EmptySet DEF IInv, ProgressCountsResults
  <2>2. QED
    BY <1>1, <2>1, Created DEF Launch, vars, runVars
<1>2. CASE ThreadStarts
  BY <1>2, Updated DEF ThreadStarts, JobState, vars, runVars
<1>3. CASE EngineStep
  <2>1. history # <<>> /\ ticks \in Nat
    BY <1>3 DEF EngineStep, IInv, TypeOK
  <2>2. CASE ticks' = ticks
    BY <1>3, <2>1, <2>2 DEF EngineStep, job
  <2>3. CASE ticks' # ticks
    <3>1. history' # <<>> /\ job'.state = job.state /\ job'.done = ticks'
      BY <1>3, <2>1, <2>3, OneTick, TotalUnitsNat, Progressed DEF EngineStep
    <3>2. QED
      BY <1>3, <3>1 DEF EngineStep
  <2>4. QED
    BY <2>2, <2>3
<1>4. CASE Finish
  <2>1. history # <<>>
    BY <1>4 DEF Finish
  <2>2. QED
    BY <1>4, <2>1, Updated DEF Finish, JobState, Terminal, vars, runVars
<1>5. ASSUME NEW c \in Requests, CancelCheck(c) \/ CancelTrigger(c)
      PROVE  JournalInv'
  BY <1>5 DEF CancelCheck, CancelTrigger, job, vars, runVars
<1>6. CASE BuildSpec \/ EngineReturns \/ DumpOpens \/ DumpWrites \/ PublishSafe
           \/ RecordSafe
  BY <1>6 DEF BuildSpec, EngineReturns, DumpOpens, DumpWrites, PublishSafe,
     RecordSafe, job, vars, runVars
<1>7. CASE JobOver \/ UNCHANGED allVars
  BY <1>7 DEF JobOver, job, allVars, jobVars, vars, runVars
<1>8. QED
  BY <1>1, <1>2, <1>3, <1>4, <1>5, <1>6, <1>7 DEF JobNext, ThreadStep

LEMMA SignalInv_step == ASSUME JInv, [JobNext]_allVars PROVE SignalInv'
<1> USE DEF JInv, SignalInv
<1>1. ASSUME EngineStep PROVE SignalInv'
  <2>1. UNCHANGED <<cancelEvent, request>>
    BY <1>1 DEF EngineStep, RunStep, MainStep, PoolStep, BuildModules,
       MaterializeDocument, MaterializeDone, PlanUnit, PlanDone, SubmitUnit,
       SubmitDone, CollectFuture, CollectDone, Drain, PersistSaves, Assemble,
       StartUnit, PollCancel, EnterStep, EndStep
  <2>2. ASSUME NEW u \in Unit, CollectFuture(u)
        PROVE  /\ raised' = "cancelled" => cancelEvent
               /\ \A v \in Unit : future'[v] = "cancelled" => cancelEvent
    BY <2>2 DEF CollectFuture, DropQueued, IInv, TypeOK
  <2>3. ASSUME NEW u \in Unit, PollCancel(u) \/ EndStep(u)
        PROVE  /\ raised' = "cancelled" => cancelEvent
               /\ \A v \in Unit : future'[v] = "cancelled" => cancelEvent
    BY <2>3 DEF PollCancel, EndStep, MustStop, IInv, TypeOK
  <2>4. ASSUME NEW u \in Unit, SubmitUnit(u) \/ StartUnit(u) \/ EnterStep(u)
        PROVE  /\ raised' = "cancelled" => cancelEvent
               /\ \A v \in Unit : future'[v] = "cancelled" => cancelEvent
    BY <2>4 DEF SubmitUnit, StartUnit, EnterStep, IInv, TypeOK
  <2>5. ASSUME \/ BuildModules \/ MaterializeDocument \/ MaterializeDone \/ PlanUnit
               \/ PlanDone \/ SubmitDone \/ CollectDone \/ Drain \/ PersistSaves
               \/ Assemble
        PROVE  /\ raised' = "cancelled" => cancelEvent
               /\ \A v \in Unit : future'[v] = "cancelled" => cancelEvent
    BY <2>5 DEF BuildModules, Abort, MaterializeDocument, MaterializeDone, PlanUnit,
       PlanDone, SubmitDone, CollectDone, Drain, PersistSaves, Assemble, poolVars
  <2>6. QED
    BY <1>1, <2>1, <2>2, <2>3, <2>4, <2>5 DEF EngineStep, RunStep, MainStep, PoolStep
<1>2. ASSUME NEW c \in Requests, CancelCheck(c) PROVE SignalInv'
  BY <1>2 DEF CancelCheck, JobTypeOK, vars, runVars
<1>3. ASSUME NEW c \in Requests, CancelTrigger(c) PROVE SignalInv'
  BY <1>3 DEF CancelTrigger, JobTypeOK, runVars
<1>4. CASE Launch \/ ThreadStep \/ JobOver \/ UNCHANGED allVars
  <2>1. UNCHANGED <<raised, future, cancelEvent, request>>
    BY <1>4 DEF Launch, ThreadStep, ThreadStarts, BuildSpec, EngineReturns,
       DumpOpens, DumpWrites, PublishSafe, RecordSafe, Finish, JobOver, allVars,
       jobVars, vars, runVars
  <2>2. QED
    BY <2>1
<1>5. QED
  BY <1>1, <1>2, <1>3, <1>4 DEF JobNext

\* Nothing is published after the terminal snapshot.
LEMMA TerminalStays ==
  ASSUME JInv, IsTerminal, [JobNext]_allVars
  PROVE  UNCHANGED <<history, thread>>
<1>1. thread = "exited"
  BY DEF JInv, JobTypeOK, Thread, JournalInv, IsTerminal, Terminal, Files
<1>2. QED
  BY <1>1 DEF JobNext, ThreadStep, Launch, ThreadStarts, BuildSpec, EngineStep,
     EngineReturns, DumpOpens, DumpWrites, PublishSafe, RecordSafe, Finish,
     CancelCheck, CancelTrigger, JobOver, allVars, jobVars

LEMMA Refused_step == ASSUME JInv, [JobNext]_allVars PROVE RefusedOnlyWhenOver'
<1> USE DEF JInv, RefusedOnlyWhenOver
<1>1. IsTerminal => IsTerminal'
  BY TerminalStays DEF IsTerminal, job
<1>2. ASSUME NEW c \in Requests, CancelCheck(c) PROVE RefusedOnlyWhenOver'
  BY <1>1, <1>2 DEF CancelCheck, Refuses, JobTypeOK
<1>3. ASSUME NEW c \in Requests, CancelTrigger(c) PROVE RefusedOnlyWhenOver'
  BY <1>1, <1>3 DEF CancelTrigger, JobTypeOK
<1>4. CASE Launch \/ ThreadStep \/ EngineStep \/ JobOver \/ UNCHANGED allVars
  BY <1>1, <1>4 DEF Launch, ThreadStep, ThreadStarts, BuildSpec, EngineStep,
     EngineReturns, DumpOpens, DumpWrites, PublishSafe, RecordSafe, Finish, JobOver,
     allVars, jobVars
<1>5. QED
  BY <1>1, <1>2, <1>3, <1>4 DEF JobNext

LEMMA JInv_step == JInv /\ [JobNext]_allVars => JInv'
<1> SUFFICES ASSUME JInv, [JobNext]_allVars PROVE JInv'
  OBVIOUS
<1>1. IInv'
  BY IInv_step, JobImpliesEngineStep DEF JInv
<1>2. JobTypeOK' /\ EngineInv' /\ FilesInv' /\ JournalInv'
  BY <1>1, JobTypeOK_step, EngineInv_step, FilesInv_step, JournalInv_step
<1>3. SignalInv' /\ RefusedOnlyWhenOver'
  BY SignalInv_step, Refused_step
<1>4. QED
  BY <1>1, <1>2, <1>3 DEF JInv

LEMMA JInv_always == JobSpec => []JInv
  BY JInv_init, JInv_step, PTL DEF JobSpec

-----------------------------------------------------------------------------
\* Every state of the job has the types JobTypeOK gives.
THEOREM JobTyped == JobSpec => []JobTypeOK
<1>1. JInv => JobTypeOK
  BY DEF JInv
<1>2. QED
  BY <1>1, JInv_always, PTL

\* A terminal snapshot is the last of the journal.
THEOREM TerminalSnapshotsAreFinal == JobSpec => TerminalIsFinal
<1>1. JInv /\ [JobNext]_allVars => [IsTerminal => history' = history]_allVars
  BY TerminalStays
<1>2. QED
  BY <1>1, JInv_always, PTL DEF JobSpec, TerminalIsFinal

\* A request is refused only for a job that is over.
THEOREM RefusalsAreJustified == JobSpec => []RefusedOnlyWhenOver
<1>1. JInv => RefusedOnlyWhenOver
  BY DEF JInv
<1>2. QED
  BY <1>1, JInv_always, PTL

\* A cancelled job was asked to stop and left no trace.
THEOREM CancelledJobsLeaveNothing == JobSpec => []CancelledLeavesNothing
<1>1. JInv => CancelledLeavesNothing
  BY DEF JInv, JobTypeOK, Thread, JournalInv, FilesInv, SignalInv, Files, IsTerminal,
     Terminal, CancelledLeavesNothing
<1>2. QED
  BY <1>1, JInv_always, PTL

\* When a job is seen to be over, its pool is idle.
THEOREM JobsEndQuietly == JobSpec => []QuietWhenOver
<1>1. JInv => QuietWhenOver
  <2> SUFFICES ASSUME JInv, IsTerminal
               PROVE  inStep = {} /\ Queued = {} /\ Running = {}
    BY DEF QuietWhenOver
  <2>1. thread = "exited"
    BY DEF JInv, JobTypeOK, Thread, JournalInv, IsTerminal, Terminal, Files
  <2>2. Queued = {} /\ Running = {}
    BY <2>1 DEF JInv, EngineInv, IInv, IdleInv, PlanInv, Early, Queued, Running
  <2>3. QED
    BY <2>2 DEF JInv, IInv, ThreadInv
<1>2. QED
  BY <1>1, JInv_always, PTL

\* A run that returned has counted every unit.
LEMMA AllCounted ==
  ASSUME IInv, phase = "ended", raised = "none"
  PROVE  ticks = TotalUnits
<1>1. \A u \in Unit : results[u] # "absent"
  BY DEF IInv, CollectInv, ResultsFaithful, Outcome
<1>2. {u \in Unit : results[u] # "absent"} = 1 .. TotalUnits
  BY <1>1 DEF Unit
<1>3. Cardinality(1 .. TotalUnits) = TotalUnits
  BY TotalUnitsNat, FS_Interval
<1>4. ticks = Cardinality({u \in Unit : results[u] # "absent"})
  BY DEF IInv, ProgressCountsResults
<1>5. QED
  BY <1>2, <1>3, <1>4

\* A job is shown done only with its report written and its units counted.
THEOREM DoneJobsHaveTheirReport == JobSpec => []DoneHasReport
<1>1. JInv => DoneHasReport
  <2> SUFFICES ASSUME JInv, IsTerminal, job.state = "done"
               PROVE  /\ job.report_name
                      /\ reportFile = "complete"
                      /\ job.done = TotalUnits
    BY DEF DoneHasReport
  <2>1. thread = "exited" /\ caught = "none" /\ job.report_name
    BY DEF JInv, JobTypeOK, Thread, JournalInv, IsTerminal, Terminal, Files
  <2>2. reportFile = "complete" /\ phase = "ended" /\ raised = "none"
    BY <2>1 DEF JInv, FilesInv
  <2>3. job.done = TotalUnits
    BY <2>2, AllCounted DEF JInv, JournalInv, IsTerminal
  <2>4. QED
    BY <2>1, <2>2, <2>3
<1>2. QED
  BY <1>1, JInv_always, PTL

-----------------------------------------------------------------------------
\* A unit that has yet to poll a cancellation that was triggered: it will be
\* dropped, cancelled, or never submitted.
Doomed(u) ==
  /\ cancelEvent /\ u \in pending
  /\ \/ future[u] \in {"none", "queued", "dropped", "cancelled"}
     \/ future[u] = "running" /\ u \notin polled \union inStep

LEMMA Doomed_step ==
  ASSUME IInv, NEW u \in Unit, Doomed(u), [Next]_vars
  PROVE  Doomed(u)'
<1> USE DEF Doomed, IInv, TypeOK
<1>1. ASSUME PlanUnit PROVE Doomed(u)'
  BY <1>1 DEF PlanUnit, poolVars
<1>2. ASSUME NEW v \in Unit, SubmitUnit(v) PROVE Doomed(u)'
  BY <1>2 DEF SubmitUnit
<1>3. ASSUME NEW v \in Unit, CollectFuture(v) PROVE Doomed(u)'
  BY <1>3 DEF CollectFuture, DropQueued
<1>4. ASSUME NEW v \in Unit, StartUnit(v) PROVE Doomed(u)'
  BY <1>4 DEF StartUnit, ThreadInv, Running
<1>5. ASSUME NEW v \in Unit, PollCancel(v) PROVE Doomed(u)'
  BY <1>5 DEF PollCancel, MustStop
<1>6. ASSUME NEW v \in Unit, EnterStep(v) PROVE Doomed(u)'
  BY <1>6 DEF EnterStep, ThreadInv, Running
<1>7. ASSUME NEW v \in Unit, EndStep(v) PROVE Doomed(u)'
  BY <1>7 DEF EndStep, ThreadInv, Running
<1>8. CASE UNCHANGED <<pending, future, polled, inStep>> /\ cancelEvent'
  BY <1>8
<1>9. QED
  BY StepCases, <1>1, <1>2, <1>3, <1>4, <1>5, <1>6, <1>7, <1>8 DEF BuildModules,
     MaterializeDocument, MaterializeDone, PlanDone, SubmitDone, CollectDone, Drain,
     PersistSaves, Assemble, TriggerCancel, poolVars, runVars, vars

\* A cancellation that precedes the start of a unit keeps the job from "done".
THEOREM TimelyCancellationsAreHonoured == JobSpec => CancelInTimeIsHonoured
<1> DEFINE Lost == \E u \in Unit : Doomed(u)
<1>1. JInv /\ cancelEvent /\ UnitsToStart # {} => Lost
  BY DEF JInv, IInv, TypeOK, UnitsToStart, Doomed
<1>2. JInv /\ Lost /\ [JobNext]_allVars => Lost'
  BY JobImpliesEngineStep, Doomed_step DEF JInv
<1>3. JInv /\ Lost => (IsTerminal => job.state # "done")
  <2> SUFFICES ASSUME JInv, NEW u \in Unit, Doomed(u), IsTerminal, job.state = "done"
               PROVE  FALSE
    OBVIOUS
  <2>1. thread = "exited" /\ caught = "none"
    BY DEF JInv, JobTypeOK, Thread, JournalInv, IsTerminal, Terminal, Files
  <2>2. phase = "ended" /\ raised = "none"
    BY <2>1 DEF JInv, FilesInv
  <2>3. future[u] \in {"ok", "isolated"}
    BY <2>2 DEF JInv, IInv, CollectInv, Doomed
  <2>4. QED
    BY <2>3 DEF Doomed
<1>4. QED
  BY <1>1, <1>2, <1>3, JInv_always, PTL DEF JobSpec, CancelInTimeIsHonoured

-----------------------------------------------------------------------------
\* The journal that JobLifecycle speaks of.
Entry(x) == [state |-> x.state, done |-> x.done]
LogOf(h) == [i \in DOMAIN h |-> Entry(h[i])]
Entries  == [state : JobState, done : Nat]

LEMMA LogIsSeq ==
  ASSUME NEW h \in Seq(Job)
  PROVE  LogOf(h) \in Seq(Entries) /\ Len(LogOf(h)) = Len(h)
<1> DEFINE n == Len(h)
<1>1. n \in Nat /\ DOMAIN h = 1 .. n /\ h \in [1 .. n -> Job]
  BY LenProperties
<1>2. LogOf(h) = [i \in 1 .. n |-> Entry(h[i])]
  BY <1>1 DEF LogOf
<1> HIDE DEF n
<1>3. \A i \in 1 .. n : Entry(h[i]) \in Entries
  BY <1>1 DEF Entry, Entries, Job
<1>4. LogOf(h) \in [1 .. n -> Entries]
  BY <1>2, <1>3
<1>5. LogOf(h) \in Seq(Entries)
  <2>1. [1 .. n -> Entries] \in {[1 .. k -> Entries] : k \in Nat}
    BY <1>1
  <2>2. LogOf(h) \in UNION {[1 .. k -> Entries] : k \in Nat}
    BY <1>4, <2>1
  <2>3. QED
    BY <2>2, SeqDef, Zenon
<1>6. DOMAIN LogOf(h) = 1 .. Len(LogOf(h)) /\ Len(LogOf(h)) \in Nat
  BY <1>5, LenProperties
<1>7. DOMAIN LogOf(h) = 1 .. n
  BY <1>4
<1>8. Len(LogOf(h)) = n
  <2>1. ASSUME NEW a \in Nat, NEW b \in Nat, 1 .. a = 1 .. b PROVE a = b
    <3>1. a # 0 => a \in 1 .. b
      BY <2>1
    <3>2. b # 0 => b \in 1 .. a
      BY <2>1
    <3>3. QED
      BY <3>1, <3>2
  <2>2. QED
    BY <1>1, <1>6, <1>7, <2>1
<1>9. QED
  BY <1>5, <1>8 DEF n

LEMMA LogGrows ==
  ASSUME NEW h \in Seq(Job), NEW x \in Job
  PROVE  LogOf(Append(h, x)) = Append(LogOf(h), Entry(x))
<1> DEFINE n == Len(h)
           g == Append(h, x)
<1>1. /\ g \in Seq(Job) /\ Len(g) = n + 1 /\ n \in Nat
      /\ \A i \in 1 .. n : g[i] = h[i]
      /\ g[n + 1] = x
      /\ DOMAIN g = 1 .. (n + 1) /\ DOMAIN h = 1 .. n
  BY AppendProperties, LenProperties
<1> HIDE DEF g, n
<1>2. LogOf(h) \in Seq(Entries) /\ Len(LogOf(h)) = n /\ Entry(x) \in Entries
  BY LogIsSeq DEF Entry, Entries, Job, n
<1>3. LogOf(g) \in Seq(Entries) /\ Len(LogOf(g)) = n + 1
  BY <1>1, LogIsSeq
<1>4. /\ Append(LogOf(h), Entry(x)) \in Seq(Entries)
      /\ Len(Append(LogOf(h), Entry(x))) = n + 1
      /\ \A i \in 1 .. n : Append(LogOf(h), Entry(x))[i] = LogOf(h)[i]
      /\ Append(LogOf(h), Entry(x))[n + 1] = Entry(x)
  BY <1>2, AppendProperties
<1>5. ASSUME NEW i \in 1 .. (n + 1)
      PROVE  LogOf(g)[i] = Append(LogOf(h), Entry(x))[i]
  <2>1. LogOf(g)[i] = Entry(g[i])
    BY <1>1 DEF LogOf
  <2>2. CASE i \in 1 .. n
    <3>1. LogOf(h)[i] = Entry(h[i]) /\ g[i] = h[i]
      BY <1>1, <2>2 DEF LogOf
    <3>2. QED
      BY <1>4, <2>1, <2>2, <3>1
  <2>3. CASE i = n + 1
    BY <1>1, <1>4, <2>1, <2>3
  <2>4. n \in Nat
    BY <1>1
  <2>5. i \in 1 .. n \/ i = n + 1
    BY <2>4
  <2>6. QED
    BY <2>2, <2>3, <2>5
<1>6. LogOf(g) = Append(LogOf(h), Entry(x))
  BY <1>3, <1>4, <1>5, SeqEqual
<1>7. QED
  BY <1>6 DEF g

\* The abstract journal before and after an operation of the store.
LEMMA LogEnds ==
  ASSUME NEW h \in Seq(Job), h # <<>>
  PROVE  LogOf(h) # <<>> /\ LogOf(h)[Len(LogOf(h))] = Entry(h[Len(h)])
<1> DEFINE n == Len(h)
<1>1. n \in 1 .. n /\ DOMAIN h = 1 .. n
  BY LenProperties, EmptySeq
<1>2. Len(LogOf(h)) = n
  BY LogIsSeq
<1>3. Len(LogOf(h)) # 0
  BY <1>1, <1>2
<1>4. LogOf(h) # <<>>
  BY <1>3
<1>5. QED
  BY <1>1, <1>2, <1>4 DEF LogOf

LEMMA LogPublished ==
  ASSUME history \in Seq(Job), NEW x \in Job, history' = Append(history, x)
  PROVE  LogOf(history)' = Append(LogOf(history), Entry(x))
<1>1. LogOf(history)' = LogOf(history')
  BY DEF LogOf, Entry
<1>2. QED
  BY <1>1, LogGrows

LEMMA LogUpdated ==
  ASSUME history \in Seq(Job), history # <<>>,
         NEW s \in JobState, NEW r \in BOOLEAN, NEW w \in BOOLEAN, Update(s, r, w)
  PROVE  LogOf(history)' = Append(LogOf(history), [state |-> s, done |-> job.done])
<1> DEFINE x == [job EXCEPT !.state = s, !.report_name = r, !.published_url = w]
<1>1. job \in Job
  BY LastIsAJob
<1>2. x \in Job /\ x.state = s /\ x.done = job.done
  BY <1>1 DEF Job
<1>3. history' = Append(history, x)
  BY DEF Update
<1> HIDE DEF x
<1>4. QED
  BY <1>2, <1>3, LogPublished DEF Entry

LEMMA LogProgressed ==
  ASSUME history \in Seq(Job), history # <<>>,
         NEW n \in Nat, NEW t \in Nat, Progress(n, t)
  PROVE  LogOf(history)' = Append(LogOf(history), [state |-> job.state, done |-> n])
<1> DEFINE x == [job EXCEPT !.done = n, !.total = t]
<1>1. job \in Job
  BY LastIsAJob
<1>2. x \in Job /\ x.state = job.state /\ x.done = n
  BY <1>1 DEF Job
<1>3. history' = Append(history, x)
  BY DEF Progress
<1> HIDE DEF x
<1>4. QED
  BY <1>2, <1>3, LogPublished DEF Entry

\* No more units are counted than the run has.
LEMMA CountBounded == IInv => ticks \in Nat /\ ticks <= TotalUnits
<1> SUFFICES ASSUME IInv PROVE ticks \in Nat /\ ticks <= TotalUnits
  OBVIOUS
<1> DEFINE Done == {u \in Unit : results[u] # "absent"}
<1>1. Done \subseteq 1 .. TotalUnits
  BY DEF Unit
<1>2. IsFiniteSet(1 .. TotalUnits) /\ Cardinality(1 .. TotalUnits) = TotalUnits
  BY TotalUnitsNat, FS_Interval
<1>3. Cardinality(Done) <= TotalUnits
  BY <1>1, <1>2, FS_Subset
<1>4. QED
  BY <1>3 DEF IInv, TypeOK, ProgressCountsResults

\* The current snapshot of the abstract journal.
LEMMA LogShowsJob ==
  ASSUME JInv, history # <<>>
  PROVE  /\ LogOf(history) # <<>>
         /\ LogOf(history)[Len(LogOf(history))] = [state |-> job.state, done |-> ticks]
<1>1. history \in Seq(Job) /\ job.done = ticks
  BY DEF JInv, JobTypeOK, JournalInv
<1>2. QED
  BY <1>1, LogEnds DEF Entry, job

\* Every step of the job is a step of its abstract journal, or leaves it alone.
LEMMA Lifecycle_step ==
  ASSUME JInv, JInv', [JobNext]_allVars
  PROVE  Lifecycle!Next \/ UNCHANGED LogOf(history)
<1> DEFINE L == LogOf(history)
<1>1. L = [i \in DOMAIN history |-> [state |-> history[i].state,
                                     done  |-> history[i].done]]
  BY DEF LogOf, Entry
<1>2. L' = [i \in DOMAIN history' |-> [state |-> history'[i].state,
                                       done  |-> history'[i].done]]
  BY DEF LogOf, Entry
<1>3. history \in Seq(Job)
  BY DEF JInv, JobTypeOK
<1>4. CASE Launch
  <2>1. L = <<>>
    BY <1>4 DEF Launch, JInv, JournalInv, LogOf
  <2>2. history' = <<[state |-> "pending", done |-> 0, total |-> 0,
                      report_name |-> FALSE, published_url |-> FALSE]>>
    BY <1>4 DEF Launch, Create
  <2>3. L' = <<[state |-> "pending", done |-> 0]>>
    BY <2>2 DEF LogOf, Entry
  <2>4. QED
    BY <1>1, <1>2, <2>1, <2>3 DEF Lifecycle!Next, Lifecycle!Create, Lifecycle!Publish
<1>5. CASE ThreadStarts
  <2>1. history # <<>> /\ job.state = "pending" /\ job.done = ticks
    BY <1>5 DEF ThreadStarts, JInv, JournalInv
  <2>2. ticks = 0
    <3>1. {u \in Unit : results[u] # "absent"} = {}
      BY <1>5 DEF ThreadStarts, JInv, EngineInv, Before, IInv, PlanInv
    <3>2. QED
      BY <3>1, FS_EmptySet DEF JInv, IInv, ProgressCountsResults
  <2>3. L # <<>> /\ L[Len(L)] = [state |-> "pending", done |-> 0]
    BY <2>1, <2>2, LogShowsJob
  <2>4. L' = Append(L, [state |-> "running", done |-> 0])
    BY <1>3, <1>5, <2>1, <2>2, LogUpdated DEF ThreadStarts, JobState
  <2> HIDE DEF L
  <2>5. QED
    <3>1. Lifecycle!Is("pending")
      BY <1>1, <2>3 DEF Lifecycle!Is, Lifecycle!Current
    <3>2. Lifecycle!Publish("running", 0)
      BY <1>1, <1>2, <2>4 DEF Lifecycle!Publish
    <3>3. QED
      BY <3>1, <3>2 DEF Lifecycle!Next, Lifecycle!Proceed, Lifecycle!Start
<1>6. CASE EngineStep /\ ticks' = ticks
  BY <1>1, <1>2, <1>6 DEF EngineStep
<1>7. CASE EngineStep /\ ticks' # ticks
  <2>1. history # <<>> /\ job.state = "running" /\ ticks' = ticks + 1
    BY <1>7, OneTick DEF EngineStep, JInv, JournalInv
  <2>2. ticks \in Nat /\ ticks' <= TotalUnits
    <3>1. IInv /\ IInv'
      BY DEF JInv
    <3>2. (ticks <= TotalUnits)'
      BY <3>1, CountBounded, PTL
    <3>3. QED
      BY <3>1, <3>2, CountBounded
  <2>3. L # <<>> /\ L[Len(L)] = [state |-> "running", done |-> ticks]
    BY <2>1, LogShowsJob
  <2>4. L' = Append(L, [state |-> "running", done |-> ticks + 1])
    BY <1>3, <1>7, <2>1, <2>2, LogProgressed, TotalUnitsNat DEF EngineStep
  <2>5. ticks < TotalUnits
    BY <2>1, <2>2, TotalUnitsNat
  <2> HIDE DEF L
  <2>6. Lifecycle!Is("running") /\ Lifecycle!Current.done = ticks
    BY <1>1, <2>3 DEF Lifecycle!Is, Lifecycle!Current
  <2>7. Lifecycle!Publish("running", Lifecycle!Current.done + 1)
    BY <1>1, <1>2, <2>4, <2>6 DEF Lifecycle!Publish
  <2>8. QED
    BY <2>5, <2>6, <2>7 DEF Lifecycle!Next, Lifecycle!Proceed, Lifecycle!Advance
<1>8. CASE Finish
  <2>1. /\ history # <<>> /\ job.state = "running" /\ job.done = ticks
        /\ thread = "finishing"
    BY <1>8 DEF Finish, JInv, JournalInv
  <2>2. caught = "none" => ticks = TotalUnits
    BY <2>1, AllCounted DEF JInv, FilesInv
  <2>3. L # <<>> /\ L[Len(L)] = [state |-> "running", done |-> ticks]
    BY <2>1, LogShowsJob
  <2>4. PICK s \in Terminal : /\ L' = Append(L, [state |-> s, done |-> ticks])
                              /\ s = "done" => caught = "none"
    <3>1. CASE caught = "cancelled" /\ Update("cancelled", FALSE, FALSE)
      BY <1>3, <2>1, <3>1, LogUpdated DEF JobState, Terminal
    <3>2. CASE caught = "error" /\ Update("failed", FALSE, FALSE)
      BY <1>3, <2>1, <3>2, LogUpdated DEF JobState, Terminal
    <3>3. CASE caught = "none" /\ Update("done", TRUE, published)
      BY <1>3, <2>1, <3>3, LogUpdated DEF JobState, Terminal, JInv, JobTypeOK
    <3>4. QED
      BY <1>8, <3>1, <3>2, <3>3 DEF Finish
  <2> HIDE DEF L
  <2>5. QED
    <3>1. Lifecycle!Is("running") /\ Lifecycle!Current.done = ticks
      BY <1>1, <2>3 DEF Lifecycle!Is, Lifecycle!Current
    <3>2. Lifecycle!Publish(s, Lifecycle!Current.done)
      BY <1>1, <1>2, <2>4, <3>1 DEF Lifecycle!Publish
    <3>3. Lifecycle!Finish(s)
      BY <2>2, <2>4, <3>1, <3>2 DEF Lifecycle!Finish
    <3>4. QED
      BY <3>3 DEF Lifecycle!Next, Lifecycle!Proceed, Lifecycle!Terminal, Terminal
<1>9. CASE UNCHANGED history
  BY <1>1, <1>2, <1>9
<1>10. ASSUME NEW c \in Requests, CancelCheck(c) \/ CancelTrigger(c)
       PROVE  UNCHANGED history
  BY <1>10 DEF CancelCheck, CancelTrigger
<1>11. QED
  BY <1>4, <1>5, <1>6, <1>7, <1>8, <1>9, <1>10 DEF JobNext, ThreadStep, BuildSpec,
     EngineReturns, DumpOpens, DumpWrites, PublishSafe, RecordSafe, JobOver, allVars,
     jobVars

\* The journal of every job is one JobLifecycle allows: its clients may rely
\* on that specification alone.
THEOREM JobRunnerImplementsLifecycle == JobSpec => LifecycleSpec
<1>1. JobInit => Lifecycle!Init
  BY DEF JobInit, Lifecycle!Init
<1>2. JInv /\ JInv' /\ [JobNext]_allVars
      => [Lifecycle!Next]_([i \in DOMAIN history |-> [state |-> history[i].state,
                                                      done  |-> history[i].done]])
  BY Lifecycle_step DEF LogOf, Entry
<1>3. QED
  BY <1>1, <1>2, JInv_always, PTL DEF JobSpec, LifecycleSpec, Lifecycle!Spec
=============================================================================
