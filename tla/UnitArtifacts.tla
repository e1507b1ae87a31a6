---------------------------- MODULE UnitArtifacts ----------------------------
(***************************************************************************)
(* The files of a unit: those it writes in the workspace of its pipeline   *)
(* while it runs (Fanout), and those the command line copies of them to be *)
(* found again by a later run (ResumeStore).  The workspace is gone when   *)
(* the process ends and the copies stay: the two share no state, and a     *)
(* behaviour is one of either.                                             *)
(***************************************************************************)
EXTENDS Fanout, ResumeStore

VARIABLE place

unitVars == <<place, vars, storeVars>>

UnitInit == place \in {"workspace", "store"} /\ Init /\ StoreInit

InWorkspace(step) == place = "workspace" /\ step /\ UNCHANGED <<place, storeVars>>

UnitNext ==
  \/ InWorkspace(Next)
  \/ place = "store" /\ StoreNext /\ UNCHANGED <<place, vars>>

\* The threads of the fan-out run, as in Fanout!FairSpec; the process that
\* saves may die at any step.
UnitSpec ==
  /\ UnitInit /\ [][UnitNext]_unitVars
  /\ \A d \in Docs : WF_unitVars(InWorkspace(OwnStep(d)))
-----------------------------------------------------------------------------
=============================================================================
