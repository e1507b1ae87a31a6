------------------------------ MODULE RunResults ------------------------------
(***************************************************************************)
(* What is computed from the outputs of a run: the scores of a view and    *)
(* its sections, what survives of the numbers and signs, the balance of    *)
(* the corrections, and the survival of the entities.  They read the same  *)
(* outputs and share no state; so a behaviour picks one of them and the    *)
(* others stand still.                                                     *)
(***************************************************************************)
EXTENDS EvaluateRun, ViewSections, Restitution, CorrectionAnalysis, EntityAnalysis

VARIABLE analysis

Analyses == {"view", "sections", "restitution", "correction", "entities"}

resultsVars ==
  <<analysis, evalVars, viewVars, restitutionVars, correctionVars, entityVars>>

(* What stands still has one initial state.                                *)
OneStart ==
  /\ analysis # "sections" =>
       lexicon = (CHOOSE l \in Lexicons : TRUE) /\ keepsLines
  /\ analysis # "restitution" => family = (CHOOSE f \in Families : TRUE)

ResultsInit ==
  /\ analysis \in Analyses
  /\ EvaluateInit /\ ViewInit /\ RestitutionInit
  /\ CorrectionInit /\ EntityInit
  /\ OneStart

ResultsNext ==
  \/ /\ analysis = "view" /\ EvaluateNext
     /\ UNCHANGED <<analysis, viewVars, restitutionVars, correctionVars, entityVars>>
  \/ /\ analysis = "sections" /\ ViewNext
     /\ UNCHANGED <<analysis, evalVars, restitutionVars, correctionVars, entityVars>>
  \/ /\ analysis = "restitution" /\ RestitutionNext
     /\ UNCHANGED <<analysis, evalVars, viewVars, correctionVars, entityVars>>
  \/ /\ analysis = "correction" /\ CorrectionNext
     /\ UNCHANGED <<analysis, evalVars, viewVars, restitutionVars, entityVars>>
  \/ /\ analysis = "entities" /\ EntityNext
     /\ UNCHANGED <<analysis, evalVars, viewVars, restitutionVars, correctionVars>>

ResultsSpec == ResultsInit /\ [][ResultsNext]_resultsVars

(* No analysis tells one word from another but by equality.                *)
WordSymmetry == Permutations(Words)
-----------------------------------------------------------------------------
(* What is counted of the same texts adds up.  What survives: a lens that  *)
(* is stricter preserves no more, what is preserved is not added too, and  *)
(* the verdicts of the corrections are those of the lines.  The balance of *)
(* a correction: the errors before are corrected or kept, those after kept *)
(* or introduced.  The entities: each is found, missed or hallucinated     *)
(* once, and none is both missed and hallucinated that could be paired.    *)
BalancesAddUp == RestitutionAddsUp /\ CorrectionAddsUp /\ EntitiesAddUp
=============================================================================
