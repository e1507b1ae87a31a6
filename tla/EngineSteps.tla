----------------------------- MODULE EngineSteps -----------------------------
(***************************************************************************)
(* One step of a pipeline in an adapter: Module.execute, from the poll of  *)
(* the cancellation to the artifacts it returns or the exception it lets   *)
(* out.  The executor gives a step the inputs it declares and a workspace, *)
(* and a run has an infinite deadline: the guards on them are left out.    *)
(* Two calls are modelled further elsewhere: RunControl has the client of  *)
(* the local server, NetworkSlots the retries of the others.               *)
(***************************************************************************)
EXTENDS EngineAnswers

CONSTANT MaxPolls       \* _MAX_POLLS: how often an analysis is polled

ASSUME StepsAssumption == MaxPolls \in Nat \ {0}

VARIABLES
  engine,      \* the adapter of the step
  equipment,   \* the packages, binaries and keys that are there
  stopped,     \* whether the run was cancelled
  moment,      \* where the step is
  polls,       \* the polls of the analysis so far
  answer,      \* what the engine answered
  made,        \* the artifacts written so far
  outcome,     \* how the step ended: its artifacts, an AdapterStepError,
               \* a RunCancelledError or another exception
  why          \* the failure it ended with

stepVars == <<engine, equipment, stopped, moment, polls, answer, made, outcome, why>>

StepInit ==
  /\ engine = Precomputed
  /\ equipment = {}
  /\ stopped = FALSE
  /\ moment = "idle"
  /\ polls = 0
  /\ answer = <<>>
  /\ made = <<>>
  /\ outcome = "none" /\ why = "none"

MoveTo(m) == moment' = m /\ UNCHANGED <<outcome, why>>
End(how, cause) == moment' = "over" /\ outcome' = how /\ why' = cause

\* A failure becomes an AdapterStepError or leaves the step as it is.
Fails(f) == End(IF f \in engine.isolates THEN "failed" ELSE "crashed", f)

\* A run reaches an adapter, on a machine with some of what it needs.
Engage(e) ==
  /\ moment = "idle"
  /\ engine' = e
  /\ equipment' \in SUBSET Range(e.needs)
  /\ MoveTo("engaged")
  /\ UNCHANGED <<stopped, polls, answer, made>>

\* The run is cancelled, at any time.
CancelRun ==
  /\ moment \notin {"idle", "over"} /\ ~stopped
  /\ stopped' = TRUE
  /\ UNCHANGED <<engine, equipment, moment, polls, answer, made, outcome, why>>

\* control.raise_if_cancelled: the only poll of most adapters.
Begin ==
  /\ moment = "engaged"
  /\ IF stopped THEN End("cancelled", "none") ELSE MoveTo("begun")
  /\ UNCHANGED <<engine, equipment, stopped, polls, answer, made>>

\* Reading the input and looking for what is needed come in either order.
AtTurn(first) == moment = IF first THEN "begun" ELSE "halfway"
Onward(first) == MoveTo(IF first THEN "halfway" ELSE "ready")

\* What the engine needs is looked for.
Equip ==
  /\ AtTurn(~ReadsFirst(engine))
  /\ IF Range(engine.needs) \subseteq equipment
     THEN Onward(~ReadsFirst(engine))
     ELSE End("failed", "missing")
  /\ UNCHANGED <<engine, equipment, stopped, polls, answer, made>>

\* The file of the input is read.
Load ==
  /\ AtTurn(ReadsFirst(engine))
  /\ Onward(ReadsFirst(engine)) \/ Fails("gone")
  /\ UNCHANGED <<engine, equipment, stopped, polls, answer, made>>

IsPolled == engine.kind = "azure_di"

\* _fail_or_cancel: a request that fails while the run is being cancelled.
CutShort(f) == engine.kind = "ollama" /\ f = "refused" /\ stopped

\* The call goes wrong.
Fault ==
  /\ moment \in {"ready", "submitted"}
  /\ \E f \in engine.meets : IF CutShort(f) THEN End("cancelled", "none") ELSE Fails(f)
  /\ UNCHANGED <<engine, equipment, stopped, polls, answer, made>>

\* An analysis is accepted; its result is then polled.
SubmitAnalysis ==
  /\ moment = "ready" /\ IsPolled
  /\ MoveTo("submitted")
  /\ UNCHANGED <<engine, equipment, stopped, polls, answer, made>>

\* The analysis is still running.  The loop looks at its own bound, not at
\* the cancellation.
PollRunning ==
  /\ moment = "submitted"
  /\ polls' = polls + 1
  /\ IF polls' = MaxPolls THEN End("failed", "unfinished") ELSE MoveTo("submitted")
  /\ UNCHANGED <<engine, equipment, stopped, answer, made>>

\* The engine answers.  The corrector, once it has read its layout, polls the
\* cancellation again.
Recognize ==
  /\ moment = IF IsPolled THEN "submitted" ELSE "ready"
  /\ \E a \in Answers(engine) :
       /\ answer' = a
       /\ IF Refused(engine, a) THEN Fails("unfit")
          ELSE IF stopped /\ engine.dialect = "decisions" THEN End("cancelled", "none")
          ELSE MoveTo("writing")
  /\ UNCHANGED <<engine, equipment, stopped, polls, made>>

Due     == Artifacts(engine, answer)[Len(made) + 1]
AllMade == Len(made) = Len(Artifacts(engine, answer))

\* The next artifact is written, or the disk refuses it.  Tesseract runs once
\* more for each of the last two: without confidences the sidecar is empty,
\* without ALTO the step fails.
Write ==
  /\ moment = "writing" /\ ~AllMade
  /\ \/ made' = Append(made, Due) /\ MoveTo("writing")
     \/ /\ engine.kind = "tesseract" /\ Due.type = "confidences"
        /\ made' = Append(made, [Due EXCEPT !.content = <<>>]) /\ MoveTo("writing")
     \/ /\ engine.kind = "tesseract" /\ Due.type = "alto_xml"
        /\ Fails("foreign") /\ UNCHANGED made
     \/ ~IsReplay(engine) /\ End("crashed", "disk") /\ UNCHANGED made
  /\ UNCHANGED <<engine, equipment, stopped, polls, answer>>

ReturnOutput ==
  /\ moment = "writing" /\ AllMade
  /\ End("ok", "none")
  /\ UNCHANGED <<engine, equipment, stopped, polls, answer, made>>

StepOver == moment = "over" /\ UNCHANGED stepVars

StepNext ==
  \/ \E e \in Engines : Engage(e)
  \/ CancelRun \/ Begin \/ Equip \/ Load \/ Fault \/ SubmitAnalysis
  \/ PollRunning \/ Recognize \/ Write \/ ReturnOutput \/ StepOver

StepSpec == StepInit /\ [][StepNext]_stepVars

-----------------------------------------------------------------------------
(* Properties.                                                             *)

\* "clé posée → ça marche": an engine that the page of engines says ready,
\* from its own list of packages, binaries and keys, is refused by its adapter
\* at most for want of a library beside its own (pero, calamari and kraken
\* import some that the page does not look for).
ReadyEnginesRun ==
  moment = "over" /\ SaidReady(engine.kind, equipment) /\ why = "missing" =>
    LET absent == Range(engine.needs) \ equipment
    IN  absent # {} /\ absent \subseteq LibrariesBeside

MadeOf(type) == made[CHOOSE i \in DOMAIN made : made[i].type = type].content

\* The tokens follow the text, each at a place of its own.
TokensFollow(tokens, text) ==
  /\ \A n \in DOMAIN tokens : text[tokens[n].at] = tokens[n].word
  /\ \A m, n \in DOMAIN tokens : m < n => tokens[m].at < tokens[n].at

\* The corrected layout and the flat text read what was decided of each line.
TellTheDecisions(decisions, lines, text) ==
  LET outer == {i \in DOMAIN lines : ~lines[i].inner}
  IN  /\ \A i \in DOMAIN lines : lines[i].text = decisions[i].final
      /\ Len(text) = Cardinality(outer)
      /\ \A i \in outer : text[Cardinality({j \in outer : j <= i})] = decisions[i].final

\* A step that succeeds gives all its adapter declares, and what it gives
\* agrees: no confidence goes to the wrong occurrence of a word, a decision
\* to a line of another page; no word outlives the text of its line; and the
\* layout does not depend on the order of the boxes, but for boxes with the
\* same corner.
EnginesDeliver ==
  moment = "over" /\ outcome = "ok" =>
    /\ {made[i].type : i \in DOMAIN made} = engine.declares
    /\ "confidences" \in engine.declares => TokensFollow(MadeOf("confidences"), MadeOf("raw_text"))
    /\ engine.dialect = "decisions" =>
         TellTheDecisions(MadeOf("decisions"), MadeOf("layout"), MadeOf("corrected_text"))
    /\ engine.dialect \in {"alto", "decisions"} =>
         \A i \in DOMAIN MadeOf("layout") : MadeOf("layout")[i].words \in {"none", MadeOf("layout")[i].text}
    /\ engine.dialect = "boxes" =>
         \/ MadeOf("layout") = CanonicalLayout(Reverse(answer))
         \/ \E i, j \in DOMAIN answer : i # j /\ answer[i].x = answer[j].x /\ answer[i].y = answer[j].y
=============================================================================
