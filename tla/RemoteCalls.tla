----------------------------- MODULE RemoteCalls -----------------------------
(***************************************************************************)
(* What the steps of a pipeline do in the adapters: one step of any of     *)
(* them, and the two mechanisms through which they call remote models, the *)
(* cancellation handles of the local server's calls and the slots and      *)
(* retries of the providers'.  The three share no state; so a behaviour    *)
(* picks one and the others stand still.                                   *)
(***************************************************************************)
EXTENDS RunControl, NetworkSlots, EngineSteps

VARIABLE mechanism

Mechanisms == {"handles", "slots", "steps"}

RemoteInit == mechanism \in Mechanisms /\ Init /\ SlotsInit /\ StepInit

RemoteNext ==
  /\ \/ mechanism = "handles" /\ Next /\ UNCHANGED <<slotVars, stepVars>>
     \/ mechanism = "slots" /\ SlotsNext /\ UNCHANGED <<vars, stepVars>>
     \/ mechanism = "steps" /\ StepNext /\ UNCHANGED <<vars, slotVars>>
  /\ UNCHANGED mechanism

(* The threads of the mechanism picked run.  Neither the local server nor  *)
(* a provider need ever answer.                                            *)
RemoteFairness ==
  /\ \A k \in Cancellers : WF_vars(mechanism = "handles" /\ CallHandle(k))
  /\ \A c \in Calls : WF_vars(mechanism = "handles" /\ CallStep(c))
  /\ \A t \in Threads : WF_slotVars(mechanism = "slots" /\ CallerStep(t))

RemoteSpec ==
  /\ RemoteInit /\ [][RemoteNext]_<<mechanism, vars, slotVars, stepVars>>
  /\ RemoteFairness
=============================================================================
