---------------------------- MODULE JobLifecycle ----------------------------
(***************************************************************************)
(* What a background job promises to the clients that watch it: the        *)
(* journal of its observable states.  A journal is created with a pending  *)
(* snapshot, continues with a running one, counts the units of work one by *)
(* one and ends with exactly one terminal snapshot, which is "done" only   *)
(* when every unit was counted.                                            *)
(*                                                                         *)
(* This is the abstract specification that JobRunner (the job thread, the  *)
(* orchestrator and its pool) implements and that SseStream consumes.      *)
(***************************************************************************)
EXTENDS Naturals, Sequences

CONSTANT Units      \* number of units of work of the job, a natural number

VARIABLE log        \* the snapshots published so far

JobState == {"pending", "running", "done", "failed", "cancelled"}
Terminal == {"done", "failed", "cancelled"}
Snapshot == [state : JobState, done : 0 .. Units]

TypeOK == log \in Seq(Snapshot)

Current == log[Len(log)]
Is(s)   == log # <<>> /\ Current.state = s
Over    == log # <<>> /\ Current.state \in Terminal

Publish(s, n) == log' = Append(log, [state |-> s, done |-> n])

Init == log = <<>>

Create  == log = <<>> /\ Publish("pending", 0)
Start   == Is("pending") /\ Publish("running", 0)
Advance == Is("running") /\ Current.done < Units
           /\ Publish("running", Current.done + 1)
Finish(s) == /\ Is("running")
             /\ s = "done" => Current.done = Units
             /\ Publish(s, Current.done)

Proceed == Start \/ Advance \/ \E s \in Terminal : Finish(s)

Next == Create \/ Proceed

Spec     == Init /\ [][Next]_log

\* A job that was created is worked on until it ends: the promise of the jobs
\* whose modules return.
Progress == WF_log(Proceed)
=============================================================================
