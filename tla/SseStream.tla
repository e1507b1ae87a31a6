----------------------------- MODULE SseStream ------------------------------
(***************************************************************************)
(* How a browser follows a job: GET /api/runs/{id}/events streams the      *)
(* journal of the job (_sse_stream polls JobStore.history_since), and the  *)
(* EventSource of benchmark.js reconnects with Last-Event-ID whenever the  *)
(* stream ends before a terminal event.                                    *)
(*                                                                         *)
(* The job is any that keeps the promise of JobLifecycle.  The wire is a   *)
(* FIFO connection that may be cut at any point, losing what is in flight. *)
(* The store is in memory: a restart of the server forgets the job.        *)
(***************************************************************************)
EXTENDS Naturals, Sequences

CONSTANTS
  Units,       \* units of work of the job
  MaxCuts,     \* bound: how often the connection is cut
  MaxRestarts  \* bound: how often the server restarts (0 or 1)

ASSUME SseAssumption == Units \in Nat /\ MaxCuts \in Nat /\ MaxRestarts \in {0, 1}

VARIABLES
  log,         \* JobStore._history of the job
  known,       \* whether the JobStore (still) knows the job
  server,      \* where the generator of the current connection is
  sent,        \* last event id it has yielded
  upto,        \* length of the journal it last read
  wire,        \* event ids in flight
  client,      \* state of the EventSource
  lastId,      \* its Last-Event-ID
  cuts, restarts

streamVars == <<server, sent, upto, wire>>
clientVars == <<client, lastId>>
vars       == <<log, known, streamVars, clientVars, cuts, restarts>>

Job == INSTANCE JobLifecycle

TypeOK ==
  /\ Job!TypeOK
  /\ known \in BOOLEAN
  /\ server \in {"none", "reading", "yielding", "checking", "idleclosed",
                 "endclosed"}
  /\ sent \in 0 .. Len(log) /\ upto \in 0 .. Len(log)
  /\ wire \in Seq(1 .. Len(log))
  /\ client \in {"connecting", "open", "finished", "failed"}
  /\ lastId \in 0 .. Len(log)
  /\ cuts \in 0 .. MaxCuts /\ restarts \in 0 .. MaxRestarts

\* The page subscribes with the id that launch returned.
Init ==
  /\ log = <<[state |-> "pending", done |-> 0]>>
  /\ known = TRUE
  /\ server = "none" /\ sent = 0 /\ upto = 0 /\ wire = <<>>
  /\ client = "connecting" /\ lastId = 0
  /\ cuts = 0 /\ restarts = 0

JobStep ==
  /\ known /\ Job!Next
  /\ UNCHANGED <<known, streamVars, clientVars, cuts, restarts>>

-----------------------------------------------------------------------------
(* The server side of one connection                                       *)

\* Mutations: no 404; the server resumes where it stopped sending rather than
\* where the browser stopped receiving.
AlwaysFound == TRUE
ResumeAfterSent == sent

Found == known
ResumeAfter == lastId

\* The request: 404 for a job the store does not know, which closes the
\* EventSource for good; otherwise a generator that resumes after lastId.
Connect ==
  /\ client = "connecting"
  /\ IF Found
     THEN /\ client' = "open"
          /\ server' = "reading" /\ sent' = ResumeAfter /\ upto' = ResumeAfter
          /\ wire' = <<>>
     ELSE client' = "failed" /\ UNCHANGED streamVars
  /\ UNCHANGED <<log, known, lastId, cuts, restarts>>

\* history_since(job_id, sent): a copy of the journal.
ReadHistory ==
  /\ server = "reading"
  /\ upto' = Len(log)
  /\ server' = "yielding"
  /\ UNCHANGED <<log, known, sent, wire, clientVars, cuts, restarts>>

\* The position in the journal, from 1, is the event id.
FirstMissed == sent + 1

\* The events of the copy after `sent`, in order; then the state is checked.
YieldEvent ==
  /\ server = "yielding"
  /\ IF sent < upto
     THEN sent' = FirstMissed /\ wire' = Append(wire, FirstMissed)
          /\ UNCHANGED server
     ELSE server' = "checking" /\ UNCHANGED <<sent, wire>>
  /\ UNCHANGED <<log, known, upto, clientVars, cuts, restarts>>

\* Mutation: the journal is not read again once the job is seen to be over.
NothingReread == TRUE

NothingLeft == Len(log) = sent

\* A job that is over ends the stream if nothing was published since the last
\* read; otherwise the stream may have been idle for too long.
CheckState ==
  /\ server = "checking"
  /\ \/ Job!Over /\ NothingLeft /\ server' = "endclosed"
     \/ Job!Over /\ ~NothingLeft /\ server' = "reading"
     \/ ~Job!Over /\ server' \in {"reading", "idleclosed"}
  /\ UNCHANGED <<log, known, sent, upto, wire, clientVars, cuts, restarts>>

-----------------------------------------------------------------------------
(* The browser                                                             *)

\* An event is dispatched; a terminal one closes the EventSource.
Receive ==
  /\ client = "open" /\ wire # <<>>
  /\ lastId' = Head(wire)
  /\ wire' = Tail(wire)
  /\ IF log[Head(wire)].state \in Job!Terminal
     THEN client' = "finished" /\ server' = "none"
     ELSE UNCHANGED <<client, server>>
  /\ UNCHANGED <<log, known, sent, upto, cuts, restarts>>

Reconnect ==
  /\ client' = "connecting"
  /\ server' = "none" /\ wire' = <<>>
  /\ UNCHANGED <<log, known, sent, upto, lastId, restarts>>

\* The stream ended and everything in flight was dispatched.
EndOfStream ==
  /\ client = "open" /\ server \in {"idleclosed", "endclosed"} /\ wire = <<>>
  /\ Reconnect
  /\ UNCHANGED cuts

\* The connection is cut.
Cut ==
  /\ client = "open" /\ cuts < MaxCuts
  /\ Reconnect
  /\ cuts' = cuts + 1

-----------------------------------------------------------------------------
\* The server restarts: its threads, connections and JobStore are gone.
Restart ==
  /\ restarts < MaxRestarts
  /\ restarts' = restarts + 1
  /\ known' = FALSE
  /\ server' = "none" /\ wire' = <<>>
  /\ client' = IF client = "open" THEN "connecting" ELSE client
  /\ UNCHANGED <<log, sent, upto, lastId, cuts>>

Served == client \in {"finished", "failed"} /\ UNCHANGED vars

ServerStep == ReadHistory \/ YieldEvent \/ CheckState
ClientStep == Connect \/ Receive \/ EndOfStream

Next == JobStep \/ ServerStep \/ ClientStep \/ Cut \/ Restart \/ Served

\* The generator is iterated and the browser goes on.  The job may stop at any
\* point: a module that never returns holds it.
Fairness == WF_vars(ServerStep) /\ WF_vars(ClientStep)

Spec     == Init /\ [][Next]_vars
FairSpec == Spec /\ Fairness

-----------------------------------------------------------------------------
(* Properties.                                                             *)

\* The browser sees the journal without a gap, a repetition or a swap, over
\* all its connections: cuts, idle closes and reconnections do not show.
EventsInSequence ==
  [][lastId' # lastId => lastId' = lastId + 1]_vars

\* The server ends a stream of its own accord only after the terminal event
\* was yielded, although the job may end between its two reads of the store.
EndsAfterTerminalEvent ==
  server = "endclosed" => Job!Over /\ sent = Len(log)

\* Once its job is over, or forgotten by a server that restarted, the page
\* learns it, over cuts, idle closes and reconnections.
PageLearnsTheEnd ==
  (Job!Over \/ ~known) ~> (client \in {"finished", "failed"})
=============================================================================
