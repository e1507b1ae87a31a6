----------------------------- MODULE RunControl -----------------------------
(***************************************************************************)
(* The cancellation signal of a run (cinoc.pipeline.run_control) and the   *)
(* adapter that wires it to a blocking call, _invoke_ollama: a call polls  *)
(* the signal, opens an HTTP client, registers client.close as a handle    *)
(* and posts.  trigger_cancel takes the handles under the lock and calls   *)
(* them outside it; several requests may trigger at once.                  *)
(*                                                                         *)
(* The lock protects the event and the list of handles: what it covers is  *)
(* one step.  A handle is identified with the call that registers it; the  *)
(* order of the list is left out.  No timeout bounds the post: a job has   *)
(* an infinite deadline.                                                   *)
(***************************************************************************)
EXTENDS Naturals

CONSTANTS
  Calls,       \* adapter calls of the run, each with its client and handle
  Cancellers   \* threads that will call trigger_cancel

VARIABLES
  cancelSet,   \* the event
  handles,     \* RunControl._handles
  call,        \* where each adapter call is
  client,      \* the HTTP client of each call
  invoked,     \* how many times each handle was called
  canceller,   \* where each call of trigger_cancel is
  todo         \* the handles it took and has yet to call

vars == <<cancelSet, handles, call, client, invoked, canceller, todo>>

CallState == {"idle", "opened", "selfclosing", "posting", "inflight",
              "ok", "failed", "cancelled", "crashed"}
Ended     == {"ok", "failed", "cancelled", "crashed"}

TypeOK ==
  /\ cancelSet \in BOOLEAN
  /\ handles \subseteq Calls
  /\ call \in [Calls -> CallState]
  /\ client \in [Calls -> {"none", "open", "closed"}]
  /\ invoked \in [Calls -> Nat]
  /\ canceller \in [Cancellers -> {"idle", "calling", "done"}]
  /\ todo \in [Cancellers -> SUBSET Calls]

Init ==
  /\ cancelSet = FALSE
  /\ handles = {}
  /\ call = [c \in Calls |-> "idle"]
  /\ client = [c \in Calls |-> "none"]
  /\ invoked = [c \in Calls |-> 0]
  /\ canceller = [k \in Cancellers |-> "idle"]
  /\ todo = [k \in Cancellers |-> {}]

Goto(c, s)  == call' = [call EXCEPT ![c] = s]
CloseClient(c) == client' = [client EXCEPT ![c] = "closed"]

\* The handle of c is called: client.close, which may be repeated.
Invoke(c) ==
  /\ invoked' = [invoked EXCEPT ![c] = @ + 1]
  /\ CloseClient(c)

-----------------------------------------------------------------------------
(* trigger_cancel                                                          *)

\* Mutation: the list of handles is not emptied.
KeptHandles == handles

HandlesLeft == {}

Trigger(k) ==
  /\ canceller[k] = "idle"
  /\ canceller' = [canceller EXCEPT ![k] = "calling"]
  /\ cancelSet' = TRUE
  /\ todo' = [todo EXCEPT ![k] = handles]
  /\ handles' = HandlesLeft
  /\ UNCHANGED <<call, client, invoked>>

CallHandle(k) ==
  /\ canceller[k] = "calling"
  /\ \/ \E c \in todo[k] :
          /\ Invoke(c)
          /\ todo' = [todo EXCEPT ![k] = @ \ {c}]
          /\ UNCHANGED canceller
     \/ /\ todo[k] = {}
        /\ canceller' = [canceller EXCEPT ![k] = "done"]
        /\ UNCHANGED <<todo, client, invoked>>
  /\ UNCHANGED <<cancelSet, handles, call>>

-----------------------------------------------------------------------------
(* An adapter call                                                         *)

\* run_llm_step polls; then _invoke_ollama opens its client.
PollAndOpen(c) ==
  /\ call[c] = "idle"
  /\ IF cancelSet
     THEN Goto(c, "cancelled") /\ UNCHANGED client
     ELSE Goto(c, "opened") /\ client' = [client EXCEPT ![c] = "open"]
  /\ UNCHANGED <<cancelSet, handles, invoked, canceller, todo>>

\* Mutation: the handle is appended without looking at the event.
RegisterUnchecked(c) ==
  /\ call[c] = "opened"
  /\ Goto(c, "posting") /\ handles' = handles \union {c}
  /\ UNCHANGED <<cancelSet, client, invoked, canceller, todo>>

\* register_cancel_handle: the test and the append are one critical section.
RegisterCancelHandle(c) ==
  /\ call[c] = "opened"
  /\ IF cancelSet
     THEN Goto(c, "selfclosing") /\ UNCHANGED handles
     ELSE Goto(c, "posting") /\ handles' = handles \union {c}
  /\ UNCHANGED <<cancelSet, client, invoked, canceller, todo>>

\* ... and a handle that comes too late is called at once, outside the lock.
CallOwnHandle(c) ==
  /\ call[c] = "selfclosing"
  /\ Invoke(c)
  /\ Goto(c, "posting")
  /\ UNCHANGED <<cancelSet, handles, canceller, todo>>

\* client.post.  On a closed client httpx raises a RuntimeError, which is no
\* httpx.HTTPError: the clause that would poll the signal does not catch it.
Post(c) ==
  /\ call[c] = "posting"
  /\ Goto(c, IF client[c] = "open" THEN "inflight" ELSE "crashed")
  /\ UNCHANGED <<cancelSet, handles, client, invoked, canceller, todo>>

\* Mutation: the failure is not told from the cancellation.
FailAnyway(c)   == Goto(c, "failed")

\* _fail_or_cancel
FailOrCancel(c) == Goto(c, IF cancelSet THEN "cancelled" ELSE "failed")

\* The server answers: a completion, an error in a 200, a status or transport
\* error, or a body that is not JSON (no httpx.HTTPError either).  The client
\* is closed on the way out.
Answered(c) ==
  /\ call[c] = "inflight" /\ client[c] = "open"
  /\ Goto(c, "ok") \/ Goto(c, "failed") \/ Goto(c, "crashed") \/ FailOrCancel(c)
  /\ CloseClient(c)
  /\ UNCHANGED <<cancelSet, handles, invoked, canceller, todo>>

\* The client was closed under the request: httpx raises an HTTPError.
Interrupted(c) ==
  /\ call[c] = "inflight" /\ client[c] = "closed"
  /\ FailOrCancel(c)
  /\ UNCHANGED <<cancelSet, handles, client, invoked, canceller, todo>>

-----------------------------------------------------------------------------
\* What the thread of a call does by itself; Answered is up to the server.
CallStep(c) ==
  \/ PollAndOpen(c) \/ RegisterCancelHandle(c) \/ CallOwnHandle(c)
  \/ Post(c) \/ Interrupted(c)

AllDone ==
  /\ \A c \in Calls : call[c] \in Ended
  /\ \A k \in Cancellers : canceller[k] = "done"
  /\ UNCHANGED vars

Next ==
  \/ \E k \in Cancellers : Trigger(k) \/ CallHandle(k)
  \/ \E c \in Calls : CallStep(c) \/ Answered(c)
  \/ AllDone

Spec == Init /\ [][Next]_vars

-----------------------------------------------------------------------------
(* Properties.                                                             *)

\* "aucun handle n'est ... appelé deux fois": whatever triggers at once, and
\* whether it was registered before or after, a handle is called at most once.
HandleAtMostOnce == \A c \in Calls : invoked[c] <= 1

\* "aucun handle n'est ni perdu": once the run is cancelled every registered
\* handle was called, or some thread holds it and is about to call it.
NoHandleLost ==
  cancelSet =>
    /\ handles = {}
    /\ \A c \in Calls :
         call[c] \in {"posting", "inflight"} =>
           invoked[c] = 1 \/ \E k \in Cancellers : c \in todo[k]

\* A request that the cancellation interrupted ends as a cancellation, never
\* as a failure of the adapter that would be isolated and counted.
InterruptionIsNotAFailure ==
  [][\A c \in Calls :
       call[c] = "inflight" /\ client[c] = "closed" =>
         call'[c] \in {"inflight", "cancelled"}]_vars

\* A cancelled run is not held back by a server that never answers: every
\* call under way ends.
CancelUnblocks == cancelSet ~> \A c \in Calls : call[c] \in Ended

\* "Si l'annulation a été déclenchée ... on lève alors RunCancelledError": a
\* call whose client the cancellation has closed ends as a cancelled one.
OvertakenCallIsCancelled ==
  [][\A c \in Calls :
       call[c] = "posting" /\ client[c] = "closed" =>
         call'[c] \in {"posting", "cancelled"}]_vars
=============================================================================
