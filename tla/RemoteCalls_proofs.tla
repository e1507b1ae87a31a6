------------------------- MODULE RemoteCalls_proofs -------------------------
(***************************************************************************)
(* Proofs about the calls of remote models, for any number of calls and of *)
(* threads that trigger the cancellation; of threads, providers, limits    *)
(* and attempts; and about one step of any engine of the catalogue.        *)
(***************************************************************************)
EXTENDS RemoteCalls, Ranks_proofs

\* Beside the others each mechanism behaves as it does alone.
THEOREM MechanismsStandAlone == RemoteSpec => Spec /\ SlotsSpec /\ StepSpec
<1>1. RemoteInit => Init /\ SlotsInit /\ StepInit
  BY DEF RemoteInit
<1>2. ASSUME [RemoteNext]_<<mechanism, vars, slotVars, stepVars>>
      PROVE  [Next]_vars /\ [SlotsNext]_slotVars /\ [StepNext]_stepVars
  BY <1>2 DEF RemoteNext, vars, slotVars, stepVars
<1>3. QED
  BY <1>1, <1>2, PTL DEF RemoteSpec, Spec, SlotsSpec, StepSpec

-----------------------------------------------------------------------------
(* The cancellation handles.                                             *)

\* A handle is in one place at a time: still to be registered, in the list,
\* taken by one canceller, about to be called by its own thread, or called.
\* Only then has its count changed, and only once.
Unregistered(c) == call[c] \in {"idle", "opened"}

HandlePlaces ==
  \A c \in Calls :
    /\ Unregistered(c) \/ call[c] = "selfclosing" =>
         invoked[c] = 0 /\ c \notin handles /\ \A k \in Cancellers : c \notin todo[k]
    /\ c \in handles =>
         invoked[c] = 0 /\ \A k \in Cancellers : c \notin todo[k]
    /\ \A k \in Cancellers : c \in todo[k] =>
         invoked[c] = 0 /\ \A j \in Cancellers : c \in todo[j] => j = k
    /\ invoked[c] <= 1

\* The list is empty once the event is set, a canceller holds nothing before
\* it begins, and a handle that waits in a
\* post was called, is held by a canceller or is still in the list.
HandlesTaken ==
  /\ cancelSet => handles = {}
  /\ \A k \in Cancellers : canceller[k] = "idle" => todo[k] = {}
  /\ \A c \in Calls :
       call[c] \in {"posting", "inflight"} =>
         \/ c \in handles
         \/ invoked[c] = 1
         \/ \E k \in Cancellers : c \in todo[k]

HandlesInv == TypeOK /\ HandlePlaces /\ HandlesTaken

LEMMA RunControlTypeOK_step == TypeOK /\ [Next]_vars => TypeOK'
<1> SUFFICES ASSUME TypeOK, [Next]_vars PROVE TypeOK'
  OBVIOUS
<1> USE DEF TypeOK, CallState
<1>1. ASSUME NEW k \in Cancellers, Trigger(k) PROVE TypeOK'
  BY <1>1 DEF Trigger, HandlesLeft
<1>2. ASSUME NEW k \in Cancellers, CallHandle(k) PROVE TypeOK'
  BY <1>2 DEF CallHandle, Invoke, CloseClient
<1>3. ASSUME NEW c \in Calls, CallStep(c) PROVE TypeOK'
  BY <1>3 DEF CallStep, PollAndOpen, RegisterCancelHandle, CallOwnHandle, Post,
              Interrupted, FailOrCancel, Invoke, CloseClient, Goto
<1>4. ASSUME NEW c \in Calls, Answered(c) PROVE TypeOK'
  BY <1>4 DEF Answered, FailOrCancel, CloseClient, Goto
<1>idle. CASE AllDone \/ UNCHANGED vars
  BY <1>idle DEF AllDone, vars
<1>. QED
  BY <1>1, <1>2, <1>3, <1>4, <1>idle DEF Next

LEMMA HandlesInv_step == HandlesInv /\ [Next]_vars => HandlesInv'
<1> SUFFICES ASSUME HandlesInv, [Next]_vars PROVE HandlesInv'
  OBVIOUS
<1>0. TypeOK'
  BY RunControlTypeOK_step DEF HandlesInv
<1> SUFFICES HandlePlaces' /\ HandlesTaken'
  BY <1>0 DEF HandlesInv
<1> USE DEF HandlesInv, TypeOK, CallState, HandlePlaces, HandlesTaken, Unregistered
<1>1. ASSUME NEW k \in Cancellers, Trigger(k)
      PROVE  HandlePlaces' /\ HandlesTaken'
  <2>1. /\ cancelSet' /\ handles' = {}
        /\ UNCHANGED <<call, invoked>>
        /\ todo'[k] = handles
        /\ \A j \in Cancellers \ {k} : todo'[j] = todo[j]
    BY <1>1 DEF Trigger, HandlesLeft
  <2>2. \A c \in Calls, j \in Cancellers :
          c \in todo'[j] <=> IF j = k THEN c \in handles ELSE c \in todo[j]
    BY <2>1
  <2>3. todo[k] = {}
    BY <1>1 DEF Trigger
  <2>4. \A j \in Cancellers : canceller'[j] = "idle" => todo'[j] = {}
    BY <1>1 DEF Trigger
  <2>5. QED
    BY <2>1, <2>2, <2>3, <2>4
<1>2. ASSUME NEW k \in Cancellers, CallHandle(k)
      PROVE  HandlePlaces' /\ HandlesTaken'
  BY <1>2 DEF CallHandle, Invoke, CloseClient
<1>3. ASSUME NEW c \in Calls, CallStep(c)
      PROVE  HandlePlaces' /\ HandlesTaken'
  <2>1. CASE PollAndOpen(c)
    BY <2>1 DEF PollAndOpen, Goto
  <2>2. CASE RegisterCancelHandle(c)
    BY <2>2 DEF RegisterCancelHandle, Goto
  <2>3. CASE CallOwnHandle(c)
    BY <2>3 DEF CallOwnHandle, Invoke, CloseClient, Goto
  <2>4. CASE Post(c)
    BY <2>4 DEF Post, Goto
  <2>5. CASE Interrupted(c)
    BY <2>5 DEF Interrupted, FailOrCancel, Goto
  <2>6. QED
    BY <1>3, <2>1, <2>2, <2>3, <2>4, <2>5 DEF CallStep
<1>4. ASSUME NEW c \in Calls, Answered(c)
      PROVE  HandlePlaces' /\ HandlesTaken'
  BY <1>4 DEF Answered, FailOrCancel, CloseClient, Goto
<1>idle. CASE AllDone \/ UNCHANGED vars
  BY <1>idle DEF AllDone, vars
<1>. QED
  BY <1>1, <1>2, <1>3, <1>4, <1>idle DEF Next

LEMMA HandlesInv_always == Spec => []HandlesInv
<1>1. Init => TypeOK
  <2> SUFFICES ASSUME Init PROVE TypeOK
    OBVIOUS
  <2>1. cancelSet \in BOOLEAN /\ handles \subseteq Calls
    BY DEF Init
  <2>2. call \in [Calls -> CallState] /\ client \in [Calls -> {"none", "open", "closed"}]
    BY DEF Init, CallState
  <2>3. invoked \in [Calls -> Nat]
    BY DEF Init
  <2>4. /\ canceller \in [Cancellers -> {"idle", "calling", "done"}]
        /\ todo \in [Cancellers -> SUBSET Calls]
    BY DEF Init
  <2>5. QED
    BY <2>1, <2>2, <2>3, <2>4 DEF TypeOK
<1>2. Init => HandlePlaces /\ HandlesTaken
  BY DEF Init, HandlePlaces, HandlesTaken, Unregistered
<1>3. Init => HandlesInv
  BY <1>1, <1>2 DEF HandlesInv
<1>4. QED
  BY <1>3, HandlesInv_step, PTL DEF Spec

\* Every state has the types TypeOK gives.
THEOREM RunControlTyped == Spec => []TypeOK
<1>1. HandlesInv => TypeOK
  BY DEF HandlesInv
<1>2. QED
  BY <1>1, HandlesInv_always, PTL

\* trigger_cancel and register_cancel_handle never call a handle twice.
THEOREM HandlesCalledAtMostOnce == Spec => []HandleAtMostOnce
<1>1. HandlesInv => HandleAtMostOnce
  BY DEF HandlesInv, HandlePlaces, HandleAtMostOnce
<1>2. QED
  BY <1>1, HandlesInv_always, PTL

\* After the cancellation no registered handle of a blocked call is missed.
THEOREM HandlesNeverLost == Spec => []NoHandleLost
<1>1. HandlesInv => NoHandleLost
  BY DEF HandlesInv, HandlesTaken, NoHandleLost
<1>2. QED
  BY <1>1, HandlesInv_always, PTL

\* A request interrupted by the cancellation never ends as a mere failure:
\* while it is in flight only a handle closes its client, and handles are
\* called after the event is set.
ClosedByCancel ==
  /\ \A c \in Calls : call[c] \in {"opened", "posting", "inflight"} /\ client[c] = "closed"
                        => cancelSet
  /\ \A k \in Cancellers : canceller[k] # "idle" => cancelSet
  /\ \A c \in Calls : call[c] = "selfclosing" => cancelSet

THEOREM InterruptionsAreCancellations == Spec => InterruptionIsNotAFailure
<1>1. Init => ClosedByCancel
  BY DEF Init, ClosedByCancel
<1>2. ASSUME TypeOK, ClosedByCancel, [Next]_vars PROVE ClosedByCancel'
  <2> USE DEF TypeOK, CallState, ClosedByCancel
  <2>cancel. CASE \E k \in Cancellers : Trigger(k) \/ CallHandle(k)
    BY <1>2, <2>cancel DEF Trigger, CallHandle, Invoke, CloseClient
  <2>step. CASE \E c \in Calls : CallStep(c)
    BY <1>2, <2>step DEF CallStep, PollAndOpen, RegisterCancelHandle, CallOwnHandle, Post,
                         Interrupted, FailOrCancel, Invoke, CloseClient, Goto
  <2>answer. CASE \E c \in Calls : Answered(c)
    BY <1>2, <2>answer DEF Answered, FailOrCancel, CloseClient, Goto
  <2>idle. CASE AllDone \/ UNCHANGED vars
    BY <1>2, <2>idle DEF AllDone, vars
  <2>. QED
    BY <1>2, <2>cancel, <2>step, <2>answer, <2>idle DEF Next
<1>3. TypeOK /\ ClosedByCancel /\ [Next]_vars
      => [\A c \in Calls : call[c] = "inflight" /\ client[c] = "closed"
                             => call'[c] \in {"inflight", "cancelled"}]_vars
  <2> SUFFICES ASSUME TypeOK, ClosedByCancel, Next,
                      NEW c \in Calls, call[c] = "inflight", client[c] = "closed"
               PROVE  call'[c] \in {"inflight", "cancelled"}
    OBVIOUS
  <2> USE DEF TypeOK, ClosedByCancel
  <2>1. ASSUME NEW k \in Cancellers, Trigger(k) \/ CallHandle(k)
        PROVE  call'[c] \in {"inflight", "cancelled"}
    BY <2>1 DEF Trigger, CallHandle
  <2>2. ASSUME NEW d \in Calls, CallStep(d) \/ Answered(d)
        PROVE  call'[c] \in {"inflight", "cancelled"}
    BY <2>2 DEF CallStep, PollAndOpen, RegisterCancelHandle, CallOwnHandle, Post,
                Interrupted, Answered, FailOrCancel, Goto
  <2>3. CASE AllDone
    BY <2>3 DEF AllDone, vars
  <2>4. QED
    BY <2>1, <2>2, <2>3 DEF Next
<1>4. QED
  BY <1>1, <1>2, <1>3, RunControlTyped, PTL DEF Spec, InterruptionIsNotAFailure

-----------------------------------------------------------------------------
(* The slots of the providers.                                           *)

\* A thread sleeps only if an attempt is left to it.
SleepersMayRetry ==
  \A t \in Threads : pc[t] = "sleeping" => attempt[t] # Attempts - 1

SlotsInv == SlotsTypeOK /\ SleepersMayRetry /\ SlotsConserved

-----------------------------------------------------------------------------
\* The holders of a provider's slots are finitely many.
LEMMA HoldersFinite ==
  ASSUME NEW p \in Providers
  PROVE  IsFiniteSet(Holders(p)) /\ Cardinality(Holders(p)) \in Nat
<1>1. Holders(p) \subseteq Threads
  BY DEF Holders
<1>2. IsFiniteSet(Threads)
  BY SlotsAssumption
<1>3. QED
  BY <1>1, <1>2, FS_Subset, FS_CardinalityType

LEMMA TypeOK_init == SlotsInit => SlotsTypeOK /\ SleepersMayRetry
<1> SUFFICES ASSUME SlotsInit PROVE SlotsTypeOK /\ SleepersMayRetry
  OBVIOUS
<1>1. limit \in [Providers -> Nat] /\ free \in [Providers -> Nat]
  BY DEF SlotsInit
<1>2. pc \in [Threads -> PC]
  BY DEF SlotsInit, PC
<1>3. provider \in [Threads -> Providers]
  <2>1. (CHOOSE p \in Providers : TRUE) \in Providers
    BY SlotsAssumption
  <2>2. QED
    BY <2>1 DEF SlotsInit
<1>4. attempt \in [Threads -> 0 .. Attempts - 1] /\ calls \in [Threads -> 0 .. MaxCalls]
  BY SlotsAssumption DEF SlotsInit
<1>5. SleepersMayRetry
  BY DEF SlotsInit, SleepersMayRetry
<1>6. QED
  BY <1>1, <1>2, <1>3, <1>4, <1>5 DEF SlotsTypeOK

LEMMA SlotsTypeOK_step ==
  SlotsTypeOK /\ SleepersMayRetry /\ [SlotsNext]_slotVars => SlotsTypeOK' /\ SleepersMayRetry'
<1> SUFFICES ASSUME SlotsTypeOK, SleepersMayRetry, [SlotsNext]_slotVars
             PROVE  SlotsTypeOK' /\ SleepersMayRetry'
  OBVIOUS
<1> USE SlotsAssumption DEF SlotsTypeOK, SleepersMayRetry, PC
<1>1. ASSUME NEW t \in Threads, NEW p \in Providers, Call(t, p)
      PROVE  SlotsTypeOK' /\ SleepersMayRetry'
  BY <1>1 DEF Call, ThreadGoto
<1>2. ASSUME NEW t \in Threads, NetworkSlot(t)
      PROVE  SlotsTypeOK' /\ SleepersMayRetry'
  BY <1>2 DEF NetworkSlot, NeedsSemaphore, ThreadGoto
<1>3. ASSUME NEW t \in Threads, Acquire(t)
      PROVE  SlotsTypeOK' /\ SleepersMayRetry'
  BY <1>3 DEF Acquire, ThreadGoto
<1>4. ASSUME NEW t \in Threads, Conclude(t)
      PROVE  SlotsTypeOK' /\ SleepersMayRetry'
  BY <1>4 DEF Conclude, Release, ThreadGoto
<1>5. ASSUME NEW t \in Threads, Retry(t)
      PROVE  SlotsTypeOK' /\ SleepersMayRetry'
  BY <1>5 DEF Retry, CanRetry, Release, ThreadGoto
<1>6. ASSUME NEW t \in Threads, Wake(t)
      PROVE  SlotsTypeOK' /\ SleepersMayRetry'
  BY <1>6 DEF Wake, ThreadGoto
<1>7. CASE UNCHANGED slotVars
  BY <1>7 DEF slotVars
<1>8. QED
  BY <1>1, <1>2, <1>3, <1>4, <1>5, <1>6, <1>7 DEF SlotsNext, ThreadStep, CallerStep, AnswerStep, Quiet

-----------------------------------------------------------------------------
\* A thread enters fn: it becomes a holder of its provider's slots.
LEMMA Acquire_slots ==
  ASSUME SlotsTypeOK, SlotsConserved, NEW t \in Threads, Acquire(t)
  PROVE  SlotsConserved'
<1> SUFFICES ASSUME NEW p \in Providers
             PROVE  free'[p] + Cardinality(Holders(p)') = limit'[p]
  BY DEF SlotsConserved
<1> USE DEF SlotsTypeOK, Acquire, ThreadGoto
<1>1. free[p] + Cardinality(Holders(p)) = limit[p]
  BY DEF SlotsConserved
<1>2. CASE p = provider[t]
  <2>1. Holders(p)' = Holders(p) \union {t} /\ t \notin Holders(p)
    BY <1>2 DEF Holders, PC
  <2>2. Cardinality(Holders(p)') = Cardinality(Holders(p)) + 1
    BY <2>1, HoldersFinite, FS_AddElement
  <2>3. free'[p] = free[p] - 1 /\ limit' = limit
    BY <1>2
  <2>4. QED
    BY <1>1, <2>2, <2>3, HoldersFinite
<1>3. CASE p # provider[t]
  <2>1. Holders(p)' = Holders(p)
    BY <1>3 DEF Holders, PC
  <2>2. free'[p] = free[p] /\ limit' = limit
    BY <1>3
  <2>3. QED
    BY <1>1, <2>1, <2>2
<1>4. QED
  BY <1>2, <1>3

\* A thread leaves fn, to conclude or to sleep: it gives its slot back.
LEMMA Leave_slots ==
  ASSUME SlotsTypeOK, SlotsConserved, NEW t \in Threads,
         pc[t] = "holding", Release(t), NEW s \in {"idle", "sleeping"}, ThreadGoto(t, s),
         UNCHANGED <<limit, provider>>
  PROVE  SlotsConserved'
<1> SUFFICES ASSUME NEW p \in Providers
             PROVE  free'[p] + Cardinality(Holders(p)') = limit'[p]
  BY DEF SlotsConserved
<1> USE DEF SlotsTypeOK, Release, ThreadGoto
<1>1. free[p] + Cardinality(Holders(p)) = limit[p]
  BY DEF SlotsConserved
<1>2. CASE p = provider[t]
  <2>1. Holders(p)' = Holders(p) \ {t} /\ t \in Holders(p)
    BY <1>2 DEF Holders, PC
  <2>2. Cardinality(Holders(p)') = Cardinality(Holders(p)) - 1
    BY <2>1, HoldersFinite, FS_RemoveElement
  <2>3. free'[p] = free[p] + 1 /\ limit' = limit
    BY <1>2
  <2>4. QED
    BY <1>1, <2>2, <2>3, HoldersFinite
<1>3. CASE p # provider[t]
  <2>1. Holders(p)' = Holders(p)
    BY <1>3 DEF Holders, PC
  <2>2. free'[p] = free[p] /\ limit' = limit
    BY <1>3
  <2>3. QED
    BY <1>1, <2>1, <2>2
<1>4. QED
  BY <1>2, <1>3

\* A semaphore is created with all its slots free, and nobody can be inside
\* fn for a provider that had none.
LEMMA NetworkSlot_slots ==
  ASSUME SlotsTypeOK, SlotsConserved, NEW t \in Threads, NetworkSlot(t)
  PROVE  SlotsConserved'
<1> SUFFICES ASSUME NEW p \in Providers
             PROVE  free'[p] + Cardinality(Holders(p)') = limit'[p]
  BY DEF SlotsConserved
<1>1. free[p] + Cardinality(Holders(p)) = limit[p]
  BY DEF SlotsConserved
<1>2. Holders(p)' = Holders(p)
  BY DEF NetworkSlot, ThreadGoto, Holders, SlotsTypeOK, PC
<1>3. CASE p = provider[t] /\ limit[p] = 0
  <2>1. Cardinality(Holders(p)) = 0
    BY <1>1, <1>3, HoldersFinite DEF SlotsTypeOK
  <2>2. free'[p] = limit'[p] /\ limit'[p] \in Nat
    BY <1>3, SlotsAssumption DEF NetworkSlot, NeedsSemaphore, SlotsTypeOK
  <2>3. QED
    BY <1>2, <2>1, <2>2
<1>4. CASE ~(p = provider[t] /\ limit[p] = 0)
  <2>1. free'[p] = free[p] /\ limit'[p] = limit[p]
    BY <1>4 DEF NetworkSlot, NeedsSemaphore, SlotsTypeOK
  <2>2. QED
    BY <1>1, <1>2, <2>1
<1>5. QED
  BY <1>3, <1>4

\* A step that neither enters nor leaves fn.
LEMMA Elsewhere_slots ==
  ASSUME SlotsConserved, \A p \in Providers : Holders(p)' = Holders(p),
         UNCHANGED <<limit, free>>
  PROVE  SlotsConserved'
  BY DEF SlotsConserved

LEMMA SlotsInv_step == SlotsInv /\ [SlotsNext]_slotVars => SlotsInv'
<1> SUFFICES ASSUME SlotsInv, [SlotsNext]_slotVars PROVE SlotsInv'
  OBVIOUS
<1>0. SlotsTypeOK' /\ SleepersMayRetry'
  BY SlotsTypeOK_step DEF SlotsInv
<1> SUFFICES SlotsConserved'
  BY <1>0 DEF SlotsInv
<1> USE DEF SlotsInv
<1>1. ASSUME NEW t \in Threads, NEW p \in Providers, Call(t, p)
      PROVE  SlotsConserved'
  <2>1. \A q \in Providers : Holders(q)' = Holders(q)
    BY <1>1 DEF Call, ThreadGoto, Holders, SlotsTypeOK, PC
  <2>2. QED
    BY <1>1, <2>1, Elsewhere_slots DEF Call
<1>2. ASSUME NEW t \in Threads, NetworkSlot(t)
      PROVE  SlotsConserved'
  BY <1>2, NetworkSlot_slots
<1>3. ASSUME NEW t \in Threads, Acquire(t)
      PROVE  SlotsConserved'
  BY <1>3, Acquire_slots
<1>4. ASSUME NEW t \in Threads, Conclude(t)
      PROVE  SlotsConserved'
  BY <1>4, Leave_slots DEF Conclude
<1>5. ASSUME NEW t \in Threads, Retry(t)
      PROVE  SlotsConserved'
  BY <1>5, Leave_slots DEF Retry
<1>6. ASSUME NEW t \in Threads, Wake(t)
      PROVE  SlotsConserved'
  <2>1. \A q \in Providers : Holders(q)' = Holders(q)
    BY <1>6 DEF Wake, ThreadGoto, Holders, SlotsTypeOK, PC
  <2>2. QED
    BY <1>6, <2>1, Elsewhere_slots DEF Wake
<1>7. CASE UNCHANGED slotVars
  <2>1. \A q \in Providers : Holders(q)' = Holders(q)
    BY <1>7 DEF slotVars, Holders
  <2>2. QED
    BY <1>7, <2>1, Elsewhere_slots DEF slotVars
<1>8. QED
  BY <1>1, <1>2, <1>3, <1>4, <1>5, <1>6, <1>7 DEF SlotsNext, ThreadStep, CallerStep, AnswerStep, Quiet

LEMMA IInv_init == SlotsInit => SlotsInv
<1> SUFFICES ASSUME SlotsInit PROVE SlotsConserved
  BY TypeOK_init DEF SlotsInv
<1>1. \A p \in Providers : Holders(p) = {}
  BY DEF SlotsInit, Holders
<1>2. QED
  BY <1>1, FS_EmptySet DEF SlotsConserved, SlotsInit

LEMMA SlotsInv_always == SlotsSpec => []SlotsInv
  BY IInv_init, SlotsInv_step, PTL DEF SlotsSpec

-----------------------------------------------------------------------------
\* No slot is lost or forged, and no call makes more than Attempts attempts
\* (the type of attempt).
THEOREM AttemptsBounded == SlotsSpec => []SlotsTypeOK
<1>1. SlotsInv => SlotsTypeOK
  BY DEF SlotsInv
<1>2. QED
  BY <1>1, SlotsInv_always, PTL

THEOREM SlotsAreConserved == SlotsSpec => []SlotsConserved
<1>1. SlotsInv => SlotsConserved
  BY DEF SlotsInv
<1>2. QED
  BY <1>1, SlotsInv_always, PTL

\* Sleepers alone never exhaust a provider.
THEOREM SleepersHoldNothing == SlotsSpec => []SleepersLeaveSlots
<1>1. SlotsInv => SleepersLeaveSlots
  <2> SUFFICES ASSUME SlotsInv, NEW p \in Providers, limit[p] > 0, Holders(p) = {}
               PROVE  free[p] > 0
    BY DEF SleepersLeaveSlots
  <2>1. free[p] + Cardinality(Holders(p)) = limit[p]
    BY DEF SlotsInv, SlotsConserved
  <2>2. Cardinality(Holders(p)) = 0
    BY FS_EmptySet
  <2>3. QED
    BY <2>1, <2>2 DEF SlotsInv, SlotsTypeOK
<1>2. QED
  BY <1>1, SlotsInv_always, PTL

\* The semaphore of a provider is created once.
THEOREM LimitsAreFixed == SlotsSpec => LimitIsFixed
<1>1. SlotsTypeOK /\ [SlotsNext]_slotVars
      => [\A p \in Providers : limit[p] # 0 => limit'[p] = limit[p]]_slotVars
  BY DEF SlotsTypeOK, SlotsNext, ThreadStep, CallerStep, AnswerStep, Call, NetworkSlot, NeedsSemaphore, Acquire,
         Conclude, Retry, Wake, Quiet, slotVars
<1>2. QED
  BY <1>1, AttemptsBounded, PTL DEF SlotsSpec, LimitIsFixed

-----------------------------------------------------------------------------
(* The steps of the engines.                                               *)

\* An engine that the page says ready has all it needs, but for the libraries
\* it imports beside its own, whatever else is there; and none meets a failure
\* that is called missing.
ReadyIsEquipped(e) ==
  /\ \A present : SaidReady(e.kind, present) =>
       Range(e.needs) \ LibrariesBeside \subseteq present
  /\ "missing" \notin e.meets

\* The page and the adapters agree on what each engine needs of its own.
LEMMA PageAgreesWithAdapters == \A e \in Engines : ReadyIsEquipped(e)
<1>. USE DEF ReadyIsEquipped, SaidReady, Range, LocalLooksFor, CloudLooksFor,
             SegmenterLooksFor, NerLooksFor, LibrariesBeside, Engine
<1>1. \A e \in OpenAI \union Anthropic \union Mistral \union Ollama : ReadyIsEquipped(e)
  <2>1. \A e \in OpenAI : ReadyIsEquipped(e)
    BY DEF OpenAI, Chat
  <2>2. \A e \in Anthropic : ReadyIsEquipped(e)
    BY DEF Anthropic, Chat
  <2>3. \A e \in Mistral : ReadyIsEquipped(e)
    BY DEF Mistral, Chat
  <2>4. \A e \in Ollama : ReadyIsEquipped(e)
    BY DEF Ollama, Chat
  <2>. QED  BY <2>1, <2>2, <2>3, <2>4
<1>2. ReadyIsEquipped(MistralOcr)
  BY DEF MistralOcr, Ocr
<1>3. ReadyIsEquipped(GoogleVision)
  BY DEF GoogleVision, Ocr
<1>4. ReadyIsEquipped(AzureDocIntel)
  BY DEF AzureDocIntel, Ocr
<1>5. ReadyIsEquipped(Pero) /\ ReadyIsEquipped(Calamari) /\ ReadyIsEquipped(Kraken)
  BY DEF Pero, Calamari, Kraken, Ocr
<1>6. ReadyIsEquipped(Precomputed) /\ ReadyIsEquipped(PrecomputedRegion)
  BY DEF Precomputed, PrecomputedRegion, Ocr
<1>7. \A alto \in BOOLEAN : ReadyIsEquipped(Tesseract(alto))
  BY DEF Tesseract, Ocr
<1>8. ReadyIsEquipped(PPDocLayout) /\ ReadyIsEquipped(RemoteSegmenter)
      /\ ReadyIsEquipped(PrecomputedLayout) /\ ReadyIsEquipped(AltoSource)
  BY DEF PPDocLayout, RemoteSegmenter, PrecomputedLayout, AltoSource, Layouter
<1>9. ReadyIsEquipped(Saknussemm) /\ ReadyIsEquipped(SpacyNer)
  BY DEF Saknussemm, SpacyNer
<1>. HIDE DEF ReadyIsEquipped
<1>. QED
  BY <1>1, <1>2, <1>3, <1>4, <1>5, <1>6, <1>7, <1>8, <1>9 DEF Engines

\* A step is of an engine of the catalogue, and is said to miss something only
\* when it does.
MissingIsMissing ==
  /\ engine \in Engines
  /\ why = "missing" => ~(Range(engine.needs) \subseteq equipment)
  /\ why # "none" => moment = "over"

\* Every step of an adapter keeps the reason of its end true.
LEMMA MissingIsMissing_step == MissingIsMissing /\ [StepNext]_stepVars => MissingIsMissing'
<1>. SUFFICES ASSUME MissingIsMissing, [StepNext]_stepVars
              PROVE  MissingIsMissing'
  OBVIOUS
<1>. USE DEF MissingIsMissing, MoveTo, End
<1>0. "missing" \notin engine.meets
  BY PageAgreesWithAdapters DEF ReadyIsEquipped
<1>1. ASSUME NEW e \in Engines, Engage(e) PROVE MissingIsMissing'
  BY <1>1 DEF Engage
<1>2. CASE CancelRun
  BY <1>2 DEF CancelRun
<1>3. CASE Begin
  BY <1>3 DEF Begin
<1>4. CASE Equip
  BY <1>4 DEF Equip, Onward, AtTurn
<1>5. CASE Load
  BY <1>0, <1>5 DEF Load, Onward, AtTurn, Fails
<1>6. CASE Fault
  BY <1>0, <1>6 DEF Fault, Fails
<1>7. CASE SubmitAnalysis
  BY <1>7 DEF SubmitAnalysis
<1>8. CASE PollRunning
  BY <1>8 DEF PollRunning
<1>9. CASE Recognize
  BY <1>9 DEF Recognize, Fails
<1>10. CASE Write
  BY <1>10 DEF Write, Fails
<1>11. CASE ReturnOutput
  BY <1>11 DEF ReturnOutput
<1>12. CASE StepOver \/ UNCHANGED stepVars
  BY <1>12 DEF StepOver, stepVars
<1>. QED
  BY <1>1, <1>2, <1>3, <1>4, <1>5, <1>6, <1>7, <1>8, <1>9, <1>10, <1>11, <1>12 DEF StepNext

\* An engine that the page of engines says ready is never refused by its
\* adapter for want of a key, a binary or a package of its own, whatever else
\* is there; only a library that it imports beside can be missing.
THEOREM ReadyEnginesAreEquipped == StepSpec => []ReadyEnginesRun
<1>1. StepInit => MissingIsMissing
  BY DEF StepInit, MissingIsMissing, Engines
<1>2. MissingIsMissing => ReadyEnginesRun
  BY PageAgreesWithAdapters DEF MissingIsMissing, ReadyEnginesRun, ReadyIsEquipped
<1>. QED  BY <1>1, <1>2, MissingIsMissing_step, PTL DEF StepSpec

-----------------------------------------------------------------------------
(* The answers and what is made of them.                                   *)

\* An answer in parts is a sequence.
LEMMA PartsAreSequences ==
  ASSUME NEW S, NEW s \in Parts(S)
  PROVE  s \in Seq(S) /\ Len(s) \in Nat /\ DOMAIN s = 1 .. Len(s)
  BY AnswersAssumption DEF Parts

\* Each word is found where it is.
LEMMA WordsAreFound ==
  ASSUME NEW m \in Nat, NEW r, NEW n \in 1 .. m, Len(r) = m
  PROVE  Find(r, r[n].word, n) = n
<1>. DEFINE C == {i \in n .. Len(r) : r[i].word = r[n].word}
<1>1. n \in C
  OBVIOUS
<1>2. \A i \in C : n <= i /\ i \in Int
  OBVIOUS
<1>3. \A x \in C : (\A y \in C : x <= y) <=> x = n
  BY <1>1, <1>2
<1>4. (CHOOSE x \in C : \A y \in C : x <= y) = n
  <2>. HIDE DEF C
  <2>. QED  BY <1>1, <1>3, Zenon
<1>. QED  BY <1>4 DEF Find, Min

\* Looked for one after the other, the words of a line are at their places.
LEMMA PlacesAreTheirOwn ==
  ASSUME NEW r \in Readings
  PROVE  \A n \in DOMAIN r : Places(r)[n] = n
<1>. DEFINE m == Len(r)
            F(g) == [n \in 0 .. m |-> IF n = 0 THEN 0 ELSE Find(r, r[n].word, g[n - 1] + 1)]
            g == CHOOSE f : f = F(f)
            id == [n \in 0 .. m |-> n]
<1>1. m \in Nat /\ DOMAIN r = 1 .. m
  BY PartsAreSequences DEF Readings
<1>2. \A n \in 1 .. m : Find(r, r[n].word, n) = n
  BY <1>1, WordsAreFound
<1>3. id = F(id)
  <2>1. \A n \in 0 .. m : id[n] = F(id)[n]
    <3>. SUFFICES ASSUME NEW n \in 0 .. m PROVE id[n] = F(id)[n]
      OBVIOUS
    <3>1. CASE n = 0
      BY <3>1, <1>1
    <3>2. CASE n # 0
      <4>1. n \in 1 .. m /\ n - 1 \in 0 .. m /\ (n - 1) + 1 = n
        BY <3>2, <1>1
      <4>2. id[n - 1] = n - 1 /\ id[n] = n
        BY <4>1
      <4>3. Find(r, r[n].word, id[n - 1] + 1) = n
        BY <4>1, <4>2, <1>2
      <4>. QED  BY <4>2, <4>3, <3>2
    <3>. QED  BY <3>1, <3>2
  <2>2. DOMAIN id = 0 .. m /\ DOMAIN F(id) = 0 .. m
    OBVIOUS
  <2>3. id = [n \in 0 .. m |-> id[n]] /\ F(id) = [n \in 0 .. m |-> F(id)[n]]
    OBVIOUS
  <2>. QED  BY <2>1, <2>3
<1>4. g = F(g)
  <2>. HIDE DEF F, id
  <2>. QED  BY <1>3
<1>5. \A n \in 0 .. m : g[n] = IF n = 0 THEN 0 ELSE Find(r, r[n].word, g[n - 1] + 1)
  <2>. HIDE DEF g
  <2>. QED  BY <1>4
<1>. HIDE DEF g
<1>6. \A n \in 0 .. m : g[n] = n
  <2>. SUFFICES ASSUME \E n \in 0 .. m : g[n] # n PROVE FALSE
    OBVIOUS
  <2>. DEFINE T == {n \in 0 .. m : g[n] # n}
  <2>1. T \subseteq Nat /\ T # {}
    BY <1>1
  <2>2. PICK n \in T : \A k \in T : n <= k
    <3>. HIDE DEF T
    <3>. QED  BY <2>1, LeastNat
  <2>3. n \in 1 .. m /\ n # 0 /\ g[n] # n
    BY <1>1, <1>5, <2>2
  <2>4. n - 1 \in 0 .. m /\ n - 1 \notin T
    BY <1>1, <2>2, <2>3
  <2>5. g[n - 1] + 1 = n
    BY <2>3, <2>4, <1>1
  <2>6. g[n] = Find(r, r[n].word, g[n - 1] + 1)
    BY <1>1, <1>5, <2>3
  <2>. QED  BY <1>2, <2>3, <2>5, <2>6
<1>7. Places(r) = [n \in DOMAIN r |-> g[n]]
  BY DEF Places, g
<1>. QED  BY <1>1, <1>6, <1>7

\* The tokens follow the text they are of, and none follow any.
LEMMA TokensFollowTheText ==
  ASSUME NEW r \in Readings
  PROVE  TokensFollow(Tokens(r), TextOf(r)) /\ TokensFollow(<<>>, TextOf(r))
<1>. DEFINE m == Len(r)
            token == [n \in DOMAIN r |-> [word |-> r[n].word, at |-> Places(r)[n]]]
            K == {n \in DOMAIN r : r[token[n].at].known}
<1>1. m \in Nat /\ DOMAIN r = 1 .. m
  BY PartsAreSequences DEF Readings
<1>2. \A n \in DOMAIN r : token[n] = [word |-> r[n].word, at |-> n]
  BY PlacesAreTheirOwn
<1>3. K \in SUBSET (1 .. m)
  BY <1>1
<1>4. Tokens(r) = AtPlaces(token, K)
  BY DEF Tokens
<1>. HIDE DEF K, token
<1>5. K \subseteq Nat /\ IsFiniteSet(K)
  BY <1>1, <1>3, PlacesOfSequence
<1>6. \A n \in 1 .. Cardinality(K) : Nth(K, n) \in K
  BY <1>5, NthOfPlaces
<1>7. \A i, n \in 1 .. Cardinality(K) : i < n => Nth(K, i) < Nth(K, n)
  BY <1>5, NthIncreases
<1>8. DOMAIN Tokens(r) = 1 .. Cardinality(K)
      /\ \A n \in 1 .. Cardinality(K) : Tokens(r)[n] = token[Nth(K, n)]
  BY <1>4 DEF AtPlaces
<1>9. \A n \in 1 .. Cardinality(K) :
        /\ Nth(K, n) \in DOMAIN r
        /\ Tokens(r)[n].word = r[Nth(K, n)].word
        /\ Tokens(r)[n].at = Nth(K, n)
  <2>. SUFFICES ASSUME NEW n \in 1 .. Cardinality(K)
                PROVE  /\ Nth(K, n) \in DOMAIN r
                       /\ Tokens(r)[n].word = r[Nth(K, n)].word
                       /\ Tokens(r)[n].at = Nth(K, n)
    OBVIOUS
  <2>1. Nth(K, n) \in DOMAIN r
    BY <1>1, <1>3, <1>6
  <2>2. Tokens(r)[n] = [word |-> r[Nth(K, n)].word, at |-> Nth(K, n)]
    BY <1>2, <1>8, <2>1
  <2>. QED  BY <2>1, <2>2
<1>10. \A n \in DOMAIN r : TextOf(r)[n] = r[n].word
  BY DEF TextOf
<1>11. TokensFollow(Tokens(r), TextOf(r))
  <2>1. \A n \in DOMAIN Tokens(r) : TextOf(r)[Tokens(r)[n].at] = Tokens(r)[n].word
    BY <1>8, <1>9, <1>10, Zenon
  <2>2. \A i, n \in DOMAIN Tokens(r) : i < n => Tokens(r)[i].at < Tokens(r)[n].at
    <3>1. \A i, n \in 1 .. Cardinality(K) : i < n => Tokens(r)[i].at < Tokens(r)[n].at
      BY <1>7, <1>9
    <3>. QED  BY <1>8, <3>1
  <2>. QED  BY <2>1, <2>2 DEF TokensFollow
<1>12. TokensFollow(<<>>, TextOf(r))
  BY DEF TokensFollow
<1>. QED  BY <1>11, <1>12

-----------------------------------------------------------------------------
(* The order of boxes.                                                     *)

Apart(boxes) ==
  \A i, j \in DOMAIN boxes : i # j => boxes[i].x # boxes[j].x \/ boxes[i].y # boxes[j].y
KeptPlaces(boxes) == {i \in DOMAIN boxes : boxes[i].score >= MinScore}
KeptBoxes(boxes)  == {boxes[i] : i \in KeptPlaces(boxes)}
ReadingOrder(S) == {p \in S \X S : Precedes(p[1], p[2])}

ABox == [x : Coordinates, y : Coordinates, score : 0 .. 1]

\* Boxes that have no corner in common are in the order they are read.
LEMMA BoxesInReadingOrder ==
  ASSUME NEW boxes \in Boxes, Apart(boxes)
  PROVE  StrictOrder(ReadingOrder(KeptBoxes(boxes)), KeptBoxes(boxes))
<1>. DEFINE H == KeptBoxes(boxes)
            R == ReadingOrder(H)
<1>1. DOMAIN boxes = 1 .. Len(boxes) /\ \A i \in DOMAIN boxes : boxes[i] \in ABox
  <2>1. boxes \in Parts(ABox)
    BY DEF Boxes, ABox
  <2>2. boxes \in Seq(ABox) /\ DOMAIN boxes = 1 .. Len(boxes)
    BY <2>1, PartsAreSequences
  <2>. QED  BY <2>2
<1>2. \A i \in DOMAIN boxes : boxes[i].x \in Nat /\ boxes[i].y \in Nat
  BY <1>1, AnswersAssumption DEF ABox
<1>3. \A a \in H : \E i \in DOMAIN boxes : a = boxes[i]
  BY DEF KeptBoxes, KeptPlaces
<1>4. \A a \in H : a.x \in Nat /\ a.y \in Nat
  BY <1>2, <1>3
<1>5. \A a, b \in H : a # b => a.x # b.x \/ a.y # b.y
  BY <1>3 DEF Apart
<1>6. \A a, b : <<a, b>> \in R <=> a \in H /\ b \in H /\ Precedes(a, b)
  BY DEF ReadingOrder
<1>. HIDE DEF H, R
<1>7. \A a \in H : <<a, a>> \notin R
  BY <1>4, <1>6 DEF Precedes
<1>8. \A a, b, c \in H : <<a, b>> \in R /\ <<b, c>> \in R => <<a, c>> \in R
  BY <1>4, <1>6 DEF Precedes
<1>9. \A a, b \in H : a # b => <<a, b>> \in R \/ <<b, a>> \in R
  BY <1>4, <1>5, <1>6 DEF Precedes
<1>10. StrictOrder(R, H)
  BY <1>7, <1>8, <1>9 DEF StrictOrder
<1>. QED  BY <1>10 DEF H, R

\* The boxes kept, as they came.
KeptInTurn(boxes) == AtPlaces(boxes, KeptPlaces(boxes))

\* There is one of each.
LEMMA KeptInTurnIsOneToOne ==
  ASSUME NEW boxes \in Boxes, Apart(boxes)
  PROVE  /\ Cardinality(KeptPlaces(boxes)) \in Nat
         /\ KeptInTurn(boxes) \in Bijection(1 .. Cardinality(KeptPlaces(boxes)), KeptBoxes(boxes))
         /\ IsFiniteSet(KeptBoxes(boxes))
         /\ Cardinality(KeptBoxes(boxes)) = Cardinality(KeptPlaces(boxes))
<1>. DEFINE K == KeptPlaces(boxes)
            H == KeptBoxes(boxes)
            c == Cardinality(K)
            f == KeptInTurn(boxes)
<1>1. Len(boxes) \in Nat /\ DOMAIN boxes = 1 .. Len(boxes)
  BY PartsAreSequences DEF Boxes
<1>2. K \in SUBSET (1 .. Len(boxes))
  BY <1>1 DEF KeptPlaces
<1>3. K \subseteq Nat /\ IsFiniteSet(K) /\ c \in Nat
  <2>. HIDE DEF K
  <2>. QED  BY <1>1, <1>2, PlacesOfSequence
<1>4. f = [n \in 1 .. c |-> boxes[Nth(K, n)]]
  BY DEF KeptInTurn, AtPlaces
<1>5. /\ \A i \in K : Cardinality(UpTo(K, i)) \in 1 .. c /\ Nth(K, Cardinality(UpTo(K, i))) = i
      /\ \A n \in 1 .. c : Nth(K, n) \in K /\ Cardinality(UpTo(K, Nth(K, n))) = n
  <2>. HIDE DEF K
  <2>. QED  BY <1>3, NthOfPlaces
<1>6. \A i, j \in K : boxes[i] = boxes[j] => i = j
  BY DEF Apart, KeptPlaces
<1>7. H = {boxes[i] : i \in K}
  BY DEF KeptBoxes
<1>. HIDE DEF K, H, c, f
<1>8. f \in [1 .. c -> H]
  BY <1>4, <1>5, <1>7
<1>9. \A m, n \in 1 .. c : f[m] = f[n] => m = n
  <2>1. \A n \in 1 .. c : f[n] = boxes[Nth(K, n)]
    BY <1>4
  <2>2. \A m, n \in 1 .. c : f[m] = f[n] => Nth(K, m) = Nth(K, n)
    BY <2>1, <1>5, <1>6, Zenon
  <2>. QED  BY <1>5, <2>2, Zenon
<1>10. \A x \in H : \E n \in 1 .. c : f[n] = x
  <2>. SUFFICES ASSUME NEW x \in H PROVE \E n \in 1 .. c : f[n] = x
    OBVIOUS
  <2>1. PICK i \in K : x = boxes[i]
    BY <1>7
  <2>2. Cardinality(UpTo(K, i)) \in 1 .. c /\ Nth(K, Cardinality(UpTo(K, i))) = i
    BY <1>5
  <2>3. f[Cardinality(UpTo(K, i))] = x
    BY <1>4, <2>1, <2>2
  <2>. QED  BY <2>2, <2>3
<1>11. f \in Bijection(1 .. c, H)
  BY <1>8, <1>9, <1>10 DEF Bijection, Injection, Surjection, IsInjective
<1>12. IsFiniteSet(1 .. c) /\ Cardinality(1 .. c) = c
  BY <1>3, FS_Interval
<1>13. ExistsBijection(1 .. c, H)
  BY <1>11 DEF ExistsBijection
<1>14. IsFiniteSet(H) /\ Cardinality(H) = c
  BY <1>12, <1>13, FS_Bijection
<1>. QED  BY <1>3, <1>11, <1>14 DEF K, H, c, f

\* The n-th box of the layout is the n-th box that is read.
LEMMA LayoutIsInReadingOrder ==
  ASSUME NEW boxes \in Boxes, Apart(boxes)
  PROVE  /\ CanonicalLayout(boxes) = [n \in 1 .. Cardinality(KeptBoxes(boxes)) |-> CanonicalLayout(boxes)[n]]
         /\ \A n \in 1 .. Cardinality(KeptBoxes(boxes)) :
              /\ CanonicalLayout(boxes)[n] \in KeptBoxes(boxes)
              /\ RankIn(ReadingOrder(KeptBoxes(boxes)), KeptBoxes(boxes), CanonicalLayout(boxes)[n]) = n
<1>. DEFINE H == KeptBoxes(boxes)
            R == ReadingOrder(H)
            c == Cardinality(H)
            f == KeptInTurn(boxes)
            ahead(i) == {j \in DOMAIN f : Precedes(f[j], f[i]) \/ (~Precedes(f[i], f[j]) /\ j < i)}
            rank(i) == Cardinality(ahead(i)) + 1
<1>1. c \in Nat /\ f \in Bijection(1 .. c, H) /\ IsFiniteSet(H)
  BY KeptInTurnIsOneToOne
<1>2. StrictOrder(R, H)
  BY BoxesInReadingOrder
<1>3. \A a, b : <<a, b>> \in R <=> a \in H /\ b \in H /\ Precedes(a, b)
  BY DEF ReadingOrder
<1>4. CanonicalLayout(boxes) = [n \in DOMAIN f |-> f[CHOOSE i \in DOMAIN f : rank(i) = n]]
  BY DEF CanonicalLayout, KeptInTurn, KeptPlaces
<1>. HIDE DEF H, R, f
<1>5. /\ DOMAIN f = 1 .. c
      /\ \A i \in 1 .. c : f[i] \in H
      /\ \A i, j \in 1 .. c : f[i] = f[j] => i = j
      /\ \A x \in H : \E i \in 1 .. c : f[i] = x
  <2>. HIDE DEF c
  <2>. QED  BY <1>1 DEF Bijection, Injection, Surjection, IsInjective
<1>6. \A i \in 1 .. c : ahead(i) = {j \in 1 .. c : <<f[j], f[i]>> \in R}
  <2>. HIDE DEF c
  <2>. SUFFICES ASSUME NEW i \in 1 .. c, NEW j \in 1 .. c
                PROVE  (Precedes(f[j], f[i]) \/ (~Precedes(f[i], f[j]) /\ j < i)) <=> <<f[j], f[i]>> \in R
    BY <1>5
  <2>1. j # i => <<f[j], f[i]>> \in R \/ <<f[i], f[j]>> \in R
    BY <1>2, <1>5 DEF StrictOrder
  <2>2. j < i => j # i
    BY <1>1
  <2>. QED  BY <1>3, <1>5, <2>1, <2>2
<1>. HIDE DEF ahead
<1>7. \A i \in 1 .. c : rank(i) = RankIn(R, H, f[i])
  <2>. SUFFICES ASSUME NEW i \in 1 .. c PROVE Cardinality(ahead(i)) = Cardinality(Ahead(R, H, f[i]))
    BY DEF RankIn
  <2>. DEFINE A == ahead(i)
              B == Ahead(R, H, f[i])
              g == [j \in A |-> f[j]]
  <2>1. A = {j \in 1 .. c : <<f[j], f[i]>> \in R} /\ B = {x \in H : <<x, f[i]>> \in R}
    BY <1>6 DEF Ahead
  <2>2. A \in SUBSET (1 .. c)
    BY <2>1
  <2>3. IsFiniteSet(A)
    <3>. HIDE DEF A, c
    <3>. QED  BY <1>1, <2>2, PlacesOfSequence
  <2>. HIDE DEF A, B, c
  <2>4. g \in [A -> B]
    BY <1>5, <2>1
  <2>5. \A j, k \in A : g[j] = g[k] => j = k
    BY <1>5, <2>1
  <2>6. \A x \in B : \E j \in A : g[j] = x
    BY <1>5, <2>1
  <2>. HIDE DEF g
  <2>7. g \in Bijection(A, B)
    BY <2>4, <2>5, <2>6 DEF Bijection, Injection, Surjection, IsInjective
  <2>8. ExistsBijection(A, B)
    BY <2>7 DEF ExistsBijection
  <2>9. Cardinality(B) = Cardinality(A)
    BY <2>3, <2>8, FS_Bijection
  <2>. QED  BY <2>9 DEF A, B
<1>8. \A n \in 1 .. c : \E i \in 1 .. c : rank(i) = n
  <2>. SUFFICES ASSUME NEW n \in 1 .. c PROVE \E i \in 1 .. c : rank(i) = n
    OBVIOUS
  <2>1. PICK x \in H : RankIn(R, H, x) = n
    <3>1. IsReached(R, H, n)
      BY <1>1, <1>2, RanksAreReached
    <3>. QED  BY <3>1 DEF IsReached
  <2>2. PICK i \in 1 .. c : f[i] = x
    BY <1>5
  <2>. QED  BY <1>7, <2>1, <2>2
<1>. HIDE DEF rank, c
<1>9. \A n \in 1 .. c : /\ CanonicalLayout(boxes)[n] \in H
                        /\ RankIn(R, H, CanonicalLayout(boxes)[n]) = n
  <2>. SUFFICES ASSUME NEW n \in 1 .. c
                PROVE  /\ CanonicalLayout(boxes)[n] \in H
                       /\ RankIn(R, H, CanonicalLayout(boxes)[n]) = n
    OBVIOUS
  <2>. DEFINE i == CHOOSE i \in 1 .. c : rank(i) = n
  <2>1. i \in 1 .. c /\ rank(i) = n
    BY <1>8
  <2>2. CanonicalLayout(boxes)[n] = f[i]
    BY <1>4, <1>5
  <2>. QED  BY <1>5, <1>7, <2>1, <2>2
<1>10. CanonicalLayout(boxes) = [n \in 1 .. c |-> CanonicalLayout(boxes)[n]]
  BY <1>4, <1>5
<1>. QED  BY <1>9, <1>10 DEF H, R, c

\* The same boxes the other way round are the same set of boxes.
LEMMA ReversedBoxes ==
  ASSUME NEW boxes \in Boxes, Apart(boxes)
  PROVE  Reverse(boxes) \in Boxes /\ Apart(Reverse(boxes)) /\ KeptBoxes(Reverse(boxes)) = KeptBoxes(boxes)
<1>. DEFINE m == Len(boxes)
            r == Reverse(boxes)
<1>1. PICK l \in 0 .. MaxParts : boxes \in [1 .. l -> ABox]
  BY AnswersAssumption DEF Boxes, Parts, ABox
<1>2. l \in Nat /\ m = l /\ DOMAIN boxes = 1 .. l
  BY <1>1, AnswersAssumption
<1>3. r = [i \in 1 .. l |-> boxes[(l - i) + 1]]
  BY <1>2 DEF Reverse
<1>. HIDE DEF r, m
<1>4. \A i \in 1 .. l : (l - i) + 1 \in 1 .. l /\ (l - ((l - i) + 1)) + 1 = i
  BY <1>2
<1>5. DOMAIN r = 1 .. l /\ \A i \in 1 .. l : r[i] = boxes[(l - i) + 1] /\ boxes[i] = r[(l - i) + 1]
  BY <1>3, <1>4
<1>6. r \in Boxes
  <2>1. r \in [1 .. l -> ABox]
    BY <1>1, <1>3, <1>4
  <2>. QED  BY <2>1 DEF Boxes, Parts, ABox
<1>7. Apart(r)
  <2>. SUFFICES ASSUME NEW i \in 1 .. l, NEW j \in 1 .. l, i # j
                PROVE  r[i].x # r[j].x \/ r[i].y # r[j].y
    BY <1>5 DEF Apart
  <2>. DEFINE p == (l - i) + 1
              q == (l - j) + 1
  <2>1. p # q /\ p \in 1 .. l /\ q \in 1 .. l
    BY <1>2
  <2>2. r[i] = boxes[p] /\ r[j] = boxes[q]
    BY <1>5
  <2>. HIDE DEF p, q
  <2>3. boxes[p].x # boxes[q].x \/ boxes[p].y # boxes[q].y
    BY <1>2, <2>1 DEF Apart
  <2>. QED  BY <2>2, <2>3
<1>8. KeptBoxes(r) = KeptBoxes(boxes)
  <2>1. \A x : x \in KeptBoxes(r) <=> \E i \in 1 .. l : x = r[i] /\ r[i].score >= MinScore
    BY <1>5 DEF KeptBoxes, KeptPlaces
  <2>2. \A x : x \in KeptBoxes(boxes) <=> \E i \in 1 .. l : x = boxes[i] /\ boxes[i].score >= MinScore
    BY <1>2 DEF KeptBoxes, KeptPlaces
  <2>3. \A x : x \in KeptBoxes(r) <=> x \in KeptBoxes(boxes)
    <3>1. \A i \in 1 .. l : (\E j \in 1 .. l : boxes[j] = r[i]) /\ (\E j \in 1 .. l : r[j] = boxes[i])
      BY <1>4, <1>5
    <3>2. ASSUME NEW x, x \in KeptBoxes(r) PROVE x \in KeptBoxes(boxes)
      <4>1. PICK i \in 1 .. l : x = r[i] /\ r[i].score >= MinScore
        BY <2>1, <3>2
      <4>2. PICK j \in 1 .. l : boxes[j] = r[i]
        BY <3>1
      <4>. QED  BY <2>2, <4>1, <4>2
    <3>3. ASSUME NEW x, x \in KeptBoxes(boxes) PROVE x \in KeptBoxes(r)
      <4>1. PICK i \in 1 .. l : x = boxes[i] /\ boxes[i].score >= MinScore
        BY <2>2, <3>3
      <4>2. PICK j \in 1 .. l : r[j] = boxes[i]
        BY <3>1
      <4>. QED  BY <2>1, <4>1, <4>2
    <3>. QED  BY <3>2, <3>3
  <2>. QED  BY <2>3
<1>. QED  BY <1>6, <1>7, <1>8 DEF r

\* Boxes that have no corner in common come in one order, whichever they came in.
LEMMA LayoutForgetsTheOrder ==
  ASSUME NEW boxes \in Boxes, Apart(boxes)
  PROVE  CanonicalLayout(boxes) = CanonicalLayout(Reverse(boxes))
<1>. DEFINE H == KeptBoxes(boxes)
            R == ReadingOrder(H)
            f == CanonicalLayout(boxes)
            g == CanonicalLayout(Reverse(boxes))
            c == Cardinality(H)
<1>1. /\ f = [n \in 1 .. c |-> f[n]]
      /\ \A n \in 1 .. c : f[n] \in H /\ RankIn(R, H, f[n]) = n
  BY LayoutIsInReadingOrder
<1>2. Reverse(boxes) \in Boxes /\ Apart(Reverse(boxes)) /\ KeptBoxes(Reverse(boxes)) = H
  BY ReversedBoxes
<1>3. /\ g = [n \in 1 .. c |-> g[n]]
      /\ \A n \in 1 .. c : g[n] \in H /\ RankIn(R, H, g[n]) = n
  BY <1>2, LayoutIsInReadingOrder
<1>4. StrictOrder(R, H) /\ IsFiniteSet(H) /\ c \in Nat
  BY BoxesInReadingOrder, KeptInTurnIsOneToOne
<1>. HIDE DEF H, R, f, g
<1>5. \A a, b \in H : RankIn(R, H, a) = RankIn(R, H, b) => a = b
  <2>1. \A a \in H : RankIn(R, H, a) \in 1 .. c
    BY <1>4, RanksFollow
  <2>2. \A a, b \in H : <<a, b>> \in R => RankIn(R, H, a) < RankIn(R, H, b)
    BY <1>4, RanksFollow
  <2>3. \A a, b \in H : <<a, b>> \in R => RankIn(R, H, a) # RankIn(R, H, b)
    BY <1>4, <2>1, <2>2
  <2>. QED  BY <1>4, <2>3 DEF StrictOrder
<1>. HIDE DEF c
<1>6. \A n \in 1 .. c : f[n] = g[n]
  BY <1>1, <1>3, <1>5
<1>7. f = g
  BY <1>1, <1>3, <1>6
<1>. QED  BY <1>7 DEF f, g

-----------------------------------------------------------------------------
(* The lines of a layout.                                                  *)

WordsFollow(lines) == \A i \in DOMAIN lines : lines[i].words \in {"none", lines[i].text}

\* Every line of a layout reads what its words spell.
LEMMA LinesOfLayouts ==
  ASSUME NEW lines \in Layouts
  PROVE  /\ Len(lines) \in Nat /\ DOMAIN lines = 1 .. Len(lines)
         /\ \A i \in DOMAIN lines :
              /\ lines[i].text = "read" /\ lines[i].words = "read" /\ lines[i].inner \in BOOLEAN
              /\ lines[i] = [page |-> lines[i].page, id |-> lines[i].id, inner |-> lines[i].inner,
                             text |-> lines[i].text, words |-> lines[i].words]
<1>. DEFINE S == Lines
<1>1. lines \in Parts(S)
  BY DEF Layouts
<1>2. \A s \in S : /\ s.text = "read" /\ s.words = "read" /\ s.inner \in BOOLEAN
                   /\ s = [page |-> s.page, id |-> s.id, inner |-> s.inner, text |-> s.text, words |-> s.words]
  <2>. SUFFICES ASSUME NEW s \in S
                PROVE  /\ s.text = "read" /\ s.words = "read" /\ s.inner \in BOOLEAN
                       /\ s = [page |-> s.page, id |-> s.id, inner |-> s.inner, text |-> s.text, words |-> s.words]
    OBVIOUS
  <2>. QED  BY DEF Lines
<1>. HIDE DEF S
<1>3. lines \in Seq(S) /\ Len(lines) \in Nat /\ DOMAIN lines = 1 .. Len(lines)
  BY <1>1, PartsAreSequences
<1>4. \A i \in DOMAIN lines : lines[i] \in S
  BY <1>3
<1>. QED  BY <1>2, <1>3, <1>4

\* A line that is told anew has lost its words, and nothing else.
LEMMA RetoldLine ==
  ASSUME NEW l, l = [page |-> l.page, id |-> l.id, inner |-> l.inner, text |-> l.text, words |-> l.words], NEW t
  PROVE  Retell(l, t).text = t /\ Retell(l, t).words = "none" /\ Retell(l, t).inner = l.inner
  BY DEF Retell

\* A line read by an OCR engine has lost the words of the file.
LEMMA OcrTakesTheWords ==
  ASSUME NEW a \in AltoAnswers
  PROVE  WordsFollow(ApplyOcr(a))
<1>1. a.lines \in Layouts
  BY DEF AltoAnswers
<1>2. \A i \in DOMAIN a.lines :
        /\ a.lines[i].words = a.lines[i].text
        /\ Retell(a.lines[i], "ocr").words = "none"
  <2>. SUFFICES ASSUME NEW i \in DOMAIN a.lines
                PROVE  a.lines[i].words = a.lines[i].text /\ Retell(a.lines[i], "ocr").words = "none"
    OBVIOUS
  <2>. DEFINE l == a.lines[i]
  <2>1. l.text = "read" /\ l.words = "read"
        /\ l = [page |-> l.page, id |-> l.id, inner |-> l.inner, text |-> l.text, words |-> l.words]
    BY <1>1, LinesOfLayouts
  <2>. QED  BY <2>1, RetoldLine
<1>. HIDE DEF Retell
<1>. QED  BY <1>2 DEF ApplyOcr, WordsFollow

\* The identity of a line, in an answer that has none without an identifier, is
\* its own, and what is decided of it is what was given to it.
LEMMA DecidedOfItself ==
  ASSUME NEW a \in DecisionAnswers, ~ManifestRefused(a)
  PROVE  \A i \in DOMAIN a.lines : Decided(a, a.lines[i]) = a.finals[i]
<1>1. PICK lines \in Layouts : a \in {[lines |-> lines, finals |-> finals] : finals \in [DOMAIN lines -> {"read", "fixed"}]}
  BY DEF DecisionAnswers
<1>2. a.lines \in Layouts
  BY <1>1
<1>3. DOMAIN a.lines = 1 .. Len(a.lines) /\ Len(a.lines) \in Nat
  BY <1>2, LinesOfLayouts
<1>4. \A i, j \in DOMAIN a.lines : i < j /\ a.lines[i].page = a.lines[j].page => a.lines[i].id # a.lines[j].id
  <2>1. \A i, j \in DOMAIN a.lines :
          i < j /\ a.lines[i].page = a.lines[j].page => a.lines[i].id = "" \/ a.lines[i].id # a.lines[j].id
    BY <1>2 DEF Layouts
  <2>2. \A i \in DOMAIN a.lines : a.lines[i].id # ""
    BY DEF ManifestRefused
  <2>. QED  BY <2>1, <2>2
<1>5. \A i, j \in DOMAIN a.lines : i # j => Identity(a.lines[i]) # Identity(a.lines[j])
  BY <1>3, <1>4 DEF Identity
<1>6. ASSUME NEW i \in DOMAIN a.lines
      PROVE  Max({j \in DOMAIN a.lines : Identity(a.lines[j]) = Identity(a.lines[i])}) = i
  <2>1. {j \in DOMAIN a.lines : Identity(a.lines[j]) = Identity(a.lines[i])} = {i}
    BY <1>5
  <2>2. i >= i
    BY <1>3
  <2>3. (CHOOSE x \in {i} : \A y \in {i} : x >= y) = i
    BY <2>2
  <2>. QED  BY <2>1, <2>3 DEF Max
<1>. QED  BY <1>6 DEF Decided

\* What the lines read after the decisions.
LEMMA LinesAfterDecisions ==
  ASSUME NEW a \in DecisionAnswers, ~ManifestRefused(a)
  PROVE  /\ DOMAIN ApplyDecisions(a) = DOMAIN a.lines /\ DOMAIN Decisions(a) = DOMAIN a.lines
         /\ Len(a.lines) \in Nat /\ DOMAIN a.lines = 1 .. Len(a.lines)
         /\ \A i \in DOMAIN a.lines :
              /\ ApplyDecisions(a)[i].text = Decisions(a)[i].final
              /\ ApplyDecisions(a)[i].words \in {"none", ApplyDecisions(a)[i].text}
<1>1. PICK lines \in Layouts : a \in {[lines |-> lines, finals |-> finals] : finals \in [DOMAIN lines -> {"read", "fixed"}]}
  BY DEF DecisionAnswers
<1>2. a.lines \in Layouts
  BY <1>1
<1>3. ASSUME NEW i \in DOMAIN a.lines
      PROVE  /\ ApplyDecisions(a)[i].text = a.finals[i]
             /\ ApplyDecisions(a)[i].words \in {"none", ApplyDecisions(a)[i].text}
  <2>. DEFINE l == a.lines[i]
  <2>1. l.text = "read" /\ l.words = "read"
        /\ l = [page |-> l.page, id |-> l.id, inner |-> l.inner, text |-> l.text, words |-> l.words]
    BY <1>2, LinesOfLayouts
  <2>2. Decided(a, l) = a.finals[i]
    BY DecidedOfItself
  <2>3. Retell(l, a.finals[i]).text = a.finals[i] /\ Retell(l, a.finals[i]).words = "none"
    BY <2>1, RetoldLine
  <2>4. ApplyDecisions(a)[i] = IF a.finals[i] = l.text THEN l ELSE Retell(l, a.finals[i])
    BY <2>2 DEF ApplyDecisions
  <2>. HIDE DEF l
  <2>. QED  BY <2>1, <2>3, <2>4
<1>4. \A i \in DOMAIN a.lines : Decisions(a)[i].final = a.finals[i]
  BY DEF Decisions
<1>5. DOMAIN ApplyDecisions(a) = DOMAIN a.lines /\ DOMAIN Decisions(a) = DOMAIN a.lines
  BY DEF ApplyDecisions, Decisions
<1>6. Len(a.lines) \in Nat /\ DOMAIN a.lines = 1 .. Len(a.lines)
  BY <1>2, LinesOfLayouts
<1>. QED  BY <1>3, <1>4, <1>5, <1>6

\* The corrected layout and the flat text tell the decisions.
LEMMA DecisionsAreTold ==
  ASSUME NEW a \in DecisionAnswers, ~ManifestRefused(a)
  PROVE  TellTheDecisions(Decisions(a), ApplyDecisions(a), Flatten(ApplyDecisions(a)))
<1>. DEFINE lines == ApplyDecisions(a)
            told == [i \in DOMAIN lines |-> lines[i].text]
            outer == {i \in DOMAIN lines : ~lines[i].inner}
            text == Flatten(lines)
            m == Len(a.lines)
<1>1. /\ m \in Nat /\ DOMAIN lines = 1 .. m
      /\ \A i \in 1 .. m : lines[i].text = Decisions(a)[i].final
  BY LinesAfterDecisions
<1>2. text = AtPlaces(told, outer)
  BY DEF Flatten
<1>3. outer \in SUBSET (1 .. m)
  BY <1>1
<1>. HIDE DEF lines, outer, m, text
<1>4. outer \subseteq Nat /\ IsFiniteSet(outer) /\ Cardinality(outer) \in Nat
  BY <1>1, <1>3, PlacesOfSequence
<1>5. \A i \in outer : Cardinality(UpTo(outer, i)) \in 1 .. Cardinality(outer)
                       /\ Nth(outer, Cardinality(UpTo(outer, i))) = i
  BY <1>4, NthOfPlaces
<1>6. text = [n \in 1 .. Cardinality(outer) |-> told[Nth(outer, n)]]
  BY <1>2 DEF AtPlaces
<1>7. Len(text) = Cardinality(outer)
  BY <1>4, <1>6
<1>8. ASSUME NEW i \in outer
      PROVE  text[Cardinality({j \in outer : j <= i})] = Decisions(a)[i].final
  <2>1. text[Cardinality(UpTo(outer, i))] = told[i]
    BY <1>5, <1>6
  <2>2. told[i] = lines[i].text /\ i \in 1 .. m
    BY <1>1, <1>3
  <2>. QED  BY <1>1, <2>1, <2>2 DEF UpTo
<1>9. \A i \in DOMAIN lines : lines[i].text = Decisions(a)[i].final
  BY <1>1
<1>. QED  BY <1>7, <1>8, <1>9 DEF TellTheDecisions, lines, outer, text

\* An engine declares what its dialect makes.
DeclaresItsDialect(e) ==
  \/ e.dialect = "chat" /\ e.declares = {LlmOutput(e.role)}
  \/ e.dialect = "reading" /\ e.declares = {"raw_text"}
  \/ e.dialect = "reading" /\ e.declares = {"raw_text", "confidences"}
  \/ e.dialect = "reading" /\ e.declares = {"raw_text", "confidences", "alto_xml"}
  \/ e.dialect \in {"boxes", "layout", "alto"} /\ e.declares = {"layout"}
  \/ e.dialect = "decisions" /\ e.declares = {"layout", "corrected_text", "decisions"}
  \/ e.dialect = "entities" /\ e.declares = {"entities"}

\* So it is for each engine of the catalogue.
LEMMA EnginesDeclareTheirDialect == \A e \in Engines : DeclaresItsDialect(e)
<1>. USE DEF DeclaresItsDialect, Engine
<1>1. \A e \in OpenAI \union Anthropic \union Mistral \union Ollama : DeclaresItsDialect(e)
  BY DEF OpenAI, Anthropic, Mistral, Ollama, Chat
<1>2. DeclaresItsDialect(MistralOcr) /\ DeclaresItsDialect(GoogleVision) /\ DeclaresItsDialect(AzureDocIntel)
  BY DEF MistralOcr, GoogleVision, AzureDocIntel, Ocr
<1>3. DeclaresItsDialect(Pero) /\ DeclaresItsDialect(Calamari) /\ DeclaresItsDialect(Kraken)
  BY DEF Pero, Calamari, Kraken, Ocr
<1>4. DeclaresItsDialect(Precomputed) /\ DeclaresItsDialect(PrecomputedRegion)
  BY DEF Precomputed, PrecomputedRegion, Ocr
<1>5. \A alto \in BOOLEAN : DeclaresItsDialect(Tesseract(alto))
  BY DEF Tesseract, Ocr
<1>6. DeclaresItsDialect(PPDocLayout) /\ DeclaresItsDialect(RemoteSegmenter)
      /\ DeclaresItsDialect(PrecomputedLayout) /\ DeclaresItsDialect(AltoSource)
  BY DEF PPDocLayout, RemoteSegmenter, PrecomputedLayout, AltoSource, Layouter
<1>7. DeclaresItsDialect(Saknussemm) /\ DeclaresItsDialect(SpacyNer)
  BY DEF Saknussemm, SpacyNer
<1>. HIDE DEF DeclaresItsDialect
<1>. QED
  BY <1>1, <1>2, <1>3, <1>4, <1>5, <1>6, <1>7 DEF Engines

-----------------------------------------------------------------------------
(* The artifacts.                                                          *)

\* What an artifact of this type is to contain.
Told(e, a, type) ==
  CASE type = "confidences" -> Tokens(a)
    [] type = "decisions"   -> Decisions(a)
    [] type = "layout"      -> IF e.dialect = "boxes" THEN CanonicalLayout(a)
                               ELSE IF e.dialect = "layout" THEN a
                               ELSE IF e.dialect = "alto" THEN ApplyOcr(a) ELSE ApplyDecisions(a)
    [] type = "raw_text" /\ e.dialect = "reading" -> TextOf(a)
    [] type = "corrected_text" /\ e.dialect = "decisions" -> Flatten(ApplyDecisions(a))
    [] type = "alto_xml"    -> TextOf(a)
    [] type = "entities"    -> Entities(a)
    [] OTHER -> NormalizeContent(a)

\* The artifacts are one of each type that is declared, each with its content.
Complete(e, a, arts) ==
  /\ Len(arts) \in Nat /\ DOMAIN arts = 1 .. Len(arts)
  /\ \A i \in DOMAIN arts : arts[i] = Artifact(arts[i].type, Told(e, a, arts[i].type))
  /\ \A i \in DOMAIN arts : arts[i].type \in e.declares
  /\ \A type \in e.declares : \E i \in DOMAIN arts : arts[i].type = type
  /\ \A i, j \in DOMAIN arts : arts[i].type = arts[j].type => i = j

\* One artifact, two or three, of one type each.
LEMMA OneArtifact ==
  ASSUME NEW e, NEW a, NEW type, e.declares = {type},
         NEW arts, arts = <<Artifact(type, Told(e, a, type))>>
  PROVE  Complete(e, a, arts)
  BY DEF Complete, Artifact

\* The same for two.
LEMMA TwoArtifacts ==
  ASSUME NEW e, NEW a, NEW t1, NEW t2, e.declares = {t1, t2}, t1 # t2,
         NEW arts, Len(arts) = 2, DOMAIN arts = 1 .. 2,
         arts[1] = Artifact(t1, Told(e, a, t1)), arts[2] = Artifact(t2, Told(e, a, t2))
  PROVE  Complete(e, a, arts)
  BY DEF Complete, Artifact

\* The same for three.
LEMMA ThreeArtifacts ==
  ASSUME NEW e, NEW a, NEW t1, NEW t2, NEW t3, e.declares = {t1, t2, t3}, t1 # t2, t1 # t3, t2 # t3,
         NEW arts, Len(arts) = 3, DOMAIN arts = 1 .. 3,
         arts[1] = Artifact(t1, Told(e, a, t1)), arts[2] = Artifact(t2, Told(e, a, t2)),
         arts[3] = Artifact(t3, Told(e, a, t3))
  PROVE  Complete(e, a, arts)
  BY DEF Complete, Artifact

\* What two and three make, one after the other.
LEMMA TwoJoined ==
  ASSUME NEW x, NEW y, NEW S, x \in S, y \in S, NEW s, s = <<x>> \o <<y>>
  PROVE  s \in Seq(S) /\ Len(s) = 2 /\ DOMAIN s = 1 .. 2 /\ s[1] = x /\ s[2] = y /\ s \o <<>> = s
<1>1. <<x>> \in Seq(S) /\ <<y>> \in Seq(S) /\ Len(<<x>>) = 1 /\ Len(<<y>>) = 1
  OBVIOUS
<1>2. s \in Seq(S) /\ Len(s) = 2 /\ DOMAIN s = 1 .. 2 /\ s[1] = x /\ s[2] = y
  BY <1>1
<1>3. s \o <<>> = s
  BY <1>2
<1>. QED  BY <1>2, <1>3

IsTriple(s, x, y, z) == Len(s) = 3 /\ DOMAIN s = 1 .. 3 /\ s[1] = x /\ s[2] = y /\ s[3] = z

\* The same for three.
LEMMA ThreeJoined ==
  ASSUME NEW x, NEW y, NEW z, NEW S, x \in S, y \in S, z \in S,
         NEW u, u = <<x>> \o <<y>>, NEW s, s = u \o <<z>>
  PROVE  IsTriple(s, x, y, z)
<1>1. u \in Seq(S) /\ Len(u) = 2 /\ DOMAIN u = 1 .. 2 /\ u[1] = x /\ u[2] = y
  BY TwoJoined
<1>. DEFINE v == <<z>>
<1>2. v \in Seq(S) /\ Len(v) = 1 /\ v[1] = z
  OBVIOUS
<1>3. s = u \o v
  OBVIOUS
<1>. HIDE DEF v
<1>4. Len(s) = 3 /\ DOMAIN s = 1 .. 3
  <2>1. s \in Seq(S)
    BY <1>1, <1>2, <1>3
  <2>2. Len(s) = 3
    BY <1>1, <1>2, <1>3
  <2>. QED  BY <2>1, <2>2
<1>5. s[1] = u[1] /\ s[2] = u[2]
  BY <1>1, <1>2, <1>3
<1>6. s[3] = v[1]
  BY <1>1, <1>2, <1>3
<1>. QED  BY <1>1, <1>2, <1>4, <1>5, <1>6 DEF IsTriple

\* The artifacts of each engine are those it declares, for any answer.
LEMMA ArtifactsAreComplete ==
  ASSUME NEW e \in Engines, NEW a
  PROVE  Complete(e, a, Artifacts(e, a))
<1>0. DeclaresItsDialect(e)
  BY EnginesDeclareTheirDialect
<1>1. CASE e.dialect = "chat" /\ e.declares = {LlmOutput(e.role)}
  <2>1. LlmOutput(e.role) \in {"raw_text", "corrected_text"}
    BY DEF LlmOutput
  <2>2. Told(e, a, LlmOutput(e.role)) = NormalizeContent(a)
    BY <1>1, <2>1 DEF Told
  <2>3. Artifacts(e, a) = <<Artifact(LlmOutput(e.role), Told(e, a, LlmOutput(e.role)))>>
    BY <1>1, <2>2 DEF Artifacts
  <2>. QED  BY <1>1, <2>3, OneArtifact
<1>2. CASE e.dialect = "reading" /\ e.declares = {"raw_text"}
  <2>1. Artifacts(e, a) = <<Artifact("raw_text", Told(e, a, "raw_text"))>>
    BY <1>2 DEF Artifacts, Told
  <2>. QED  BY <1>2, <2>1, OneArtifact
<1>3. CASE e.dialect = "reading" /\ e.declares = {"raw_text", "confidences"}
  <2>1. Artifacts(e, a) = <<Artifact("raw_text", TextOf(a))>> \o <<Artifact("confidences", Tokens(a))>> \o <<>>
    BY <1>3 DEF Artifacts
  <2>2. TextOf(a) = Told(e, a, "raw_text") /\ Tokens(a) = Told(e, a, "confidences")
    BY <1>3 DEF Told
  <2>. HIDE DEF Artifact
  <2>3. /\ Len(Artifacts(e, a)) = 2 /\ DOMAIN Artifacts(e, a) = 1 .. 2
        /\ Artifacts(e, a)[1] = Artifact("raw_text", TextOf(a))
        /\ Artifacts(e, a)[2] = Artifact("confidences", Tokens(a))
    <3>. DEFINE x == Artifact("raw_text", TextOf(a))
                y == Artifact("confidences", Tokens(a))
                s == <<x>> \o <<y>>
    <3>. HIDE DEF x, y
    <3>1. Len(s) = 2 /\ DOMAIN s = 1 .. 2 /\ s[1] = x /\ s[2] = y /\ s \o <<>> = s
      <4>1. x \in {x, y} /\ y \in {x, y}
        OBVIOUS
      <4>. QED  BY <4>1, TwoJoined
    <3>2. Artifacts(e, a) = s \o <<>>
      BY <2>1 DEF x, y
    <3>. HIDE DEF s
    <3>3. Len(Artifacts(e, a)) = 2 /\ DOMAIN Artifacts(e, a) = 1 .. 2
          /\ Artifacts(e, a)[1] = x /\ Artifacts(e, a)[2] = y
      BY <3>1, <3>2
    <3>. QED  BY <3>3 DEF x, y
  <2>. QED  BY <1>3, <2>2, <2>3, TwoArtifacts
<1>4. CASE e.dialect = "reading" /\ e.declares = {"raw_text", "confidences", "alto_xml"}
  <2>1. Artifacts(e, a) = <<Artifact("raw_text", TextOf(a))>> \o <<Artifact("confidences", Tokens(a))>>
                            \o <<Artifact("alto_xml", TextOf(a))>>
    BY <1>4 DEF Artifacts
  <2>2. TextOf(a) = Told(e, a, "raw_text") /\ Tokens(a) = Told(e, a, "confidences")
        /\ TextOf(a) = Told(e, a, "alto_xml")
    BY <1>4 DEF Told
  <2>3. /\ Len(Artifacts(e, a)) = 3 /\ DOMAIN Artifacts(e, a) = 1 .. 3
        /\ Artifacts(e, a)[1] = Artifact("raw_text", TextOf(a))
        /\ Artifacts(e, a)[2] = Artifact("confidences", Tokens(a))
        /\ Artifacts(e, a)[3] = Artifact("alto_xml", TextOf(a))
    <3>. DEFINE x == Artifact("raw_text", TextOf(a))
                y == Artifact("confidences", Tokens(a))
                z == Artifact("alto_xml", TextOf(a))
                u == <<x>> \o <<y>>
                S == {x, y, z}
    <3>. HIDE DEF x, y, z
    <3>1. x \in S /\ y \in S /\ z \in S
      OBVIOUS
    <3>2. Artifacts(e, a) = u \o <<z>>
      BY <2>1 DEF x, y, z
    <3>3. u = <<x>> \o <<y>>
      OBVIOUS
    <3>. HIDE DEF S, u
    <3>4. IsTriple(Artifacts(e, a), x, y, z)
      BY <3>1, <3>2, <3>3, ThreeJoined
    <3>. QED  BY <3>4 DEF IsTriple, x, y, z
  <2>. QED  BY <1>4, <2>2, <2>3, ThreeArtifacts
<1>5. CASE e.dialect \in {"boxes", "layout", "alto"} /\ e.declares = {"layout"}
  <2>1. Artifacts(e, a) = <<Artifact("layout", Told(e, a, "layout"))>>
    BY <1>5 DEF Artifacts, Told
  <2>. QED  BY <1>5, <2>1, OneArtifact
<1>6. CASE e.dialect = "decisions" /\ e.declares = {"layout", "corrected_text", "decisions"}
  <2>1. Artifacts(e, a) = <<Artifact("layout", ApplyDecisions(a)),
                            Artifact("corrected_text", Flatten(ApplyDecisions(a))),
                            Artifact("decisions", Decisions(a))>>
    BY <1>6 DEF Artifacts
  <2>2. ApplyDecisions(a) = Told(e, a, "layout") /\ Flatten(ApplyDecisions(a)) = Told(e, a, "corrected_text")
        /\ Decisions(a) = Told(e, a, "decisions")
    BY <1>6 DEF Told
  <2>3. /\ Len(Artifacts(e, a)) = 3 /\ DOMAIN Artifacts(e, a) = 1 .. 3
        /\ Artifacts(e, a)[1] = Artifact("layout", ApplyDecisions(a))
        /\ Artifacts(e, a)[2] = Artifact("corrected_text", Flatten(ApplyDecisions(a)))
        /\ Artifacts(e, a)[3] = Artifact("decisions", Decisions(a))
    BY <2>1
  <2>. QED  BY <1>6, <2>2, <2>3, ThreeArtifacts
<1>7. CASE e.dialect = "entities" /\ e.declares = {"entities"}
  <2>1. Artifacts(e, a) = <<Artifact("entities", Told(e, a, "entities"))>>
    BY <1>7 DEF Artifacts, Told
  <2>. QED  BY <1>7, <2>1, OneArtifact
<1>. QED  BY <1>0, <1>1, <1>2, <1>3, <1>4, <1>5, <1>6, <1>7 DEF DeclaresItsDialect

-----------------------------------------------------------------------------
(* The artifacts of a step.                                                *)

Pieces(e, a) ==
  {Artifacts(e, a)[i] : i \in DOMAIN Artifacts(e, a)} \union {Artifact("confidences", <<>>)}

\* The artifacts written so far are the first ones that are due, but for the
\* confidences, that may be empty.
FirstOnes(e, a, pieces) ==
  /\ pieces \in Seq(Pieces(e, a)) /\ Len(pieces) <= Len(Artifacts(e, a))
  /\ \A i \in DOMAIN pieces :
       /\ pieces[i].type = Artifacts(e, a)[i].type
       /\ pieces[i] = Artifacts(e, a)[i] \/ pieces[i] = Artifact("confidences", <<>>)

\* A step writes what its engine answered, if the answer is fit, from the first
\* artifact on, and has written all of it when it succeeds.
WritesInTurn ==
  /\ engine \in Engines
  /\ moment \notin {"writing", "over"} => made = <<>>
  /\ moment # "over" => outcome = "none"
  /\ moment = "writing" \/ outcome = "ok" =>
       answer \in Answers(engine) /\ ~Refused(engine, answer) /\ FirstOnes(engine, answer, made)
  /\ outcome = "ok" => Len(made) = Len(Artifacts(engine, answer))

\* One more artifact, the one that is due.
LEMMA NextPiece ==
  ASSUME NEW e \in Engines, NEW a, NEW pieces, FirstOnes(e, a, pieces), Len(pieces) # Len(Artifacts(e, a)),
         NEW piece, piece.type = Artifacts(e, a)[Len(pieces) + 1].type,
         piece = Artifacts(e, a)[Len(pieces) + 1] \/ piece = Artifact("confidences", <<>>)
  PROVE  FirstOnes(e, a, Append(pieces, piece))
<1>. DEFINE arts == Artifacts(e, a)
            P == Pieces(e, a)
            n == Len(pieces)
            more == Append(pieces, piece)
<1>1. Len(arts) \in Nat /\ DOMAIN arts = 1 .. Len(arts)
  BY ArtifactsAreComplete DEF Complete
<1>2. pieces \in Seq(P) /\ n <= Len(arts) /\ n # Len(arts)
  BY DEF FirstOnes
<1>. HIDE DEF arts
<1>3. n \in Nat /\ DOMAIN pieces = 1 .. n /\ n + 1 \in DOMAIN arts /\ n + 1 <= Len(arts)
  BY <1>1, <1>2
<1>4. piece \in P
  BY <1>3 DEF Pieces, arts
<1>. HIDE DEF P
<1>5. more \in Seq(P) /\ Len(more) = n + 1 /\ DOMAIN more = 1 .. (n + 1)
      /\ more[n + 1] = piece /\ \A i \in 1 .. n : more[i] = pieces[i]
  BY <1>2, <1>3, <1>4
<1>6. \A i \in 1 .. n : /\ pieces[i].type = arts[i].type
                        /\ pieces[i] = arts[i] \/ pieces[i] = Artifact("confidences", <<>>)
  BY <1>3 DEF FirstOnes, arts
<1>7. piece.type = arts[n + 1].type
      /\ (piece = arts[n + 1] \/ piece = Artifact("confidences", <<>>))
  BY DEF arts
<1>. HIDE DEF n, more
<1>8. \A i \in 1 .. (n + 1) : /\ more[i].type = arts[i].type
                              /\ more[i] = arts[i] \/ more[i] = Artifact("confidences", <<>>)
  <2>. SUFFICES ASSUME NEW i \in 1 .. (n + 1)
                PROVE  /\ more[i].type = arts[i].type
                       /\ more[i] = arts[i] \/ more[i] = Artifact("confidences", <<>>)
    OBVIOUS
  <2>1. i \in 1 .. n \/ i = n + 1
    BY <1>3
  <2>. QED  BY <1>5, <1>6, <1>7, <2>1
<1>. QED  BY <1>3, <1>5, <1>8 DEF FirstOnes, arts, P, more

\* Every step of an adapter keeps what it writes in turn.
LEMMA WritesInTurn_step == WritesInTurn /\ [StepNext]_stepVars => WritesInTurn'
<1>. SUFFICES ASSUME WritesInTurn, [StepNext]_stepVars
              PROVE  WritesInTurn'
  OBVIOUS
<1>. USE DEF WritesInTurn, MoveTo, End
<1>1. ASSUME NEW e \in Engines, Engage(e) PROVE WritesInTurn'
  BY <1>1 DEF Engage
<1>2. CASE CancelRun
  BY <1>2 DEF CancelRun
<1>3. CASE Begin
  BY <1>3 DEF Begin
<1>4. CASE Equip
  BY <1>4 DEF Equip, Onward, AtTurn
<1>5. CASE Load
  BY <1>5 DEF Load, Onward, AtTurn, Fails
<1>6. CASE Fault
  BY <1>6 DEF Fault, Fails
<1>7. CASE SubmitAnalysis
  BY <1>7 DEF SubmitAnalysis
<1>8. CASE PollRunning
  BY <1>8 DEF PollRunning
<1>9. CASE Recognize
  <2>1. engine' = engine /\ engine' \in Engines /\ made' = made /\ made = <<>>
    BY <1>9 DEF Recognize
  <2>2. PICK a \in Answers(engine) :
          /\ answer' = a
          /\ IF Refused(engine, a) THEN Fails("unfit")
             ELSE IF stopped /\ engine.dialect = "decisions" THEN End("cancelled", "none")
             ELSE MoveTo("writing")
    BY <1>9 DEF Recognize
  <2>3. moment # "over" /\ outcome = "none"
    BY <1>9 DEF Recognize
  <2>4. FirstOnes(engine, a, <<>>)
    <3>1. Len(Artifacts(engine, a)) \in Nat
      BY <2>1, ArtifactsAreComplete DEF Complete
    <3>. QED  BY <3>1 DEF FirstOnes
  <2>5. CASE Refused(engine, a) \/ (stopped /\ engine.dialect = "decisions")
    <3>1. moment' = "over" /\ outcome' \in {"failed", "crashed", "cancelled"}
      BY <2>2, <2>5 DEF Fails
    <3>. QED  BY <2>1, <3>1
  <2>6. CASE ~Refused(engine, a) /\ ~(stopped /\ engine.dialect = "decisions")
    <3>1. moment' = "writing" /\ outcome' = "none"
      BY <2>2, <2>3, <2>6
    <3>2. FirstOnes(engine', answer', made')
      BY <2>1, <2>2, <2>4
    <3>3. answer' \in Answers(engine') /\ ~Refused(engine', answer')
      BY <2>1, <2>2, <2>6
    <3>. QED  BY <2>1, <3>1, <3>2, <3>3
  <2>. QED  BY <2>5, <2>6
<1>10. CASE Write
  <2>1. engine' = engine /\ answer' = answer /\ engine \in Engines /\ moment = "writing" /\ outcome = "none"
        /\ Len(made) # Len(Artifacts(engine, answer))
        /\ answer \in Answers(engine) /\ ~Refused(engine, answer) /\ FirstOnes(engine, answer, made)
    BY <1>10 DEF Write, AllMade
  <2>2. ASSUME NEW piece, made' = Append(made, piece), piece.type = Due.type,
               piece = Due \/ piece = Artifact("confidences", <<>>), moment' = "writing", outcome' = outcome
        PROVE  WritesInTurn'
    <3>1. FirstOnes(engine, answer, made')
      BY <2>1, <2>2, NextPiece DEF Due
    <3>2. FirstOnes(engine', answer', made')
      BY <2>1, <3>1
    <3>. QED  BY <2>1, <2>2, <3>2
  <2>3. CASE made' = Append(made, Due) /\ MoveTo("writing")
    BY <2>2, <2>3
  <2>4. CASE Due.type = "confidences" /\ made' = Append(made, [Due EXCEPT !.content = <<>>]) /\ MoveTo("writing")
    <3>1. Due = Artifact(Due.type, Told(engine, answer, Due.type))
      <4>1. Len(made) + 1 \in DOMAIN Artifacts(engine, answer)
        <5>1. Len(Artifacts(engine, answer)) \in Nat
              /\ DOMAIN Artifacts(engine, answer) = 1 .. Len(Artifacts(engine, answer))
          BY <2>1, ArtifactsAreComplete DEF Complete
        <5>2. made \in Seq(Pieces(engine, answer)) /\ Len(made) <= Len(Artifacts(engine, answer))
          BY <2>1 DEF FirstOnes
        <5>. QED  BY <2>1, <5>1, <5>2
      <4>. QED  BY <2>1, <4>1, ArtifactsAreComplete DEF Complete, Due
    <3>2. [Due EXCEPT !.content = <<>>] = Artifact("confidences", <<>>)
      BY <2>4, <3>1 DEF Artifact
    <3>3. Artifact("confidences", <<>>).type = Due.type
      BY <2>4 DEF Artifact
    <3>. QED  BY <2>2, <2>4, <3>2, <3>3
  <2>5. CASE moment' = "over" /\ outcome' \in {"failed", "crashed"}
    BY <2>1, <2>5
  <2>. QED  BY <1>10, <2>3, <2>4, <2>5 DEF Write, Fails
<1>11. CASE ReturnOutput
  BY <1>11 DEF ReturnOutput, AllMade
<1>12. CASE StepOver \/ UNCHANGED stepVars
  BY <1>12 DEF StepOver, stepVars
<1>. QED
  BY <1>1, <1>2, <1>3, <1>4, <1>5, <1>6, <1>7, <1>8, <1>9, <1>10, <1>11, <1>12 DEF StepNext

\* An artifact of a type that is declared is there, with its content, but for
\* the confidences, that may be empty.
LEMMA MadeAsTold ==
  ASSUME WritesInTurn, outcome = "ok", NEW type \in engine.declares
  PROVE  \/ MadeOf(type) = Told(engine, answer, type)
         \/ type = "confidences" /\ MadeOf(type) = <<>>
<1>. DEFINE arts == Artifacts(engine, answer)
            i == CHOOSE i \in DOMAIN made : made[i].type = type
<1>1. FirstOnes(engine, answer, made) /\ Len(made) = Len(arts) /\ engine \in Engines
  BY DEF WritesInTurn
<1>2. Complete(engine, answer, arts)
  BY <1>1, ArtifactsAreComplete
<1>3. DOMAIN made = DOMAIN arts /\ \A k \in DOMAIN made : made[k].type = arts[k].type
  BY <1>1, <1>2 DEF FirstOnes, Complete
<1>4. \E k \in DOMAIN made : made[k].type = type
  BY <1>2, <1>3 DEF Complete
<1>5. i \in DOMAIN made /\ made[i].type = type
  BY <1>4
<1>. HIDE DEF i
<1>6. arts[i] = Artifact(type, Told(engine, answer, type))
  BY <1>2, <1>3, <1>5 DEF Complete
<1>7. made[i] = arts[i] \/ made[i] = Artifact("confidences", <<>>)
  BY <1>1, <1>5 DEF FirstOnes
<1>8. MadeOf(type) = made[i].content
  BY DEF MadeOf, i
<1>. HIDE DEF arts
<1>9. CASE made[i] = arts[i]
  BY <1>6, <1>8, <1>9 DEF Artifact
<1>10. CASE made[i] = Artifact("confidences", <<>>)
  BY <1>5, <1>8, <1>10 DEF Artifact
<1>. QED  BY <1>7, <1>9, <1>10

\* What a step that succeeds has written agrees.
LEMMA WritingDelivers == WritesInTurn => EnginesDeliver
<1>. SUFFICES ASSUME WritesInTurn, moment = "over", outcome = "ok"
     PROVE  /\ {made[i].type : i \in DOMAIN made} = engine.declares
            /\ "confidences" \in engine.declares => TokensFollow(MadeOf("confidences"), MadeOf("raw_text"))
            /\ engine.dialect = "decisions" =>
                 TellTheDecisions(MadeOf("decisions"), MadeOf("layout"), MadeOf("corrected_text"))
            /\ engine.dialect \in {"alto", "decisions"} => WordsFollow(MadeOf("layout"))
            /\ engine.dialect = "boxes" =>
                 \/ MadeOf("layout") = CanonicalLayout(Reverse(answer))
                 \/ \E i, j \in DOMAIN answer : i # j /\ answer[i].x = answer[j].x /\ answer[i].y = answer[j].y
  BY DEF EnginesDeliver, WordsFollow
<1>1. engine \in Engines /\ answer \in Answers(engine) /\ ~Refused(engine, answer)
      /\ FirstOnes(engine, answer, made) /\ Len(made) = Len(Artifacts(engine, answer))
  BY DEF WritesInTurn
<1>2. DeclaresItsDialect(engine) /\ Complete(engine, answer, Artifacts(engine, answer))
  BY <1>1, EnginesDeclareTheirDialect, ArtifactsAreComplete
<1>3. \A type \in engine.declares : \/ MadeOf(type) = Told(engine, answer, type)
                                    \/ type = "confidences" /\ MadeOf(type) = <<>>
  BY MadeAsTold
<1>4. {made[i].type : i \in DOMAIN made} = engine.declares
  <2>. DEFINE arts == Artifacts(engine, answer)
  <2>. HIDE DEF arts
  <2>1. DOMAIN made = DOMAIN arts /\ \A k \in DOMAIN made : made[k].type = arts[k].type
    BY <1>1, <1>2 DEF FirstOnes, Complete, arts
  <2>2. /\ \A i \in DOMAIN arts : arts[i].type \in engine.declares
        /\ \A type \in engine.declares : \E i \in DOMAIN arts : arts[i].type = type
    BY <1>2 DEF Complete, arts
  <2>. QED  BY <2>1, <2>2
<1>5. ASSUME "confidences" \in engine.declares
      PROVE  TokensFollow(MadeOf("confidences"), MadeOf("raw_text"))
  <2>1. engine.dialect = "reading" /\ "raw_text" \in engine.declares
    <3>1. LlmOutput(engine.role) # "confidences"
      BY DEF LlmOutput
    <3>. QED  BY <1>2, <1>5, <3>1 DEF DeclaresItsDialect
  <2>2. answer \in Readings
    BY <1>1, <2>1 DEF Answers, ReadingsOf
  <2>3. MadeOf("raw_text") = TextOf(answer)
    BY <1>3, <2>1 DEF Told
  <2>4. MadeOf("confidences") = Tokens(answer) \/ MadeOf("confidences") = <<>>
    BY <1>3, <1>5 DEF Told
  <2>. QED  BY <2>2, <2>3, <2>4, TokensFollowTheText
<1>6. ASSUME engine.dialect = "decisions"
      PROVE  /\ TellTheDecisions(MadeOf("decisions"), MadeOf("layout"), MadeOf("corrected_text"))
             /\ WordsFollow(MadeOf("layout"))
  <2>1. engine.declares = {"layout", "corrected_text", "decisions"}
    BY <1>2, <1>6 DEF DeclaresItsDialect
  <2>2. answer \in DecisionAnswers /\ ~ManifestRefused(answer)
    BY <1>1, <1>6 DEF Answers, Refused
  <2>3. MadeOf("decisions") = Decisions(answer)
    BY <1>3, <2>1 DEF Told
  <2>4. MadeOf("layout") = ApplyDecisions(answer)
    BY <1>3, <1>6, <2>1 DEF Told
  <2>5. MadeOf("corrected_text") = Flatten(ApplyDecisions(answer))
    BY <1>3, <1>6, <2>1 DEF Told
  <2>6. TellTheDecisions(Decisions(answer), ApplyDecisions(answer), Flatten(ApplyDecisions(answer)))
    BY <2>2, DecisionsAreTold
  <2>7. WordsFollow(ApplyDecisions(answer))
    BY <2>2, LinesAfterDecisions DEF WordsFollow
  <2>. QED  BY <2>3, <2>4, <2>5, <2>6, <2>7
<1>7. ASSUME engine.dialect = "alto"
      PROVE  WordsFollow(MadeOf("layout"))
  <2>1. answer \in AltoAnswers /\ "layout" \in engine.declares
    BY <1>1, <1>2, <1>7 DEF Answers, DeclaresItsDialect
  <2>2. MadeOf("layout") = ApplyOcr(answer)
    BY <1>3, <1>7, <2>1 DEF Told
  <2>. QED  BY <2>1, <2>2, OcrTakesTheWords
<1>8. ASSUME engine.dialect = "boxes"
      PROVE  \/ MadeOf("layout") = CanonicalLayout(Reverse(answer))
             \/ \E i, j \in DOMAIN answer : i # j /\ answer[i].x = answer[j].x /\ answer[i].y = answer[j].y
  <2>1. answer \in Boxes /\ "layout" \in engine.declares
    BY <1>1, <1>2, <1>8 DEF Answers, DeclaresItsDialect
  <2>2. MadeOf("layout") = CanonicalLayout(answer)
    BY <1>3, <1>8, <2>1 DEF Told
  <2>3. CASE Apart(answer)
    BY <2>1, <2>2, <2>3, LayoutForgetsTheOrder
  <2>4. CASE ~Apart(answer)
    BY <2>4 DEF Apart
  <2>. QED  BY <2>3, <2>4
<1>. QED  BY <1>4, <1>5, <1>6, <1>7, <1>8

\* A step that succeeds gives all its adapter declares, for answers of any
\* length: the confidences go to the words they are of, the decisions to the
\* lines they were taken on, no word outlives the text of its line, and the
\* layout does not depend on the order of the boxes.
THEOREM StepsDeliverWhatTheyDeclare == StepSpec => []EnginesDeliver
<1>1. StepInit => WritesInTurn
  BY DEF StepInit, WritesInTurn, Engines
<1>. QED  BY <1>1, WritingDelivers, WritesInTurn_step, PTL DEF StepSpec
=============================================================================
