---------------------------- MODULE NetworkSlots ----------------------------
(***************************************************************************)
(* cinoc.adapters._resilience: the remote adapters call their provider     *)
(* through call_resilient, which holds one of the provider's slots (a      *)
(* BoundedSemaphore created on first use) during each attempt, gives it    *)
(* back before it sleeps, and retries a transient HTTP error a bounded     *)
(* number of times.  The callers are the threads of one or several pools.  *)
(***************************************************************************)
EXTENDS Naturals, FiniteSets

CONSTANTS
  Threads,     \* threads that call providers
  Providers,   \* names given to network_slot
  Limits,      \* values _network_limit may read from the environment
  Attempts,    \* the attempts parameter of call_resilient
  MaxCalls     \* bound: calls made by one thread

ASSUME SlotsAssumption ==
  /\ IsFiniteSet(Threads)
  /\ Providers # {}
  /\ Limits \subseteq Nat \ {0}
  /\ Attempts \in Nat \ {0}
  /\ MaxCalls \in Nat

VARIABLES
  limit,       \* the bound of each semaphore, 0 until it is created
  free,        \* the value of each semaphore
  pc,          \* where each thread is
  provider,    \* the provider it calls
  attempt,     \* the attempt it is at, from 0
  calls        \* number of calls it has begun

slotVars == <<limit, free, pc, provider, attempt, calls>>

PC == {"idle", "looking", "waiting", "holding", "sleeping"}

SlotsTypeOK ==
  /\ limit \in [Providers -> Nat]
  /\ free \in [Providers -> Nat]
  /\ pc \in [Threads -> PC]
  /\ provider \in [Threads -> Providers]
  /\ attempt \in [Threads -> 0 .. Attempts - 1]
  /\ calls \in [Threads -> 0 .. MaxCalls]

SlotsInit ==
  /\ limit = [p \in Providers |-> 0]
  /\ free = [p \in Providers |-> 0]
  /\ pc = [t \in Threads |-> "idle"]
  /\ provider = [t \in Threads |-> CHOOSE p \in Providers : TRUE]
  /\ attempt = [t \in Threads |-> 0]
  /\ calls = [t \in Threads |-> 0]

ThreadGoto(t, s) == pc' = [pc EXCEPT ![t] = s]

\* call_resilient(p, fn)
Call(t, p) ==
  /\ pc[t] = "idle" /\ calls[t] < MaxCalls
  /\ provider' = [provider EXCEPT ![t] = p]
  /\ attempt' = [attempt EXCEPT ![t] = 0]
  /\ calls' = [calls EXCEPT ![t] = @ + 1]
  /\ ThreadGoto(t, "looking")
  /\ UNCHANGED <<limit, free>>

\* Mutation: an exhausted semaphore is taken for a missing one.
NeedsRefill(t) == free[provider[t]] = 0

NeedsSemaphore(t) == limit[provider[t]] = 0

\* network_slot: under the registry's lock, the semaphore of the provider is
\* created if it does not exist, with the limit the environment gives then.
NetworkSlot(t) ==
  /\ pc[t] = "looking"
  /\ ThreadGoto(t, "waiting")
  /\ IF NeedsSemaphore(t)
     THEN \E n \in Limits :
            /\ limit' = [limit EXCEPT ![provider[t]] = n]
            /\ free' = [free EXCEPT ![provider[t]] = n]
     ELSE UNCHANGED <<limit, free>>
  /\ UNCHANGED <<provider, attempt, calls>>

\* Entering `with network_slot(...)`.
Acquire(t) ==
  /\ pc[t] = "waiting" /\ free[provider[t]] > 0
  /\ free' = [free EXCEPT ![provider[t]] = @ - 1]
  /\ ThreadGoto(t, "holding")
  /\ UNCHANGED <<limit, provider, attempt, calls>>

\* Leaving it, normally or on an exception.
Release(t) == free' = [free EXCEPT ![provider[t]] = @ + 1]

\* fn returned, or raised an error that is not retryable or exhausts the
\* attempts: call_resilient is left.
Conclude(t) ==
  /\ pc[t] = "holding"
  /\ Release(t)
  /\ ThreadGoto(t, "idle")
  /\ UNCHANGED <<limit, provider, attempt, calls>>

CanRetry(t) == attempt[t] # Attempts - 1

\* fn raised a retryable error (429, 5xx) and an attempt is left.
Retry(t) ==
  /\ pc[t] = "holding" /\ CanRetry(t)
  /\ Release(t)
  /\ ThreadGoto(t, "sleeping")
  /\ UNCHANGED <<limit, provider, attempt, calls>>

\* Mutation: the attempt is not counted.
WakeUncounted(t) ==
  /\ pc[t] = "sleeping"
  /\ ThreadGoto(t, "looking")
  /\ UNCHANGED <<limit, free, provider, attempt, calls>>

\* The delay is over: the next turn of the loop.
Wake(t) ==
  /\ pc[t] = "sleeping"
  /\ attempt' = [attempt EXCEPT ![t] = @ + 1]
  /\ ThreadGoto(t, "looking")
  /\ UNCHANGED <<limit, free, provider, calls>>

\* What the thread of a call does by itself; fn returns when the provider
\* answers, which may be never: the deadline of a run is infinite and the SDKs
\* that have no timeout of their own wait for ever.
CallerStep(t) == NetworkSlot(t) \/ Acquire(t) \/ Wake(t)
AnswerStep(t) == Conclude(t) \/ Retry(t)
ThreadStep(t) == CallerStep(t) \/ AnswerStep(t)

Quiet == (\A t \in Threads : pc[t] = "idle") /\ UNCHANGED slotVars

SlotsNext ==
  \/ \E t \in Threads : ThreadStep(t) \/ \E p \in Providers : Call(t, p)
  \/ Quiet

SlotsSpec == SlotsInit /\ [][SlotsNext]_slotVars

-----------------------------------------------------------------------------
(* Properties.                                                             *)

Holders(p) == {t \in Threads : pc[t] = "holding" /\ provider[t] = p}

\* No slot is lost or forged: for every semaphore the free slots and the
\* threads inside fn always add up to its limit, through errors, retries and
\* concurrent first uses.
SlotsConserved ==
  \A p \in Providers : free[p] + Cardinality(Holders(p)) = limit[p]

\* The limit of a provider is fixed by its first call.
LimitIsFixed ==
  [][\A p \in Providers : limit[p] # 0 => limit'[p] = limit[p]]_slotVars

\* A thread that waits for its next attempt holds no slot, so sleepers alone
\* never exhaust a provider: if nobody is inside fn, a slot is free.
SleepersLeaveSlots ==
  \A p \in Providers : limit[p] > 0 /\ Holders(p) = {} => free[p] > 0

\* Every call comes back, after a bounded number of attempts, even when more
\* threads than slots compete and the provider keeps answering 429: only its
\* own attempt that is never answered can hold it, or unanswered attempts that
\* keep every slot of its provider; those of another provider never do.
Unanswered(t) == pc[t] = "holding"
Starved(t)    == pc[t] = "waiting" /\ free[provider[t]] = 0
CallsComeBack ==
  \A t \in Threads : \/ []<>(pc[t] = "idle")
                     \/ <>[]Unanswered(t) \/ <>[]Starved(t)
=============================================================================
