------------------------------ MODULE TtlCache ------------------------------
(***************************************************************************)
(* The cache of the distant catalogues (cinoc.interfaces.web._cache): a    *)
(* value is kept for Ttl after the request that computed it looked at the  *)
(* clock.  Computing is slow, is done outside of the lock, and may fail.   *)
(*                                                                         *)
(* One key, as keys are independent.  A value is the time at which its     *)
(* catalogue was read at the source.                                       *)
(***************************************************************************)
EXTENDS Naturals

CONSTANTS
  Askers,   \* threads that ask for the key, each once
  Ttl,
  MaxTime   \* bound: the last tick of the clock

ASSUME TtlAssumption == Ttl \in Nat \ {0} /\ MaxTime \in Nat

VARIABLES
  time,
  entry,    \* [expiry, value]; an expiry of 0 stands for no entry
  asker     \* asker[t]: [pc, now, value]

ttlVars == <<time, entry, asker>>

TtlInit ==
  /\ time = 0
  /\ entry = [expiry |-> 0, value |-> 0]
  /\ asker = [t \in Askers |-> [pc |-> "idle", now |-> 0, value |-> 0]]

AskerAt(t, pc) == asker[t].pc = pc
AskerTo(t, pc) == asker' = [asker EXCEPT ![t].pc = pc]

TimePasses == time < MaxTime /\ time' = time + 1 /\ UNCHANGED <<entry, asker>>

\* now = self._clock(), before the lock is taken.
ReadsClock(t) ==
  /\ AskerAt(t, "idle")
  /\ asker' = [asker EXCEPT ![t].pc = "asking", ![t].now = time]
  /\ UNCHANGED <<time, entry>>

Fresh(t) == entry.expiry > asker[t].now

LooksUp(t) ==
  /\ AskerAt(t, "asking")
  /\ asker' = IF Fresh(t)
              THEN [asker EXCEPT ![t].pc = "hit", ![t].value = entry.value]
              ELSE [asker EXCEPT ![t].pc = "computing"]
  /\ UNCHANGED <<time, entry>>

\* compute(): the catalogue is read, then returned.
ReadsSource(t) ==
  /\ AskerAt(t, "computing")
  /\ asker' = [asker EXCEPT ![t].pc = "computed", ![t].value = time]
  /\ UNCHANGED <<time, entry>>

\* compute() raises: nothing is cached.
ComputeFails(t) ==
  /\ AskerAt(t, "computing")
  /\ AskerTo(t, "failed")
  /\ UNCHANGED <<time, entry>>

\* Mutation: the value is kept for Ttl from the end of the computation.
ExpiryOfEnd(t) == time + Ttl

Expiry(t) == asker[t].now + Ttl

\* Whatever another thread stored meanwhile.
Stores(t) ==
  /\ AskerAt(t, "computed")
  /\ entry' = [expiry |-> Expiry(t), value |-> asker[t].value]
  /\ AskerTo(t, "served")
  /\ UNCHANGED time

TtlNext ==
  \/ TimePasses
  \/ \E t \in Askers : \/ ReadsClock(t) \/ LooksUp(t) \/ ReadsSource(t)
                       \/ ComputeFails(t) \/ Stores(t)

TtlSpec == TtlInit /\ [][TtlNext]_ttlVars

-----------------------------------------------------------------------------
TtlTypeOK ==
  /\ time \in Nat
  /\ entry \in [expiry : Nat, value : Nat]
  /\ asker \in [Askers -> [pc : {"idle", "asking", "hit", "computing", "computed",
                                 "failed", "served"}, now : Nat, value : Nat]]

\* However slow the computations and whichever stores last, a page never shows
\* a catalogue that was read at its source Ttl or more before its request.
ServedIsRecent ==
  \A t \in Askers :
    asker[t].pc \in {"hit", "served"} => asker[t].now < asker[t].value + Ttl
=============================================================================
