-------------------------------- MODULE Ranks --------------------------------
(***************************************************************************)
(* Picking from a sequence, and sorting a set, by rank: what Python writes *)
(* as a comprehension with a condition, and as sorted() with a key.        *)
(***************************************************************************)
EXTENDS Naturals, FiniteSets, Sequences

\* The n-th of some places, and what a sequence has at these places.
Nth(places, n) == CHOOSE i \in places : Cardinality({j \in places : j <= i}) = n
AtPlaces(s, places) == [n \in 1 .. Cardinality(places) |-> s[Nth(places, n)]]

\* The members of S in the order R, a set of pairs.
ByRank(S, R) ==
  [n \in 1 .. Cardinality(S) |-> CHOOSE i \in S : Cardinality({j \in S : <<j, i>> \in R}) + 1 = n]
=============================================================================
