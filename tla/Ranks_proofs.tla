---------------------------- MODULE Ranks_proofs ----------------------------
(***************************************************************************)
(* Facts about ranks, for any finite set: they are one each from one to    *)
(* the number of the members, in the order of the members.                 *)
(*                                                                         *)
(* Inductions are by the least counterexample: WFMin takes a set and no    *)
(* operator.                                                               *)
(***************************************************************************)
EXTENDS Ranks, FiniteSetsExt, FiniteSetTheorems, WellFoundedInduction, TLAPS

\* The order of the natural numbers, as a set of pairs.
LessNat == {p \in Nat \X Nat : p[1] < p[2]}

\* A nonempty set of natural numbers has a least element.
LEMMA LeastNat ==
  ASSUME NEW T, T \subseteq Nat, T # {}
  PROVE  \E x \in T : \A y \in T : x <= y
<1>1. OpToRel(<, Nat) = LessNat
  BY DEF OpToRel, LessNat
<1>2. IsWellFoundedOn(LessNat, Nat)
  BY <1>1, NatLessThanWellFounded
<1>3. \E x \in T : \A y \in T : ~ (<<y, x>> \in LessNat)
  BY <1>2, WFMin
<1>4. \A x, y \in Nat : <<y, x>> \notin LessNat => x <= y
  BY DEF LessNat
<1>. QED
  BY <1>3, <1>4

-----------------------------------------------------------------------------
(* Ranks.                                                                  *)

\* A strict order of a set, that leaves no two members aside.
StrictOrder(R, S) ==
  /\ \A i \in S : <<i, i>> \notin R
  /\ \A i, j, k \in S : <<i, j>> \in R /\ <<j, k>> \in R => <<i, k>> \in R
  /\ \A i, j \in S : i # j => <<i, j>> \in R \/ <<j, i>> \in R

Ahead(R, S, i) == {j \in S : <<j, i>> \in R}
RankIn(R, S, i) == Cardinality(Ahead(R, S, i)) + 1

\* The members of a finite set that is strictly ordered have the ranks from one
\* to their number: one each, in their order.
LEMMA RanksFollow ==
  ASSUME NEW S, IsFiniteSet(S), NEW R, StrictOrder(R, S)
  PROVE  /\ \A i \in S : RankIn(R, S, i) \in 1 .. Cardinality(S)
         /\ \A i, j \in S : <<i, j>> \in R => RankIn(R, S, i) < RankIn(R, S, j)
<1>1. \A i \in S : /\ IsFiniteSet(Ahead(R, S, i)) /\ Cardinality(Ahead(R, S, i)) \in Nat
                   /\ Cardinality(Ahead(R, S, i)) < Cardinality(S)
  <2>. SUFFICES ASSUME NEW i \in S
                PROVE  /\ IsFiniteSet(Ahead(R, S, i)) /\ Cardinality(Ahead(R, S, i)) \in Nat
                       /\ Cardinality(Ahead(R, S, i)) < Cardinality(S)
    OBVIOUS
  <2>1. Ahead(R, S, i) \in SUBSET S /\ Ahead(R, S, i) # S
    BY DEF Ahead, StrictOrder
  <2>2. IsFiniteSet(Ahead(R, S, i)) /\ Cardinality(Ahead(R, S, i)) <= Cardinality(S)
        /\ Cardinality(Ahead(R, S, i)) # Cardinality(S)
    BY <2>1, FS_Subset
  <2>3. Cardinality(Ahead(R, S, i)) \in Nat /\ Cardinality(S) \in Nat
    BY <2>2, FS_CardinalityType
  <2>. QED  BY <2>2, <2>3
<1>2. Cardinality(S) \in Nat
  BY FS_CardinalityType
<1>3. \A i \in S : RankIn(R, S, i) \in 1 .. Cardinality(S)
  BY <1>1, <1>2 DEF RankIn
<1>4. ASSUME NEW i \in S, NEW j \in S, <<i, j>> \in R
      PROVE  RankIn(R, S, i) < RankIn(R, S, j)
  <2>1. Ahead(R, S, i) \in SUBSET Ahead(R, S, j)
    BY <1>4 DEF Ahead, StrictOrder
  <2>2. Ahead(R, S, i) # Ahead(R, S, j)
    BY <1>4 DEF Ahead, StrictOrder
  <2>3. Cardinality(Ahead(R, S, i)) <= Cardinality(Ahead(R, S, j))
        /\ Cardinality(Ahead(R, S, i)) # Cardinality(Ahead(R, S, j))
    BY <1>1, <2>1, <2>2, FS_Subset
  <2>. QED  BY <1>1, <2>3 DEF RankIn
<1>. QED  BY <1>3, <1>4

IsReached(R, S, n) == \E i \in S : RankIn(R, S, i) = n

\* None of these ranks is left out.
LEMMA RanksAreReached ==
  ASSUME NEW S, IsFiniteSet(S), NEW R, StrictOrder(R, S), NEW n \in 1 .. Cardinality(S)
  PROVE  IsReached(R, S, n)
<1>. DEFINE f == [i \in S |-> RankIn(R, S, i)]
<1>1. Cardinality(S) \in Nat
  BY FS_CardinalityType
<1>2. IsFiniteSet(1 .. Cardinality(S)) /\ Cardinality(1 .. Cardinality(S)) = Cardinality(S)
  BY <1>1, FS_Interval
<1>3. \A i, j \in S : i # j => RankIn(R, S, i) # RankIn(R, S, j)
  <2>1. \A i, j \in S : <<i, j>> \in R => RankIn(R, S, i) < RankIn(R, S, j)
    BY RanksFollow
  <2>2. \A i \in S : RankIn(R, S, i) \in 1 .. Cardinality(S)
    BY RanksFollow
  <2>3. \A i, j \in S : <<i, j>> \in R => RankIn(R, S, i) # RankIn(R, S, j)
    BY <2>1, <2>2, <1>1
  <2>. QED  BY <2>3 DEF StrictOrder
<1>4. f \in Injection(S, 1 .. Cardinality(S))
  <2>1. \A i \in S : RankIn(R, S, i) \in 1 .. Cardinality(S)
    BY RanksFollow
  <2>. QED  BY <1>3, <2>1 DEF Injection, IsInjective
<1>. HIDE DEF f
<1>5. f \in Surjection(S, 1 .. Cardinality(S))
  BY <1>2, <1>4, FS_Injection
<1>. USE DEF f
<1>. QED  BY <1>5 DEF Surjection, IsReached

-----------------------------------------------------------------------------
(* The n-th of some places.                                                *)

UpTo(K, i) == {j \in K : j <= i}

\* Each of finitely many numbers is one of them by its rank, and they come in
\* their order.
LEMMA NthOfPlaces ==
  ASSUME NEW K, K \subseteq Nat, IsFiniteSet(K)
  PROVE  /\ \A i \in K : Cardinality(UpTo(K, i)) \in 1 .. Cardinality(K)
                         /\ Nth(K, Cardinality(UpTo(K, i))) = i
         /\ \A n \in 1 .. Cardinality(K) : Nth(K, n) \in K /\ Cardinality(UpTo(K, Nth(K, n))) = n
<1>. DEFINE R == {p \in K \X K : p[1] < p[2]}
<1>1. StrictOrder(R, K)
  BY DEF StrictOrder
<1>2. \A i \in K : Ahead(R, K, i) = {j \in K : j < i}
  BY DEF Ahead
<1>. HIDE DEF R
<1>3. \A i \in K : Cardinality(UpTo(K, i)) = RankIn(R, K, i)
  <2>. SUFFICES ASSUME NEW i \in K PROVE Cardinality(UpTo(K, i)) = RankIn(R, K, i)
    OBVIOUS
  <2>1. UpTo(K, i) = Ahead(R, K, i) \cup {i} /\ i \notin Ahead(R, K, i)
    <3>1. Ahead(R, K, i) = {j \in K : j < i}
      BY <1>2
    <3>0. \A j \in K : j <= i <=> j < i \/ j = i
      OBVIOUS
    <3>2. \A j : j \in UpTo(K, i) <=> j \in K /\ (j < i \/ j = i)
      BY <3>0, Zenon DEF UpTo
    <3>3. \A j : j \in {l \in K : l < i} \cup {i} <=> j \in K /\ (j < i \/ j = i)
      OBVIOUS
    <3>4. UpTo(K, i) = {l \in K : l < i} \cup {i}
      BY <3>2, <3>3, Zenon
    <3>. QED  BY <3>1, <3>4
  <2>2. Ahead(R, K, i) \in SUBSET K
    BY DEF Ahead
  <2>3. IsFiniteSet(Ahead(R, K, i))
    BY <2>2, FS_Subset
  <2>. QED  BY <2>1, <2>3, FS_AddElement DEF RankIn
<1>4. \A i \in K : RankIn(R, K, i) \in 1 .. Cardinality(K)
  BY <1>1, RanksFollow
<1>5. \A i, j \in K : <<i, j>> \in R => RankIn(R, K, i) < RankIn(R, K, j)
  BY <1>1, RanksFollow
<1>6. \A n \in 1 .. Cardinality(K) : \E i \in K : RankIn(R, K, i) = n
  <2>. SUFFICES ASSUME NEW n \in 1 .. Cardinality(K) PROVE \E i \in K : RankIn(R, K, i) = n
    OBVIOUS
  <2>1. IsReached(R, K, n)
    BY <1>1, RanksAreReached
  <2>. QED  BY <2>1 DEF IsReached
<1>7. \A i, j \in K : RankIn(R, K, i) = RankIn(R, K, j) => i = j
  <2>0. Cardinality(K) \in Nat
    BY FS_CardinalityType
  <2>1. \A i, j \in K : <<i, j>> \in R => RankIn(R, K, i) # RankIn(R, K, j)
    BY <1>4, <1>5, <2>0
  <2>. QED  BY <1>1, <2>1 DEF StrictOrder
<1>8. \A i \in K : Cardinality(UpTo(K, i)) \in 1 .. Cardinality(K)
  BY <1>3, <1>4
<1>9. \A i, j \in K : Cardinality(UpTo(K, i)) = Cardinality(UpTo(K, j)) => i = j
  BY <1>3, <1>7
<1>10. \A n \in 1 .. Cardinality(K) : \E i \in K : Cardinality(UpTo(K, i)) = n
  BY <1>3, <1>6
<1>11. \A n : Nth(K, n) = CHOOSE i \in K : Cardinality(UpTo(K, i)) = n
  BY DEF Nth, UpTo
<1>12. \A n \in 1 .. Cardinality(K) : Nth(K, n) \in K /\ Cardinality(UpTo(K, Nth(K, n))) = n
  BY <1>10, <1>11
<1>13. \A i \in K : Nth(K, Cardinality(UpTo(K, i))) = i
  BY <1>8, <1>9, <1>12
<1>. QED  BY <1>8, <1>12, <1>13

\* The n-th of them come in their order.
LEMMA NthIncreases ==
  ASSUME NEW K, K \subseteq Nat, IsFiniteSet(K),
         NEW m \in 1 .. Cardinality(K), NEW n \in 1 .. Cardinality(K), m < n
  PROVE  Nth(K, m) < Nth(K, n)
<1>1. Nth(K, m) \in K /\ Nth(K, n) \in K
  BY NthOfPlaces
<1>2. Cardinality(UpTo(K, Nth(K, m))) = m /\ Cardinality(UpTo(K, Nth(K, n))) = n
  BY NthOfPlaces
<1>3. Nth(K, m) \in Nat /\ Nth(K, n) \in Nat
  BY <1>1
<1>. SUFFICES ASSUME ~ (Nth(K, m) < Nth(K, n)) PROVE FALSE
  OBVIOUS
<1>9. Nth(K, n) <= Nth(K, m)
  BY <1>3
<1>4. UpTo(K, Nth(K, n)) \in SUBSET UpTo(K, Nth(K, m))
  <2>1. \A j \in K : j <= Nth(K, n) => j <= Nth(K, m)
    BY <1>3, <1>9
  <2>. QED  BY <2>1, Zenon DEF UpTo
<1>5. UpTo(K, Nth(K, m)) \in SUBSET K
  BY DEF UpTo
<1>6. IsFiniteSet(UpTo(K, Nth(K, m)))
  BY <1>5, FS_Subset
<1>7. Cardinality(UpTo(K, Nth(K, n))) <= Cardinality(UpTo(K, Nth(K, m)))
  BY <1>4, <1>6, FS_Subset
<1>8. Cardinality(K) \in Nat
  BY FS_CardinalityType
<1>. QED  BY <1>2, <1>7, <1>8

\* Places of a sequence are finitely many numbers.
LEMMA PlacesOfSequence ==
  ASSUME NEW m \in Nat, NEW K \in SUBSET (1 .. m)
  PROVE  K \subseteq Nat /\ IsFiniteSet(K) /\ Cardinality(K) \in Nat
<1>1. IsFiniteSet(1 .. m)
  BY FS_Interval
<1>2. IsFiniteSet(K)
  BY <1>1, FS_Subset
<1>3. Cardinality(K) \in Nat
  BY <1>2, FS_CardinalityType
<1>4. K \subseteq Nat
  <2>1. \A i \in 1 .. m : i \in Nat
    OBVIOUS
  <2>. QED  BY <2>1
<1>. QED  BY <1>2, <1>3, <1>4

\* The members of a finite set, sorted, are all of its members.
LEMMA ByRankHoldsAll ==
  ASSUME NEW S, IsFiniteSet(S), NEW R, StrictOrder(R, S)
  PROVE  /\ DOMAIN ByRank(S, R) = 1 .. Cardinality(S)
         /\ {ByRank(S, R)[n] : n \in 1 .. Cardinality(S)} = S
<1>. DEFINE s == ByRank(S, R)
<1>1. /\ DOMAIN s = 1 .. Cardinality(S)
      /\ \A n \in 1 .. Cardinality(S) : s[n] = CHOOSE i \in S : RankIn(R, S, i) = n
  BY DEF ByRank, RankIn, Ahead
<1>2. ASSUME NEW n \in 1 .. Cardinality(S)
      PROVE  s[n] \in S /\ RankIn(R, S, s[n]) = n
  <2>1. IsReached(R, S, n)
    BY RanksAreReached
  <2>. HIDE DEF s
  <2>. QED  BY <1>1, <2>1 DEF IsReached
<1>3. \A i \in S : RankIn(R, S, i) \in 1 .. Cardinality(S)
  BY RanksFollow
<1>4. Cardinality(S) \in Nat
  BY FS_CardinalityType
<1>5. \A i, j \in S : RankIn(R, S, i) = RankIn(R, S, j) => i = j
  <2>1. \A i, j \in S : <<i, j>> \in R => RankIn(R, S, i) < RankIn(R, S, j)
    BY RanksFollow
  <2>2. \A i, j \in S : <<i, j>> \in R => RankIn(R, S, i) # RankIn(R, S, j)
    BY <1>3, <1>4, <2>1
  <2>. QED  BY <2>2 DEF StrictOrder
<1>. HIDE DEF s
<1>6. \A i \in S : s[RankIn(R, S, i)] = i
  BY <1>2, <1>3, <1>5
<1>7. {s[n] : n \in 1 .. Cardinality(S)} = S
  BY <1>2, <1>3, <1>6
<1>. QED  BY <1>1, <1>7 DEF s

-----------------------------------------------------------------------------
\* The larger of two integers.
LEMMA GreaterOf ==
  ASSUME NEW a \in Int, NEW b \in Int
  PROVE  Max({a, b}) = IF a >= b THEN a ELSE b
<1>1. \A x \in {a, b} : (\A y \in {a, b} : x >= y) <=> x = IF a >= b THEN a ELSE b
  OBVIOUS
<1>. QED  BY <1>1 DEF Max

\* The smaller of two integers.
LEMMA LesserOf ==
  ASSUME NEW a \in Int, NEW b \in Int
  PROVE  Min({a, b}) = IF a <= b THEN a ELSE b
<1>1. \A x \in {a, b} : (\A y \in {a, b} : x <= y) <=> x = IF a <= b THEN a ELSE b
  OBVIOUS
<1>. QED  BY <1>1 DEF Min
=============================================================================
