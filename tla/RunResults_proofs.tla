------------------------- MODULE RunResults_proofs -------------------------
(***************************************************************************)
(* What is computed from the outputs of a run adds up: the inductive       *)
(* invariants of the evaluation of a view, of the sections on what         *)
(* survives, of the balance of the corrections and of the survival of the  *)
(* entities, and the facts they rest on, on sums, on the distances and the *)
(* alignments of two texts and on matchings.                               *)
(***************************************************************************)
EXTENDS RunResults, Ranks_proofs, SequenceTheorems

-----------------------------------------------------------------------------
(* Induction over a finite set, and sums.                                  *)

\* What holds of no member, and of a set when it holds without any one of its
\* members, holds of a finite set.
LEMMA SetInduction ==
  ASSUME NEW S, IsFiniteSet(S), NEW Good, {} \in Good,
         \A T \in SUBSET S : T # {} /\ (\A x \in T : T \ {x} \in Good) => T \in Good
  PROVE  S \in Good
<1>. SUFFICES ASSUME S \notin Good PROVE FALSE
  OBVIOUS
<1>. DEFINE Sizes == {n \in Nat : \E T \in SUBSET S : T \notin Good /\ Cardinality(T) = n}
<1>1. \A T \in SUBSET S : IsFiniteSet(T) /\ Cardinality(T) \in Nat
  BY FS_Subset, FS_CardinalityType
<1>2. Sizes \subseteq Nat /\ Sizes # {}
  BY <1>1
<1>3. PICK n \in Sizes : \A m \in Sizes : n <= m
  BY <1>2, LeastNat
<1>4. PICK T \in SUBSET S : T \notin Good /\ Cardinality(T) = n
  OBVIOUS
<1>5. \A x \in T : T \ {x} \in Good
  <2>. SUFFICES ASSUME NEW x \in T, T \ {x} \notin Good PROVE FALSE
    OBVIOUS
  <2>1. T \ {x} \in SUBSET S
    OBVIOUS
  <2>2. Cardinality(T \ {x}) = n - 1 /\ Cardinality(T \ {x}) \in Nat
    BY <1>1, <1>4, <2>1, FS_RemoveElement
  <2>3. n - 1 \in Sizes
    BY <2>1, <2>2
  <2>. QED  BY <1>3, <2>2, <2>3
<1>. QED  BY <1>4, <1>5

\* One pair for each unit of each of the numbers that are added.
Weights(f, S) == {p \in S \X Nat : p[2] < f[p[1]]}

\* The n numbers below n.
LEMMA CountFromZero ==
  ASSUME NEW n \in Nat
  PROVE  IsFiniteSet(0 .. n - 1) /\ Cardinality(0 .. n - 1) = n
<1>1. n - 1 \in Int
  OBVIOUS
<1>2. IsFiniteSet(0 .. n - 1) /\ Cardinality(0 .. n - 1) = IF 0 > n - 1 THEN 0 ELSE n - 1 - 0 + 1
  BY <1>1, FS_Interval
<1>. QED  BY <1>2

\* The units of a sum, without those of one of its terms.
LEMMA WeightsOfOne ==
  ASSUME NEW S, NEW f, \A y \in S : f[y] \in Nat, NEW x \in S, IsFiniteSet(Weights(f, S \ {x}))
  PROVE  /\ IsFiniteSet(Weights(f, S))
         /\ Cardinality(Weights(f, S)) = f[x] + Cardinality(Weights(f, S \ {x}))
<1>. DEFINE Mine == {x} \X (0 .. f[x] - 1)
<1>1. f[x] \in Nat
  OBVIOUS
<1>2. IsFiniteSet(0 .. f[x] - 1) /\ Cardinality(0 .. f[x] - 1) = f[x]
  BY <1>1, CountFromZero
<1>3. IsFiniteSet({x}) /\ Cardinality({x}) = 1
  BY FS_Singleton
<1>4. IsFiniteSet(Mine) /\ Cardinality(Mine) = 1 * f[x]
  <2>. DEFINE range == 0 .. f[x] - 1
  <2>1. IsFiniteSet(range) /\ Cardinality(range) = f[x]
    BY <1>2
  <2>. HIDE DEF range
  <2>2. IsFiniteSet({x} \X range) /\ Cardinality({x} \X range) = 1 * f[x]
    BY <1>3, <2>1, FS_Product
  <2>. QED  BY <2>2 DEF range
<1>5. Weights(f, S) = Weights(f, S \ {x}) \cup Mine
  <2>1. \A n : n \in 0 .. f[x] - 1 <=> n \in Nat /\ n < f[x]
    BY <1>1
  <2>. QED  BY <2>1 DEF Weights
<1>6. Weights(f, S \ {x}) \cap Mine = {}
  BY DEF Weights
<1>7. Cardinality(Weights(f, S \ {x})) \in Nat
  BY FS_CardinalityType
<1>. HIDE DEF Mine
<1>. DEFINE Others == Weights(f, S \ {x})
<1>8. /\ IsFiniteSet(Others \cup Mine)
      /\ Cardinality(Others \cup Mine) = Cardinality(Others) + Cardinality(Mine) - Cardinality({})
  <2>1. IsFiniteSet(Others) /\ Others \cap Mine = {}
    BY <1>6
  <2>. HIDE DEF Others
  <2>. QED  BY <1>4, <2>1, FS_Union
<1>. QED  BY <1>1, <1>4, <1>5, <1>7, <1>8, FS_EmptySet

\* The units of a sum are finitely many.
LEMMA WeightsAreFinite ==
  ASSUME NEW S, IsFiniteSet(S), NEW f, \A x \in S : f[x] \in Nat
  PROVE  IsFiniteSet(Weights(f, S)) /\ Cardinality(Weights(f, S)) \in Nat
<1>. DEFINE Good == {T \in SUBSET S : IsFiniteSet(Weights(f, T))}
<1>1. Weights(f, {}) = {}
  BY DEF Weights
<1>2. {} \in Good
  BY <1>1, FS_EmptySet
<1>3. ASSUME NEW T \in SUBSET S, T # {}, \A x \in T : T \ {x} \in Good
      PROVE  T \in Good
  BY <1>3, WeightsOfOne
<1>. HIDE DEF Good
<1>4. S \in Good
  BY <1>2, <1>3, SetInduction
<1>5. IsFiniteSet(Weights(f, S))
  BY <1>4 DEF Good
<1>. QED  BY <1>5, FS_CardinalityType

\* How a sum follows from the sums without one of the terms.
Turn(f, S, g) ==
  [s \in SUBSET S |-> IF s = {} THEN 0 ELSE f[CHOOSE x \in s : TRUE] + g[s \ {CHOOSE x \in s : TRUE}]]

\* A sum of natural numbers is the number of their units.
LEMMA SumsCount ==
  ASSUME NEW S, IsFiniteSet(S), NEW f, \A x \in S : f[x] \in Nat
  PROVE  SumFunctionOnSet(f, S) = Cardinality(Weights(f, S))
<1>. DEFINE Solves(h) == h = Turn(f, S, h)
            count == [s \in SUBSET S |-> Cardinality(Weights(f, s))]
            sum == CHOOSE h : Solves(h)
<1>1. SumFunctionOnSet(f, S) = sum[S]
  <2>1. SumFunctionOnSet(f, S) = (CHOOSE h : h = [s \in SUBSET S |->
          IF s = {} THEN 0 ELSE f[CHOOSE x \in s : TRUE] + h[s \ {CHOOSE x \in s : TRUE}]])[S]
    BY DEF SumFunctionOnSet, FoldFunctionOnSet, MapThenFoldSet
  <2>. QED  BY <2>1 DEF Turn
<1>2. \A s \in SUBSET S : IsFiniteSet(s) /\ IsFiniteSet(Weights(f, s))
  BY FS_Subset, WeightsAreFinite
<1>3. ASSUME NEW s \in SUBSET S
      PROVE  count[s] = IF s = {} THEN 0
                        ELSE f[CHOOSE x \in s : TRUE] + count[s \ {CHOOSE x \in s : TRUE}]
  <2>1. CASE s = {}
    <3>1. Weights(f, s) = {}
      BY <2>1 DEF Weights
    <3>. QED  BY <2>1, <3>1, FS_EmptySet
  <2>2. CASE s # {}
    <3>. DEFINE x == CHOOSE x \in s : TRUE
    <3>1. x \in s
      BY <2>2
    <3>. HIDE DEF x
    <3>2. s \ {x} \in SUBSET S
      OBVIOUS
    <3>3. count[s] = f[x] + count[s \ {x}]
      BY <1>2, <3>1, <3>2, WeightsOfOne
    <3>. QED  BY <2>2, <3>3 DEF x
  <2>. QED  BY <2>1, <2>2
<1>4. Solves(count)
  BY <1>3 DEF Turn
<1>. HIDE DEF Solves
<1>5. Solves(sum)
  BY <1>4
<1>. HIDE DEF sum
<1>6. \A s \in SUBSET S : sum[s] = IF s = {} THEN 0
                            ELSE f[CHOOSE x \in s : TRUE] + sum[s \ {CHOOSE x \in s : TRUE}]
  BY <1>5 DEF Solves, Turn
<1>. DEFINE Good == {s \in SUBSET S : sum[s] = count[s]}
<1>7. {} \in Good
  BY <1>3, <1>6
<1>8. ASSUME NEW T \in SUBSET S, T # {}, \A x \in T : T \ {x} \in Good
      PROVE  T \in Good
  <2>. DEFINE x == CHOOSE x \in T : TRUE
              U == T \ {x}
  <2>1. sum[T] = f[x] + sum[U] /\ count[T] = f[x] + count[U]
    BY <1>3, <1>6, <1>8
  <2>2. x \in T
    BY <1>8
  <2>. HIDE DEF x
  <2>3. U \in Good
    BY <1>8, <2>2
  <2>4. sum[U] = count[U]
    BY <2>3
  <2>. HIDE DEF U, count
  <2>. QED  BY <2>1, <2>4
<1>. HIDE DEF Good
<1>9. S \in Good
  BY <1>7, <1>8, SetInduction
<1>. QED  BY <1>1, <1>9 DEF Good

\* A sum of natural numbers is one; that of none is zero.
LEMMA SumIsNat ==
  ASSUME NEW S, IsFiniteSet(S), NEW f, \A x \in S : f[x] \in Nat
  PROVE  SumFunctionOnSet(f, S) \in Nat
BY SumsCount, WeightsAreFinite

\* Any of the terms may be added last.
LEMMA SumTakesOut ==
  ASSUME NEW S, IsFiniteSet(S), NEW f, \A y \in S : f[y] \in Nat, NEW x \in S
  PROVE  SumFunctionOnSet(f, S) = f[x] + SumFunctionOnSet(f, S \ {x})
<1>1. IsFiniteSet(S \ {x}) /\ \A y \in S \ {x} : f[y] \in Nat
  BY FS_RemoveElement
<1>2. SumFunctionOnSet(f, S \ {x}) = Cardinality(Weights(f, S \ {x})) /\ IsFiniteSet(Weights(f, S \ {x}))
  BY <1>1, SumsCount, WeightsAreFinite
<1>. QED  BY <1>2, SumsCount, WeightsOfOne

\* The sum of no term.
LEMMA SumOfNone ==
  ASSUME NEW f
  PROVE  SumFunctionOnSet(f, {}) = 0
<1>1. SumFunctionOnSet(f, {}) = Cardinality(Weights(f, {}))
  BY SumsCount, FS_EmptySet
<1>2. Weights(f, {}) = {}
  BY DEF Weights
<1>. QED  BY <1>1, <1>2, FS_EmptySet

\* Terms that are larger make a larger sum, the same terms the same sum.
LEMMA SumsCompare ==
  ASSUME NEW S, IsFiniteSet(S), NEW f, NEW g, \A x \in S : f[x] \in Nat /\ g[x] \in Nat /\ f[x] <= g[x]
  PROVE  SumFunctionOnSet(f, S) <= SumFunctionOnSet(g, S)
<1>1. Weights(f, S) \in SUBSET Weights(g, S)
  <2>. SUFFICES ASSUME NEW p \in S \X Nat, p[2] < f[p[1]] PROVE p[2] < g[p[1]]
    BY DEF Weights
  <2>1. p[2] \in Nat /\ f[p[1]] \in Nat /\ g[p[1]] \in Nat /\ f[p[1]] <= g[p[1]]
    OBVIOUS
  <2>. QED  BY <2>1
<1>2. IsFiniteSet(Weights(g, S))
  BY WeightsAreFinite
<1>3. Cardinality(Weights(f, S)) <= Cardinality(Weights(g, S))
  BY <1>1, <1>2, FS_Subset
<1>. QED  BY <1>3, SumsCount

\* What adds nothing may be left out.
LEMMA SumDrops ==
  ASSUME NEW S, IsFiniteSet(S), NEW T \in SUBSET S, NEW f, NEW g, \A x \in S : f[x] \in Nat,
         \A x \in T : g[x] = f[x], \A x \in S \ T : f[x] = 0
  PROVE  SumFunctionOnSet(f, S) = SumFunctionOnSet(g, T)
<1>1. Weights(f, S) = Weights(g, T)
  <2>1. \A x \in S, n \in Nat : n < f[x] <=> x \in T /\ n < g[x]
    <3>1. \A n \in Nat : ~ (n < 0)
      OBVIOUS
    <3>. QED  BY <3>1
  <2>. QED  BY <2>1 DEF Weights
<1>2. IsFiniteSet(T) /\ \A x \in T : g[x] \in Nat
  BY FS_Subset
<1>. QED  BY <1>1, <1>2, SumsCount

\* Sums term by term.
LEMMA SumsAdd ==
  ASSUME NEW S, IsFiniteSet(S), NEW f, NEW g, NEW h,
         \A x \in S : f[x] \in Nat /\ g[x] \in Nat /\ h[x] = f[x] + g[x]
  PROVE  SumFunctionOnSet(h, S) = SumFunctionOnSet(f, S) + SumFunctionOnSet(g, S)
<1>. DEFINE Good == {T \in SUBSET S :
                       SumFunctionOnSet(h, T) = SumFunctionOnSet(f, T) + SumFunctionOnSet(g, T)}
<1>1. {} \in Good
  BY SumOfNone
<1>2. ASSUME NEW T \in SUBSET S, T # {}, \A x \in T : T \ {x} \in Good
      PROVE  T \in Good
  <2>1. PICK x \in T : TRUE
    BY <1>2
  <2>2. IsFiniteSet(T) /\ IsFiniteSet(T \ {x})
    BY FS_Subset
  <2>3. \A y \in T : f[y] \in Nat /\ g[y] \in Nat /\ h[y] \in Nat /\ h[y] = f[y] + g[y]
    OBVIOUS
  <2>4. SumFunctionOnSet(f, T) = f[x] + SumFunctionOnSet(f, T \ {x})
    BY <2>2, <2>3, SumTakesOut
  <2>5. SumFunctionOnSet(g, T) = g[x] + SumFunctionOnSet(g, T \ {x})
    BY <2>2, <2>3, SumTakesOut
  <2>6. SumFunctionOnSet(h, T) = h[x] + SumFunctionOnSet(h, T \ {x})
    BY <2>2, <2>3, SumTakesOut
  <2>7. SumFunctionOnSet(f, T \ {x}) \in Nat /\ SumFunctionOnSet(g, T \ {x}) \in Nat
    BY <2>2, <2>3, SumIsNat
  <2>8. SumFunctionOnSet(h, T \ {x}) = SumFunctionOnSet(f, T \ {x}) + SumFunctionOnSet(g, T \ {x})
    BY <1>2
  <2>9. f[x] \in Nat /\ g[x] \in Nat /\ h[x] = f[x] + g[x]
    BY <2>3
  <2>10. SumFunctionOnSet(h, T) = SumFunctionOnSet(f, T) + SumFunctionOnSet(g, T)
    BY <2>4, <2>5, <2>6, <2>7, <2>8, <2>9
  <2>. QED  BY <2>10
<1>. HIDE DEF Good
<1>3. S \in Good
  BY <1>1, <1>2, SetInduction
<1>. QED  BY <1>3 DEF Good

\* The members that g makes of one kind.
OfKind(A, g, k) == {i \in A : g[i] = k}

\* The members of a set, counted by what g makes of them.
LEMMA CountByKind ==
  ASSUME NEW A, IsFiniteSet(A), NEW K, IsFiniteSet(K), NEW g, \A i \in A : g[i] \in K,
         NEW f, \A k \in K : f[k] = Cardinality(OfKind(A, g, k))
  PROVE  SumFunctionOnSet(f, K) = Cardinality(A)
<1>. DEFINE Among(T) == {i \in A : g[i] \in T}
            Good == {T \in SUBSET K : SumFunctionOnSet(f, T) = Cardinality(Among(T))}
<1>1. \A T : IsFiniteSet(Among(T))
  <2>. SUFFICES ASSUME NEW T PROVE IsFiniteSet(Among(T))
    OBVIOUS
  <2>1. Among(T) \in SUBSET A
    OBVIOUS
  <2>. QED  BY <2>1, FS_Subset
<1>2. \A k \in K : f[k] \in Nat /\ f[k] = Cardinality(Among({k}))
  <2>. SUFFICES ASSUME NEW k \in K PROVE f[k] \in Nat /\ f[k] = Cardinality(Among({k}))
    OBVIOUS
  <2>1. Among({k}) = OfKind(A, g, k)
    BY DEF OfKind
  <2>2. f[k] = Cardinality(Among({k}))
    BY <2>1
  <2>3. IsFiniteSet(Among({k}))
    BY <1>1
  <2>4. Cardinality(Among({k})) \in Nat
    BY <2>3, FS_CardinalityType
  <2>. QED  BY <2>2, <2>4
<1>3. {} \in Good
  <2>1. Among({}) = {}
    OBVIOUS
  <2>. QED  BY <2>1, SumOfNone, FS_EmptySet
<1>4. ASSUME NEW T \in SUBSET K, T # {}, \A k \in T : T \ {k} \in Good
      PROVE  T \in Good
  <2>1. PICK k \in T : TRUE
    BY <1>4
  <2>2. IsFiniteSet(T) /\ \A l \in T : f[l] \in Nat
    BY <1>2, FS_Subset
  <2>3. SumFunctionOnSet(f, T) = f[k] + SumFunctionOnSet(f, T \ {k})
    BY <2>2, SumTakesOut
  <2>4. SumFunctionOnSet(f, T \ {k}) = Cardinality(Among(T \ {k}))
    BY <1>4
  <2>5. Among(T) = Among(T \ {k}) \cup Among({k}) /\ Among(T \ {k}) \cap Among({k}) = {}
    OBVIOUS
  <2>6. Cardinality(Among(T)) = Cardinality(Among(T \ {k})) + Cardinality(Among({k}))
    <3>. DEFINE a == Among(T \ {k})
                b == Among({k})
    <3>1. IsFiniteSet(a) /\ IsFiniteSet(b) /\ a \cap b = {} /\ Among(T) = a \cup b
      BY <1>1, <2>5
    <3>. HIDE DEF a, b, Among
    <3>2. Cardinality(a \cup b) = Cardinality(a) + Cardinality(b) - Cardinality({})
      BY <3>1, FS_Union
    <3>3. Cardinality(a) \in Nat /\ Cardinality(b) \in Nat
      BY <3>1, FS_CardinalityType
    <3>4. Cardinality(Among(T)) = Cardinality(a) + Cardinality(b)
      BY <3>1, <3>2, <3>3, FS_EmptySet
    <3>. QED  BY <3>4 DEF a, b
  <2>7. Cardinality(Among(T \ {k})) \in Nat /\ f[k] \in Nat /\ f[k] = Cardinality(Among({k}))
    BY <1>1, <1>2, FS_CardinalityType
  <2>. HIDE DEF Among
  <2>8. SumFunctionOnSet(f, T) = Cardinality(Among(T))
    BY <2>3, <2>4, <2>6, <2>7
  <2>. QED  BY <2>8
<1>. HIDE DEF Good
<1>5. K \in Good
  BY <1>3, <1>4, SetInduction
<1>6. Among(K) = A
  OBVIOUS
<1>. QED  BY <1>5, <1>6 DEF Good

-----------------------------------------------------------------------------
(* Products and fractions.                                                 *)

\* Multiplying by a positive number keeps the order.
LEMMA ScalingKeepsOrder ==
  ASSUME NEW a \in Int, NEW b \in Int, NEW k \in Int, k > 0
  PROVE  /\ a < b <=> a * k < b * k
         /\ a = b <=> a * k = b * k
         /\ a <= b <=> a * k <= b * k
<1>1. (b - a) * k = b * k - a * k
  OBVIOUS
<1>2. b - a > 0 => (b - a) * k > 0
  OBVIOUS
<1>3. b - a < 0 => (b - a) * k < 0
  OBVIOUS
<1>4. b - a = 0 => (b - a) * k = 0
  OBVIOUS
<1>. DEFINE d == b - a
            m == a * k
            n == b * k
            p == (b - a) * k
<1>5. d \in Int /\ m \in Int /\ n \in Int /\ p \in Int /\ d = b - a /\ p = n - m
  BY <1>1
<1>6. (d > 0 => p > 0) /\ (d < 0 => p < 0) /\ (d = 0 => p = 0)
  BY <1>2, <1>3, <1>4
<1>. HIDE DEF d, m, n, p
<1>7. /\ a < b <=> m < n
      /\ a = b <=> m = n
      /\ a <= b <=> m <= n
  BY <1>5, <1>6
<1>. QED  BY <1>7 DEF m, n

\* Fractions of positive denominators are ordered by their cross products.
LEMMA FractionsAreOrdered ==
  ASSUME NEW o1 \in Int, NEW o2 \in Int, NEW o3 \in Int,
         NEW s1 \in Int, NEW s2 \in Int, NEW s3 \in Int, s1 > 0, s2 > 0, s3 > 0,
         o1 * s2 >= o2 * s1, o2 * s3 >= o3 * s2
  PROVE  /\ o1 * s3 >= o3 * s1
         /\ o1 * s3 = o3 * s1 => o1 * s2 = o2 * s1 /\ o2 * s3 = o3 * s2
<1>. DEFINE a == o1 * s2
            b == o2 * s1
            c == o2 * s3
            d == o3 * s2
            e == o1 * s3
            f == o3 * s1
<1>1. /\ a \in Int /\ b \in Int /\ c \in Int /\ d \in Int /\ e \in Int /\ f \in Int
  OBVIOUS
<1>2. a * s3 = e * s2 /\ b * s3 = c * s1 /\ d * s1 = f * s2
  OBVIOUS
<1>3. a >= b /\ c >= d
  OBVIOUS
<1>. HIDE DEF a, b, c, d, e, f
<1>4. (b <= a <=> b * s3 <= a * s3) /\ (a = b <=> a * s3 = b * s3)
  BY <1>1, ScalingKeepsOrder
<1>5. (d <= c <=> d * s1 <= c * s1) /\ (c = d <=> c * s1 = d * s1)
  BY <1>1, ScalingKeepsOrder
<1>6. (f <= e <=> f * s2 <= e * s2) /\ (e = f <=> e * s2 = f * s2)
  BY <1>1, ScalingKeepsOrder
<1>. DEFINE u == a * s3
            v == b * s3
            w == d * s1
<1>7. u \in Int /\ v \in Int /\ w \in Int
  BY <1>1
<1>8. /\ b <= a <=> v <= u
      /\ a = b <=> u = v
      /\ d <= c <=> w <= v
      /\ c = d <=> v = w
      /\ f <= e <=> w <= u
      /\ e = f <=> u = w
  BY <1>2, <1>4, <1>5, <1>6
<1>. HIDE DEF u, v, w
<1>9. f <= e /\ (e = f => a = b /\ c = d)
  BY <1>1, <1>3, <1>7, <1>8
<1>. QED  BY <1>1, <1>9 DEF a, b, c, d, e, f

-----------------------------------------------------------------------------
(* The alignments of two texts.                                            *)

\* What a member of Alignments is: as many places of both texts, in order.
IsAlignment(a, reference, hypothesis) ==
  /\ Len(a) \in Nat /\ DOMAIN a = 1 .. Len(a)
  /\ Len(a) <= Len(reference) /\ Len(a) <= Len(hypothesis)
  /\ \A k \in 1 .. Len(a) : a[k][1] \in 1 .. Len(reference) /\ a[k][2] \in 1 .. Len(hypothesis)
  /\ \A k, l \in 1 .. Len(a) : k < l => a[k][1] < a[l][1] /\ a[k][2] < a[l][2]

\* The n numbers up to n.
LEMMA CountFromOne ==
  ASSUME NEW n \in Nat
  PROVE  IsFiniteSet(1 .. n) /\ Cardinality(1 .. n) = n
BY FS_Interval

\* The places of a subset, in order.
LEMMA PlacesInOrder ==
  ASSUME NEW m \in Nat, NEW K \in SUBSET (1 .. m), NEW n, n = Cardinality(K)
  PROVE  /\ n \in Nat /\ n <= m
         /\ \A k \in 1 .. n : InOrder(K)[k] \in K /\ InOrder(K)[k] \in 1 .. m
         /\ \A k, l \in 1 .. n : k < l => InOrder(K)[k] < InOrder(K)[l]
<1>1. K \subseteq Nat /\ IsFiniteSet(K) /\ Cardinality(K) \in Nat
  BY PlacesOfSequence
<1>2. \A k \in 1 .. n : InOrder(K)[k] = Nth(K, k) /\ InOrder(K)[k] \in K
  BY <1>1, NthOfPlaces DEF InOrder
<1>3. ASSUME NEW k \in 1 .. n, NEW l \in 1 .. n, k < l
      PROVE  InOrder(K)[k] < InOrder(K)[l]
  <2>1. Nth(K, k) < Nth(K, l)
    BY <1>1, <1>3, NthIncreases
  <2>. QED  BY <1>2, <2>1
<1>4. n <= m
  <2>1. IsFiniteSet(1 .. m) /\ Cardinality(1 .. m) = m
    BY FS_Interval
  <2>. QED  BY <2>1, FS_Subset
<1>. QED  BY <1>1, <1>2, <1>3, <1>4

\* An alignment pairs places of both texts, each once and in order.
LEMMA AlignmentsAreSo ==
  ASSUME NEW reference, NEW hypothesis, Len(reference) \in Nat, Len(hypothesis) \in Nat,
         NEW a \in Alignments(reference, hypothesis)
  PROVE  IsAlignment(a, reference, hypothesis)
<1>1. PICK p \in (SUBSET Indices(reference)) \X (SUBSET Indices(hypothesis)) :
        Cardinality(p[1]) = Cardinality(p[2]) /\ a = Pairing(p[1], p[2])
  BY DEF Alignments
<1>. DEFINE kept == p[1]
            used == p[2]
            n == Cardinality(p[1])
<1>2. a = [k \in 1 .. n |-> <<InOrder(kept)[k], InOrder(used)[k]>>]
  BY <1>1 DEF Pairing
<1>3. /\ kept \in SUBSET (1 .. Len(reference)) /\ n = Cardinality(kept)
      /\ used \in SUBSET (1 .. Len(hypothesis)) /\ n = Cardinality(used)
  BY <1>1 DEF Indices
<1>. HIDE DEF n, kept, used
<1>4. /\ n \in Nat /\ n <= Len(reference)
      /\ \A k \in 1 .. n : InOrder(kept)[k] \in 1 .. Len(reference)
      /\ \A k, l \in 1 .. n : k < l => InOrder(kept)[k] < InOrder(kept)[l]
  BY <1>3, PlacesInOrder
<1>5. /\ n <= Len(hypothesis)
      /\ \A k \in 1 .. n : InOrder(used)[k] \in 1 .. Len(hypothesis)
      /\ \A k, l \in 1 .. n : k < l => InOrder(used)[k] < InOrder(used)[l]
  BY <1>3, PlacesInOrder
<1>6. Len(a) = n /\ DOMAIN a = 1 .. n
  BY <1>2, <1>4
<1>7. \A k \in 1 .. n : a[k][1] = InOrder(kept)[k] /\ a[k][2] = InOrder(used)[k]
  BY <1>2
<1>. QED  BY <1>4, <1>5, <1>6, <1>7 DEF IsAlignment

\* A pair of an alignment is the one of either of its places.
LEMMA AlignmentsPairOnce ==
  ASSUME NEW reference, NEW hypothesis, NEW a, IsAlignment(a, reference, hypothesis),
         Len(reference) \in Nat, Len(hypothesis) \in Nat,
         NEW k \in 1 .. Len(a), NEW l \in 1 .. Len(a), k # l
  PROVE  a[k][1] # a[l][1] /\ a[k][2] # a[l][2]
<1>1. a[k][1] \in Nat /\ a[k][2] \in Nat /\ a[l][1] \in Nat /\ a[l][2] \in Nat /\ k \in Nat /\ l \in Nat
  BY DEF IsAlignment
<1>2. CASE k < l  BY <1>1, <1>2 DEF IsAlignment
<1>3. CASE l < k  BY <1>1, <1>3 DEF IsAlignment
<1>. QED  BY <1>1, <1>2, <1>3

\* The price of an alignment: what it leaves unpaired, and what it pairs badly.
LEMMA PriceOfAlignment ==
  ASSUME NEW reference, NEW hypothesis, NEW a, IsAlignment(a, reference, hypothesis),
         Len(reference) \in Nat, Len(hypothesis) \in Nat
  PROVE  /\ Mismatches(a, reference, hypothesis) \in Nat
         /\ Mismatches(a, reference, hypothesis) <= Len(a)
         /\ Price(a, reference, hypothesis) \in Nat
         /\ Price(a, reference, hypothesis) <= Len(reference) + Len(hypothesis) - Len(a)
         /\ Price(a, reference, hypothesis) = 0
              => Len(a) = Len(reference) /\ Len(a) = Len(hypothesis)
<1>1. Len(a) \in Nat /\ Len(a) <= Len(reference) /\ Len(a) <= Len(hypothesis)
  BY DEF IsAlignment
<1>2. IsFiniteSet(1 .. Len(a)) /\ Cardinality(1 .. Len(a)) = Len(a)
  BY <1>1, CountFromOne
<1>. DEFINE bad == {k \in Indices(a) : reference[a[k][1]] # hypothesis[a[k][2]]}
<1>3. bad \in SUBSET (1 .. Len(a))
  BY DEF Indices
<1>4. Cardinality(bad) \in Nat /\ Cardinality(bad) <= Len(a)
  BY <1>2, <1>3, FS_Subset, FS_CardinalityType
<1>5. Mismatches(a, reference, hypothesis) = Cardinality(bad)
  BY DEF Mismatches
<1>. HIDE DEF bad
<1>. QED  BY <1>1, <1>4, <1>5 DEF Price

-----------------------------------------------------------------------------
(* The balance of the corrections.                                         *)

\* The words of a bounded text are counted.
LEMMA BoundedLength ==
  ASSUME NEW S, NEW n \in Nat, NEW s \in BoundedSeq(S, n)
  PROVE  Len(s) \in Nat /\ DOMAIN s = 1 .. Len(s) /\ s \in Seq(S)
<1>1. PICK m \in 0 .. n : s \in [1 .. m -> S]
  BY DEF BoundedSeq, SeqOf
<1>2. s \in Seq(S)
  BY <1>1
<1>. QED  BY <1>2

\* A multiset holds a natural number of each word, and what lacks is one too.
LEMMA CountIsNat ==
  ASSUME NEW text, Len(text) \in Nat, NEW word
  PROVE  Count(word, text) \in Nat
<1>1. IsFiniteSet(1 .. Len(text))
  BY CountFromOne
<1>2. {i \in Indices(text) : text[i] = word} \in SUBSET (1 .. Len(text))
  BY DEF Indices
<1>3. IsFiniteSet({i \in Indices(text) : text[i] = word})
  BY <1>1, <1>2, FS_Subset
<1>. QED  BY <1>3, FS_CardinalityType DEF Count

\* What a text lacks of a word is counted.
LEMMA LackingIsNat ==
  ASSUME NEW reference, NEW text, Len(reference) \in Nat, Len(text) \in Nat, NEW word
  PROVE  Lacking(word, reference, text) \in Nat
<1>1. Count(word, reference) \in Nat /\ Count(word, text) \in Nat
  BY CountIsNat
<1>. DEFINE d == Count(word, reference) - Count(word, text)
<1>2. d \in Int
  BY <1>1
<1>. HIDE DEF d
<1>3. Max({0, d}) \in Nat
  BY <1>2, GreaterOf
<1>. QED  BY <1>3 DEF Lacking, d

\* What is fixed, broken and kept of what is lost before and left after.
Splits(T, lost, left, fixed, broken, kept) ==
  \A w \in T : /\ fixed[w] = Max({0, lost[w] - left[w]})
               /\ broken[w] = Max({0, left[w] - lost[w]})
               /\ kept[w] = Min({lost[w], left[w]})
SumsSplit(W, T, lost, left, fixed, broken, kept) ==
  /\ SumFunctionOnSet(fixed, T) \in Nat /\ SumFunctionOnSet(broken, T) \in Nat
  /\ SumFunctionOnSet(kept, T) \in Nat
  /\ SumFunctionOnSet(lost, W) = SumFunctionOnSet(fixed, T) + SumFunctionOnSet(kept, T)
  /\ SumFunctionOnSet(left, W) = SumFunctionOnSet(broken, T) + SumFunctionOnSet(kept, T)

\* What lacks before is corrected or kept, what lacks after is introduced or kept.
LEMMA LossesSplit ==
  ASSUME NEW W, IsFiniteSet(W), NEW T \in SUBSET W, NEW lost, NEW left,
         \A w \in W : lost[w] \in Nat /\ left[w] \in Nat,
         \A w \in W \ T : lost[w] = 0 /\ left[w] = 0,
         NEW fixed, NEW broken, NEW kept,
         Splits(T, lost, left, fixed, broken, kept)
  PROVE  SumsSplit(W, T, lost, left, fixed, broken, kept)
<1>1. IsFiniteSet(T)
  BY FS_Subset
<1>2. ASSUME NEW w \in T
      PROVE  /\ fixed[w] \in Nat /\ broken[w] \in Nat /\ kept[w] \in Nat
             /\ lost[w] = fixed[w] + kept[w] /\ left[w] = broken[w] + kept[w]
  <2>1. lost[w] \in Nat /\ left[w] \in Nat
    OBVIOUS
  <2>2. /\ fixed[w] = Max({0, lost[w] - left[w]}) /\ broken[w] = Max({0, left[w] - lost[w]})
        /\ kept[w] = Min({lost[w], left[w]})
    BY DEF Splits
  <2>3. ASSUME NEW a \in Nat, NEW b \in Nat
        PROVE  /\ Max({0, a - b}) = (IF 0 >= a - b THEN 0 ELSE a - b)
               /\ Max({0, b - a}) = (IF 0 >= b - a THEN 0 ELSE b - a)
               /\ Min({a, b}) = IF a <= b THEN a ELSE b
    <3>1. a - b \in Int /\ b - a \in Int /\ a \in Int /\ b \in Int /\ 0 \in Int
      OBVIOUS
    <3>. QED  BY <3>1, GreaterOf, LesserOf
  <2>4. /\ fixed[w] = (IF 0 >= lost[w] - left[w] THEN 0 ELSE lost[w] - left[w])
        /\ broken[w] = (IF 0 >= left[w] - lost[w] THEN 0 ELSE left[w] - lost[w])
        /\ kept[w] = IF lost[w] <= left[w] THEN lost[w] ELSE left[w]
    BY ONLY <2>1, <2>2, <2>3
  <2>. QED  BY ONLY <2>1, <2>4
<1>3. SumFunctionOnSet(fixed, T) \in Nat /\ SumFunctionOnSet(broken, T) \in Nat
      /\ SumFunctionOnSet(kept, T) \in Nat
  BY <1>1, <1>2, SumIsNat
<1>4. SumFunctionOnSet(lost, W) = SumFunctionOnSet(lost, T)
      /\ SumFunctionOnSet(left, W) = SumFunctionOnSet(left, T)
  BY SumDrops
<1>5. SumFunctionOnSet(lost, T) = SumFunctionOnSet(fixed, T) + SumFunctionOnSet(kept, T)
  BY <1>1, <1>2, SumsAdd
<1>6. SumFunctionOnSet(left, T) = SumFunctionOnSet(broken, T) + SumFunctionOnSet(kept, T)
  BY <1>1, <1>2, SumsAdd
<1>. QED  BY <1>3, <1>4, <1>5, <1>6 DEF SumsSplit

\* What the balance of the corrections keeps, document after document.
CountsOfBalance ==
  {"documents", "missingRaw", "missingCorrected", "improvement", "regression", "noChange",
   "rawEdits", "rawTotal", "sysInsertions", "sysTotal", "errorsBefore", "errorsAfter",
   "corrected", "introduced", "kept", "correctOcr", "overNormalized"}
BalanceHolds(b) ==
  /\ b \in [CountsOfBalance -> Nat]
  /\ b.errorsBefore = b.corrected + b.kept
  /\ b.errorsAfter = b.introduced + b.kept
  /\ b.improvement + b.regression + b.noChange = b.documents
  /\ b.rawEdits <= b.rawTotal /\ b.sysInsertions <= b.sysTotal
  /\ b.overNormalized <= b.correctOcr

\* The edits of a text are no more than what they are divided by.
LEMMA RatesAreBounded ==
  ASSUME NEW reference, NEW text, Len(reference) \in Nat, Len(text) \in Nat,
         NEW a \in Opcodes(reference, text)
  PROVE  LET r == Rate(reference, text, a)
         IN /\ r.edits \in Nat /\ r.total \in Nat /\ r.edits <= r.total
            /\ Insertions(a, text) \in Nat /\ Insertions(a, text) <= r.total
<1>1. IsAlignment(a, reference, text)
  BY AlignmentsAreSo DEF Opcodes
<1>2. Len(a) \in Nat /\ Len(a) <= Len(text)
  BY <1>1 DEF IsAlignment
<1>3. /\ Price(a, reference, text) \in Nat
      /\ Price(a, reference, text) <= Len(reference) + Len(text) - Len(a)
  BY <1>1, PriceOfAlignment
<1>. QED  BY <1>2, <1>3 DEF Rate, Insertions

\* A document improves, regresses or does not change.
LEMMA OneVerdict ==
  ASSUME NEW x, NEW y, x.edits \in Nat, x.total \in Nat, y.edits \in Nat, y.total \in Nat
  PROVE  /\ One(Worse(x, y)) \in Nat /\ One(Worse(y, x)) \in Nat
         /\ One(~Worse(x, y) /\ ~Worse(y, x)) \in Nat
         /\ One(Worse(x, y)) + One(Worse(y, x)) + One(~Worse(x, y) /\ ~Worse(y, x)) = 1
<1>1. Max({1, x.total}) \in Nat /\ Max({1, y.total}) \in Nat
  BY GreaterOf
<1>. DEFINE p == x.edits * Max({1, y.total})
            q == y.edits * Max({1, x.total})
<1>2. p \in Nat /\ q \in Nat
  BY <1>1
<1>3. Worse(x, y) <=> p > q
  BY DEF Worse
<1>4. Worse(y, x) <=> q > p
  BY DEF Worse
<1>. HIDE DEF p, q
<1>. QED  BY <1>2, <1>3, <1>4 DEF One

\* The sums over the words of one document.
LostOf(reference, text) == [w \in Lexicon |-> Lacking(w, reference, text)]
FixedOf(reference, raw, corrected) ==
  [w \in Misspelt(reference, raw, corrected) |->
     Max({0, Lacking(w, reference, raw) - Lacking(w, reference, corrected)})]
BrokenOf(reference, raw, corrected) ==
  [w \in Misspelt(reference, raw, corrected) |->
     Max({0, Lacking(w, reference, corrected) - Lacking(w, reference, raw)})]
SameOf(reference, raw, corrected) ==
  [w \in Misspelt(reference, raw, corrected) |->
     Min({Lacking(w, reference, raw), Lacking(w, reference, corrected)})]

\* The words a document lost add up with what the correction made of them.
LEMMA LossesOfDocument ==
  ASSUME NEW reference, NEW raw, NEW corrected,
         Len(reference) \in Nat, Len(raw) \in Nat, Len(corrected) \in Nat
  PROVE  /\ SumFunction(FixedOf(reference, raw, corrected)) \in Nat
         /\ SumFunction(BrokenOf(reference, raw, corrected)) \in Nat
         /\ SumFunction(SameOf(reference, raw, corrected)) \in Nat
         /\ SumFunction(LostOf(reference, raw))
              = SumFunction(FixedOf(reference, raw, corrected)) + SumFunction(SameOf(reference, raw, corrected))
         /\ SumFunction(LostOf(reference, corrected))
              = SumFunction(BrokenOf(reference, raw, corrected)) + SumFunction(SameOf(reference, raw, corrected))
<1>. DEFINE words == Misspelt(reference, raw, corrected)
            lost == LostOf(reference, raw)
            left == LostOf(reference, corrected)
            fixed == FixedOf(reference, raw, corrected)
            broken == BrokenOf(reference, raw, corrected)
            kept == SameOf(reference, raw, corrected)
<1>0. /\ words = Misspelt(reference, raw, corrected)
      /\ lost = [w \in Lexicon |-> Lacking(w, reference, raw)]
      /\ left = [w \in Lexicon |-> Lacking(w, reference, corrected)]
      /\ fixed = [w \in words |-> Max({0, Lacking(w, reference, raw) - Lacking(w, reference, corrected)})]
      /\ broken = [w \in words |-> Max({0, Lacking(w, reference, corrected) - Lacking(w, reference, raw)})]
      /\ kept = [w \in words |-> Min({Lacking(w, reference, raw), Lacking(w, reference, corrected)})]
  BY DEF LostOf, FixedOf, BrokenOf, SameOf
<1>. HIDE DEF words, lost, left, fixed, broken, kept
<1>1. IsFiniteSet(Lexicon) /\ words \in SUBSET Lexicon
  BY <1>0, CorrectionAssumption DEF Misspelt
<1>2. \A w \in Lexicon : lost[w] \in Nat /\ left[w] \in Nat
  BY <1>0, LackingIsNat
<1>3. \A w \in Lexicon \ words : lost[w] = 0 /\ left[w] = 0
  <2>. SUFFICES ASSUME NEW w \in Lexicon, w \notin words PROVE lost[w] = 0 /\ left[w] = 0
    OBVIOUS
  <2>1. ~ (lost[w] > 0) /\ ~ (left[w] > 0)
    BY <1>0 DEF Misspelt
  <2>2. lost[w] \in Nat /\ left[w] \in Nat
    BY <1>2
  <2>. QED  BY <2>1, <2>2
<1>4. Splits(words, lost, left, fixed, broken, kept)
  BY <1>0, <1>1 DEF Splits
<1>5. SumsSplit(Lexicon, words, lost, left, fixed, broken, kept)
  BY <1>1, <1>2, <1>3, <1>4, LossesSplit
<1>6. DOMAIN lost = Lexicon /\ DOMAIN left = Lexicon /\ DOMAIN fixed = words
      /\ DOMAIN broken = words /\ DOMAIN kept = words
  BY <1>0
<1>. QED  BY <1>5, <1>6 DEF SumFunction, SumsSplit, lost, left, fixed, broken, kept

\* A document that is added leaves the balance balanced.
LEMMA AddKeepsBalance ==
  ASSUME NEW b, BalanceHolds(b), NEW reference, NEW rawStage, NEW correctedStage,
         Len(reference) \in Nat, Len(Materialized(rawStage)) \in Nat,
         Len(Materialized(correctedStage)) \in Nat,
         NEW r \in Opcodes(reference, Materialized(rawStage)),
         NEW c \in Opcodes(reference, Materialized(correctedStage))
  PROVE  BalanceHolds(Add(b, reference, rawStage, correctedStage, r, c))
<1>. DEFINE raw == Materialized(rawStage)
            corrected == Materialized(correctedStage)
            before == Rate(reference, raw, r)
            after == Rate(reference, corrected, c)
            lost == SumFunction(LostOf(reference, raw))
            left == SumFunction(LostOf(reference, corrected))
            fixed == SumFunction(FixedOf(reference, raw, corrected))
            broken == SumFunction(BrokenOf(reference, raw, corrected))
            same == SumFunction(SameOf(reference, raw, corrected))
            right == {i \in Indices(reference) : Restored(i, reference, raw, r)}
            spoilt == {i \in right : ~Restored(i, reference, corrected, c)}
            better == One(Worse(before, after))
            worse == One(Worse(after, before))
            equal == One(~Worse(before, after) /\ ~Worse(after, before))
            inserted == Insertions(c, corrected)
            noRaw == One(rawStage = Absent)
            noCorrected == One(correctedStage = Absent)
            new == Add(b, reference, rawStage, correctedStage, r, c)
<1>1. new = [documents |-> b.documents + 1,
             missingRaw |-> b.missingRaw + noRaw,
             missingCorrected |-> b.missingCorrected + noCorrected,
             improvement |-> b.improvement + better,
             regression |-> b.regression + worse,
             noChange |-> b.noChange + equal,
             rawEdits |-> b.rawEdits + before.edits,
             rawTotal |-> b.rawTotal + before.total,
             sysInsertions |-> b.sysInsertions + inserted,
             sysTotal |-> b.sysTotal + after.total,
             errorsBefore |-> b.errorsBefore + lost,
             errorsAfter |-> b.errorsAfter + left,
             corrected |-> b.corrected + fixed,
             introduced |-> b.introduced + broken,
             kept |-> b.kept + same,
             correctOcr |-> b.correctOcr + Cardinality(right),
             overNormalized |-> b.overNormalized + Cardinality(spoilt)]
  BY DEF Add, LostOf, FixedOf, BrokenOf, SameOf
<1>2. Len(raw) \in Nat /\ Len(corrected) \in Nat /\ r \in Opcodes(reference, raw)
      /\ c \in Opcodes(reference, corrected)
  OBVIOUS
<1>3. /\ fixed \in Nat /\ broken \in Nat /\ same \in Nat
      /\ lost = fixed + same /\ left = broken + same
  BY <1>2, LossesOfDocument
<1>4. Cardinality(right) \in Nat /\ Cardinality(spoilt) \in Nat /\ Cardinality(spoilt) <= Cardinality(right)
  <2>1. right \in SUBSET (1 .. Len(reference)) /\ spoilt \in SUBSET right
    BY DEF Indices
  <2>2. IsFiniteSet(right)
    BY <2>1, CountFromOne, FS_Subset
  <2>. HIDE DEF right, spoilt
  <2>. QED  BY <2>1, <2>2, FS_Subset, FS_CardinalityType
<1>5. /\ before.edits \in Nat /\ before.total \in Nat /\ before.edits <= before.total
      /\ after.edits \in Nat /\ after.total \in Nat /\ inserted \in Nat /\ inserted <= after.total
  <2>. HIDE DEF raw, corrected
  <2>. QED  BY <1>2, RatesAreBounded
<1>6. noRaw \in Nat /\ noCorrected \in Nat
  BY DEF One
<1>7. better \in Nat /\ worse \in Nat /\ equal \in Nat /\ better + worse + equal = 1
  <2>. HIDE DEF before, after
  <2>. QED  BY <1>5, OneVerdict
<1>. HIDE DEF raw, corrected, before, after,  lost, left, fixed, broken, same, right, spoilt,
              better, worse, equal, inserted, noRaw, noCorrected, new
<1>8. /\ b.documents \in Nat
      /\ b.missingRaw \in Nat
      /\ b.missingCorrected \in Nat
      /\ b.improvement \in Nat
      /\ b.regression \in Nat
      /\ b.noChange \in Nat
      /\ b.rawEdits \in Nat
      /\ b.rawTotal \in Nat
      /\ b.sysInsertions \in Nat
      /\ b.sysTotal \in Nat
      /\ b.errorsBefore \in Nat
      /\ b.errorsAfter \in Nat
      /\ b.corrected \in Nat
      /\ b.introduced \in Nat
      /\ b.kept \in Nat
      /\ b.correctOcr \in Nat
      /\ b.overNormalized \in Nat
  BY DEF BalanceHolds, CountsOfBalance
<1>9. /\ new.documents = b.documents + 1
      /\ new.missingRaw = b.missingRaw + noRaw
      /\ new.missingCorrected = b.missingCorrected + noCorrected
      /\ new.improvement = b.improvement + better
      /\ new.regression = b.regression + worse
      /\ new.noChange = b.noChange + equal
      /\ new.rawEdits = b.rawEdits + before.edits
      /\ new.rawTotal = b.rawTotal + before.total
      /\ new.sysInsertions = b.sysInsertions + inserted
      /\ new.sysTotal = b.sysTotal + after.total
      /\ new.errorsBefore = b.errorsBefore + lost
      /\ new.errorsAfter = b.errorsAfter + left
      /\ new.corrected = b.corrected + fixed
      /\ new.introduced = b.introduced + broken
      /\ new.kept = b.kept + same
      /\ new.correctOcr = b.correctOcr + Cardinality(right)
      /\ new.overNormalized = b.overNormalized + Cardinality(spoilt)
  BY ONLY <1>1
<1>10. "documents" \in CountsOfBalance /\ new \in [CountsOfBalance -> Nat]
  <2>1. /\ new.documents \in Nat
        /\ new.missingRaw \in Nat
        /\ new.missingCorrected \in Nat
        /\ new.improvement \in Nat
        /\ new.regression \in Nat
        /\ new.noChange \in Nat
        /\ new.rawEdits \in Nat
        /\ new.rawTotal \in Nat
        /\ new.sysInsertions \in Nat
        /\ new.sysTotal \in Nat
        /\ new.errorsBefore \in Nat
        /\ new.errorsAfter \in Nat
        /\ new.corrected \in Nat
        /\ new.introduced \in Nat
        /\ new.kept \in Nat
        /\ new.correctOcr \in Nat
        /\ new.overNormalized \in Nat
    BY ONLY <1>3, <1>4, <1>5, <1>6, <1>7, <1>8, <1>9
  <2>2. DOMAIN new = CountsOfBalance /\ new = [f \in CountsOfBalance |-> new[f]]
    BY ONLY <1>1 DEF CountsOfBalance
  <2>. QED  BY ONLY <2>1, <2>2 DEF CountsOfBalance
<1>11. /\ new.errorsBefore = new.corrected + new.kept
       /\ new.errorsAfter = new.introduced + new.kept
       /\ new.improvement + new.regression + new.noChange = new.documents
  <2>1. /\ b.errorsBefore = b.corrected + b.kept /\ b.errorsAfter = b.introduced + b.kept
        /\ b.improvement + b.regression + b.noChange = b.documents
    BY DEF BalanceHolds
  <2>. QED  BY ONLY <1>3, <1>7, <1>8, <1>9, <2>1
<1>12. /\ new.rawEdits <= new.rawTotal /\ new.sysInsertions <= new.sysTotal
       /\ new.overNormalized <= new.correctOcr
  <2>1. b.rawEdits <= b.rawTotal /\ b.sysInsertions <= b.sysTotal /\ b.overNormalized <= b.correctOcr
    BY DEF BalanceHolds
  <2>. QED  BY ONLY <1>4, <1>5, <1>8, <1>9, <2>1
<1>13. BalanceHolds(new)
  BY <1>10, <1>11, <1>12 DEF BalanceHolds
<1>. QED  BY <1>13 DEF new, raw, corrected

\* The balance is balanced after every document, and so is the report.
CorrectionInv ==
  /\ BalanceHolds(balance)
  /\ \A r \in correctionReport :
       /\ BalanceHolds(r.balance)
       /\ r.netImprovement = r.balance.corrected - r.balance.introduced

\* Before any document the balance is balanced.
LEMMA CorrectionStarts == CorrectionInit => CorrectionInv
<1>. SUFFICES ASSUME CorrectionInit PROVE BalanceHolds(NoBalance)
  BY DEF CorrectionInit, CorrectionInv
<1>1. NoBalance \in [CountsOfBalance -> Nat]
  BY DEF NoBalance, CountsOfBalance
<1>. QED  BY <1>1 DEF NoBalance, BalanceHolds

\* Every document that is added, and the report, keep it so.
LEMMA CorrectionGoesOn ==
  ASSUME CorrectionInv, [CorrectionNext]_correctionVars
  PROVE  CorrectionInv'
<1>1. CASE AddDocument
  <2>1. PICK reference, raw, corrected \in Stages \cup {Absent} :
          \/ reference = Absent /\ UNCHANGED balance
          \/ /\ reference # Absent
             /\ \E r \in Opcodes(reference, Materialized(raw)),
                   c \in Opcodes(reference, Materialized(corrected)) :
                  balance' = Add(balance, reference, raw, corrected, r, c)
    BY <1>1 DEF AddDocument
  <2>2. correctionReport' = correctionReport
    BY <1>1 DEF AddDocument
  <2>3. \A x \in Stages : Len(x) \in Nat
    BY CorrectionAssumption, BoundedLength DEF Stages
  <2>4. \A x \in Stages \cup {Absent} : Len(Materialized(x)) \in Nat
    BY <2>3 DEF Materialized
  <2>5. BalanceHolds(balance')
    <3>1. CASE UNCHANGED balance
      BY <3>1 DEF CorrectionInv
    <3>2. CASE ~UNCHANGED balance
      <4>1. reference # Absent /\ reference \in Stages /\ Len(reference) \in Nat
        BY <2>1, <2>3, <3>2
      <4>2. PICK r \in Opcodes(reference, Materialized(raw)),
                 c \in Opcodes(reference, Materialized(corrected)) :
              balance' = Add(balance, reference, raw, corrected, r, c)
        BY <2>1, <3>2
      <4>3. Len(Materialized(raw)) \in Nat /\ Len(Materialized(corrected)) \in Nat /\ BalanceHolds(balance)
        BY <2>4 DEF CorrectionInv
      <4>. QED  BY <4>1, <4>2, <4>3, AddKeepsBalance
    <3>. QED  BY <3>1, <3>2
  <2>. QED  BY <2>2, <2>5 DEF CorrectionInv
<1>2. CASE CloseBalance
  BY <1>2 DEF CloseBalance, CorrectionInv
<1>3. CASE UNCHANGED correctionVars
  BY <1>3 DEF correctionVars, CorrectionInv
<1>. QED  BY <1>1, <1>2, <1>3 DEF CorrectionNext

\* What is kept is enough for the report to add up.
LEMMA CorrectionHolds == CorrectionInv => CorrectionAddsUp
<1>. SUFFICES ASSUME CorrectionInv, NEW r \in correctionReport
              PROVE  LET b == r.balance IN
                     /\ r.netImprovement = b.errorsBefore - b.errorsAfter
                     /\ b.errorsBefore = b.corrected + b.kept
                     /\ b.errorsAfter = b.introduced + b.kept
                     /\ b.improvement + b.regression + b.noChange = b.documents
                     /\ b.rawEdits <= b.rawTotal /\ b.sysInsertions <= b.sysTotal
                     /\ b.overNormalized <= b.correctOcr
  BY DEF CorrectionAddsUp
<1>. DEFINE b == r.balance
<1>1. BalanceHolds(b) /\ r.netImprovement = b.corrected - b.introduced
  BY DEF CorrectionInv
<1>2. b.corrected \in Nat /\ b.introduced \in Nat /\ b.kept \in Nat
  BY <1>1 DEF BalanceHolds, CountsOfBalance
<1>. HIDE DEF b
<1>3. r.netImprovement = b.errorsBefore - b.errorsAfter
  BY <1>1, <1>2 DEF BalanceHolds
<1>. QED  BY <1>1, <1>3 DEF BalanceHolds, b

-----------------------------------------------------------------------------
(* The survival of the entities.                                           *)

\* An entity of the output, as it lies in the reference.
Moved(e, position) ==
  [label |-> e.label, start |-> position[e.start],
   end |-> Max({position[e.start], position[e.end]})]
TurnOfRemap(entities, position, g) ==
  [n \in 0 .. Len(entities) |->
     IF n = 0 THEN <<>> ELSE Append(g[n - 1], Moved(entities[n], position))]

\* A sequence of m elements, and one more.
LEMMA AppendIs ==
  ASSUME NEW m \in Nat, NEW T, NEW s \in [1 .. m -> T], NEW x \in T
  PROVE  Append(s, x) = [k \in 1 .. m + 1 |-> IF k \in 1 .. m THEN s[k] ELSE x]
<1>1. s \in Seq(T) /\ Len(s) = m
  OBVIOUS
<1>. DEFINE l == Append(s, x)
            r == [k \in 1 .. m + 1 |-> IF k \in 1 .. m THEN s[k] ELSE x]
<1>2. l \in Seq(T) /\ Len(l) = m + 1
  BY <1>1
<1>3. \A k \in 1 .. m + 1 : l[k] = IF k \in 1 .. m THEN s[k] ELSE x
  BY <1>1
<1>4. r \in Seq(T) /\ Len(r) = m + 1
  <2>1. r \in [1 .. m + 1 -> T] /\ m + 1 \in Nat
    OBVIOUS
  <2>. HIDE DEF r
  <2>. QED  BY <2>1
<1>5. \A k \in 1 .. m + 1 : l[k] = r[k]
  BY <1>3
<1>. HIDE DEF l, r
<1>6. l = r
  BY <1>2, <1>4, <1>5, SeqEqual
<1>. QED  BY <1>6 DEF l, r

\* Every entity is moved, and none is lost.
LEMMA RemapMovesEach ==
  ASSUME NEW entities, Len(entities) \in Nat, NEW position
  PROVE  Remap(entities, position) = [k \in 1 .. Len(entities) |-> Moved(entities[k], position)]
<1>. DEFINE N == Len(entities)
            Solves(h) == h = TurnOfRemap(entities, position, h)
            moved == [n \in 0 .. N |-> [k \in 1 .. n |-> Moved(entities[k], position)]]
            remapped == CHOOSE h : Solves(h)
<1>1. Remap(entities, position) = remapped[N]
  <2>1. Remap(entities, position) = (CHOOSE h : h = [n \in 0 .. Len(entities) |->
          IF n = 0 THEN <<>> ELSE Append(h[n - 1], Moved(entities[n], position))])[N]
    BY DEF Remap, Moved
  <2>. QED  BY <2>1 DEF TurnOfRemap
<1>2. \A n \in 0 .. N : n # 0 => n - 1 \in 0 .. N /\ n \in Nat
  OBVIOUS
<1>3. ASSUME NEW n \in 0 .. N
      PROVE  moved[n] = IF n = 0 THEN <<>> ELSE Append(moved[n - 1], Moved(entities[n], position))
  <2>1. CASE n = 0
    BY <2>1
  <2>2. CASE n # 0
    <3>. DEFINE before == moved[n - 1]
    <3>1. before = [k \in 1 .. n - 1 |-> Moved(entities[k], position)] /\ n - 1 \in Nat /\ n \in Nat
      BY <1>2, <2>2
    <3>2. Append(before, Moved(entities[n], position))
            = [k \in 1 .. n |-> Moved(entities[k], position)]
      <4>. DEFINE m == n - 1
                  x == Moved(entities[n], position)
      <4>1. n = m + 1 /\ m \in Nat
        BY <3>1
      <4>2. Append(before, x) = [k \in 1 .. m + 1 |-> IF k \in 1 .. m THEN before[k] ELSE x]
        <5>. DEFINE T == {Moved(entities[k], position) : k \in 1 .. N}
        <5>1. x \in T /\ \A k \in 1 .. m : before[k] \in T
          BY <4>1
        <5>2. before = [k \in 1 .. m |-> before[k]] /\ DOMAIN before = 1 .. m
          BY <3>1
        <5>. HIDE DEF before, m, x, T
        <5>3. before \in [1 .. m -> T]
          BY <5>1, <5>2
        <5>. QED  BY <4>1, <5>1, <5>3, AppendIs
      <4>. QED  BY <3>1, <4>1, <4>2
    <3>. QED  BY <2>2, <3>2
  <2>. QED  BY <2>1, <2>2
<1>4. Solves(moved)
  BY <1>3 DEF TurnOfRemap
<1>. HIDE DEF Solves
<1>5. Solves(remapped)
  BY <1>4
<1>. HIDE DEF remapped
<1>6. \A n \in 0 .. N : remapped[n] = IF n = 0 THEN <<>>
                          ELSE Append(remapped[n - 1], Moved(entities[n], position))
  BY <1>5 DEF Solves, TurnOfRemap
<1>7. \A n \in 0 .. N : remapped[n] = moved[n]
  <2>. DEFINE Bad == {n \in 0 .. N : remapped[n] # moved[n]}
  <2>. SUFFICES ASSUME Bad # {} PROVE FALSE
    OBVIOUS
  <2>1. Bad \subseteq Nat
    OBVIOUS
  <2>2. PICK n \in Bad : \A m \in Bad : n <= m
    BY <2>1, LeastNat
  <2>3. n \in 0 .. N /\ remapped[n] # moved[n]
    OBVIOUS
  <2>4. CASE n = 0
    BY <1>3, <1>6, <2>3, <2>4
  <2>5. CASE n # 0
    <3>1. n - 1 \in 0 .. N /\ ~ (n <= n - 1)
      BY <1>2, <2>3, <2>5
    <3>2. remapped[n - 1] = moved[n - 1]
      BY <2>2, <3>1
    <3>. HIDE DEF moved
    <3>. QED  BY <1>3, <1>6, <2>3, <2>5, <3>2
  <2>. QED  BY <2>4, <2>5
<1>. QED  BY <1>1, <1>7

\* Spans of a text.
IsSpan(e) == e.start \in Int /\ e.end \in Int
AreSpans(list) == Len(list) \in Nat /\ \A k \in 1 .. Len(list) : IsSpan(list[k])

\* What two spans share, and what they span together.
LEMMA OverlapsAreNumbers ==
  ASSUME NEW a, NEW b, IsSpan(a), IsSpan(b)
  PROVE  /\ Shared(a, b) \in Nat /\ Spanned(a, b) \in Int
         /\ Shared(a, b) = LET high == IF a.end <= b.end THEN a.end ELSE b.end
                               low == IF a.start >= b.start THEN a.start ELSE b.start
                           IN IF 0 >= high - low THEN 0 ELSE high - low
<1>1. a.start \in Int /\ b.start \in Int /\ a.end \in Int /\ b.end \in Int
  BY DEF IsSpan
<1>2. Shared(a, b) = LET high == IF a.end <= b.end THEN a.end ELSE b.end
                         low == IF a.start >= b.start THEN a.start ELSE b.start
                     IN IF 0 >= high - low THEN 0 ELSE high - low
  BY <1>1 DEF Shared
<1>3. Shared(a, b) \in Nat
  BY <1>1, <1>2
<1>4. Spanned(a, b) \in Int
  BY <1>1, <1>3 DEF Spanned
<1>. QED  BY <1>2, <1>3, <1>4

\* A candidate pairs places of both lists, and its overlap is a fraction.
Overlap(refs, hyps, c) == Shared(refs[c[1]], hyps[c[2]])
Span(refs, hyps, c) == Spanned(refs[c[1]], hyps[c[2]])

\* The candidates are finitely many, each a pair of places whose overlap is a
\* fraction.
LEMMA CandidatesAre ==
  ASSUME NEW refs, NEW hyps, AreSpans(refs), AreSpans(hyps)
  PROVE  /\ IsFiniteSet(Candidates(refs, hyps))
         /\ \A c \in Candidates(refs, hyps) :
              /\ c = <<c[1], c[2]>>
              /\ c[1] \in 1 .. Len(refs) /\ c[2] \in 1 .. Len(hyps)
              /\ c[1] \in Nat /\ c[2] \in Nat
              /\ Overlap(refs, hyps, c) \in Int
              /\ Span(refs, hyps, c) \in Int /\ Span(refs, hyps, c) > 0
<1>1. Len(refs) \in Nat /\ Len(hyps) \in Nat
  BY DEF AreSpans
<1>2. Candidates(refs, hyps) \in SUBSET ((1 .. Len(refs)) \X (1 .. Len(hyps)))
  BY DEF Candidates, Indices
<1>3. IsFiniteSet((1 .. Len(refs)) \X (1 .. Len(hyps)))
  <2>1. IsFiniteSet(1 .. Len(refs)) /\ IsFiniteSet(1 .. Len(hyps))
    BY <1>1, CountFromOne
  <2>. QED  BY <2>1, FS_Product
<1>4. IsFiniteSet(Candidates(refs, hyps))
  BY <1>2, <1>3, FS_Subset
<1>5. ASSUME NEW c \in Candidates(refs, hyps)
      PROVE  /\ c = <<c[1], c[2]>>
             /\ c[1] \in 1 .. Len(refs) /\ c[2] \in 1 .. Len(hyps)
             /\ c[1] \in Nat /\ c[2] \in Nat
             /\ Overlap(refs, hyps, c) \in Int
             /\ Span(refs, hyps, c) \in Int /\ Span(refs, hyps, c) > 0
  <2>1. c \in (1 .. Len(refs)) \X (1 .. Len(hyps)) /\ Compatible(refs[c[1]], hyps[c[2]])
    BY DEF Candidates, Indices
  <2>2. c = <<c[1], c[2]>> /\ c[1] \in 1 .. Len(refs) /\ c[2] \in 1 .. Len(hyps)
    BY <2>1
  <2>3. c[1] \in Nat /\ c[2] \in Nat
    BY <1>1, <2>2
  <2>4. IsSpan(refs[c[1]]) /\ IsSpan(hyps[c[2]])
    BY <2>2 DEF AreSpans
  <2>5. Overlap(refs, hyps, c) \in Int /\ Span(refs, hyps, c) \in Int
    BY <2>4, OverlapsAreNumbers DEF Overlap, Span
  <2>6. Span(refs, hyps, c) > 0
    BY <2>1 DEF Compatible, Span
  <2>. QED  BY <2>2, <2>3, <2>5, <2>6
<1>. QED  BY <1>4, <1>5

\* The order in which the candidates are tried is one.
ByOverlap(refs, hyps) ==
  {p \in Candidates(refs, hyps) \X Candidates(refs, hyps) : OverlapsMore(refs, hyps, p[1], p[2])}

\* No two candidates have the same rank.
LEMMA OverlapIsAnOrder ==
  ASSUME NEW refs, NEW hyps, AreSpans(refs), AreSpans(hyps)
  PROVE  StrictOrder(ByOverlap(refs, hyps), Candidates(refs, hyps))
<1>. DEFINE C == Candidates(refs, hyps)
            o(c) == Overlap(refs, hyps, c)
            s(c) == Span(refs, hyps, c)
            R == ByOverlap(refs, hyps)
<1>1. \A c \in C : /\ c = <<c[1], c[2]>> /\ c[1] \in Nat /\ c[2] \in Nat
                   /\ o(c) \in Int /\ s(c) \in Int /\ s(c) > 0
  BY CandidatesAre
<1>2. \A c, d \in C : <<c, d>> \in R <=>
         \/ o(c) * s(d) > o(d) * s(c)
         \/ o(c) * s(d) = o(d) * s(c) /\ (c[1] < d[1] \/ (c[1] = d[1] /\ c[2] < d[2]))
  BY DEF ByOverlap, OverlapsMore, Overlap, Span
<1>. HIDE DEF C, o, s, R
<1>3. \A c \in C : <<c, c>> \notin R
  <2>. SUFFICES ASSUME NEW c \in C, <<c, c>> \in R PROVE FALSE
    OBVIOUS
  <2>1. o(c) * s(c) \in Int /\ c[1] \in Nat /\ c[2] \in Nat
    BY <1>1
  <2>. QED  BY <1>2, <2>1
<1>4. ASSUME NEW c \in C, NEW d \in C, NEW e \in C, <<c, d>> \in R, <<d, e>> \in R
      PROVE  <<c, e>> \in R
  <2>1. /\ o(c) \in Int /\ o(d) \in Int /\ o(e) \in Int
        /\ s(c) \in Int /\ s(d) \in Int /\ s(e) \in Int /\ s(c) > 0 /\ s(d) > 0 /\ s(e) > 0
    BY <1>1
  <2>2. /\ o(c) * s(d) \in Int /\ o(d) * s(c) \in Int /\ o(d) * s(e) \in Int /\ o(e) * s(d) \in Int
        /\ o(c) * s(e) \in Int /\ o(e) * s(c) \in Int
    BY <2>1
  <2>3. o(c) * s(d) >= o(d) * s(c) /\ o(d) * s(e) >= o(e) * s(d)
    BY <1>2, <1>4, <2>2
  <2>4. /\ o(c) * s(e) >= o(e) * s(c)
        /\ o(c) * s(e) = o(e) * s(c) => o(c) * s(d) = o(d) * s(c) /\ o(d) * s(e) = o(e) * s(d)
    <3>. DEFINE o1 == o(c)
                o2 == o(d)
                o3 == o(e)
                s1 == s(c)
                s2 == s(d)
                s3 == s(e)
    <3>1. /\ o1 \in Int /\ o2 \in Int /\ o3 \in Int
          /\ s1 \in Int /\ s2 \in Int /\ s3 \in Int /\ s1 > 0 /\ s2 > 0 /\ s3 > 0
      BY <2>1
    <3>2. o1 * s2 >= o2 * s1 /\ o2 * s3 >= o3 * s2
      BY <2>3
    <3>. HIDE DEF o1, o2, o3, s1, s2, s3
    <3>3. /\ o1 * s3 >= o3 * s1
          /\ o1 * s3 = o3 * s1 => o1 * s2 = o2 * s1 /\ o2 * s3 = o3 * s2
      BY ONLY <3>1, <3>2, FractionsAreOrdered
    <3>. QED  BY ONLY <3>3 DEF o1, o2, o3, s1, s2, s3
  <2>5. CASE o(c) * s(e) = o(e) * s(c)
    <3>1. /\ c[1] < d[1] \/ (c[1] = d[1] /\ c[2] < d[2])
          /\ d[1] < e[1] \/ (d[1] = e[1] /\ d[2] < e[2])
      BY <1>2, <1>4, <2>2, <2>4, <2>5
    <3>2. c[1] < e[1] \/ (c[1] = e[1] /\ c[2] < e[2])
      BY <1>1, <3>1
    <3>. QED  BY <1>2, <2>5, <3>2
  <2>6. CASE o(c) * s(e) # o(e) * s(c)
    <3>1. o(c) * s(e) > o(e) * s(c)
      BY <2>2, <2>4, <2>6
    <3>. QED  BY <1>2, <3>1
  <2>. QED  BY <2>5, <2>6
<1>5. ASSUME NEW c \in C, NEW d \in C, c # d
      PROVE  <<c, d>> \in R \/ <<d, c>> \in R
  <2>1. o(c) * s(d) \in Int /\ o(d) * s(c) \in Int
    BY <1>1
  <2>2. CASE o(c) * s(d) = o(d) * s(c)
    <3>1. /\ c[1] \in Nat /\ c[2] \in Nat /\ d[1] \in Nat /\ d[2] \in Nat
          /\ c[1] # d[1] \/ c[2] # d[2]
      BY <1>1, <1>5
    <3>2. \/ c[1] < d[1] \/ (c[1] = d[1] /\ c[2] < d[2])
          \/ d[1] < c[1] \/ (d[1] = c[1] /\ d[2] < c[2])
      BY <3>1
    <3>. QED  BY <1>2, <2>2, <3>2
  <2>3. CASE o(c) * s(d) # o(d) * s(c)
    <3>1. o(c) * s(d) > o(d) * s(c) \/ o(d) * s(c) > o(c) * s(d)
      BY <2>1, <2>3
    <3>. QED  BY <1>2, <3>1
  <2>. QED  BY <2>2, <2>3
<1>6. StrictOrder(R, C)
  BY <1>3, <1>4, <1>5 DEF StrictOrder
<1>. QED  BY <1>6 DEF R, C

\* The sequence in which they are tried holds every candidate.
LEMMA CandidatesInOrder ==
  ASSUME NEW refs, NEW hyps, AreSpans(refs), AreSpans(hyps),
         NEW s, s = InOrderOfOverlap(refs, hyps)
  PROVE  /\ Len(s) \in Nat /\ DOMAIN s = 1 .. Len(s)
         /\ \A k \in 1 .. Len(s) : s[k] \in Candidates(refs, hyps)
         /\ \A j, k \in 1 .. Len(s) : j < k => OverlapsMore(refs, hyps, s[j], s[k])
         /\ \A c \in Candidates(refs, hyps) : \E k \in 1 .. Len(s) : s[k] = c
<1>. DEFINE C == Candidates(refs, hyps)
            R == ByOverlap(refs, hyps)
            n == Cardinality(C)
            Sorted(f) == \A j, k \in DOMAIN f : j < k => OverlapsMore(refs, hyps, f[j], f[k])
            rank == [c \in C |-> RankIn(R, C, c)]
            t == ByRank(C, R)
<1>1. IsFiniteSet(C) /\ n \in Nat /\ StrictOrder(R, C)
  BY CandidatesAre, OverlapIsAnOrder, FS_CardinalityType
<1>2. s = CHOOSE f \in [1 .. n -> C] : Sorted(f)
  BY DEF InOrderOfOverlap
<1>3. \A c, d \in C : <<c, d>> \in R <=> OverlapsMore(refs, hyps, c, d)
  BY DEF ByOverlap
<1>. HIDE DEF C, R, n
<1>4. \A k \in 1 .. n : t[k] \in C /\ RankIn(R, C, t[k]) = k
  <2>. SUFFICES ASSUME NEW k \in 1 .. n PROVE t[k] \in C /\ RankIn(R, C, t[k]) = k
    OBVIOUS
  <2>1. IsReached(R, C, k)
    BY <1>1, RanksAreReached DEF n
  <2>2. t[k] = CHOOSE i \in C : RankIn(R, C, i) = k
    BY DEF ByRank, RankIn, Ahead, n
  <2>. QED  BY <2>1, <2>2 DEF IsReached
<1>5. t \in [1 .. n -> C]
  BY <1>4 DEF ByRank, n
<1>6. Sorted(t)
  <2>. SUFFICES ASSUME NEW j \in 1 .. n, NEW k \in 1 .. n, j < k
                PROVE  OverlapsMore(refs, hyps, t[j], t[k])
    BY <1>5
  <2>1. t[j] \in C /\ t[k] \in C /\ RankIn(R, C, t[j]) = j /\ RankIn(R, C, t[k]) = k
    BY <1>4
  <2>. HIDE DEF t
  <2>2. t[j] # t[k] /\ ~ (k < j)
    BY <2>1
  <2>3. <<t[k], t[j]>> \notin R
    BY <1>1, <2>1, <2>2, RanksFollow
  <2>4. <<t[j], t[k]>> \in R
    BY <1>1, <2>1, <2>2, <2>3 DEF StrictOrder
  <2>. QED  BY <1>3, <2>1, <2>4
<1>. HIDE DEF t, Sorted
<1>7. s \in [1 .. n -> C] /\ Sorted(s)
  BY <1>2, <1>5, <1>6
<1>8. Len(s) = n /\ DOMAIN s = 1 .. n
  BY <1>1, <1>7
<1>9. \A j, k \in 1 .. n : j < k => OverlapsMore(refs, hyps, s[j], s[k])
  BY <1>7, <1>8 DEF Sorted
<1>10. \A j, k \in 1 .. n : s[j] = s[k] => j = k
  <2>. SUFFICES ASSUME NEW j \in 1 .. n, NEW k \in 1 .. n, s[j] = s[k], j # k PROVE FALSE
    OBVIOUS
  <2>1. OverlapsMore(refs, hyps, s[j], s[j])
    <3>1. j < k \/ k < j
      BY <1>1
    <3>. QED  BY <1>9, <3>1
  <2>2. s[j] \in C
    BY <1>7
  <2>. QED  BY <1>1, <1>3, <2>1, <2>2 DEF StrictOrder
<1>11. \A c \in C : \E k \in 1 .. n : s[k] = c
  <2>1. IsFiniteSet(1 .. n) /\ Cardinality(1 .. n) = n
    BY <1>1, CountFromOne
  <2>2. s \in Injection(1 .. n, C)
    BY <1>7, <1>10 DEF Injection, IsInjective
  <2>3. s \in Surjection(1 .. n, C)
    BY <1>1, <2>1, <2>2, FS_Injection DEF n
  <2>. QED  BY <2>3 DEF Surjection
<1>. QED  BY <1>1, <1>7, <1>8, <1>9, <1>11 DEF C, n

\* The pairs that are kept, one candidate after the other.
KeptNext(s, before, k) == IF Taken(before, s[k]) THEN before ELSE before \cup {s[k]}
TurnOfGreed(s, g, n) == [k \in 0 .. n |-> IF k = 0 THEN {} ELSE KeptNext(s, g[k - 1], k)]
Greedy(s, n, g) == g = TurnOfGreed(s, g, n)
CanBeGreedy(s, n) == \E g : Greedy(s, n, g)

\* There is always a next step of the greedy choice.
LEMMA GreedGoesOn ==
  ASSUME NEW s, NEW n \in Nat
  PROVE  CanBeGreedy(s, n)
<1>. DEFINE Bad == {m \in Nat : ~CanBeGreedy(s, m)}
<1>. SUFFICES ASSUME Bad # {} PROVE FALSE
  OBVIOUS
<1>1. PICK m \in Bad : \A k \in Bad : m <= k
  BY LeastNat
<1>2. m \in Nat /\ ~CanBeGreedy(s, m)
  OBVIOUS
<1>3. CASE m = 0
  <2>. DEFINE g == [k \in 0 .. 0 |-> {}]
  <2>1. \A k \in 0 .. 0 : k = 0
    OBVIOUS
  <2>2. Greedy(s, 0, g)
    BY <2>1 DEF Greedy, TurnOfGreed
  <2>. QED  BY <1>2, <1>3, <2>2 DEF CanBeGreedy
<1>4. CASE m # 0
  <2>1. m - 1 \in Nat /\ ~ (m <= m - 1)
    BY <1>2, <1>4
  <2>2. CanBeGreedy(s, m - 1)
    BY <1>1, <2>1
  <2>3. PICK g : Greedy(s, m - 1, g)
    BY <2>2 DEF CanBeGreedy
  <2>. DEFINE h == [k \in 0 .. m |-> IF k = m THEN KeptNext(s, g[m - 1], m) ELSE g[k]]
  <2>4. \A k \in 0 .. m - 1 : g[k] = IF k = 0 THEN {} ELSE KeptNext(s, g[k - 1], k)
    BY <2>3 DEF Greedy, TurnOfGreed
  <2>5. ASSUME NEW k \in 0 .. m
        PROVE  h[k] = IF k = 0 THEN {} ELSE KeptNext(s, h[k - 1], k)
    <3>1. CASE k = m
      <4>1. h[k] = KeptNext(s, g[m - 1], m) /\ h[m - 1] = g[m - 1] /\ k # 0
        BY <2>1, <3>1, <1>4
      <4>. QED  BY <3>1, <4>1
    <3>2. CASE k # m
      <4>1. k \in 0 .. m - 1 /\ (k # 0 => k - 1 \in 0 .. m /\ k - 1 # m)
        BY <1>2, <3>2
      <4>2. h[k] = g[k] /\ (k # 0 => h[k - 1] = g[k - 1])
        BY <3>2, <4>1
      <4>. HIDE DEF h
      <4>. QED  BY <2>4, <4>1, <4>2
    <3>. QED  BY <3>1, <3>2
  <2>6. Greedy(s, m, h)
    BY <2>5 DEF Greedy, TurnOfGreed
  <2>. QED  BY <1>2, <2>6 DEF CanBeGreedy
<1>. QED  BY <1>3, <1>4

\* The matching is what is kept after the last candidate.
LEMMA AlignmentIsGreedy ==
  ASSUME NEW refs, NEW hyps, NEW s, s = InOrderOfOverlap(refs, hyps), Len(s) \in Nat
  PROVE  \E g : /\ AlignEntities(refs, hyps) = g[Len(s)] /\ g[0] = {}
                /\ \A k \in 1 .. Len(s) : g[k] = KeptNext(s, g[k - 1], k)
<1>. DEFINE g == CHOOSE h : Greedy(s, Len(s), h)
<1>1. AlignEntities(refs, hyps) = g[Len(s)]
  <2>1. AlignEntities(refs, hyps) = (CHOOSE h : h = [n \in 0 .. Len(s) |->
          IF n = 0 THEN {}
          ELSE IF Taken(h[n - 1], s[n]) THEN h[n - 1] ELSE h[n - 1] \cup {s[n]}])[Len(s)]
    BY DEF AlignEntities
  <2>. QED  BY <2>1 DEF Greedy, TurnOfGreed, KeptNext
<1>2. Greedy(s, Len(s), g)
  BY GreedGoesOn DEF CanBeGreedy
<1>. HIDE DEF g
<1>3. \A k \in 0 .. Len(s) : g[k] = IF k = 0 THEN {} ELSE KeptNext(s, g[k - 1], k)
  BY <1>2 DEF Greedy, TurnOfGreed
<1>4. g[0] = {} /\ \A k \in 1 .. Len(s) : g[k] = KeptNext(s, g[k - 1], k)
  BY <1>3
<1>. QED  BY <1>1, <1>4

\* What is kept of the first k candidates: none is paired twice, none of them
\* is left that could be, and one that is in nobody's way is kept.
IsMatching(M) == \A m1, m2 \in M : m1[1] = m2[1] \/ m1[2] = m2[2] => m1 = m2
Clear(s, j) == \A i \in 1 .. j - 1 : s[i][1] # s[j][1] /\ s[i][2] # s[j][2]
KeptSoFar(s, M, k) ==
  /\ \A m \in M : \E j \in 1 .. k : m = s[j]
  /\ IsMatching(M)
  /\ \A j \in 1 .. k : Taken(M, s[j]) /\ (Clear(s, j) => s[j] \in M)

\* The next candidate is kept unless one of its entities is taken, and then the
\* pairs kept so far are still a matching.
LEMMA KeepingOneMore ==
  ASSUME NEW s, NEW M, NEW k \in Nat, k # 0, KeptSoFar(s, M, k - 1)
  PROVE  KeptSoFar(s, KeptNext(s, M, k), k)
<1>. DEFINE after == KeptNext(s, M, k)
<1>1. after = IF Taken(M, s[k]) THEN M ELSE M \cup {s[k]}
  BY DEF KeptNext
<1>. HIDE DEF after
<1>2. k - 1 \in Nat /\ \A j \in 1 .. k : j \in 1 .. k - 1 \/ j = k
  OBVIOUS
<1>3. \A j \in 1 .. k - 1 : j \in 1 .. k
  OBVIOUS
<1>4. k \in 1 .. k
  OBVIOUS
<1>5. \A m \in after : \E j \in 1 .. k : m = s[j]
  BY <1>1, <1>3, <1>4 DEF KeptSoFar
<1>6. IsMatching(after)
  BY <1>1 DEF KeptSoFar, IsMatching, Taken
<1>7. ASSUME NEW j \in 1 .. k PROVE Taken(after, s[j]) /\ (Clear(s, j) => s[j] \in after)
  <2>1. CASE j \in 1 .. k - 1
    BY <1>1, <2>1 DEF KeptSoFar, Taken
  <2>2. CASE j = k
    <3>1. CASE Taken(M, s[k])
      <4>1. ~ Clear(s, k)
        <5>1. PICK m \in M : m[1] = s[k][1] \/ m[2] = s[k][2]
          BY <3>1 DEF Taken
        <5>2. PICK i \in 1 .. k - 1 : m = s[i]
          BY DEF KeptSoFar
        <5>. QED  BY <5>1, <5>2 DEF Clear
      <4>. QED  BY <1>1, <2>2, <3>1, <4>1
    <3>2. CASE ~Taken(M, s[k])
      BY <1>1, <2>2, <3>2 DEF Taken
    <3>. QED  BY <3>1, <3>2
  <2>. QED  BY <1>2, <2>1, <2>2
<1>8. KeptSoFar(s, after, k)
  BY <1>5, <1>6, <1>7 DEF KeptSoFar
<1>. QED  BY <1>8 DEF after

\* So it is of the whole alignment.
LEMMA AlignmentKeeps ==
  ASSUME NEW refs, NEW hyps, NEW s, s = InOrderOfOverlap(refs, hyps), Len(s) \in Nat
  PROVE  KeptSoFar(s, AlignEntities(refs, hyps), Len(s))
<1>1. PICK g : /\ AlignEntities(refs, hyps) = g[Len(s)] /\ g[0] = {}
               /\ \A k \in 1 .. Len(s) : g[k] = KeptNext(s, g[k - 1], k)
  BY AlignmentIsGreedy
<1>. DEFINE Bad == {k \in 0 .. Len(s) : ~KeptSoFar(s, g[k], k)}
<1>2. Bad = {}
  <2>. SUFFICES ASSUME Bad # {} PROVE FALSE
    OBVIOUS
  <2>1. Bad \subseteq Nat
    OBVIOUS
  <2>2. PICK k \in Bad : \A l \in Bad : k <= l
    BY <2>1, LeastNat
  <2>3. k \in 0 .. Len(s) /\ ~KeptSoFar(s, g[k], k) /\ k \in Nat
    BY <2>1
  <2>4. CASE k = 0
    BY <1>1, <2>3, <2>4 DEF KeptSoFar, IsMatching
  <2>5. CASE k # 0
    <3>1. k - 1 \in 0 .. Len(s) /\ ~ (k <= k - 1) /\ k \in 1 .. Len(s)
      BY <2>3, <2>5
    <3>2. KeptSoFar(s, g[k - 1], k - 1)
      BY <2>2, <3>1
    <3>. QED  BY <1>1, <2>3, <2>5, <3>1, <3>2, KeepingOneMore
  <2>. QED  BY <2>4, <2>5
<1>3. Len(s) \in 0 .. Len(s)
  OBVIOUS
<1>. QED  BY <1>1, <1>2, <1>3

\* align_entities: a matching of candidates that no candidate can be added to.
LEMMA AlignmentIsMaximal ==
  ASSUME NEW refs, NEW hyps, AreSpans(refs), AreSpans(hyps), NEW M, M = AlignEntities(refs, hyps)
  PROVE  /\ M \subseteq Candidates(refs, hyps) /\ IsMatching(M)
         /\ \A c \in Candidates(refs, hyps) : Taken(M, c)
<1>. DEFINE s == InOrderOfOverlap(refs, hyps)
<1>1. /\ Len(s) \in Nat
      /\ \A k \in 1 .. Len(s) : s[k] \in Candidates(refs, hyps)
      /\ \A c \in Candidates(refs, hyps) : \E k \in 1 .. Len(s) : s[k] = c
  BY CandidatesInOrder
<1>2. KeptSoFar(s, M, Len(s))
  BY <1>1, AlignmentKeeps
<1>. HIDE DEF s
<1>. QED  BY <1>1, <1>2 DEF KeptSoFar

\* What two spans share is no more than they span, and as much if they are one.
LEMMA SharedIsSpanned ==
  ASSUME NEW a1 \in Int, NEW a2 \in Int, NEW b1 \in Int, NEW b2 \in Int, a1 < a2, b1 < b2,
         NEW high, high = (IF a2 <= b2 THEN a2 ELSE b2),
         NEW low, low = (IF a1 >= b1 THEN a1 ELSE b1),
         NEW x, x = IF 0 >= high - low THEN 0 ELSE high - low
  PROVE  /\ 2 * x <= (a2 - a1) + (b2 - b1)
         /\ 2 * x = (a2 - a1) + (b2 - b1) => a1 = b1 /\ a2 = b2
<1>1. CASE a2 <= b2 /\ a1 >= b1  BY <1>1
<1>2. CASE a2 <= b2 /\ a1 < b1  BY <1>2
<1>3. CASE a2 > b2 /\ a1 >= b1  BY <1>3
<1>4. CASE a2 > b2 /\ a1 < b1  BY <1>4
<1>. QED  BY <1>1, <1>2, <1>3, <1>4

\* Two spans that share as much as they span are one.
LEMMA FullOverlap ==
  ASSUME NEW a, NEW b, IsSpan(a), IsSpan(b), a.start < a.end, b.start < b.end
  PROVE  /\ Shared(a, b) <= Spanned(a, b)
         /\ Shared(a, b) = Spanned(a, b) => a.start = b.start /\ a.end = b.end
<1>. DEFINE a1 == a.start
            a2 == a.end
            b1 == b.start
            b2 == b.end
            high == IF a2 <= b2 THEN a2 ELSE b2
            low == IF a1 >= b1 THEN a1 ELSE b1
            x == Shared(a, b)
            y == Spanned(a, b)
<1>1. a1 \in Int /\ a2 \in Int /\ b1 \in Int /\ b2 \in Int /\ a1 < a2 /\ b1 < b2
  BY DEF IsSpan
<1>2. x \in Int /\ y \in Int /\ x = IF 0 >= high - low THEN 0 ELSE high - low
  BY OverlapsAreNumbers
<1>3. y = (a2 - a1) + (b2 - b1) - x
  BY DEF Spanned
<1>4. high = (IF a2 <= b2 THEN a2 ELSE b2) /\ low = (IF a1 >= b1 THEN a1 ELSE b1)
  OBVIOUS
<1>. HIDE DEF a1, a2, b1, b2, high, low, x, y
<1>5. /\ 2 * x <= (a2 - a1) + (b2 - b1)
      /\ 2 * x = (a2 - a1) + (b2 - b1) => a1 = b1 /\ a2 = b2
  BY ONLY <1>1, <1>2, <1>4, SharedIsSpanned
<1>6. x <= y /\ (x = y => a1 = b1 /\ a2 = b2)
  <2>. DEFINE l == (a2 - a1) + (b2 - b1)
  <2>1. x \in Int /\ y \in Int /\ l \in Int /\ y = l - x
    BY ONLY <1>1, <1>2, <1>3
  <2>2. 2 * x <= l /\ (2 * x = l => a1 = b1 /\ a2 = b2)
    BY ONLY <1>5
  <2>. HIDE DEF l
  <2>3. x <= y /\ (x = y => 2 * x = l)
    BY ONLY <2>1, <2>2
  <2>. QED  BY ONLY <2>2, <2>3
<1>. QED  BY <1>6 DEF a1, a2, b1, b2, x, y

\* Of two lists that are the same, without two equal entities, each entity is
\* paired with itself: these overlaps are the best, and compete with no other.
LEMMA SameListsAgree ==
  ASSUME NEW refs, AreSpans(refs),
         \A i \in 1 .. Len(refs) : refs[i].start < refs[i].end
            /\ refs[i] = [label |-> refs[i].label, start |-> refs[i].start, end |-> refs[i].end],
         \A i, j \in 1 .. Len(refs) : refs[i] = refs[j] => i = j,
         NEW i \in 1 .. Len(refs)
  PROVE  <<i, i>> \in AlignEntities(refs, refs)
<1>. DEFINE s == InOrderOfOverlap(refs, refs)
            C == Candidates(refs, refs)
            M == AlignEntities(refs, refs)
            full(c) == Overlap(refs, refs, c) = Span(refs, refs, c)
<1>1. /\ Len(s) \in Nat
      /\ \A k \in 1 .. Len(s) : s[k] \in C
      /\ \A j, k \in 1 .. Len(s) : j < k => OverlapsMore(refs, refs, s[j], s[k])
      /\ \A c \in C : \E k \in 1 .. Len(s) : s[k] = c
  BY CandidatesInOrder
<1>2. KeptSoFar(s, M, Len(s))
  BY <1>1, AlignmentKeeps
<1>3. \A c \in C : /\ c = <<c[1], c[2]>> /\ c[1] \in 1 .. Len(refs) /\ c[2] \in 1 .. Len(refs)
                   /\ Overlap(refs, refs, c) \in Int
                   /\ Span(refs, refs, c) \in Int /\ Span(refs, refs, c) > 0
  BY CandidatesAre
<1>. HIDE DEF s, M
<1>4. \A j \in 1 .. Len(refs) : refs[j].start \in Int /\ refs[j].end \in Int
        /\ refs[j].start < refs[j].end /\ IsSpan(refs[j])
  BY DEF AreSpans, IsSpan
<1>5. ASSUME NEW j \in 1 .. Len(refs) PROVE <<j, j>> \in C /\ full(<<j, j>>)
  <2>1. Shared(refs[j], refs[j]) = refs[j].end - refs[j].start
    BY <1>4, OverlapsAreNumbers
  <2>2. Spanned(refs[j], refs[j]) = refs[j].end - refs[j].start
    BY <1>4, <2>1 DEF Spanned
  <2>3. Compatible(refs[j], refs[j])
    BY <1>4, <2>1, <2>2 DEF Compatible
  <2>. QED  BY <2>1, <2>2, <2>3 DEF Candidates, Indices, Overlap, Span
<1>6. ASSUME NEW c \in C, full(c) PROVE c[1] = c[2]
  <2>. DEFINE a == refs[c[1]]
              b == refs[c[2]]
  <2>1. c[1] \in 1 .. Len(refs) /\ c[2] \in 1 .. Len(refs)
    BY <1>3
  <2>2. Shared(a, b) = Spanned(a, b) /\ a.label = b.label
    BY <1>6 DEF Candidates, Compatible, Overlap, Span
  <2>3. /\ a.start \in Int /\ a.end \in Int /\ a.start < a.end /\ IsSpan(a)
        /\ b.start \in Int /\ b.end \in Int /\ b.start < b.end /\ IsSpan(b)
    BY <1>4, <2>1
  <2>. HIDE DEF a, b
  <2>6. a.start = b.start /\ a.end = b.end
    BY <2>2, <2>3, FullOverlap
  <2>7. refs[c[1]] = refs[c[2]]
    BY <2>1, <2>2, <2>6 DEF a, b
  <2>. QED  BY <2>1, <2>7
<1>9. ASSUME NEW c \in C PROVE Overlap(refs, refs, c) <= Span(refs, refs, c)
  BY <1>3, <1>4, FullOverlap DEF Overlap, Span
<1>7. PICK k \in 1 .. Len(s) : s[k] = <<i, i>>
  BY <1>1, <1>5
<1>8. Clear(s, k)
  <2>. SUFFICES ASSUME NEW j \in 1 .. k - 1 PROVE s[j][1] # i /\ s[j][2] # i
    BY <1>7 DEF Clear
  <2>1. j \in 1 .. Len(s) /\ j < k
    BY <1>1, <1>7
  <2>2. s[j] \in C /\ OverlapsMore(refs, refs, s[j], s[k]) /\ s[k] \in C
    BY <1>1, <1>7, <2>1
  <2>3. full(s[k])
    BY <1>5, <1>7
  <2>4. s[j][1] = s[j][2] /\ s[j] # s[k]
    <3>. DEFINE c == s[j]
                d == s[k]
                oc == Overlap(refs, refs, c)
                sc == Span(refs, refs, c)
                od == Overlap(refs, refs, d)
                sd == Span(refs, refs, d)
    <3>1. c \in C /\ d \in C
      BY <2>2
    <3>2. oc \in Int /\ sc \in Int /\ sd \in Int /\ sd > 0 /\ oc <= sc /\ od = sd
      BY <1>3, <1>9, <2>3, <3>1
    <3>3. \/ oc * sd > od * sc
          \/ oc * sd = od * sc
      BY <2>2 DEF OverlapsMore, Overlap, Span
    <3>4. sc <= oc
      <4>. HIDE DEF oc, sc, od, sd
      <4>1. sd * sc = sc * sd /\ oc * sd \in Int /\ sc * sd \in Int
        BY ONLY <3>2
      <4>2. sc * sd <= oc * sd
        <5>. DEFINE u == oc * sd
                    v == sc * sd
        <5>1. u \in Int /\ v \in Int /\ (u > v \/ u = v)
          BY ONLY <3>2, <3>3, <4>1
        <5>. HIDE DEF u, v
        <5>2. v <= u
          BY ONLY <5>1
        <5>. QED  BY ONLY <5>2 DEF u, v
      <4>. QED  BY ONLY <3>2, <4>2, ScalingKeepsOrder
    <3>5. oc = sc
      <4>. HIDE DEF oc, sc, od, sd
      <4>. QED  BY ONLY <3>2, <3>4
    <3>6. c[1] = c[2]
      BY <1>6, <3>1, <3>5
    <3>7. c # d
      <4>1. <<c, d>> \in ByOverlap(refs, refs)
        BY <2>2 DEF ByOverlap, C
      <4>2. <<c, c>> \notin ByOverlap(refs, refs)
        BY <3>1, OverlapIsAnOrder DEF StrictOrder, C
      <4>. QED  BY <4>1, <4>2
    <3>. QED  BY <3>6, <3>7
  <2>. HIDE DEF C, full
  <2>5. s[j] = <<s[j][1], s[j][2]>>
    BY <1>3, <2>2
  <2>. QED  BY <1>7, <2>4, <2>5
<1>. QED  BY <1>2, <1>7, <1>8 DEF KeptSoFar, M

\* The only increasing map of the first n numbers to themselves.
LEMMA IncreasingIsIdentity ==
  ASSUME NEW n \in Nat, NEW f, \A k \in 1 .. n : f[k] \in 1 .. n,
         \A k, l \in 1 .. n : k < l => f[k] < f[l]
  PROVE  \A k \in 1 .. n : f[k] = k
<1>0. \A k \in 1 .. n : k \in Nat /\ f[k] \in Nat /\ 1 <= f[k] /\ f[k] <= n /\ 1 <= k /\ k <= n
  OBVIOUS
<1>1. \A k \in 1 .. n : f[k] >= k
  <2>. DEFINE Bad == {k \in 1 .. n : ~ (f[k] >= k)}
  <2>. SUFFICES ASSUME Bad # {} PROVE FALSE
    OBVIOUS
  <2>1. Bad \subseteq Nat
    OBVIOUS
  <2>2. PICK k \in Bad : \A l \in Bad : k <= l
    BY <2>1, LeastNat
  <2>3. k \in 1 .. n /\ f[k] < k /\ 1 <= f[k]
    BY <1>0, <2>2
  <2>4. k - 1 \in 1 .. n /\ k - 1 < k
    BY <1>0, <2>3
  <2>5. f[k - 1] >= k - 1
    BY <2>2, <2>3, <2>4
  <2>6. f[k - 1] < f[k]
    BY <2>3, <2>4
  <2>. QED  BY <1>0, <2>3, <2>4, <2>5, <2>6
<1>2. \A k \in 1 .. n : f[k] <= k
  <2>. DEFINE Bad == {j \in 0 .. n - 1 : ~ (f[n - j] <= n - j)}
  <2>1. Bad = {}
    <3>. SUFFICES ASSUME Bad # {} PROVE FALSE
      OBVIOUS
    <3>1. Bad \subseteq Nat
      OBVIOUS
    <3>2. PICK j \in Bad : \A l \in Bad : j <= l
      BY <3>1, LeastNat
    <3>3. j \in 0 .. n - 1 /\ n - j \in 1 .. n /\ f[n - j] > n - j /\ f[n - j] <= n
      BY <1>0, <3>2
    <3>4. j # 0 /\ j - 1 \in 0 .. n - 1 /\ n - (j - 1) \in 1 .. n /\ n - j < n - (j - 1)
      BY <3>3
    <3>5. f[n - (j - 1)] <= n - (j - 1)
      BY <3>2, <3>3, <3>4
    <3>6. f[n - j] < f[n - (j - 1)]
      BY <3>3, <3>4
    <3>. QED  BY <1>0, <3>3, <3>4, <3>5, <3>6
  <2>2. ASSUME NEW k \in 1 .. n PROVE f[k] <= k
    <3>1. n - k \in 0 .. n - 1 /\ n - (n - k) = k
      OBVIOUS
    <3>. QED  BY <2>1, <3>1
  <2>. QED  BY <2>2
<1>. QED  BY <1>0, <1>1, <1>2

\* An alignment that leaves nothing unpaired pairs each place with itself.
LEMMA FullAlignment ==
  ASSUME NEW t, Len(t) \in Nat, NEW a, IsAlignment(a, t, t), Len(a) = Len(t)
  PROVE  \A k \in 1 .. Len(t) : a[k][1] = k /\ a[k][2] = k
<1>. DEFINE n == Len(t)
            first == [k \in 1 .. n |-> a[k][1]]
            second == [k \in 1 .. n |-> a[k][2]]
<1>1. /\ \A k \in 1 .. n : first[k] \in 1 .. n /\ second[k] \in 1 .. n
      /\ \A k, l \in 1 .. n : k < l => first[k] < first[l] /\ second[k] < second[l]
  BY DEF IsAlignment
<1>2. n \in Nat /\ \A k \in 1 .. n : first[k] = a[k][1] /\ second[k] = a[k][2]
  OBVIOUS
<1>. HIDE DEF n, first, second
<1>3. \A k \in 1 .. n : first[k] = k
  BY <1>1, <1>2, IncreasingIsIdentity
<1>4. \A k \in 1 .. n : second[k] = k
  BY <1>1, <1>2, IncreasingIsIdentity
<1>. QED  BY <1>2, <1>3, <1>4 DEF n

\* The best alignment of a text with itself pairs each word with itself.
LEMMA OpcodesOfSame ==
  ASSUME NEW t, Len(t) \in Nat, NEW a \in Opcodes(t, t)
  PROVE  /\ Len(a) = Len(t) /\ DOMAIN a = 1 .. Len(t)
         /\ \A k \in 1 .. Len(t) : a[k][1] = k /\ a[k][2] = k
<1>. DEFINE n == Len(t)
            all == 1 .. n
            self == Pairing(all, all)
            prices == {Price(x, t, t) : x \in Alignments(t, t)}
<1>1. IsFiniteSet(all) /\ Cardinality(all) = n
  BY CountFromOne
<1>2. self \in Alignments(t, t)
  <2>. DEFINE p == <<all, all>>
  <2>1. p \in (SUBSET Indices(t)) \X (SUBSET Indices(t)) /\ p[1] = all /\ p[2] = all
    BY DEF Indices
  <2>. QED  BY <2>1 DEF Alignments
<1>3. IsAlignment(self, t, t)
  BY <1>2, AlignmentsAreSo
<1>4. Len(self) = n /\ DOMAIN self = 1 .. n
  <2>1. self = [k \in 1 .. n |-> <<InOrder(all)[k], InOrder(all)[k]>>]
    BY <1>1 DEF Pairing
  <2>. HIDE DEF self, all
  <2>. QED  BY <2>1
<1>5. \A k \in 1 .. n : self[k][1] = k /\ self[k][2] = k
  BY <1>3, <1>4, FullAlignment
<1>6. Price(self, t, t) = 0
  <2>1. Mismatches(self, t, t) = 0
    <3>1. {k \in Indices(self) : t[self[k][1]] # t[self[k][2]]} = {}
      BY <1>4, <1>5 DEF Indices
    <3>. QED  BY <3>1, FS_EmptySet DEF Mismatches
  <2>2. Price(self, t, t) = n + n - 2 * n + 0
    BY <1>4, <2>1 DEF Price
  <2>. QED  BY <2>2
<1>. HIDE DEF self, all
<1>7. 0 \in prices /\ \A x \in prices : x \in Nat
  BY <1>2, <1>6, AlignmentsAreSo, PriceOfAlignment
<1>. HIDE DEF prices
<1>8. LeastEdits(t, t) = 0
  <2>1. LeastEdits(t, t) = CHOOSE x \in prices : \A y \in prices : x <= y
    BY DEF LeastEdits, Min, prices
  <2>2. \A y \in prices : 0 <= y
    BY <1>7
  <2>3. \A x \in prices : (\A y \in prices : x <= y) => x = 0
    BY <1>7
  <2>. QED  BY <1>7, <2>1, <2>2, <2>3
<1>9. IsAlignment(a, t, t) /\ Price(a, t, t) = 0
  BY <1>8, AlignmentsAreSo DEF Opcodes
<1>10. Len(a) = n
  BY <1>9, PriceOfAlignment
<1>11. DOMAIN a = 1 .. n
  BY <1>9, <1>10 DEF IsAlignment
<1>. QED  BY <1>9, <1>10, <1>11, FullAlignment

\* Numbers that are bounded have a largest.
LEMMA LargestOf ==
  ASSUME NEW S, S \subseteq Nat, NEW b \in Nat, \A x \in S : x <= b, S # {}
  PROVE  Max(S) \in S /\ \A y \in S : Max(S) >= y
<1>. DEFINE T == {b - x : x \in S}
<1>1. T \subseteq Nat /\ T # {}
  <2>1. ASSUME NEW x \in S PROVE b - x \in Nat
    <3>1. x \in Nat /\ x <= b
      OBVIOUS
    <3>. QED  BY ONLY <3>1, b \in Nat
  <2>2. T \subseteq Nat
    BY ONLY <2>1, Zenon
  <2>3. T # {}
    BY ONLY S # {}, Zenon
  <2>. QED  BY ONLY <2>2, <2>3
<1>2. PICK t \in T : \A u \in T : t <= u
  BY <1>1, LeastNat
<1>3. PICK x \in S : t = b - x
  OBVIOUS
<1>4. \A y \in S : x >= y
  <2>. SUFFICES ASSUME NEW y \in S PROVE x >= y
    OBVIOUS
  <2>1. b - x <= b - y /\ x \in Nat /\ y \in Nat
    BY <1>2, <1>3
  <2>. QED  BY <2>1
<1>. QED  BY <1>4 DEF Max

\* The map of the positions, and that of a text to itself.
LEMMA PositionsAreNumbers ==
  ASSUME NEW reference, NEW hypothesis, Len(reference) \in Nat, Len(hypothesis) \in Nat,
         NEW a \in Opcodes(reference, hypothesis), NEW j \in 0 .. Len(hypothesis)
  PROVE  /\ PositionMap(reference, hypothesis, a)[j] \in Int
         /\ reference = hypothesis => PositionMap(reference, hypothesis, a)[j] = j
<1>. DEFINE p == PositionMap(reference, hypothesis, a)[j]
            paired == \E k \in Indices(a) : a[k][2] = j + 1
            pair == CHOOSE pair \in ToSet(a) : pair[2] = j + 1
            reached == {0} \cup {x[1] : x \in {q \in ToSet(a) : q[2] <= j}}
<1>1. p = IF j = Len(hypothesis) THEN Len(reference)
          ELSE IF paired THEN pair[1] - 1 ELSE Max(reached)
  BY DEF PositionMap
<1>2. IsAlignment(a, reference, hypothesis)
  BY AlignmentsAreSo DEF Opcodes
<1>3. ToSet(a) = {a[k] : k \in 1 .. Len(a)} /\ Indices(a) = 1 .. Len(a)
  BY <1>2 DEF ToSet, IsAlignment, Indices
<1>4. \A x \in ToSet(a) : x[1] \in Nat /\ x[1] <= Len(reference)
  BY <1>2, <1>3 DEF IsAlignment
<1>5. paired => pair \in ToSet(a) /\ pair[2] = j + 1
  BY <1>3
<1>6. Max(reached) \in Nat
  <2>1. /\ reached \subseteq Nat /\ reached # {}
        /\ \A x \in reached : x <= Len(reference)
    BY <1>4
  <2>. HIDE DEF reached
  <2>. QED  BY <2>1, LargestOf
<1>. HIDE DEF pair, reached, paired
<1>7. p \in Int
  BY <1>1, <1>4, <1>5, <1>6
<1>8. ASSUME reference = hypothesis PROVE p = j
  <2>1. Len(a) = Len(hypothesis) /\ \A k \in 1 .. Len(hypothesis) : a[k][1] = k /\ a[k][2] = k
    BY <1>8, OpcodesOfSame
  <2>2. CASE j = Len(hypothesis)
    BY <1>1, <1>8, <2>2
  <2>3. CASE j # Len(hypothesis)
    <3>1. j + 1 \in 1 .. Len(hypothesis)
      BY <2>3
    <3>2. paired
      BY <1>3, <2>1, <3>1 DEF paired
    <3>3. PICK k \in 1 .. Len(hypothesis) : pair = a[k]
      BY <1>3, <1>5, <2>1, <3>2
    <3>4. k = j + 1 /\ pair[1] = j + 1
      BY <1>5, <2>1, <3>2, <3>3
    <3>. QED  BY <1>1, <2>3, <3>2, <3>4
  <2>. QED  BY <2>2, <2>3
<1>. QED  BY <1>7, <1>8

\* The entities a text may have are finitely many.
LEMMA EntitiesAreFinite ==
  ASSUME NEW text, Len(text) \in Nat
  PROVE  IsFiniteSet(EntitiesIn(text))
<1>. DEFINE places == 0 .. Len(text)
            triples == Labels \X (places \X places)
            all == [label : Labels, start : places, end : places]
            f == [p \in triples |-> [label |-> p[1], start |-> p[2][1], end |-> p[2][2]]]
<1>1. IsFiniteSet(places)
  BY FS_Interval
<1>2. IsFiniteSet(triples)
  <2>1. IsFiniteSet(places \X places)
    BY <1>1, FS_Product
  <2>. QED  BY <2>1, EntityAssumption, FS_Product
<1>. HIDE DEF places
<1>3. f \in [triples -> all]
  OBVIOUS
<1>4. ASSUME NEW e \in all PROVE \E p \in triples : f[p] = e
  <2>. DEFINE p == <<e.label, <<e.start, e.end>>>>
  <2>1. p \in triples
    OBVIOUS
  <2>2. f[p] = [label |-> e.label, start |-> e.start, end |-> e.end]
    BY <2>1
  <2>3. f[p] = e
    BY <2>2
  <2>. QED  BY <2>1, <2>3
<1>5. f \in Surjection(triples, all)
  BY <1>3, <1>4 DEF Surjection
<1>. HIDE DEF f, triples, all
<1>6. IsFiniteSet(all)
  BY <1>2, <1>5, FS_Surjection
<1>7. EntitiesIn(text) \in SUBSET all
  BY DEF EntitiesIn, all, places
<1>. QED  BY <1>6, <1>7, FS_Subset

\* A list of entities: spans of the text, and no two of them equal.
IsEntity(e, n) ==
  /\ e = [label |-> e.label, start |-> e.start, end |-> e.end]
  /\ e.label \in Labels /\ e.start \in 0 .. n /\ e.end \in 0 .. n /\ e.start < e.end
  /\ IsSpan(e)
AreEntities(list, n) ==
  /\ Len(list) \in Nat /\ DOMAIN list = 1 .. Len(list) /\ AreSpans(list)
  /\ list = [k \in 1 .. Len(list) |-> list[k]]
  /\ \A k \in 1 .. Len(list) : IsEntity(list[k], n)
  /\ \A i, j \in 1 .. Len(list) : list[i] = list[j] => i = j

\* The lists of entities of a text are such lists.
LEMMA ListsAreEntities ==
  ASSUME NEW text, Len(text) \in Nat, NEW list \in EntityLists(text)
  PROVE  AreEntities(list, Len(text))
<1>1. PICK S : S \in SUBSET EntitiesIn(text) /\ list = SetToSeq(S)
  BY DEF EntityLists, kSubset
<1>2. IsFiniteSet(S)
  BY <1>1, EntitiesAreFinite, FS_Subset
<1>. DEFINE n == Cardinality(S)
<1>3. n \in Nat /\ ExistsBijection(1 .. n, S)
  BY <1>2, FS_CardinalityType
<1>4. PICK f : f \in Bijection(1 .. n, S)
  BY <1>3 DEF ExistsBijection
<1>5. f \in [1 .. n -> S] /\ IsInjective(f)
  BY <1>4 DEF Bijection, Injection
<1>6. list = CHOOSE g \in [1 .. n -> S] : IsInjective(g)
  BY <1>1 DEF SetToSeq
<1>7. list \in [1 .. n -> S] /\ IsInjective(list)
  BY <1>5, <1>6
<1>. HIDE DEF n
<1>8. Len(list) = n /\ DOMAIN list = 1 .. n
  BY <1>3, <1>7
<1>9. \A i, j \in 1 .. n : list[i] = list[j] => i = j
  BY <1>7, <1>8 DEF IsInjective
<1>10. \A k \in 1 .. n : IsEntity(list[k], Len(text))
  <2>. SUFFICES ASSUME NEW k \in 1 .. n PROVE IsEntity(list[k], Len(text))
    OBVIOUS
  <2>. DEFINE e == list[k]
  <2>1. e \in EntitiesIn(text)
    BY <1>1, <1>7
  <2>. HIDE DEF e
  <2>2. e \in [label : Labels, start : 0 .. Len(text), end : 0 .. Len(text)] /\ e.start < e.end
    BY <2>1 DEF EntitiesIn
  <2>3. IsEntity(e, Len(text))
    BY <2>2 DEF IsEntity, IsSpan
  <2>. QED  BY <2>3 DEF e
<1>11. AreSpans(list)
  BY <1>3, <1>8, <1>10 DEF AreSpans, IsEntity
<1>. QED  BY <1>3, <1>7, <1>8, <1>9, <1>10, <1>11 DEF AreEntities

\* The entities of the output, moved into the reference: as many, of the same
\* labels, and the same ones if the texts are the same.
LEMMA MovedEntities ==
  ASSUME NEW reference, NEW hypothesis, Len(reference) \in Nat, Len(hypothesis) \in Nat,
         NEW a \in Opcodes(reference, hypothesis), NEW found, AreEntities(found, Len(hypothesis)),
         NEW hyps, hyps = Remap(found, PositionMap(reference, hypothesis, a))
  PROVE  /\ Len(hyps) = Len(found) /\ AreSpans(hyps)
         /\ \A k \in 1 .. Len(hyps) : hyps[k].label \in Labels
         /\ reference = hypothesis => hyps = found
<1>. DEFINE position == PositionMap(reference, hypothesis, a)
            n == Len(found)
<1>1. n \in Nat /\ hyps = [k \in 1 .. n |-> Moved(found[k], position)]
  BY RemapMovesEach DEF AreEntities
<1>2. \A j \in 0 .. Len(hypothesis) : position[j] \in Int /\ (reference = hypothesis => position[j] = j)
  BY PositionsAreNumbers
<1>. HIDE DEF position
<1>3. ASSUME NEW k \in 1 .. n
      PROVE  /\ IsSpan(hyps[k]) /\ hyps[k].label \in Labels
             /\ reference = hypothesis => hyps[k] = found[k]
  <2>. DEFINE e == found[k]
              m == Max({position[e.start], position[e.end]})
  <2>1. IsEntity(e, Len(hypothesis))
    BY DEF AreEntities
  <2>. HIDE DEF e
  <2>2. /\ e.start \in 0 .. Len(hypothesis) /\ e.end \in 0 .. Len(hypothesis)
        /\ e = [label |-> e.label, start |-> e.start, end |-> e.end]
        /\ e.label \in Labels /\ e.start < e.end
    BY <2>1 DEF IsEntity
  <2>3. /\ position[e.start] \in Int /\ position[e.end] \in Int
        /\ reference = hypothesis => position[e.start] = e.start /\ position[e.end] = e.end
    BY <1>2, <2>2
  <2>4. m = IF position[e.start] >= position[e.end] THEN position[e.start] ELSE position[e.end]
    BY <2>3, GreaterOf
  <2>. HIDE DEF m
  <2>5. Moved(e, position) = [label |-> e.label, start |-> position[e.start], end |-> m]
    BY DEF Moved, m
  <2>6. reference = hypothesis => m = e.end
    BY <2>2, <2>3, <2>4
  <2>7. hyps[k] = Moved(e, position)
    BY <1>1 DEF e
  <2>8. m \in Int
    BY <2>3, <2>4
  <2>9. hyps[k] = [label |-> e.label, start |-> position[e.start], end |-> m]
    BY <2>5, <2>7
  <2>10. IsSpan(hyps[k]) /\ hyps[k].label \in Labels
    BY <2>2, <2>3, <2>8, <2>9 DEF IsSpan
  <2>11. reference = hypothesis => hyps[k] = e
    BY <2>2, <2>3, <2>6, <2>9
  <2>. QED  BY <2>10, <2>11 DEF e
<1>4. Len(hyps) = n
  BY <1>1
<1>5. AreSpans(hyps)
  BY <1>1, <1>3, <1>4 DEF AreSpans
<1>6. ASSUME reference = hypothesis PROVE hyps = found
  <2>1. found = [k \in 1 .. n |-> found[k]]
    BY DEF AreEntities
  <2>2. hyps = [k \in 1 .. n |-> hyps[k]]
    BY <1>1
  <2>3. \A k \in 1 .. n : hyps[k] = found[k]
    BY <1>3, <1>6
  <2>. QED  BY <2>1, <2>2, <2>3
<1>. QED  BY <1>3, <1>4, <1>5, <1>6

\* Entities counted by label add up to how many they are.
LEMMA PerLabelAddsUp ==
  ASSUME NEW entities, NEW n \in Nat, NEW chosen \in SUBSET (1 .. n),
         \A i \in 1 .. n : entities[i].label \in Labels
  PROVE  /\ PerLabel(entities, chosen) \in [Labels -> Nat]
         /\ Sum(PerLabel(entities, chosen)) = Cardinality(chosen)
<1>. DEFINE f == PerLabel(entities, chosen)
            g == [i \in chosen |-> entities[i].label]
<1>1. IsFiniteSet(chosen) /\ IsFiniteSet(Labels)
  BY CountFromOne, EntityAssumption, FS_Subset
<1>2. \A i \in chosen : g[i] \in Labels
  OBVIOUS
<1>3. \A l \in Labels : f[l] = Cardinality(OfKind(chosen, g, l))
  BY DEF PerLabel, OfKind
<1>4. DOMAIN f = Labels /\ f = [l \in Labels |-> f[l]]
  BY DEF PerLabel
<1>5. \A l \in Labels : f[l] \in Nat
  <2>. SUFFICES ASSUME NEW l \in Labels PROVE f[l] \in Nat
    OBVIOUS
  <2>1. OfKind(chosen, g, l) \in SUBSET chosen
    BY DEF OfKind
  <2>2. IsFiniteSet(OfKind(chosen, g, l))
    BY <1>1, <2>1, FS_Subset
  <2>. QED  BY <1>3, <2>2, FS_CardinalityType
<1>. HIDE DEF f, g
<1>6. SumFunctionOnSet(f, Labels) = Cardinality(chosen)
  BY <1>1, <1>2, <1>3, CountByKind
<1>7. f \in [Labels -> Nat]
  BY <1>4, <1>5
<1>. QED  BY <1>4, <1>6, <1>7 DEF f, Sum, SumFunction

\* What the pairs of a matching take of either list.
Lefts(M) == {p[1] : p \in M}
Rights(M) == {p[2] : p \in M}

\* A matching takes as many entities of either list.
EvenMatching(m, n, R, H) ==
  /\ R \in SUBSET (1 .. m) /\ H \in SUBSET (1 .. n)
  /\ Cardinality(R) = Cardinality(H)
  /\ Cardinality((1 .. m) \ R) = m - Cardinality(R)
  /\ Cardinality((1 .. n) \ H) = n - Cardinality(H)
  /\ Cardinality(R) \in Nat /\ Cardinality(R) <= m /\ Cardinality(R) <= n

\* What the pairs take of either list is as many as the pairs.
LEMMA MatchingIsEven ==
  ASSUME NEW m \in Nat, NEW n \in Nat, NEW M \in SUBSET ((1 .. m) \X (1 .. n)), IsMatching(M)
  PROVE  EvenMatching(m, n, Lefts(M), Rights(M))
<1>. DEFINE R == Lefts(M)
            H == Rights(M)
<1>0. R = Lefts(M) /\ H = Rights(M)
  OBVIOUS
<1>. HIDE DEF R, H
<1>1. /\ IsFiniteSet(1 .. m) /\ Cardinality(1 .. m) = m
      /\ IsFiniteSet(1 .. n) /\ Cardinality(1 .. n) = n
  BY CountFromOne
<1>2. R \in SUBSET (1 .. m) /\ H \in SUBSET (1 .. n)
  BY <1>0 DEF Lefts, Rights
<1>3. \A p \in M : p = <<p[1], p[2]>> /\ p[1] \in R /\ p[2] \in H
  BY <1>0 DEF Lefts, Rights
<1>. DEFINE other == [i \in R |-> CHOOSE j \in H : <<i, j>> \in M]
<1>4. \A i \in R : other[i] \in H /\ <<i, other[i]>> \in M
  <2>. SUFFICES ASSUME NEW i \in R PROVE \E j \in H : <<i, j>> \in M
    OBVIOUS
  <2>1. PICK p \in M : i = p[1]
    BY <1>0 DEF Lefts
  <2>. QED  BY <1>3, <2>1
<1>. HIDE DEF other
<1>5. other \in Bijection(R, H)
  <2>1. other \in [R -> H]
    BY <1>4 DEF other
  <2>2. ASSUME NEW i \in R, NEW j \in R, other[i] = other[j] PROVE i = j
    <3>. DEFINE p == <<i, other[i]>>
                q == <<j, other[j]>>
    <3>1. p \in M /\ q \in M /\ p[2] = q[2]
      BY <1>4, <2>2
    <3>2. p = q
      BY <3>1 DEF IsMatching
    <3>. QED  BY <3>2
  <2>3. ASSUME NEW j \in H PROVE \E i \in R : other[i] = j
    <3>1. PICK p \in M : j = p[2]
      BY <1>0 DEF Rights
    <3>. DEFINE q == <<p[1], other[p[1]]>>
    <3>2. p[1] \in R /\ q \in M /\ q[1] = p[1]
      BY <1>3, <1>4
    <3>3. q = p
      BY <3>2 DEF IsMatching
    <3>4. other[p[1]] = j
      BY <1>3, <3>1, <3>3
    <3>. QED  BY <3>2, <3>4
  <2>. QED  BY <2>1, <2>2, <2>3 DEF Bijection, Injection, Surjection, IsInjective
<1>6. IsFiniteSet(R) /\ IsFiniteSet(H) /\ Cardinality(R) \in Nat /\ Cardinality(H) \in Nat
      /\ Cardinality(R) <= m /\ Cardinality(H) <= n
  <2>1. IsFiniteSet(R) /\ Cardinality(R) <= m
    <3>1. IsFiniteSet(R) /\ Cardinality(R) <= Cardinality(1 .. m)
      BY <1>1, <1>2, FS_Subset
    <3>. QED  BY <1>1, <3>1
  <2>2. IsFiniteSet(H) /\ Cardinality(H) <= n
    <3>1. IsFiniteSet(H) /\ Cardinality(H) <= Cardinality(1 .. n)
      BY <1>1, <1>2, FS_Subset
    <3>. QED  BY <1>1, <3>1
  <2>. QED  BY <2>1, <2>2, FS_CardinalityType
<1>7. Cardinality(R) = Cardinality(H)
  <2>1. ExistsBijection(R, H)
    BY <1>5 DEF ExistsBijection
  <2>. QED  BY <1>6, <2>1, FS_Bijection
<1>8. Cardinality((1 .. m) \ R) = m - Cardinality(R)
  <2>. DEFINE all == 1 .. m
  <2>1. IsFiniteSet(all) /\ Cardinality(all) = m /\ all \cap R = R
    BY <1>1, <1>2
  <2>. HIDE DEF all
  <2>2. Cardinality(all \ R) = Cardinality(all) - Cardinality(all \cap R)
    BY <2>1, FS_Difference
  <2>. QED  BY <2>1, <2>2 DEF all
<1>9. Cardinality((1 .. n) \ H) = n - Cardinality(H)
  <2>. DEFINE all == 1 .. n
  <2>1. IsFiniteSet(all) /\ Cardinality(all) = n /\ all \cap H = H
    BY <1>1, <1>2
  <2>. HIDE DEF all
  <2>2. Cardinality(all \ H) = Cardinality(all) - Cardinality(all \cap H)
    BY <2>1, FS_Difference
  <2>. QED  BY <2>1, <2>2 DEF all
<1>10. EvenMatching(m, n, R, H)
  BY <1>2, <1>6, <1>7, <1>8, <1>9 DEF EvenMatching
<1>. QED  BY <1>10 DEF R, H

\* What an entity count holds of its document.
NerHolds(c) ==
  /\ c.tp \in [Labels -> Nat] /\ c.fn \in [Labels -> Nat] /\ c.fp \in [Labels -> Nat]
  /\ c.goldSize \in Nat /\ c.foundSize \in Nat
  /\ Sum(c.tp) \in Nat /\ Sum(c.fn) \in Nat /\ Sum(c.fp) \in Nat
  /\ Sum(c.tp) + Sum(c.fn) = c.goldSize /\ Sum(c.tp) + Sum(c.fp) = c.foundSize
  /\ Len(c.missed) = Sum(c.fn) /\ Len(c.hallucinated) = Sum(c.fp)
  /\ \A k \in 1 .. Len(c.missed) : c.missed[k].label \in Labels
  /\ \A k \in 1 .. Len(c.hallucinated) : c.hallucinated[k].label \in Labels
NerAgrees(c) ==
  /\ \A m \in ToSet(c.missed), h \in ToSet(c.hallucinated) : ~Compatible(m, h)
  /\ c.same => c.missed = <<>> /\ c.hallucinated = <<>>

\* The entities at some places of a list, in order.
AtInOrder(entities, K) == [k \in 1 .. Cardinality(K) |-> entities[InOrder(K)[k]]]

\* They are the entities at these places, and as many.
LEMMA EntitiesAtPlaces ==
  ASSUME NEW entities, NEW m \in Nat, NEW K \in SUBSET (1 .. m)
  PROVE  LET s == AtInOrder(entities, K) IN
         /\ Len(s) = Cardinality(K) /\ Cardinality(K) \in Nat
         /\ \A e \in ToSet(s) : \E i \in K : e = entities[i]
         /\ \A k \in 1 .. Len(s) : \E i \in K : s[k] = entities[i]
         /\ K = {} => s = <<>>
<1>. DEFINE s == AtInOrder(entities, K)
<1>0. s = [k \in 1 .. Cardinality(K) |-> entities[InOrder(K)[k]]]
  BY DEF AtInOrder
<1>. HIDE DEF s
<1>. DEFINE n == Cardinality(K)
<1>1. n \in Nat /\ \A k \in 1 .. n : InOrder(K)[k] \in K
  BY PlacesInOrder
<1>2. DOMAIN s = 1 .. n /\ Len(s) = n
  BY <1>0, <1>1
<1>3. \A e \in ToSet(s) : \E i \in K : e = entities[i]
  BY <1>0, <1>1, <1>2 DEF ToSet
<1>4. K = {} => s = <<>>
  <2>. SUFFICES ASSUME K = {} PROVE s = <<>>
    OBVIOUS
  <2>1. n = 0
    BY FS_EmptySet
  <2>. QED  BY <1>0, <1>2, <2>1
<1>. QED  BY <1>0, <1>1, <1>2, <1>3, <1>4 DEF s

\* compute_ner: every entity of a document is counted once.
LEMMA CountsOfDocument ==
  ASSUME NEW reference, NEW hypothesis, Len(reference) \in Nat, Len(hypothesis) \in Nat,
         NEW a \in Opcodes(reference, hypothesis),
         NEW gold \in EntityLists(reference), NEW found \in EntityLists(hypothesis),
         NEW c, c = ComputeNer(reference, hypothesis, gold, found, a)
  PROVE  NerHolds(c) /\ NerAgrees(c)
<1>. DEFINE hyps == Remap(found, PositionMap(reference, hypothesis, a))
            M == AlignEntities(gold, hyps)
            R == Lefts(M)
            H == Rights(M)
            missed == Indices(gold) \ R
            invented == Indices(hyps) \ H
            m == Len(gold)
            n == Len(hyps)
<1>1. /\ c.tp = PerLabel(gold, R) /\ c.fn = PerLabel(gold, missed) /\ c.fp = PerLabel(hyps, invented)
      /\ c.missed = AtInOrder(gold, missed) /\ c.hallucinated = AtInOrder(hyps, invented)
      /\ c.goldSize = m /\ c.foundSize = Len(found)
      /\ c.same <=> reference = hypothesis /\ gold = found
  BY DEF ComputeNer, Lefts, Rights, AtInOrder
<1>2. AreEntities(gold, Len(reference)) /\ AreEntities(found, Len(hypothesis))
  BY ListsAreEntities
<1>3. /\ n = Len(found) /\ AreSpans(hyps)
      /\ \A k \in 1 .. n : hyps[k].label \in Labels
      /\ reference = hypothesis => hyps = found
  BY <1>2, MovedEntities
<1>4. m \in Nat /\ n \in Nat /\ AreSpans(gold) /\ \A k \in 1 .. m : gold[k].label \in Labels
  BY <1>2, <1>3 DEF AreEntities, IsEntity, AreSpans
<1>. HIDE DEF hyps
<1>5. /\ M \subseteq Candidates(gold, hyps) /\ IsMatching(M)
      /\ \A d \in Candidates(gold, hyps) : Taken(M, d)
  BY <1>3, <1>4, AlignmentIsMaximal
<1>6. M \in SUBSET ((1 .. m) \X (1 .. n))
  BY <1>5 DEF Candidates, Indices
<1>. HIDE DEF M
<1>7. missed = (1 .. m) \ R /\ invented = (1 .. n) \ H
  BY DEF Indices
<1>8. R = Lefts(M) /\ H = Rights(M)
  OBVIOUS
<1>. HIDE DEF R, H, missed, invented, m, n
<1>9. /\ R \in SUBSET (1 .. m) /\ H \in SUBSET (1 .. n)
      /\ Cardinality(R) = Cardinality(H)
      /\ Cardinality((1 .. m) \ R) = m - Cardinality(R)
      /\ Cardinality((1 .. n) \ H) = n - Cardinality(H)
      /\ Cardinality(R) \in Nat /\ Cardinality(R) <= m /\ Cardinality(R) <= n
  <2>1. EvenMatching(m, n, Lefts(M), Rights(M))
    BY <1>4, <1>5, <1>6, MatchingIsEven
  <2>. QED  BY <1>8, <2>1 DEF EvenMatching
<1>10. missed \in SUBSET (1 .. m) /\ invented \in SUBSET (1 .. n)
  BY <1>7
<1>11. /\ c.tp \in [Labels -> Nat] /\ Sum(c.tp) = Cardinality(R)
  <2>1. /\ PerLabel(gold, R) \in [Labels -> Nat]
        /\ Sum(PerLabel(gold, R)) = Cardinality(R)
    BY <1>3, <1>4, <1>9, PerLabelAddsUp
  <2>. QED  BY <1>1, <2>1
<1>12. /\ c.fn \in [Labels -> Nat] /\ Sum(c.fn) = Cardinality(missed)
  <2>1. /\ PerLabel(gold, missed) \in [Labels -> Nat]
        /\ Sum(PerLabel(gold, missed)) = Cardinality(missed)
    BY <1>3, <1>4, <1>10, PerLabelAddsUp
  <2>. QED  BY <1>1, <2>1
<1>13. /\ c.fp \in [Labels -> Nat] /\ Sum(c.fp) = Cardinality(invented)
  <2>1. /\ PerLabel(hyps, invented) \in [Labels -> Nat]
        /\ Sum(PerLabel(hyps, invented)) = Cardinality(invented)
    BY <1>3, <1>4, <1>10, PerLabelAddsUp
  <2>. QED  BY <1>1, <2>1
<1>14. /\ Len(c.missed) = Cardinality(missed) /\ Cardinality(missed) \in Nat
       /\ \A e \in ToSet(c.missed) : \E i \in missed : e = gold[i]
       /\ \A k \in 1 .. Len(c.missed) : \E i \in missed : c.missed[k] = gold[i]
       /\ missed = {} => c.missed = <<>>
  <2>1. LET s == AtInOrder(gold, missed) IN
        /\ Len(s) = Cardinality(missed) /\ Cardinality(missed) \in Nat
        /\ \A e \in ToSet(s) : \E i \in missed : e = gold[i]
        /\ \A k \in 1 .. Len(s) : \E i \in missed : s[k] = gold[i]
        /\ missed = {} => s = <<>>
    BY <1>4, <1>10, EntitiesAtPlaces
  <2>. QED  BY <1>1, <2>1
<1>15. /\ Len(c.hallucinated) = Cardinality(invented) /\ Cardinality(invented) \in Nat
       /\ \A e \in ToSet(c.hallucinated) : \E i \in invented : e = hyps[i]
       /\ \A k \in 1 .. Len(c.hallucinated) : \E i \in invented : c.hallucinated[k] = hyps[i]
       /\ invented = {} => c.hallucinated = <<>>
  <2>1. LET s == AtInOrder(hyps, invented) IN
        /\ Len(s) = Cardinality(invented) /\ Cardinality(invented) \in Nat
        /\ \A e \in ToSet(s) : \E i \in invented : e = hyps[i]
        /\ \A k \in 1 .. Len(s) : \E i \in invented : s[k] = hyps[i]
        /\ invented = {} => s = <<>>
    BY <1>4, <1>10, EntitiesAtPlaces
  <2>. QED  BY <1>1, <2>1
<1>16. NerHolds(c)
  <2>. DEFINE r == Cardinality(R)
  <2>1. /\ r \in Nat /\ r <= m /\ r <= n /\ Sum(c.tp) = r /\ Sum(c.fn) = m - r /\ Sum(c.fp) = n - r
        /\ c.goldSize = m /\ c.foundSize = n
    BY <1>1, <1>3, <1>7, <1>9, <1>11, <1>12, <1>13
  <2>. HIDE DEF r
  <2>2. /\ Sum(c.tp) + Sum(c.fn) = c.goldSize /\ Sum(c.tp) + Sum(c.fp) = c.foundSize
        /\ c.goldSize \in Nat /\ c.foundSize \in Nat
        /\ Sum(c.tp) \in Nat /\ Sum(c.fn) \in Nat /\ Sum(c.fp) \in Nat
    BY ONLY <1>4, <2>1
  <2>3. /\ \A k \in 1 .. Len(c.missed) : c.missed[k].label \in Labels
        /\ \A k \in 1 .. Len(c.hallucinated) : c.hallucinated[k].label \in Labels
    BY <1>3, <1>4, <1>10, <1>14, <1>15
  <2>. QED  BY <2>2, <2>3, <1>11, <1>12, <1>13, <1>14, <1>15 DEF NerHolds
<1>17. ASSUME NEW x \in ToSet(c.missed), NEW y \in ToSet(c.hallucinated), Compatible(x, y)
       PROVE  FALSE
  <2>1. PICK i \in missed : x = gold[i]
    BY <1>14
  <2>2. PICK j \in invented : y = hyps[j]
    BY <1>15
  <2>. DEFINE d == <<i, j>>
  <2>3. d \in Candidates(gold, hyps)
    BY <1>10, <1>17, <2>1, <2>2 DEF Candidates, Indices, m, n
  <2>4. PICK p \in M : p[1] = i \/ p[2] = j
    BY <1>5, <2>3 DEF Taken
  <2>5. i \in R \/ j \in H
    BY <1>8, <2>4 DEF Lefts, Rights
  <2>. QED  BY <1>7, <2>5
<1>18. ASSUME c.same PROVE c.missed = <<>> /\ c.hallucinated = <<>>
  <2>1. hyps = gold /\ n = m
    BY <1>1, <1>3, <1>18 DEF m, n
  <2>2. \A i \in 1 .. m : /\ gold[i].start < gold[i].end
          /\ gold[i] = [label |-> gold[i].label, start |-> gold[i].start, end |-> gold[i].end]
    BY <1>2 DEF AreEntities, IsEntity, m
  <2>3. \A i, j \in 1 .. m : gold[i] = gold[j] => i = j
    BY <1>2 DEF AreEntities, m
  <2>4. \A i \in 1 .. m : <<i, i>> \in M
    BY <1>4, <2>1, <2>2, <2>3, SameListsAgree DEF M, m
  <2>5. \A i \in 1 .. m : i \in R /\ i \in H
    <3>. SUFFICES ASSUME NEW i \in 1 .. m PROVE i \in R /\ i \in H
      OBVIOUS
    <3>. DEFINE d == <<i, i>>
    <3>1. d \in M /\ d[1] = i /\ d[2] = i
      BY <2>4
    <3>. QED  BY <1>8, <3>1 DEF Lefts, Rights
  <2>6. missed = {} /\ invented = {}
    BY <1>7, <2>1, <2>5
  <2>. QED  BY <1>14, <1>15, <2>6
<1>19. NerAgrees(c)
  BY <1>17, <1>18 DEF NerAgrees
<1>. QED  BY <1>16, <1>19

\* The mentions that are kept: the first ones, as many as may be.
LEMMA MentionsAreCounted ==
  ASSUME NEW kept \in Seq(Labels), NEW entities, NEW n \in Nat, Len(entities) \in Nat,
         \A k \in 1 .. Len(entities) : entities[k].label \in Labels,
         Len(kept) = Min({MaxMentions, n})
  PROVE  /\ Mentions(kept, entities) \in Seq(Labels)
         /\ Len(Mentions(kept, entities)) = Min({MaxMentions, n + Len(entities)})
<1>. DEFINE l == Len(entities)
            labels == [k \in 1 .. l |-> entities[k].label]
            room == Min({l, MaxMentions - Len(kept)})
            more == SubSeq(labels, 1, room)
<1>1. l \in Nat /\ MaxMentions \in Nat /\ Len(kept) \in Nat
  BY EntityAssumption
<1>2. Len(kept) = IF MaxMentions <= n THEN MaxMentions ELSE n
  BY <1>1, LesserOf
<1>3. labels \in Seq(Labels) /\ Len(labels) = l
  <2>1. labels \in [1 .. l -> Labels]
    OBVIOUS
  <2>. HIDE DEF labels, l
  <2>. QED  BY <1>1, <2>1
<1>4. Mentions(kept, entities) = kept \o more
  BY DEF Mentions, Indices
<1>5. room = IF l <= MaxMentions - Len(kept) THEN l ELSE MaxMentions - Len(kept)
  <2>1. MaxMentions - Len(kept) \in Int /\ l \in Int
    BY <1>1
  <2>. HIDE DEF l
  <2>. QED  BY <2>1, LesserOf
<1>. HIDE DEF l, labels, room
<1>6. room \in Nat /\ room <= l
  BY <1>1, <1>2, <1>5
<1>7. more \in Seq(Labels) /\ Len(more) = room
  BY <1>3, <1>6
<1>. HIDE DEF more
<1>8. kept \o more \in Seq(Labels) /\ Len(kept \o more) = Len(kept) + room
  BY <1>7, ConcatProperties
<1>9. Min({MaxMentions, n + l}) = IF MaxMentions <= n + l THEN MaxMentions ELSE n + l
  BY <1>1, LesserOf
<1>10. Len(kept) + room = Min({MaxMentions, n + l})
  BY <1>1, <1>2, <1>5, <1>9
<1>. QED  BY <1>4, <1>8, <1>10 DEF l

\* The totals of a pipeline are those of its documents.
TallyHolds(t) ==
  /\ t.tp \in [Labels -> Nat] /\ t.fn \in [Labels -> Nat] /\ t.fp \in [Labels -> Nat]
  /\ Sum(t.tp) \in Nat /\ Sum(t.fn) \in Nat /\ Sum(t.fp) \in Nat
  /\ Sum(t.tp) + Sum(t.fn) = t.goldSize /\ Sum(t.tp) + Sum(t.fp) = t.foundSize
  /\ t.missed \in Seq(Labels) /\ Len(t.missed) = Min({MaxMentions, Sum(t.fn)})
  /\ t.hallucinated \in Seq(Labels) /\ Len(t.hallucinated) = Min({MaxMentions, Sum(t.fp)})
EntityInv == TallyHolds(tally) /\ NerAgrees(counts)

\* The counts of two documents add up label by label.
LEMMA SumOfPlus ==
  ASSUME NEW x \in [Labels -> Nat], NEW y \in [Labels -> Nat]
  PROVE  /\ Plus(x, y) \in [Labels -> Nat]
         /\ Sum(x) \in Nat /\ Sum(y) \in Nat
         /\ Sum(Plus(x, y)) = Sum(x) + Sum(y)
<1>. DEFINE z == Plus(x, y)
<1>1. z \in [Labels -> Nat] /\ \A l \in Labels : z[l] = x[l] + y[l]
  BY DEF Plus
<1>. HIDE DEF z
<1>2. IsFiniteSet(Labels)
  BY EntityAssumption
<1>3. /\ \A l \in Labels : x[l] \in Nat /\ y[l] \in Nat /\ z[l] = x[l] + y[l]
      /\ DOMAIN x = Labels /\ DOMAIN y = Labels /\ DOMAIN z = Labels
  BY <1>1
<1>4. SumFunctionOnSet(z, Labels) = SumFunctionOnSet(x, Labels) + SumFunctionOnSet(y, Labels)
  BY <1>2, <1>3, SumsAdd
<1>5. SumFunctionOnSet(x, Labels) \in Nat /\ SumFunctionOnSet(y, Labels) \in Nat
  BY <1>2, <1>3, SumIsNat
<1>. QED  BY <1>1, <1>3, <1>4, <1>5 DEF Sum, SumFunction, z

\* Before any document the tally adds up.
LEMMA EntityStarts == EntityInit => EntityInv
<1>. SUFFICES ASSUME EntityInit PROVE EntityInv
  OBVIOUS
<1>1. NoneYet \in [Labels -> Nat] /\ Sum(NoneYet) = 0
  <2>1. NoneYet \in [Labels -> Nat] /\ DOMAIN NoneYet = Labels /\ \A l \in Labels : NoneYet[l] = 0
    BY DEF NoneYet
  <2>2. IsFiniteSet(Labels)
    BY EntityAssumption
  <2>3. SumFunctionOnSet(NoneYet, Labels) = SumFunctionOnSet(NoneYet, {})
    <3>1. {} \in SUBSET Labels /\ \A l \in Labels : NoneYet[l] \in Nat
      BY <2>1
    <3>. QED  BY <2>1, <2>2, <3>1, SumDrops
  <2>. QED  BY <2>1, <2>3, SumOfNone DEF Sum, SumFunction
<1>2. Min({MaxMentions, 0}) = 0
  <2>1. MaxMentions \in Nat
    BY EntityAssumption
  <2>. QED  BY <2>1, LesserOf
<1>3. TallyHolds(tally)
  <2>1. /\ tally.tp = NoneYet /\ tally.fn = NoneYet /\ tally.fp = NoneYet
        /\ tally.missed = <<>> /\ tally.hallucinated = <<>> /\ tally.goldSize = 0 /\ tally.foundSize = 0
    BY DEF EntityInit
  <2>2. <<>> \in Seq(Labels) /\ Len(<<>>) = 0
    BY EmptySeq
  <2>. QED  BY <1>1, <1>2, <2>1, <2>2 DEF TallyHolds
<1>4. NerAgrees(counts)
  <2>1. counts.missed = <<>> /\ counts.hallucinated = <<>>
    BY DEF EntityInit, NoCounts
  <2>2. ToSet(<<>>) = {}
    BY DEF ToSet
  <2>. QED  BY <2>1, <2>2 DEF NerAgrees
<1>. QED  BY <1>3, <1>4 DEF EntityInv

\* A document is added to the totals.
LEMMA TallyGrows ==
  ASSUME NEW t, TallyHolds(t), NEW c, NerHolds(c), NEW u,
         /\ u.tp = Plus(t.tp, c.tp) /\ u.fn = Plus(t.fn, c.fn) /\ u.fp = Plus(t.fp, c.fp)
         /\ u.missed = Mentions(t.missed, c.missed)
         /\ u.hallucinated = Mentions(t.hallucinated, c.hallucinated)
         /\ u.goldSize = t.goldSize + c.goldSize /\ u.foundSize = t.foundSize + c.foundSize
  PROVE  TallyHolds(u)
<1>1. u.tp \in [Labels -> Nat] /\ Sum(u.tp) = Sum(t.tp) + Sum(c.tp)
  <2>1. t.tp \in [Labels -> Nat] /\ c.tp \in [Labels -> Nat] /\ u.tp = Plus(t.tp, c.tp)
    BY DEF TallyHolds, NerHolds
  <2>2. Plus(t.tp, c.tp) \in [Labels -> Nat] /\ Sum(Plus(t.tp, c.tp)) = Sum(t.tp) + Sum(c.tp)
    BY <2>1, SumOfPlus
  <2>. QED  BY <2>1, <2>2
<1>2. u.fn \in [Labels -> Nat] /\ Sum(u.fn) = Sum(t.fn) + Sum(c.fn)
  <2>1. t.fn \in [Labels -> Nat] /\ c.fn \in [Labels -> Nat] /\ u.fn = Plus(t.fn, c.fn)
    BY DEF TallyHolds, NerHolds
  <2>2. Plus(t.fn, c.fn) \in [Labels -> Nat] /\ Sum(Plus(t.fn, c.fn)) = Sum(t.fn) + Sum(c.fn)
    BY <2>1, SumOfPlus
  <2>. QED  BY <2>1, <2>2
<1>3. u.fp \in [Labels -> Nat] /\ Sum(u.fp) = Sum(t.fp) + Sum(c.fp)
  <2>1. t.fp \in [Labels -> Nat] /\ c.fp \in [Labels -> Nat] /\ u.fp = Plus(t.fp, c.fp)
    BY DEF TallyHolds, NerHolds
  <2>2. Plus(t.fp, c.fp) \in [Labels -> Nat] /\ Sum(Plus(t.fp, c.fp)) = Sum(t.fp) + Sum(c.fp)
    BY <2>1, SumOfPlus
  <2>. QED  BY <2>1, <2>2
<1>4. /\ Sum(t.tp) \in Nat /\ Sum(t.fn) \in Nat /\ Sum(t.fp) \in Nat
      /\ Sum(c.tp) \in Nat /\ Sum(c.fn) \in Nat /\ Sum(c.fp) \in Nat
      /\ Sum(t.tp) + Sum(t.fn) = t.goldSize /\ Sum(t.tp) + Sum(t.fp) = t.foundSize
      /\ Sum(c.tp) + Sum(c.fn) = c.goldSize /\ Sum(c.tp) + Sum(c.fp) = c.foundSize
  BY DEF TallyHolds, NerHolds
<1>5. /\ Sum(u.tp) \in Nat /\ Sum(u.fn) \in Nat /\ Sum(u.fp) \in Nat
      /\ Sum(u.tp) + Sum(u.fn) = u.goldSize /\ Sum(u.tp) + Sum(u.fp) = u.foundSize
  BY <1>1, <1>2, <1>3, <1>4
<1>6. u.missed \in Seq(Labels) /\ Len(u.missed) = Min({MaxMentions, Sum(u.fn)})
  <2>1. /\ t.missed \in Seq(Labels) /\ Len(t.missed) = Min({MaxMentions, Sum(t.fn)})
        /\ Len(c.missed) = Sum(c.fn)
        /\ \A k \in 1 .. Len(c.missed) : c.missed[k].label \in Labels
    BY DEF TallyHolds, NerHolds
  <2>2. /\ Mentions(t.missed, c.missed) \in Seq(Labels)
        /\ Len(Mentions(t.missed, c.missed)) = Min({MaxMentions, Sum(t.fn) + Len(c.missed)})
    <3>. DEFINE kept == t.missed
                told == c.missed
                total == Sum(t.fn)
    <3>1. /\ kept \in Seq(Labels) /\ Len(kept) = Min({MaxMentions, total})
          /\ total \in Nat /\ Len(told) \in Nat
          /\ \A k \in 1 .. Len(told) : told[k].label \in Labels
      BY <1>4, <2>1
    <3>. HIDE DEF kept, told, total
    <3>2. /\ Mentions(kept, told) \in Seq(Labels)
          /\ Len(Mentions(kept, told)) = Min({MaxMentions, total + Len(told)})
      BY ONLY <3>1, MentionsAreCounted
    <3>. QED  BY <3>2 DEF kept, told, total
  <2>. QED  BY <1>2, <2>1, <2>2
<1>7. u.hallucinated \in Seq(Labels) /\ Len(u.hallucinated) = Min({MaxMentions, Sum(u.fp)})
  <2>1. /\ t.hallucinated \in Seq(Labels) /\ Len(t.hallucinated) = Min({MaxMentions, Sum(t.fp)})
        /\ Len(c.hallucinated) = Sum(c.fp)
        /\ \A k \in 1 .. Len(c.hallucinated) : c.hallucinated[k].label \in Labels
    BY DEF TallyHolds, NerHolds
  <2>2. /\ Mentions(t.hallucinated, c.hallucinated) \in Seq(Labels)
        /\ Len(Mentions(t.hallucinated, c.hallucinated)) = Min({MaxMentions, Sum(t.fp) + Len(c.hallucinated)})
    <3>. DEFINE kept == t.hallucinated
                told == c.hallucinated
                total == Sum(t.fp)
    <3>1. /\ kept \in Seq(Labels) /\ Len(kept) = Min({MaxMentions, total})
          /\ total \in Nat /\ Len(told) \in Nat
          /\ \A k \in 1 .. Len(told) : told[k].label \in Labels
      BY <1>4, <2>1
    <3>. HIDE DEF kept, told, total
    <3>2. /\ Mentions(kept, told) \in Seq(Labels)
          /\ Len(Mentions(kept, told)) = Min({MaxMentions, total + Len(told)})
      BY ONLY <3>1, MentionsAreCounted
    <3>. QED  BY <3>2 DEF kept, told, total
  <2>. QED  BY <1>3, <2>1, <2>2
<1>. QED  BY <1>1, <1>2, <1>3, <1>5, <1>6, <1>7 DEF TallyHolds

\* Every document that is observed keeps it so.
LEMMA EntitiesGoOn ==
  ASSUME EntityInv, [EntityNext]_entityVars
  PROVE  EntityInv'
<1>1. CASE Observe
  <2>1. PICK c \in PossibleCounts :
            /\ counts' = c
            /\ tally' = [documents |-> tally.documents + 1,
                         tp |-> Plus(tally.tp, c.tp), fn |-> Plus(tally.fn, c.fn),
                         fp |-> Plus(tally.fp, c.fp),
                         missed |-> Mentions(tally.missed, c.missed),
                         hallucinated |-> Mentions(tally.hallucinated, c.hallucinated),
                         goldSize |-> tally.goldSize + c.goldSize,
                         foundSize |-> tally.foundSize + c.foundSize]
    BY <1>1 DEF Observe
  <2>. DEFINE texts == BoundedSeq(Letters, MaxLetters)
              counted(reference, hypothesis) ==
                {ComputeNer(reference, hypothesis, gold, found, alignment) :
                   gold \in EntityLists(reference), found \in EntityLists(hypothesis),
                   alignment \in Opcodes(reference, hypothesis)}
  <2>2. PICK pair \in texts \X texts : c \in counted(pair[1], pair[2])
    BY DEF PossibleCounts
  <2>. DEFINE reference == pair[1]
              hypothesis == pair[2]
  <2>3. Len(reference) \in Nat /\ Len(hypothesis) \in Nat
    BY EntityAssumption, BoundedLength
  <2>5. PICK gold \in EntityLists(reference), found \in EntityLists(hypothesis),
             alignment \in Opcodes(reference, hypothesis) :
            c = ComputeNer(reference, hypothesis, gold, found, alignment)
    BY <2>2
  <2>4. NerHolds(c) /\ NerAgrees(c)
    BY <2>3, <2>5, CountsOfDocument
  <2>6. TallyHolds(tally) /\ TallyHolds(tally)'
    <3>1. TallyHolds(tally)
      BY DEF EntityInv
    <3>2. /\ tally'.tp = Plus(tally.tp, c.tp) /\ tally'.fn = Plus(tally.fn, c.fn)
          /\ tally'.fp = Plus(tally.fp, c.fp)
          /\ tally'.missed = Mentions(tally.missed, c.missed)
          /\ tally'.hallucinated = Mentions(tally.hallucinated, c.hallucinated)
          /\ tally'.goldSize = tally.goldSize + c.goldSize
          /\ tally'.foundSize = tally.foundSize + c.foundSize
      BY <2>1
    <3>3. TallyHolds(tally')
      BY <2>4, <3>1, <3>2, TallyGrows
    <3>. QED  BY <3>1, <3>3
  <2>. QED  BY <2>1, <2>4, <2>6 DEF EntityInv
<1>2. CASE BuildEntities
  BY <1>2 DEF BuildEntities, EntityInv
<1>3. CASE NoEntities
  BY <1>3 DEF NoEntities, EntityInv
<1>4. CASE UNCHANGED entityVars
  BY <1>4 DEF entityVars, EntityInv
<1>. QED  BY <1>1, <1>2, <1>3, <1>4 DEF EntityNext

\* What is kept is enough for the section to add up.
LEMMA EntitiesHold == EntityInv => EntitiesAddUp
BY DEF EntityInv, TallyHolds, NerAgrees, EntitiesAddUp

-----------------------------------------------------------------------------
(* What survives of the numbers and signs.                                 *)

\* A sum, kind by kind.
LEMMA SumByKind ==
  ASSUME NEW A, IsFiniteSet(A), NEW f, \A x \in A : f[x] \in Nat,
         NEW K, IsFiniteSet(K), NEW g, \A x \in A : g[x] \in K,
         NEW h, \A k \in K : h[k] = SumFunctionOnSet(f, OfKind(A, g, k))
  PROVE  SumFunctionOnSet(f, A) = SumFunctionOnSet(h, K)
<1>. DEFINE W == Weights(f, A)
            kind == [p \in W |-> g[p[1]]]
<1>1. IsFiniteSet(W) /\ SumFunctionOnSet(f, A) = Cardinality(W)
  BY WeightsAreFinite, SumsCount
<1>2. \A p \in W : p[1] \in A /\ kind[p] = g[p[1]] /\ kind[p] \in K
  BY DEF Weights
<1>3. ASSUME NEW k \in K PROVE h[k] = Cardinality({p \in W : kind[p] = k})
  <2>. DEFINE mine == {x \in A : g[x] = k}
  <2>1. mine \in SUBSET A /\ IsFiniteSet(mine)
    BY FS_Subset
  <2>2. {p \in W : kind[p] = k} = Weights(f, mine)
    <3>1. \A p : p \in W /\ g[p[1]] = k <=> p \in Weights(f, mine)
      BY DEF Weights
    <3>. QED  BY <1>2, <3>1 DEF Weights
  <2>. HIDE DEF mine
  <2>3. SumFunctionOnSet(f, mine) = Cardinality(Weights(f, mine))
    BY <2>1, SumsCount
  <2>4. h[k] = SumFunctionOnSet(f, mine)
    BY DEF mine, OfKind
  <2>. QED  BY <2>2, <2>3, <2>4
<1>. HIDE DEF W, kind
<1>4. SumFunctionOnSet(h, K) = Cardinality(W)
  <2>1. IsFiniteSet(W) /\ IsFiniteSet(K) /\ \A p \in W : kind[p] \in K
    BY <1>1, <1>2
  <2>2. \A k \in K : h[k] = Cardinality(OfKind(W, kind, k))
    BY <1>3 DEF OfKind
  <2>. QED  BY ONLY <2>1, <2>2, CountByKind
<1>. QED  BY <1>1, <1>4

\* A sum of sums, by rows and by columns.
LEMMA SumExchange ==
  ASSUME NEW S, IsFiniteSet(S), NEW T, IsFiniteSet(T), NEW m,
         \A s \in S, t \in T : m[s][t] \in Nat,
         NEW rows, \A s \in S : rows[s] = SumFunctionOnSet(m[s], T),
         NEW column, \A t \in T, s \in S : column[t][s] = m[s][t],
         NEW cols, \A t \in T : cols[t] = SumFunctionOnSet(column[t], S)
  PROVE  SumFunctionOnSet(rows, S) = SumFunctionOnSet(cols, T)
<1>. DEFINE part(U) == [t \in T |-> SumFunctionOnSet(column[t], U)]
            Good == {U \in SUBSET S : SumFunctionOnSet(rows, U) = SumFunctionOnSet(part(U), T)}
<1>1. \A t \in T, s \in S : column[t][s] \in Nat
  OBVIOUS
<1>2. \A U \in SUBSET S : IsFiniteSet(U)
  BY FS_Subset
<1>3. \A s \in S : rows[s] \in Nat
  BY SumIsNat
<1>4. \A U \in SUBSET S : \A t \in T : part(U)[t] \in Nat
  <2>. SUFFICES ASSUME NEW U \in SUBSET S, NEW t \in T PROVE part(U)[t] \in Nat
    OBVIOUS
  <2>1. SumFunctionOnSet(column[t], U) \in Nat
    BY <1>1, <1>2, SumIsNat
  <2>. QED  BY <2>1
<1>5. {} \in Good
  <2>1. \A t \in T : part({})[t] = 0
    BY SumOfNone
  <2>. DEFINE zero == part({})
  <2>2. SumFunctionOnSet(zero, T) = SumFunctionOnSet(zero, {})
    <3>1. {} \in SUBSET T /\ \A t \in T : zero[t] \in Nat /\ zero[t] = 0
      BY <2>1
    <3>. HIDE DEF zero
    <3>. QED  BY <3>1, SumDrops
  <2>. HIDE DEF zero
  <2>3. SumFunctionOnSet(zero, T) = SumFunctionOnSet(rows, {})
    BY <2>2, SumOfNone
  <2>. QED  BY <2>3 DEF zero
<1>6. ASSUME NEW U \in SUBSET S, U # {}, \A x \in U : U \ {x} \in Good
      PROVE  U \in Good
  <2>1. PICK s \in U : TRUE
    BY <1>6
  <2>. DEFINE rest == U \ {s}
              f == part(U)
              g == part(rest)
  <2>2. rest \in SUBSET S /\ rest \in Good /\ s \in S
    BY <1>6
  <2>3. SumFunctionOnSet(rows, U) = rows[s] + SumFunctionOnSet(rows, rest)
    BY <1>2, <1>3, SumTakesOut
  <2>4. SumFunctionOnSet(rows, rest) = SumFunctionOnSet(g, T)
    BY <2>2
  <2>5. \A t \in T : m[s][t] \in Nat /\ g[t] \in Nat /\ f[t] = m[s][t] + g[t]
    <3>. SUFFICES ASSUME NEW t \in T
                  PROVE  m[s][t] \in Nat /\ g[t] \in Nat /\ f[t] = m[s][t] + g[t]
      OBVIOUS
    <3>1. SumFunctionOnSet(column[t], U) = column[t][s] + SumFunctionOnSet(column[t], rest)
      BY <1>1, <1>2, SumTakesOut
    <3>2. g[t] \in Nat
      BY <1>4, <2>2
    <3>. QED  BY <2>2, <3>1, <3>2
  <2>. HIDE DEF rest, f, g
  <2>6. SumFunctionOnSet(f, T) = SumFunctionOnSet(m[s], T) + SumFunctionOnSet(g, T)
    BY <2>5, SumsAdd
  <2>7. SumFunctionOnSet(f, T) = SumFunctionOnSet(rows, U)
    BY <2>2, <2>3, <2>4, <2>6
  <2>. QED  BY <2>7 DEF f
<1>7. S \in Good
  <2>. HIDE DEF Good
  <2>. QED  BY <1>5, <1>6, SetInduction
<1>8. SumFunctionOnSet(part(S), T) = SumFunctionOnSet(cols, T)
  <2>. DEFINE f == part(S)
  <2>1. T \in SUBSET T /\ \A t \in T : f[t] \in Nat /\ cols[t] = f[t]
    BY <1>4
  <2>. HIDE DEF f
  <2>2. SumFunctionOnSet(f, T) = SumFunctionOnSet(cols, T)
    BY <2>1, SumDrops
  <2>. QED  BY <2>2 DEF f
<1>. QED  BY <1>7, <1>8

\* Of shares of a whole, one is no less than the average of all.
LEMMA LargestShare ==
  ASSUME NEW S, IsFiniteSet(S), S # {}, NEW g, NEW n,
         \A x \in S : g[x] \in Nat /\ n[x] \in Nat /\ n[x] > 0
  PROVE  \E b \in S : \A c \in S : g[c] * n[b] <= g[b] * n[c]
<1>. DEFINE Best(T) == \E b \in T : \A c \in T : g[c] * n[b] <= g[b] * n[c]
            Good == {T \in SUBSET S : T = {} \/ Best(T)}
<1>1. {} \in Good
  OBVIOUS
<1>2. ASSUME NEW T \in SUBSET S, T # {}, \A x \in T : T \ {x} \in Good
      PROVE  T \in Good
  <2>1. PICK x \in T : TRUE
    BY <1>2
  <2>2. g[x] * n[x] <= g[x] * n[x]
    <3>1. g[x] \in Nat /\ n[x] \in Nat
      OBVIOUS
    <3>2. g[x] * n[x] \in Int
      BY <3>1
    <3>. QED  BY <3>2
  <2>3. CASE T \ {x} = {}
    <3>1. \A c \in T : c = x
      BY <2>3
    <3>2. Best(T)
      BY <2>2, <3>1
    <3>. QED  BY <3>2
  <2>4. CASE T \ {x} # {}
    <3>1. Best(T \ {x})
      BY <1>2, <2>1, <2>4
    <3>2. PICK b \in T \ {x} : \A c \in T \ {x} : g[c] * n[b] <= g[b] * n[c]
      BY <3>1
    <3>3. /\ g[x] \in Int /\ n[x] \in Int /\ n[x] > 0 /\ g[b] \in Int /\ n[b] \in Int /\ n[b] > 0
          /\ g[x] * n[b] \in Int /\ g[b] * n[x] \in Int
      OBVIOUS
    <3>4. CASE g[x] * n[b] <= g[b] * n[x]
      <4>1. \A c \in T : g[c] * n[b] <= g[b] * n[c]
        BY <3>2, <3>4
      <4>. QED  BY <4>1
    <3>5. CASE ~ (g[x] * n[b] <= g[b] * n[x])
      <4>1. ASSUME NEW c \in T PROVE g[c] * n[x] <= g[x] * n[c]
        <5>1. CASE c = x
          BY <2>2, <5>1
        <5>2. CASE c # x
          <6>. DEFINE o1 == g[x]
                      o2 == g[b]
                      o3 == g[c]
                      s1 == n[x]
                      s2 == n[b]
                      s3 == n[c]
          <6>1. /\ o1 \in Int /\ o2 \in Int /\ o3 \in Int /\ s1 \in Int /\ s2 \in Int /\ s3 \in Int
                /\ s1 > 0 /\ s2 > 0 /\ s3 > 0
            BY <3>3
          <6>2. o1 * s2 >= o2 * s1
            BY <3>3, <3>5
          <6>3. o3 * s2 <= o2 * s3
            BY <3>2, <5>2
          <6>. HIDE DEF o1, o2, o3, s1, s2, s3
          <6>4. o2 * s3 >= o3 * s2
            <7>1. o2 * s3 \in Int /\ o3 * s2 \in Int
              BY ONLY <6>1
            <7>. QED  BY ONLY <6>3, <7>1
          <6>5. o1 * s3 >= o3 * s1
            BY ONLY <6>1, <6>2, <6>4, FractionsAreOrdered
          <6>6. o3 * s1 <= o1 * s3
            <7>1. o1 * s3 \in Int /\ o3 * s1 \in Int
              BY ONLY <6>1
            <7>. QED  BY ONLY <6>5, <7>1
          <6>. QED  BY <6>6 DEF o1, o3, s1, s3
        <5>. QED  BY <5>1, <5>2
      <4>. QED  BY <2>1, <4>1
    <3>. QED  BY <3>4, <3>5
  <2>. QED  BY <2>3, <2>4
<1>. HIDE DEF Good
<1>3. S \in Good
  BY <1>1, <1>2, SetInduction
<1>. QED  BY <1>3 DEF Good

\* A map that tells apart what it maps keeps their number.
TellsApart(f, S, T) ==
  /\ \A x \in S : f[x] \in T
  /\ \A x, y \in S : f[x] = f[y] => x = y
  /\ \A y \in T : \E x \in S : f[x] = y

\* What such a map reaches is as many as what it maps.
LEMMA ImageCounts ==
  ASSUME NEW S, IsFiniteSet(S), NEW T, NEW f, TellsApart(f, S, T)
  PROVE  IsFiniteSet(T) /\ Cardinality(T) = Cardinality(S)
<1>. DEFINE g == [x \in S |-> f[x]]
<1>1. g \in Bijection(S, T)
  BY DEF TellsApart, Bijection, Injection, Surjection, IsInjective
<1>2. ExistsBijection(S, T)
  BY <1>1 DEF ExistsBijection
<1>. QED  BY <1>2, FS_Bijection

\* Of some places, those that are chosen are as many whichever way they are counted.
LEMMA ChosenPlaces ==
  ASSUME NEW m \in Nat, NEW K \in SUBSET (1 .. m), NEW Q \in SUBSET K
  PROVE  /\ Cardinality({n \in 1 .. Cardinality(K) : Nth(K, n) \in Q}) = Cardinality(Q)
         /\ IsFiniteSet({n \in 1 .. Cardinality(K) : Nth(K, n) \in Q})
         /\ Cardinality(Q) \in Nat
<1>1. K \subseteq Nat /\ IsFiniteSet(K) /\ Cardinality(K) \in Nat
  BY PlacesOfSequence
<1>. DEFINE S == {n \in 1 .. Cardinality(K) : Nth(K, n) \in Q}
            f == [n \in S |-> Nth(K, n)]
<1>2. /\ \A i \in K : Cardinality(UpTo(K, i)) \in 1 .. Cardinality(K)
                      /\ Nth(K, Cardinality(UpTo(K, i))) = i
      /\ \A n \in 1 .. Cardinality(K) : Nth(K, n) \in K /\ Cardinality(UpTo(K, Nth(K, n))) = n
  BY <1>1, NthOfPlaces
<1>3. IsFiniteSet(S)
  <2>1. S \in SUBSET (1 .. Cardinality(K))
    OBVIOUS
  <2>2. IsFiniteSet(1 .. Cardinality(K))
    BY <1>1, CountFromOne
  <2>. QED  BY <2>1, <2>2, FS_Subset
<1>4. \A n \in S : f[n] = Nth(K, n) /\ f[n] \in Q /\ n \in 1 .. Cardinality(K)
  OBVIOUS
<1>5. \A x, y \in S : f[x] = f[y] => x = y
  BY <1>2, <1>4
<1>6. \A y \in Q : \E x \in S : f[x] = y
  <2>. SUFFICES ASSUME NEW y \in Q PROVE \E x \in S : f[x] = y
    OBVIOUS
  <2>. DEFINE x == Cardinality(UpTo(K, y))
  <2>1. x \in 1 .. Cardinality(K) /\ Nth(K, x) = y
    BY <1>2
  <2>2. x \in S
    BY <2>1
  <2>3. f[x] = y
    BY <1>4, <2>1, <2>2
  <2>. QED  BY <2>2, <2>3
<1>. HIDE DEF f, S
<1>7. Cardinality(Q) = Cardinality(S)
  <2>1. TellsApart(f, S, Q)
    BY <1>4, <1>5, <1>6 DEF TellsApart
  <2>. QED  BY <1>3, <2>1, ImageCounts
<1>8. Cardinality(Q) \in Nat
  BY <1>3, <1>7, FS_CardinalityType
<1>. QED  BY <1>3, <1>7, <1>8 DEF S

\* The places of a text where it has what is counted.
LEMMA PlacesOfText ==
  ASSUME NEW text, Len(text) \in Nat, NEW P \in SUBSET Indices(text)
  PROVE  IsFiniteSet(P) /\ Cardinality(P) \in Nat /\ Cardinality(P) <= Len(text)
<1>1. IsFiniteSet(1 .. Len(text)) /\ Cardinality(1 .. Len(text)) = Len(text)
  BY CountFromOne
<1>. QED  BY <1>1, FS_Subset, FS_CardinalityType DEF Indices

\* What a text is made of is counted; what it lacks is counted as nothing.
LEMMA CountIsAsMany ==
  ASSUME NEW text, Len(text) \in Nat, NEW x
  PROVE  /\ Count(x, text) \in Nat
         /\ (\E i \in Indices(text) : text[i] = x) <=> Count(x, text) > 0
<1>. DEFINE P == {i \in Indices(text) : text[i] = x}
<1>1. P \in SUBSET Indices(text)
  OBVIOUS
<1>2. Count(x, text) = Cardinality(P)
  BY DEF Count
<1>3. (\E i \in Indices(text) : text[i] = x) <=> P # {}
  OBVIOUS
<1>. HIDE DEF P
<1>4. IsFiniteSet(P) /\ Cardinality(P) \in Nat
  BY <1>1, PlacesOfText
<1>5. P = {} <=> Cardinality(P) = 0
  BY <1>4, FS_EmptySet
<1>. QED  BY <1>2, <1>3, <1>4, <1>5

\* What both texts have of an item.
LEMMA KeptIsLess ==
  ASSUME NEW reference, NEW text, Len(reference) \in Nat, Len(text) \in Nat, NEW x
  PROVE  /\ Kept(x, reference, text) \in Nat
         /\ Kept(x, reference, text) <= Count(x, reference)
         /\ Kept(x, reference, text) <= Count(x, text)
         /\ \A n \in Nat : n <= Count(x, reference) /\ n <= Count(x, text)
                             => n <= Kept(x, reference, text)
<1>1. Count(x, reference) \in Nat /\ Count(x, text) \in Nat
  BY CountIsAsMany
<1>. DEFINE c == Count(x, reference)
            d == Count(x, text)
<1>2. c \in Int /\ d \in Int /\ c \in Nat /\ d \in Nat /\ Kept(x, reference, text) = Min({c, d})
  BY <1>1 DEF Kept
<1>. HIDE DEF c, d
<1>. DEFINE k == Kept(x, reference, text)
<1>3. k = IF c <= d THEN c ELSE d
  BY <1>2, LesserOf
<1>. HIDE DEF k
<1>4. k \in Nat /\ k <= c /\ k <= d
  BY <1>2, <1>3
<1>5. \A n \in Nat : n <= c /\ n <= d => n <= k
  BY <1>2, <1>3
<1>. QED  BY <1>4, <1>5 DEF c, d, k

\* The items of a text that are among some are counted one item after the other.
LEMMA CountsWithin ==
  ASSUME NEW text, Len(text) \in Nat, NEW X, IsFiniteSet(X),
         NEW f, \A x \in X : f[x] = Count(x, text)
  PROVE  SumFunctionOnSet(f, X) = Cardinality({i \in Indices(text) : text[i] \in X})
<1>. DEFINE A == {i \in Indices(text) : text[i] \in X}
<1>1. A \in SUBSET Indices(text)
  OBVIOUS
<1>2. IsFiniteSet(A)
  BY <1>1, PlacesOfText
<1>3. \A i \in A : text[i] \in X
  OBVIOUS
<1>4. ASSUME NEW x \in X PROVE f[x] = Cardinality(OfKind(A, text, x))
  <2>1. OfKind(A, text, x) = {i \in Indices(text) : text[i] = x}
    BY DEF OfKind
  <2>. QED  BY <2>1 DEF Count
<1>. HIDE DEF A
<1>5. SumFunctionOnSet(f, X) = Cardinality(A)
  BY <1>2, <1>3, <1>4, CountByKind
<1>. QED  BY <1>5 DEF A

\* What is in a text.
LEMMA WhatTextHolds ==
  ASSUME NEW text, Len(text) \in Nat, DOMAIN text = 1 .. Len(text)
  PROVE  /\ IsFiniteSet(ToSet(text))
         /\ \A i \in Indices(text) : text[i] \in ToSet(text)
         /\ \A x \in ToSet(text) : \E i \in Indices(text) : text[i] = x
         /\ \A x : x \in ToSet(text) <=> Count(x, text) > 0
<1>1. IsFiniteSet(1 .. Len(text))
  BY CountFromOne
<1>2. ToSet(text) = {text[i] : i \in 1 .. Len(text)}
  BY DEF ToSet
<1>3. IsFiniteSet(ToSet(text))
  <2>. DEFINE S == 1 .. Len(text)
              f == [i \in S |-> text[i]]
  <2>1. f \in Surjection(S, ToSet(text))
    BY <1>2 DEF Surjection
  <2>2. IsFiniteSet(S)
    BY <1>1
  <2>. HIDE DEF f, S
  <2>. QED  BY <2>1, <2>2, FS_Surjection
<1>. QED  BY <1>2, <1>3, CountIsAsMany DEF Indices

\* What both texts have of each item.
KeptOfEach(X, reference, text) == [x \in X |-> Kept(x, reference, text)]
CountOfEach(X, text) == [x \in X |-> Count(x, text)]

\* A text has no more in common with another than it has.
LEMMA KeptIsWithin ==
  ASSUME NEW reference, NEW text, Len(reference) \in Nat, Len(text) \in Nat,
         DOMAIN reference = 1 .. Len(reference), DOMAIN text = 1 .. Len(text)
  PROVE  /\ KeptOf(reference, text) \in Nat
         /\ KeptOf(reference, text) <= Len(reference)
         /\ KeptOf(reference, text) <= Cardinality({i \in Indices(reference) : reference[i] \in ToSet(text)})
<1>. DEFINE X == ToSet(reference)
            Y == ToSet(reference) \cap ToSet(text)
            f == KeptOfEach(X, reference, text)
            g == CountOfEach(X, reference)
<1>1. IsFiniteSet(X) /\ IsFiniteSet(Y) /\ Y \in SUBSET X
  BY WhatTextHolds, FS_Subset
<1>2. \A x \in X : f[x] = Kept(x, reference, text) /\ g[x] = Count(x, reference)
  BY DEF KeptOfEach, CountOfEach
<1>3. \A x \in X : f[x] \in Nat /\ g[x] \in Nat /\ f[x] <= g[x]
  BY <1>2, KeptIsLess, CountIsAsMany
<1>4. ASSUME NEW x \in X \ Y PROVE f[x] = 0
  <2>1. x \notin ToSet(text)
    OBVIOUS
  <2>2. Count(x, text) \in Nat /\ ~ (Count(x, text) > 0)
    BY <2>1, WhatTextHolds, CountIsAsMany
  <2>3. f[x] \in Nat /\ f[x] <= Count(x, text)
    BY <1>2, <1>3, KeptIsLess
  <2>. QED  BY <2>2, <2>3
<1>5. KeptOf(reference, text) = SumFunctionOnSet(f, X)
  BY DEF KeptOf, SumFunction, KeptOfEach
<1>6. {i \in Indices(reference) : reference[i] \in X} = Indices(reference)
  BY WhatTextHolds
<1>7. {i \in Indices(reference) : reference[i] \in Y} = {i \in Indices(reference) : reference[i] \in ToSet(text)}
  BY WhatTextHolds
<1>. HIDE DEF X, Y, f, g
<1>8. SumFunctionOnSet(f, X) \in Nat /\ SumFunctionOnSet(f, X) <= SumFunctionOnSet(g, X)
  BY <1>1, <1>3, SumIsNat, SumsCompare
<1>9. SumFunctionOnSet(g, X) = Cardinality(Indices(reference))
  BY <1>1, <1>2, <1>6, CountsWithin
<1>10. Cardinality(Indices(reference)) = Len(reference)
  BY CountFromOne DEF Indices
<1>11. SumFunctionOnSet(f, X) = SumFunctionOnSet(f, Y)
  BY <1>1, <1>3, <1>4, SumDrops
<1>12. SumFunctionOnSet(f, Y) <= SumFunctionOnSet(g, Y)
  <2>1. \A x \in Y : f[x] \in Nat /\ g[x] \in Nat /\ f[x] <= g[x]
    BY <1>1, <1>3
  <2>. QED  BY <1>1, <2>1, SumsCompare
<1>13. SumFunctionOnSet(g, Y) = Cardinality({i \in Indices(reference) : reference[i] \in Y})
  <2>1. \A x \in Y : g[x] = Count(x, reference)
    BY <1>1, <1>2
  <2>. QED  BY <1>1, <2>1, CountsWithin
<1>. QED  BY <1>5, <1>7, <1>8, <1>9, <1>10, <1>11, <1>12, <1>13

\* The keys of a text, one for each item.
LEMMA KeysOfText ==
  ASSUME NEW items, Len(items) \in Nat
  PROVE  /\ Len(Keys(items)) = Len(items) /\ DOMAIN Keys(items) = 1 .. Len(items)
         /\ \A i \in Indices(items) : Keys(items)[i] = KeyOf(items[i])
         /\ Indices(Keys(items)) = Indices(items)
<1>1. Keys(items) = [i \in 1 .. Len(items) |-> KeyOf(items[i])]
  BY DEF Keys, Indices
<1>2. Len(Keys(items)) = Len(items)
  BY <1>1
<1>. QED  BY <1>1, <1>2 DEF Indices

\* The items of a text with one key, and how many both texts have of each.
OfKey(X, v) == {x \in X : KeyOf(x) = v}

\* Of the items with one key, no more than of the key is found again.
LEMMA KeyKeepsMore ==
  ASSUME NEW expected, NEW found, Len(expected) \in Nat, Len(found) \in Nat,
         DOMAIN expected = 1 .. Len(expected), NEW v
  PROVE  /\ SumFunctionOnSet(KeptOfEach(ToSet(expected), expected, found), OfKey(ToSet(expected), v)) \in Nat
         /\ SumFunctionOnSet(KeptOfEach(ToSet(expected), expected, found), OfKey(ToSet(expected), v))
              <= Kept(v, Keys(expected), Keys(found))
<1>. DEFINE X == OfKey(ToSet(expected), v)
            f == KeptOfEach(ToSet(expected), expected, found)
            g == CountOfEach(X, expected)
            h == CountOfEach(X, found)
<1>1. IsFiniteSet(X) /\ X \in SUBSET ToSet(expected)
  BY WhatTextHolds, FS_Subset DEF OfKey
<1>2. \A x \in X : f[x] = Kept(x, expected, found) /\ g[x] = Count(x, expected) /\ h[x] = Count(x, found)
  BY <1>1 DEF KeptOfEach, CountOfEach
<1>3. \A x \in X : f[x] \in Nat /\ g[x] \in Nat /\ h[x] \in Nat /\ f[x] <= g[x] /\ f[x] <= h[x]
  BY <1>2, KeptIsLess, CountIsAsMany
<1>4. \A x \in X : KeyOf(x) = v
  BY DEF OfKey
<1>. HIDE DEF X, f, g, h
<1>5. SumFunctionOnSet(f, X) \in Nat /\ SumFunctionOnSet(f, X) <= SumFunctionOnSet(g, X)
  BY <1>1, <1>3, SumIsNat, SumsCompare
<1>6. SumFunctionOnSet(f, X) <= SumFunctionOnSet(h, X)
  BY <1>1, <1>3, SumsCompare
<1>7. ASSUME NEW text, Len(text) \in Nat, NEW c, \A x \in X : c[x] = Count(x, text)
      PROVE  SumFunctionOnSet(c, X) \in Nat /\ SumFunctionOnSet(c, X) <= Count(v, Keys(text))
  <2>. DEFINE mine == {i \in Indices(text) : text[i] \in X}
              same == {i \in Indices(Keys(text)) : Keys(text)[i] = v}
  <2>1. SumFunctionOnSet(c, X) = Cardinality(mine)
    BY <1>1, <1>7, CountsWithin
  <2>2. same \in SUBSET Indices(text) /\ mine \in SUBSET same
    BY <1>4, <1>7, KeysOfText
  <2>3. Count(v, Keys(text)) = Cardinality(same)
    BY DEF Count
  <2>. HIDE DEF mine, same
  <2>4. IsFiniteSet(same)
    BY <1>7, <2>2, PlacesOfText
  <2>5. Cardinality(mine) \in Nat /\ Cardinality(mine) <= Cardinality(same)
    BY <2>2, <2>4, FS_Subset, FS_CardinalityType
  <2>. QED  BY <2>1, <2>3, <2>5
<1>8. SumFunctionOnSet(g, X) \in Nat /\ SumFunctionOnSet(g, X) <= Count(v, Keys(expected))
  BY <1>2, <1>7
<1>9. SumFunctionOnSet(h, X) \in Nat /\ SumFunctionOnSet(h, X) <= Count(v, Keys(found))
  BY <1>2, <1>7
<1>10. Len(Keys(expected)) \in Nat /\ Len(Keys(found)) \in Nat
  BY KeysOfText
<1>11. SumFunctionOnSet(f, X) <= Kept(v, Keys(expected), Keys(found))
  <2>. DEFINE s == SumFunctionOnSet(f, X)
              m == SumFunctionOnSet(g, X)
              n == SumFunctionOnSet(h, X)
              a == Count(v, Keys(expected))
              b == Count(v, Keys(found))
  <2>1. a \in Nat /\ b \in Nat
    BY <1>10, CountIsAsMany
  <2>2. s \in Nat /\ m \in Nat /\ n \in Nat /\ s <= m /\ s <= n /\ m <= a /\ n <= b
    BY <1>5, <1>6, <1>8, <1>9
  <2>3. \A t \in Nat : t <= a /\ t <= b => t <= Kept(v, Keys(expected), Keys(found))
    BY <1>10, KeptIsLess
  <2>. HIDE DEF s, m, n, a, b
  <2>4. s <= a /\ s <= b
    BY <2>1, <2>2
  <2>5. s <= Kept(v, Keys(expected), Keys(found))
    BY <2>2, <2>3, <2>4
  <2>. QED  BY <2>5 DEF s
<1>. QED  BY <1>5, <1>11 DEF X, f

\* What is found again as it was written is found again by its value.
LEMMA KeysKeepMore ==
  ASSUME NEW expected, NEW found, Len(expected) \in Nat, Len(found) \in Nat,
         DOMAIN expected = 1 .. Len(expected), DOMAIN found = 1 .. Len(found)
  PROVE  KeptOf(expected, found) <= KeptOf(Keys(expected), Keys(found))
<1>. DEFINE X == ToSet(expected)
            K == ToSet(Keys(expected))
            f == KeptOfEach(X, expected, found)
            g == [x \in X |-> KeyOf(x)]
            h == [v \in K |-> SumFunctionOnSet(f, OfKind(X, g, v))]
            k == KeptOfEach(K, Keys(expected), Keys(found))
<1>1. /\ Len(Keys(expected)) \in Nat /\ DOMAIN Keys(expected) = 1 .. Len(Keys(expected))
      /\ Len(Keys(found)) \in Nat
  BY KeysOfText
<1>2. IsFiniteSet(X) /\ IsFiniteSet(K)
  BY <1>1, WhatTextHolds
<1>3. \A x \in X : f[x] \in Nat
  BY KeptIsLess DEF KeptOfEach
<1>4. \A x \in X : g[x] \in K
  <2>. SUFFICES ASSUME NEW x \in X PROVE KeyOf(x) \in K
    OBVIOUS
  <2>1. PICK i \in Indices(expected) : expected[i] = x
    BY WhatTextHolds
  <2>2. Keys(expected)[i] = KeyOf(x) /\ i \in Indices(Keys(expected))
    BY <2>1, KeysOfText
  <2>. QED  BY <1>1, <2>2, WhatTextHolds
<1>5. ASSUME NEW v \in K PROVE h[v] \in Nat /\ k[v] \in Nat /\ h[v] <= k[v]
  <2>1. OfKind(X, g, v) = OfKey(X, v)
    BY DEF OfKey, OfKind
  <2>2. h[v] = SumFunctionOnSet(f, OfKey(X, v))
    BY <2>1
  <2>3. k[v] = Kept(v, Keys(expected), Keys(found))
    BY DEF KeptOfEach
  <2>4. k[v] \in Nat
    BY <1>1, <2>3, KeptIsLess
  <2>. QED  BY <2>2, <2>3, <2>4, KeyKeepsMore
<1>6. \A v \in K : h[v] = SumFunctionOnSet(f, OfKind(X, g, v))
  OBVIOUS
<1>7. KeptOf(expected, found) = SumFunctionOnSet(f, X)
  BY DEF KeptOf, SumFunction, KeptOfEach
<1>8. KeptOf(Keys(expected), Keys(found)) = SumFunctionOnSet(k, K)
  BY DEF KeptOf, SumFunction, KeptOfEach
<1>. HIDE DEF X, K, f, g, h, k
<1>9. SumFunctionOnSet(f, X) = SumFunctionOnSet(h, K)
  BY ONLY <1>2, <1>3, <1>4, <1>6, SumByKind
<1>10. SumFunctionOnSet(h, K) <= SumFunctionOnSet(k, K)
  BY <1>2, <1>5, SumsCompare
<1>. QED  BY <1>7, <1>8, <1>9, <1>10

\* The first n of some places, one after the other.
FirstOf(K, n) == {i \in K : Cardinality(UpTo(K, i)) <= n}

\* They are n, or as many as there are.
LEMMA FirstOfPlaces ==
  ASSUME NEW m \in Nat, NEW K \in SUBSET (1 .. m), NEW n \in Nat
  PROVE  /\ IsFiniteSet(FirstOf(K, n))
         /\ Cardinality(FirstOf(K, n)) = IF Cardinality(K) <= n THEN Cardinality(K) ELSE n
<1>. DEFINE first == FirstOf(K, n)
            some == IF Cardinality(K) <= n THEN Cardinality(K) ELSE n
            f == [i \in first |-> Cardinality(UpTo(K, i))]
<1>1. K \subseteq Nat /\ IsFiniteSet(K) /\ Cardinality(K) \in Nat
  BY PlacesOfSequence
<1>2. /\ \A i \in K : Cardinality(UpTo(K, i)) \in 1 .. Cardinality(K)
                      /\ Nth(K, Cardinality(UpTo(K, i))) = i
      /\ \A k \in 1 .. Cardinality(K) : Nth(K, k) \in K /\ Cardinality(UpTo(K, Nth(K, k))) = k
  BY <1>1, NthOfPlaces
<1>3. some \in Nat /\ \A k : k \in 1 .. some <=> k \in 1 .. Cardinality(K) /\ k <= n
  BY <1>1
<1>4. IsFiniteSet(first)
  BY <1>1, FS_Subset DEF FirstOf
<1>5. \A i \in first : i \in K /\ f[i] = Cardinality(UpTo(K, i)) /\ f[i] \in 1 .. Cardinality(K) /\ f[i] <= n
  BY <1>2 DEF FirstOf
<1>6. \A i \in first : f[i] \in 1 .. some
  BY <1>3, <1>5
<1>7. \A i, j \in first : f[i] = f[j] => i = j
  BY <1>2, <1>5
<1>8. ASSUME NEW k \in 1 .. some PROVE \E i \in first : f[i] = k
  <2>1. k \in 1 .. Cardinality(K) /\ k <= n
    BY <1>3
  <2>2. Nth(K, k) \in K /\ Cardinality(UpTo(K, Nth(K, k))) = k
    BY <1>2, <2>1
  <2>3. Nth(K, k) \in first
    BY <2>1, <2>2 DEF FirstOf
  <2>. QED  BY <2>2, <2>3
<1>. HIDE DEF first, f, some
<1>9. TellsApart(f, first, 1 .. some)
  BY <1>6, <1>7, <1>8 DEF TellsApart
<1>10. Cardinality(1 .. some) = Cardinality(first)
  BY <1>4, <1>9, ImageCounts
<1>11. Cardinality(1 .. some) = some
  BY <1>3, CountFromOne
<1>. QED  BY <1>4, <1>10, <1>11 DEF first, some

\* The items of an output that are right: those the reference still has.
RightOf(reference, hypothesis, x) == OfKind(Correct(reference, hypothesis), hypothesis, x)

\* Of each item as many are right as both texts have.
LEMMA RightOfEach ==
  ASSUME NEW reference, NEW hypothesis, Len(reference) \in Nat, hypothesis \in Seq(ToSet(hypothesis)),
         NEW x
  PROVE  Cardinality(RightOf(reference, hypothesis, x)) = Kept(x, reference, hypothesis)
<1>. DEFINE m == Len(hypothesis)
            K == {i \in Indices(hypothesis) : hypothesis[i] = x}
            n == Count(x, reference)
<1>1. m \in Nat /\ K \in SUBSET (1 .. m) /\ n \in Nat
  BY CountIsAsMany DEF Indices
<1>2. ASSUME NEW i \in K
      PROVE  Count(hypothesis[i], SubSeq(hypothesis, 1, i)) = Cardinality(UpTo(K, i))
  <2>. DEFINE begin == SubSeq(hypothesis, 1, i)
  <2>1. i \in 1 .. Len(hypothesis) /\ hypothesis[i] = x
    BY DEF Indices
  <2>2. Len(begin) = i /\ \A j \in 1 .. i : begin[j] = hypothesis[j]
    BY <2>1
  <2>. HIDE DEF begin
  <2>3. Indices(begin) = 1 .. i
    BY <2>2 DEF Indices
  <2>4. {j \in Indices(begin) : begin[j] = x} = {j \in 1 .. i : hypothesis[j] = x}
    BY <2>2, <2>3
  <2>5. \A j : j \in 1 .. i <=> j \in 1 .. Len(hypothesis) /\ j <= i
    BY <2>1
  <2>6. {j \in 1 .. i : hypothesis[j] = x} = UpTo(K, i)
    BY <2>5 DEF UpTo, Indices
  <2>. QED  BY <2>1, <2>4, <2>6 DEF Count, begin
<1>3. RightOf(reference, hypothesis, x) = FirstOf(K, n)
  <2>1. \A i : i \in RightOf(reference, hypothesis, x)
                 <=> i \in K /\ Count(hypothesis[i], SubSeq(hypothesis, 1, i)) <= n
    BY DEF RightOf, Correct, OfKind
  <2>2. \A i : i \in RightOf(reference, hypothesis, x) <=> i \in K /\ Cardinality(UpTo(K, i)) <= n
    BY <1>2, <2>1
  <2>. HIDE DEF K, n
  <2>. QED  BY <2>2 DEF FirstOf
<1>4. Cardinality(K) = Count(x, hypothesis)
  BY DEF Count
<1>5. Kept(x, reference, hypothesis) = Min({n, Cardinality(K)})
  BY <1>4 DEF Kept
<1>. HIDE DEF m, K, n
<1>6. Cardinality(FirstOf(K, n)) = IF Cardinality(K) <= n THEN Cardinality(K) ELSE n
  BY <1>1, FirstOfPlaces
<1>7. Cardinality(K) \in Nat
  BY <1>1, PlacesOfSequence
<1>8. Min({n, Cardinality(K)}) = IF n <= Cardinality(K) THEN n ELSE Cardinality(K)
  <2>1. n \in Int /\ Cardinality(K) \in Int
    BY <1>1, <1>7
  <2>. QED  BY <2>1, LesserOf
<1>. QED  BY <1>1, <1>3, <1>5, <1>6, <1>7, <1>8

\* As many items of the output are right as both texts have in common.
LEMMA RightAreKept ==
  ASSUME NEW reference, NEW hypothesis, Len(reference) \in Nat, DOMAIN reference = 1 .. Len(reference),
         hypothesis \in Seq(ToSet(hypothesis))
  PROVE  Cardinality(Correct(reference, hypothesis)) = KeptOf(reference, hypothesis)
<1>. DEFINE A == Correct(reference, hypothesis)
            X == ToSet(hypothesis)
            R == ToSet(reference)
            Y == R \cap X
            f == [x \in X |-> Cardinality(OfKind(A, hypothesis, x))]
            g == KeptOfEach(R, reference, hypothesis)
<1>1. Len(hypothesis) \in Nat /\ DOMAIN hypothesis = 1 .. Len(hypothesis)
  OBVIOUS
<1>2. IsFiniteSet(X) /\ IsFiniteSet(R) /\ Y \in SUBSET X /\ Y \in SUBSET R
  BY <1>1, WhatTextHolds
<1>3. A \in SUBSET Indices(hypothesis)
  BY DEF Correct
<1>4. IsFiniteSet(A)
  BY <1>1, <1>3, PlacesOfText
<1>5. \A i \in A : hypothesis[i] \in X
  BY <1>1, <1>3, WhatTextHolds
<1>6. \A x \in X : f[x] = Kept(x, reference, hypothesis)
  BY RightOfEach DEF RightOf
<1>7. \A x \in R : g[x] = Kept(x, reference, hypothesis)
  BY DEF KeptOfEach
<1>8. \A x : Kept(x, reference, hypothesis) \in Nat
  BY <1>1, KeptIsLess
<1>9. \A x : x \notin X \/ x \notin R => Kept(x, reference, hypothesis) = 0
  <2>. SUFFICES ASSUME NEW x, x \notin X \/ x \notin R PROVE Kept(x, reference, hypothesis) = 0
    OBVIOUS
  <2>1. Count(x, hypothesis) \in Nat /\ Count(x, reference) \in Nat
    BY <1>1, CountIsAsMany
  <2>2. ~ (Count(x, hypothesis) > 0) \/ ~ (Count(x, reference) > 0)
    BY <1>1, WhatTextHolds
  <2>3. Kept(x, reference, hypothesis) <= Count(x, reference)
        /\ Kept(x, reference, hypothesis) <= Count(x, hypothesis)
    BY <1>1, KeptIsLess
  <2>. QED  BY <1>8, <2>1, <2>2, <2>3
<1>10. KeptOf(reference, hypothesis) = SumFunctionOnSet(g, R)
  BY DEF KeptOf, SumFunction, KeptOfEach
<1>11. \A x \in X : f[x] = Cardinality(OfKind(A, hypothesis, x))
  OBVIOUS
<1>12. \A x : x \in Y <=> x \in X /\ x \in R
  OBVIOUS
<1>. HIDE DEF A, X, R, Y, f, g
<1>13. SumFunctionOnSet(f, X) = Cardinality(A)
  BY ONLY <1>2, <1>4, <1>5, <1>11, CountByKind
<1>14. SumFunctionOnSet(g, R) = SumFunctionOnSet(f, Y)
  <2>1. \A x \in R : g[x] \in Nat
    BY <1>7, <1>8
  <2>2. \A x \in Y : f[x] = g[x]
    BY <1>6, <1>7, <1>12
  <2>3. \A x \in R \ Y : g[x] = 0
    BY <1>7, <1>9, <1>12
  <2>. QED  BY ONLY <1>2, <2>1, <2>2, <2>3, SumDrops
<1>15. SumFunctionOnSet(f, X) = SumFunctionOnSet(f, Y)
  <2>1. \A x \in X : f[x] \in Nat
    BY <1>6, <1>8
  <2>2. \A x \in X \ Y : f[x] = 0
    BY <1>6, <1>9, <1>12
  <2>. QED  BY ONLY <1>2, <2>1, <2>2, SumDrops
<1>. QED  BY <1>10, <1>13, <1>14, <1>15 DEF A

\* The items of a text that are picked, in its order.
LEMMA WhatIsPicked ==
  ASSUME NEW text, Len(text) \in Nat, NEW P \in SUBSET Indices(text)
  PROVE  /\ Len(AtPlaces(text, P)) = Cardinality(P) /\ Cardinality(P) \in Nat
         /\ DOMAIN AtPlaces(text, P) = 1 .. Len(AtPlaces(text, P))
         /\ \A n \in 1 .. Cardinality(P) : AtPlaces(text, P)[n] = text[Nth(P, n)] /\ Nth(P, n) \in P
<1>1. P \in SUBSET (1 .. Len(text))
  BY DEF Indices
<1>2. P \subseteq Nat /\ IsFiniteSet(P) /\ Cardinality(P) \in Nat
  BY <1>1, PlacesOfSequence
<1>3. AtPlaces(text, P) = [n \in 1 .. Cardinality(P) |-> text[Nth(P, n)]]
  BY DEF AtPlaces
<1>4. \A n \in 1 .. Cardinality(P) : Nth(P, n) \in P
  BY <1>2, NthOfPlaces
<1>5. Len(AtPlaces(text, P)) = Cardinality(P)
  BY <1>2, <1>3
<1>. QED  BY <1>2, <1>3, <1>4, <1>5

\* Where the items of a category are.
PlacesIn(text, category) == {i \in Indices(text) : InCategory(text[i], category)}

\* Under a stricter lens no more sequences are found, and none that was not expected.
SequencesNest(n) ==
  /\ n.total \in Nat /\ n.strict \in Nat /\ n.value \in Nat
  /\ n.strict <= n.value /\ n.value <= n.total

\* Whatever the texts and the category, what is counted is so nested.
LEMMA SequencesAreNested ==
  ASSUME NEW reference, NEW hypothesis, Len(reference) \in Nat, Len(hypothesis) \in Nat, NEW c
  PROVE  SequencesNest(SequenceCounts(reference, hypothesis, c))
<1>. DEFINE expected == SequencesIn(reference, c)
            found == SequencesIn(hypothesis, c)
<1>1. /\ Len(expected) \in Nat /\ DOMAIN expected = 1 .. Len(expected)
      /\ Len(found) \in Nat /\ DOMAIN found = 1 .. Len(found)
  <2>1. PlacesIn(reference, c) \in SUBSET Indices(reference)
        /\ PlacesIn(hypothesis, c) \in SUBSET Indices(hypothesis)
    BY DEF PlacesIn
  <2>2. expected = AtPlaces(reference, PlacesIn(reference, c)) /\ found = AtPlaces(hypothesis, PlacesIn(hypothesis, c))
    BY DEF SequencesIn, PlacesIn
  <2>. HIDE DEF expected, found
  <2>. QED  BY <2>1, <2>2, WhatIsPicked
<1>2. SequenceCounts(reference, hypothesis, c)
        = [total |-> Len(expected), strict |-> KeptOf(expected, found),
           value |-> KeptOf(Keys(expected), Keys(found))]
  BY DEF SequenceCounts
<1>. HIDE DEF expected, found
<1>3. /\ Len(Keys(expected)) = Len(expected) /\ DOMAIN Keys(expected) = 1 .. Len(expected)
      /\ Len(Keys(found)) = Len(found) /\ DOMAIN Keys(found) = 1 .. Len(found)
  BY <1>1, KeysOfText
<1>4. KeptOf(expected, found) \in Nat
  BY <1>1, KeptIsWithin
<1>5. KeptOf(expected, found) <= KeptOf(Keys(expected), Keys(found))
  BY <1>1, KeysKeepMore
<1>6. KeptOf(Keys(expected), Keys(found)) \in Nat /\ KeptOf(Keys(expected), Keys(found)) <= Len(expected)
  <2>. DEFINE e == Keys(expected)
              f == Keys(found)
  <2>1. Len(e) \in Nat /\ DOMAIN e = 1 .. Len(e) /\ Len(f) \in Nat /\ DOMAIN f = 1 .. Len(f)
    BY <1>1, <1>3
  <2>2. Len(e) = Len(expected)
    BY <1>3
  <2>. HIDE DEF e, f
  <2>3. KeptOf(e, f) \in Nat /\ KeptOf(e, f) <= Len(e)
    BY <2>1, KeptIsWithin
  <2>. QED  BY <2>2, <2>3 DEF e, f
<1>. QED  BY <1>1, <1>2, <1>4, <1>5, <1>6 DEF SequencesNest

\* A numeral that dates a year and is found as it was written is one of the
\* numerals that are preserved.
LEMMA DatesArePreserved ==
  ASSUME NEW reference, NEW hypothesis, Len(reference) \in Nat, Len(hypothesis) \in Nat,
         YearsAreDetected(reference)
  PROVE  SequenceCounts(reference, hypothesis, "regnal").strict
           <= RomanCounts(reference, hypothesis)["strict_preserved"]
<1>. DEFINE K == PlacesIn(reference, "regnal")
            F == PlacesIn(hypothesis, "regnal")
            N == {i \in Indices(reference) : IsDetected(reference[i])}
            expected == AtPlaces(reference, K)
            found == AtPlaces(hypothesis, F)
            numerals == AtPlaces(reference, N)
            again == {i \in K : reference[i] \in ToSet(found)}
            written == {i \in N : Classify(reference[i], hypothesis) = "strict_preserved"}
            places == {n \in 1 .. Cardinality(K) : Nth(K, n) \in again}
            ranks == {n \in 1 .. Cardinality(N) : Nth(N, n) \in written}
<1>1. K \in SUBSET Indices(reference) /\ F \in SUBSET Indices(hypothesis) /\ N \in SUBSET Indices(reference)
  BY DEF PlacesIn
<1>2. SequenceCounts(reference, hypothesis, "regnal").strict = KeptOf(expected, found)
  BY DEF SequenceCounts, SequencesIn, PlacesIn
<1>3. Numerals(reference) = numerals
  BY DEF Numerals
<1>4. RomanCounts(reference, hypothesis)["strict_preserved"]
        = Cardinality({k \in Indices(numerals) : Classify(numerals[k], hypothesis) = "strict_preserved"})
  BY <1>3 DEF RomanCounts, Statuses
<1>5. again \in SUBSET written
  <2>. SUFFICES ASSUME NEW i \in K, reference[i] \in ToSet(found)
                PROVE  i \in N /\ Classify(reference[i], hypothesis) = "strict_preserved"
    OBVIOUS
  <2>. DEFINE item == reference[i]
  <2>1. i \in N /\ item.kind = "roman"
    BY DEF PlacesIn, InCategory, YearsAreDetected, IsDetected
  <2>2. /\ Len(found) = Cardinality(F) /\ DOMAIN found = 1 .. Len(found)
        /\ \A n \in 1 .. Cardinality(F) : found[n] = hypothesis[Nth(F, n)] /\ Nth(F, n) \in F
    BY <1>1, WhatIsPicked
  <2>3. PICK n \in 1 .. Cardinality(F) : found[n] = item
    BY <2>2 DEF ToSet
  <2>4. hypothesis[Nth(F, n)] = item /\ Nth(F, n) \in Indices(hypothesis)
    BY <1>1, <2>2, <2>3
  <2>5. WrittenAs(item, item.case, item.j, hypothesis)
    BY <2>1, <2>4 DEF WrittenAs
  <2>6. Classify(item, hypothesis) = "strict_preserved"
    BY <2>5 DEF Classify
  <2>. QED  BY <1>1, <2>1, <2>6 DEF item
<1>6. again \in SUBSET K /\ written \in SUBSET N
  OBVIOUS
<1>7. /\ Len(expected) = Cardinality(K) /\ Cardinality(K) \in Nat /\ DOMAIN expected = 1 .. Len(expected)
      /\ \A n \in 1 .. Cardinality(K) : expected[n] = reference[Nth(K, n)] /\ Nth(K, n) \in K
  BY <1>1, WhatIsPicked
<1>8. /\ Len(numerals) = Cardinality(N) /\ DOMAIN numerals = 1 .. Len(numerals)
      /\ \A n \in 1 .. Cardinality(N) : numerals[n] = reference[Nth(N, n)] /\ Nth(N, n) \in N
  BY <1>1, WhatIsPicked
<1>9. Len(found) \in Nat /\ DOMAIN found = 1 .. Len(found)
  BY <1>1, WhatIsPicked
<1>10. {n \in Indices(expected) : expected[n] \in ToSet(found)} = places
  BY <1>7 DEF Indices
<1>11. {k \in Indices(numerals) : Classify(numerals[k], hypothesis) = "strict_preserved"} = ranks
  BY <1>8 DEF Indices
<1>12. Len(reference) \in Nat /\ K \in SUBSET (1 .. Len(reference)) /\ N \in SUBSET (1 .. Len(reference))
  BY <1>1 DEF Indices
<1>. HIDE DEF K, F, N, expected, found, numerals, again, written
<1>13. Cardinality(places) = Cardinality(again) /\ Cardinality(again) \in Nat
  BY <1>6, <1>12, ChosenPlaces
<1>14. Cardinality(ranks) = Cardinality(written) /\ Cardinality(written) \in Nat
  BY <1>6, <1>12, ChosenPlaces
<1>. HIDE DEF places, ranks
<1>15. KeptOf(expected, found) \in Nat /\ KeptOf(expected, found) <= Cardinality(places)
  <2>1. Len(expected) \in Nat
    BY <1>7
  <2>2. /\ KeptOf(expected, found) \in Nat
        /\ KeptOf(expected, found) <= Cardinality({n \in Indices(expected) : expected[n] \in ToSet(found)})
    BY <1>7, <1>9, <2>1, KeptIsWithin
  <2>. QED  BY <1>10, <2>2
<1>16. Cardinality(again) <= Cardinality(written)
  <2>1. written \in SUBSET (1 .. Len(reference))
    BY <1>6, <1>12
  <2>2. IsFiniteSet(written)
    BY <2>1, PlacesOfSequence
  <2>. QED  BY <1>5, <2>2, FS_Subset
<1>17. KeptOf(expected, found) <= Cardinality(written)
  BY ONLY <1>13, <1>14, <1>15, <1>16
<1>. QED  BY <1>2, <1>4, <1>11, <1>14, <1>17

\* A sign that is in a text is one of the items of a family.
LEMMA SignsAreMarks ==
  ASSUME NEW f \in Families, NEW item \in f, item.kind = "sign"
  PROVE  item = Mark("sign", item.sign)
<1>1. \A x \in NumeralForms : x.kind # "sign"
  BY DEF NumeralForms, Numeral, Arabic
<1>2. \A x \in RegnalYears : x.kind # "sign"
  BY DEF RegnalYears, Numeral, Arabic
<1>3. \A x \in Foliations : x.kind # "sign"
  <2>1. \A form, key : Folio(form, key).kind = "foliation"
    BY DEF Folio
  <2>2. Arabic(12, FALSE).kind = "arabic"
    BY DEF Arabic
  <2>. QED  BY <2>1, <2>2, Zenon DEF Foliations
<1>4. \A x \in Abbreviations : x = Mark(x.kind, x.sign)
  BY DEF Abbreviations, Mark
<1>5. \A x \in ArchaicLetters : x = Mark(x.kind, x.sign)
  BY DEF ArchaicLetters, Mark
<1>. QED  BY <1>1, <1>2, <1>3, <1>4, <1>5 DEF Families

\* Of a sign no more is found than was expected, under either lens.
SignsNest(n) ==
  /\ n.total \in Nat /\ n.strict \in Nat /\ n.expansion \in Nat
  /\ n.strict <= n.expansion /\ n.expansion <= n.total /\ n.total > 0

\* Of every sign of the reference the counts are so nested.
LEMMA SignsAreNested ==
  ASSUME NEW f \in Families, NEW reference, NEW hypothesis, Len(reference) \in Nat, Len(hypothesis) \in Nat,
         \A i \in Indices(reference) : reference[i] \in f,
         NEW s \in Signs(reference)
  PROVE  SignsNest(FamilyCounts(s, reference, hypothesis))
<1>. DEFINE total == Count(Mark("sign", s), reference)
            strict == Count(Mark("sign", s), hypothesis)
            expanded == Count(Mark("expansion", s), hypothesis)
            either == strict + expanded
<1>1. total \in Nat /\ strict \in Nat /\ expanded \in Nat /\ either \in Nat /\ either = strict + expanded
  BY CountIsAsMany
<1>2. total > 0
  <2>1. PICK i \in Indices(reference) : reference[i].kind = "sign" /\ reference[i].sign = s
    BY DEF Signs
  <2>2. reference[i] = Mark("sign", s)
    BY <2>1, SignsAreMarks
  <2>. QED  BY <2>2, CountIsAsMany
<1>3. FamilyCounts(s, reference, hypothesis)
        = [total |-> total, strict |-> Min({total, strict}), expansion |-> Min({total, either})]
  BY DEF FamilyCounts
<1>. HIDE DEF total, strict, expanded, either
<1>4. /\ Min({total, strict}) = IF total <= strict THEN total ELSE strict
      /\ Min({total, either}) = IF total <= either THEN total ELSE either
  <2>1. total \in Int /\ strict \in Int /\ either \in Int
    BY <1>1
  <2>. QED  BY <2>1, LesserOf
<1>. DEFINE a == Min({total, strict})
            b == Min({total, either})
<1>5. FamilyCounts(s, reference, hypothesis) = [total |-> total, strict |-> a, expansion |-> b]
  BY <1>3
<1>6. /\ a = IF total <= strict THEN total ELSE strict
      /\ b = IF total <= either THEN total ELSE either
  BY <1>4
<1>. HIDE DEF a, b
<1>7. a \in Nat /\ b \in Nat /\ a <= b /\ b <= total
  BY ONLY <1>1, <1>6
<1>. QED  BY <1>1, <1>2, <1>5, <1>7 DEF SignsNest

\* The markers that are preserved, seen from either text, are as many.
LEMMA PairsPreserve ==
  ASSUME NEW reference, NEW hypothesis, Len(reference) \in Nat, Len(hypothesis) \in Nat,
         NEW a \in Opcodes(reference, hypothesis)
  PROVE  LET p == PreservationCounts(reference, hypothesis, a)
             q == AirObservation(reference, hypothesis, a)
         IN p.total - p.wrong = q.total - q.added
<1>. DEFINE E == EqualPairs(reference, hypothesis, a)
            P == {k \in E : reference[a[k][1]].kind \in Targets}
            R == Places(reference)
            H == Places(hypothesis)
            right == {a[k][1] : k \in E}
            faithful == {a[k][2] : k \in E}
            left == [k \in P |-> a[k][1]]
            down == [k \in P |-> a[k][2]]
<1>1. IsAlignment(a, reference, hypothesis)
  <2>1. a \in Alignments(reference, hypothesis)
    BY DEF Opcodes
  <2>. QED  BY <2>1, AlignmentsAreSo
<1>2. \A k \in E : /\ k \in 1 .. Len(a) /\ reference[a[k][1]] = hypothesis[a[k][2]]
                   /\ a[k][1] \in Indices(reference) /\ a[k][2] \in Indices(hypothesis)
  BY <1>1 DEF EqualPairs, IsAlignment, Indices
<1>3. E \in SUBSET (1 .. Len(a)) /\ Len(a) \in Nat
  BY <1>1, <1>2 DEF IsAlignment
<1>4. IsFiniteSet(P)
  <2>1. P \in SUBSET (1 .. Len(a))
    BY <1>3
  <2>. QED  BY <1>3, <2>1, PlacesOfSequence
<1>5. \A k, l \in P : k # l => a[k][1] # a[l][1] /\ a[k][2] # a[l][2]
  BY <1>1, <1>2, AlignmentsPairOnce
<1>6. TellsApart(left, P, R \cap right)
  <2>1. \A k \in P : left[k] = a[k][1] /\ a[k][1] \in R /\ a[k][1] \in right
    BY <1>2 DEF Places
  <2>2. \A i \in R \cap right : \E k \in P : left[k] = i
    <3>. SUFFICES ASSUME NEW i \in R \cap right PROVE \E k \in P : left[k] = i
      OBVIOUS
    <3>1. PICK k \in E : a[k][1] = i
      OBVIOUS
    <3>2. k \in P
      BY <3>1 DEF Places
    <3>. QED  BY <2>1, <3>1, <3>2
  <2>. HIDE DEF left, P, R, right
  <2>. QED  BY <1>5, <2>1, <2>2 DEF TellsApart
<1>7. TellsApart(down, P, H \cap faithful)
  <2>1. \A k \in P : down[k] = a[k][2] /\ a[k][2] \in H /\ a[k][2] \in faithful
    BY <1>2 DEF Places
  <2>2. \A i \in H \cap faithful : \E k \in P : down[k] = i
    <3>. SUFFICES ASSUME NEW i \in H \cap faithful PROVE \E k \in P : down[k] = i
      OBVIOUS
    <3>1. PICK k \in E : a[k][2] = i
      OBVIOUS
    <3>2. k \in P
      BY <1>2, <3>1 DEF Places
    <3>. QED  BY <2>1, <3>1, <3>2
  <2>. HIDE DEF down, P, H, faithful
  <2>. QED  BY <1>5, <2>1, <2>2 DEF TellsApart
<1>8. PreservationCounts(reference, hypothesis, a) = [total |-> Cardinality(R), wrong |-> Cardinality(R \ right)]
  BY DEF PreservationCounts
<1>9. AirObservation(reference, hypothesis, a) = [total |-> Cardinality(H), added |-> Cardinality(H \ faithful)]
  BY DEF AirObservation
<1>10. IsFiniteSet(R) /\ IsFiniteSet(H)
  <2>1. R \in SUBSET Indices(reference) /\ H \in SUBSET Indices(hypothesis)
    BY DEF Places
  <2>. QED  BY <2>1, PlacesOfText
<1>. HIDE DEF E, P, R, H, right, faithful, left, down
<1>11. Cardinality(R \cap right) = Cardinality(H \cap faithful)
  <2>1. Cardinality(R \cap right) = Cardinality(P)
    BY <1>4, <1>6, ImageCounts
  <2>2. Cardinality(H \cap faithful) = Cardinality(P)
    BY <1>4, <1>7, ImageCounts
  <2>. QED  BY <2>1, <2>2
<1>12. ASSUME NEW X, IsFiniteSet(X), NEW Y
       PROVE  Cardinality(X) - Cardinality(X \ Y) = Cardinality(X \cap Y)
  <2>1. Cardinality(X \ Y) = Cardinality(X) - Cardinality(X \cap Y)
    BY <1>12, FS_Difference
  <2>2. X \cap Y \in SUBSET X
    OBVIOUS
  <2>3. Cardinality(X) \in Nat /\ Cardinality(X \cap Y) \in Nat
    BY <1>12, <2>2, FS_Subset, FS_CardinalityType
  <2>. QED  BY <2>1, <2>3
<1>13. /\ Cardinality(R) - Cardinality(R \ right) = Cardinality(R \cap right)
       /\ Cardinality(H) - Cardinality(H \ faithful) = Cardinality(H \cap faithful)
  BY <1>10, <1>12
<1>. QED  BY <1>8, <1>9, <1>11, <1>13

\* One number of each bin.
AllBins == 0 .. NBins - 1
InBins(bins, n) == [b \in AllBins |-> bins[b][n]]

\* The confidences fall into the bins.
LEMMA BinsHoldConfidences ==
  /\ IsFiniteSet(AllBins)
  /\ \A confidence \in Confidences : BinOf(confidence) \in AllBins /\ confidence \in Nat
<1>1. IsFiniteSet(AllBins)
  <2>1. AllBins = 0 .. 10 - 1 /\ 10 \in Nat
    BY DEF AllBins, NBins
  <2>. QED  BY <2>1, CountFromZero
<1>2. BinOf(50) \in AllBins
  <2>1. (50 * NBins) \div 100 = 5 /\ NBins - 1 = 9
    BY DEF NBins
  <2>2. Min({5, 9}) = 5
    BY LesserOf
  <2>. QED  BY <2>1, <2>2 DEF BinOf, AllBins
<1>3. BinOf(100) \in AllBins
  <2>1. (100 * NBins) \div 100 = 10 /\ NBins - 1 = 9
    BY DEF NBins
  <2>2. Min({10, 9}) = 9
    BY LesserOf
  <2>. QED  BY <2>1, <2>2 DEF BinOf, AllBins
<1>. QED  BY <1>1, <1>2, <1>3 DEF Confidences

\* The items of an output are each in one bin, and so are those that are right.
BinsHold(bins, reference, hypothesis) ==
  /\ \A b \in AllBins : /\ bins[b].count \in Nat /\ bins[b].hits \in Nat /\ bins[b].claimed \in Nat
                     /\ bins[b].hits <= bins[b].count
  /\ SumFunctionOnSet(InBins(bins, "count"), AllBins) = Len(hypothesis)
  /\ SumFunctionOnSet(InBins(bins, "hits"), AllBins) = KeptOf(reference, hypothesis)

\* Whatever the confidences, the bins of one output hold its items.
LEMMA CalibrationAddsUp ==
  ASSUME NEW reference, NEW hypothesis, Len(reference) \in Nat, DOMAIN reference = 1 .. Len(reference),
         hypothesis \in Seq(ToSet(hypothesis)),
         NEW confidence \in [Indices(hypothesis) -> Confidences]
  PROVE  BinsHold(Calibration(reference, hypothesis, confidence), reference, hypothesis)
<1>. DEFINE I == Indices(hypothesis)
            right == Correct(reference, hypothesis)
            g == [i \in I |-> BinOf(confidence[i])]
            bins == Calibration(reference, hypothesis, confidence)
            count == InBins(bins, "count")
            hits == InBins(bins, "hits")
<1>1. Len(hypothesis) \in Nat
  OBVIOUS
<1>2. IsFiniteSet(I) /\ Cardinality(I) = Len(hypothesis)
  BY <1>1, CountFromOne DEF Indices
<1>3. right \in SUBSET I /\ IsFiniteSet(right)
  <2>1. right \in SUBSET I
    BY DEF Correct
  <2>. QED  BY <1>1, <2>1, PlacesOfText
<1>4. \A i \in I : g[i] \in AllBins /\ confidence[i] \in Nat
  BY BinsHoldConfidences
<1>5. ASSUME NEW b \in AllBins
      PROVE  bins[b] = [count |-> Cardinality(OfKind(I, g, b)), hits |-> Cardinality(OfKind(right, g, b)),
                        claimed |-> SumFunctionOnSet(confidence, OfKind(I, g, b))]
  <2>. DEFINE mine == {i \in I : BinOf(confidence[i]) = b}
  <2>1. mine = OfKind(I, g, b)
    BY DEF OfKind
  <2>2. mine \cap right = OfKind(right, g, b)
    BY <1>3 DEF OfKind
  <2>3. bins[b] = [count |-> Cardinality(mine), hits |-> Cardinality(mine \cap right),
                   claimed |-> SumFunctionOnSet(confidence, mine)]
    BY DEF Calibration, AllBins
  <2>. HIDE DEF mine, bins, g, right, I
  <2>. QED  BY <2>1, <2>2, <2>3
<1>6. \A b \in AllBins : count[b] = bins[b].count /\ hits[b] = bins[b].hits
  BY DEF InBins
<1>. HIDE DEF I, right, g, bins, count, hits
<1>10. \A b \in AllBins : /\ bins[b].count = Cardinality(OfKind(I, g, b))
                       /\ bins[b].hits = Cardinality(OfKind(right, g, b))
                       /\ bins[b].claimed = SumFunctionOnSet(confidence, OfKind(I, g, b))
  <2>. SUFFICES ASSUME NEW b \in AllBins
                PROVE  /\ bins[b].count = Cardinality(OfKind(I, g, b))
                       /\ bins[b].hits = Cardinality(OfKind(right, g, b))
                       /\ bins[b].claimed = SumFunctionOnSet(confidence, OfKind(I, g, b))
    OBVIOUS
  <2>. DEFINE x == Cardinality(OfKind(I, g, b))
              y == Cardinality(OfKind(right, g, b))
              z == SumFunctionOnSet(confidence, OfKind(I, g, b))
  <2>1. bins[b] = [count |-> x, hits |-> y, claimed |-> z]
    BY <1>5
  <2>. HIDE DEF x, y, z
  <2>2. bins[b].count = x /\ bins[b].hits = y /\ bins[b].claimed = z
    BY ONLY <2>1
  <2>. QED  BY <2>2 DEF x, y, z
<1>7. ASSUME NEW b \in AllBins
      PROVE  /\ bins[b].count \in Nat /\ bins[b].hits \in Nat /\ bins[b].claimed \in Nat
             /\ bins[b].hits <= bins[b].count
  <2>1. OfKind(I, g, b) \in SUBSET I /\ OfKind(right, g, b) \in SUBSET OfKind(I, g, b)
    BY <1>3 DEF OfKind
  <2>2. IsFiniteSet(OfKind(I, g, b)) /\ IsFiniteSet(OfKind(right, g, b))
    BY <1>2, <2>1, FS_Subset
  <2>3. \A i \in OfKind(I, g, b) : confidence[i] \in Nat
    BY <1>4, <2>1
  <2>4. SumFunctionOnSet(confidence, OfKind(I, g, b)) \in Nat
    BY <2>2, <2>3, SumIsNat
  <2>5. /\ Cardinality(OfKind(I, g, b)) \in Nat /\ Cardinality(OfKind(right, g, b)) \in Nat
        /\ Cardinality(OfKind(right, g, b)) <= Cardinality(OfKind(I, g, b))
    BY <2>1, <2>2, FS_Subset, FS_CardinalityType
  <2>. QED  BY <1>10, <2>4, <2>5
<1>8. SumFunctionOnSet(count, AllBins) = Len(hypothesis)
  <2>1. \A i \in I : g[i] \in AllBins
    BY <1>4
  <2>2. \A b \in AllBins : count[b] = Cardinality(OfKind(I, g, b))
    BY <1>6, <1>10
  <2>. QED  BY <1>2, <2>1, <2>2, BinsHoldConfidences, CountByKind
<1>9. SumFunctionOnSet(hits, AllBins) = KeptOf(reference, hypothesis)
  <2>1. \A i \in right : g[i] \in AllBins
    BY <1>3, <1>4
  <2>2. \A b \in AllBins : hits[b] = Cardinality(OfKind(right, g, b))
    BY <1>6, <1>10
  <2>3. SumFunctionOnSet(hits, AllBins) = Cardinality(right)
    BY <1>3, <2>1, <2>2, BinsHoldConfidences, CountByKind
  <2>4. Cardinality(right) = KeptOf(reference, hypothesis)
    BY RightAreKept DEF right
  <2>. QED  BY <2>3, <2>4
<1>. QED  BY <1>7, <1>8, <1>9 DEF BinsHold, count, hits, bins

\* What is counted in a pair of texts.
PairHolds(p) ==
  /\ Len(p.reference) \in Nat /\ Len(p.hypothesis) \in Nat
  /\ \A c \in Categories : SequencesNest(p.sequences[c])
  /\ \A s \in Statuses : p.romans[s] \in Nat
  /\ YearsAreDetected(p.reference) =>
       p.sequences["regnal"].strict <= p.romans["strict_preserved"]
  /\ DOMAIN p.signs = Signs(p.reference)
  /\ \A s \in DOMAIN p.signs : SignsNest(p.signs[s])
  /\ PreservedIsNotAdded(p)
  /\ BinsHold(p.bins, p.reference, p.hypothesis)
CountedPair(reference, hypothesis, alignment, confidence) ==
  [reference |-> reference, hypothesis |-> hypothesis,
   sequences |-> [c \in Categories |-> SequenceCounts(reference, hypothesis, c)],
   romans |-> RomanCounts(reference, hypothesis),
   signs |-> [s \in Signs(reference) |-> FamilyCounts(s, reference, hypothesis)],
   places |-> PreservationCounts(reference, hypothesis, alignment),
   archaisms |-> AirObservation(reference, hypothesis, alignment),
   bins |-> Calibration(reference, hypothesis, confidence)]

\* Every pair of texts that is shown is counted so.
LEMMA PairsHold ==
  ASSUME NEW f \in Families, NEW reference, NEW hypothesis, reference \in Seq(f), hypothesis \in Seq(f),
         NEW alignment \in Opcodes(reference, hypothesis),
         NEW confidence \in [Indices(hypothesis) -> Confidences]
  PROVE  PairHolds(CountedPair(reference, hypothesis, alignment, confidence))
<1>. DEFINE p == CountedPair(reference, hypothesis, alignment, confidence)
<1>1. /\ p.reference = reference /\ p.hypothesis = hypothesis
      /\ p.sequences = [c \in Categories |-> SequenceCounts(reference, hypothesis, c)]
      /\ p.romans = RomanCounts(reference, hypothesis)
      /\ p.signs = [s \in Signs(reference) |-> FamilyCounts(s, reference, hypothesis)]
      /\ p.places = PreservationCounts(reference, hypothesis, alignment)
      /\ p.archaisms = AirObservation(reference, hypothesis, alignment)
      /\ p.bins = Calibration(reference, hypothesis, confidence)
  BY DEF CountedPair
<1>2. /\ Len(reference) \in Nat /\ Len(hypothesis) \in Nat /\ DOMAIN reference = 1 .. Len(reference)
      /\ \A i \in Indices(reference) : reference[i] \in f
  BY DEF Indices
<1>3. hypothesis \in Seq(ToSet(hypothesis))
  <2>1. DOMAIN hypothesis = 1 .. Len(hypothesis) /\ \A i \in 1 .. Len(hypothesis) : hypothesis[i] \in ToSet(hypothesis)
    BY DEF ToSet
  <2>2. hypothesis \in [1 .. Len(hypothesis) -> ToSet(hypothesis)]
    BY <2>1
  <2>. QED  BY <1>2, <2>2
<1>. HIDE DEF p
<1>4. \A c \in Categories : SequencesNest(p.sequences[c])
  <2>1. \A c \in Categories : p.sequences[c] = SequenceCounts(reference, hypothesis, c)
    BY <1>1
  <2>. QED  BY <1>2, <2>1, SequencesAreNested
<1>5. \A s \in Statuses : p.romans[s] \in Nat
  <2>. SUFFICES ASSUME NEW s \in Statuses PROVE p.romans[s] \in Nat
    OBVIOUS
  <2>. DEFINE numerals == Numerals(reference)
              those == {k \in Indices(numerals) : Classify(numerals[k], hypothesis) = s}
              K == {i \in Indices(reference) : IsDetected(reference[i])}
  <2>1. Len(numerals) \in Nat
    <3>1. K \in SUBSET Indices(reference) /\ numerals = AtPlaces(reference, K)
      BY DEF Numerals
    <3>. HIDE DEF K, numerals
    <3>. QED  BY <1>2, <3>1, WhatIsPicked
  <2>2. p.romans[s] = Cardinality(those)
    BY <1>1 DEF RomanCounts
  <2>3. those \in SUBSET Indices(numerals)
    OBVIOUS
  <2>. HIDE DEF those, numerals
  <2>. QED  BY <2>1, <2>2, <2>3, PlacesOfText
<1>6. YearsAreDetected(reference) =>
        p.sequences["regnal"].strict <= p.romans["strict_preserved"]
  <2>1. p.sequences["regnal"] = SequenceCounts(reference, hypothesis, "regnal")
    BY <1>1 DEF Categories
  <2>2. p.romans = RomanCounts(reference, hypothesis)
    BY <1>1
  <2>. SUFFICES ASSUME YearsAreDetected(reference)
                PROVE  SequenceCounts(reference, hypothesis, "regnal").strict
                         <= RomanCounts(reference, hypothesis)["strict_preserved"]
    BY <2>1, <2>2
  <2>. QED  BY <1>2, DatesArePreserved
<1>7. DOMAIN p.signs = Signs(reference) /\ \A s \in DOMAIN p.signs : SignsNest(p.signs[s])
  <2>1. DOMAIN p.signs = Signs(reference)
        /\ \A s \in Signs(reference) : p.signs[s] = FamilyCounts(s, reference, hypothesis)
    BY <1>1
  <2>. QED  BY <1>2, <2>1, SignsAreNested
<1>8. PreservedIsNotAdded(p)
  BY <1>1, <1>2, PairsPreserve DEF PreservedIsNotAdded
<1>9. BinsHold(p.bins, reference, hypothesis)
  BY <1>1, <1>2, <1>3, CalibrationAddsUp
<1>10. PairHolds(p)
  BY <1>1, <1>2, <1>4, <1>5, <1>6, <1>7, <1>8, <1>9 DEF PairHolds
<1>. QED  BY <1>10 DEF p

\* What BuildRestitution makes of what was shown and decided.
Restituted ==
  [structured |-> [c \in {k \in Categories : Structured(k).total > 0} |-> Structured(c)],
   roman |-> IF \A s \in Statuses : Roman[s] = 0 THEN {} ELSE {Roman},
   philology |-> [s \in UNION {Signs(shown[i].reference) : i \in Indices(shown)} |-> Philology(s)],
   reliability |-> Reliability,
   decisions |-> [v \in {"changed", "refused", "untouched"} |-> DecidedAs(v)]]

\* What is kept while texts are shown and lines decided.
ShownHold == Len(shown) \in Nat /\ \A i \in Indices(shown) : PairHolds(shown[i])
VerdictsHold ==
  /\ Len(verdicts) \in Nat
  /\ \A i \in Indices(verdicts) : verdicts[i].verdict = Verdict(verdicts[i].line)
RestitutionInv ==
  /\ family \in Families
  /\ (\E S : shown \in Seq(S)) /\ (\E S : verdicts \in Seq(S))
  /\ ShownHold
  /\ VerdictsHold
  /\ restitution = <<>> \/ restitution = Restituted

\* The pairs that were shown are finitely many.
LEMMA ShownAreFinite ==
  ASSUME ShownHold
  PROVE  IsFiniteSet(Indices(shown))
<1>1. Len(shown) \in Nat
  BY DEF ShownHold
<1>. QED  BY <1>1, CountFromOne DEF Indices

\* The sums of what is nested are nested.
LEMMA SumsNest ==
  ASSUME NEW S, IsFiniteSet(S), NEW f, NEW g, NEW h,
         \A x \in S : f[x] \in Nat /\ g[x] \in Nat /\ h[x] \in Nat /\ f[x] <= g[x] /\ g[x] <= h[x]
  PROVE  /\ SumFunctionOnSet(f, S) \in Nat /\ SumFunctionOnSet(g, S) \in Nat
         /\ SumFunctionOnSet(h, S) \in Nat
         /\ SumFunctionOnSet(f, S) <= SumFunctionOnSet(g, S)
         /\ SumFunctionOnSet(g, S) <= SumFunctionOnSet(h, S)
<1>1. \A x \in S : f[x] \in Nat
  OBVIOUS
<1>2. \A x \in S : g[x] \in Nat
  OBVIOUS
<1>3. \A x \in S : h[x] \in Nat
  OBVIOUS
<1>4. SumFunctionOnSet(f, S) \in Nat /\ SumFunctionOnSet(g, S) \in Nat /\ SumFunctionOnSet(h, S) \in Nat
  BY <1>1, <1>2, <1>3, SumIsNat
<1>5. SumFunctionOnSet(f, S) <= SumFunctionOnSet(g, S)
  BY SumsCompare
<1>6. SumFunctionOnSet(g, S) <= SumFunctionOnSet(h, S)
  BY SumsCompare
<1>. QED  BY <1>4, <1>5, <1>6

\* The sequences of all the texts are nested as those of each pair.
LEMMA StructuredNests ==
  ASSUME ShownHold, NEW c \in Categories
  PROVE  SequencesNest(Structured(c))
<1>. DEFINE I == Indices(shown)
            f == [i \in I |-> shown[i].sequences[c]["strict"]]
            g == [i \in I |-> shown[i].sequences[c]["value"]]
            h == [i \in I |-> shown[i].sequences[c]["total"]]
<1>1. IsFiniteSet(I)
  BY ShownAreFinite
<1>2. ASSUME NEW i \in I
      PROVE f[i] \in Nat /\ g[i] \in Nat /\ h[i] \in Nat /\ f[i] <= g[i] /\ g[i] <= h[i]
  <2>1. SequencesNest(shown[i].sequences[c])
    BY DEF ShownHold, PairHolds
  <2>. QED  BY <2>1 DEF SequencesNest
<1>3. /\ Structured(c).strict = SumFunctionOnSet(f, I)
      /\ Structured(c).value = SumFunctionOnSet(g, I)
      /\ Structured(c).total = SumFunctionOnSet(h, I)
  BY DEF Structured, SumFunction
<1>. HIDE DEF I, f, g, h
<1>4. /\ SumFunctionOnSet(f, I) \in Nat /\ SumFunctionOnSet(g, I) \in Nat
      /\ SumFunctionOnSet(h, I) \in Nat
      /\ SumFunctionOnSet(f, I) <= SumFunctionOnSet(g, I)
      /\ SumFunctionOnSet(g, I) <= SumFunctionOnSet(h, I)
  BY <1>1, <1>2, SumsNest
<1>. QED  BY <1>3, <1>4 DEF SequencesNest

\* The signs of all the texts are nested as those of each pair.
SignsOfShown(s, n) ==
  [i \in Indices(shown) |-> IF s \in DOMAIN shown[i].signs THEN shown[i].signs[s][n] ELSE 0]

\* Whatever the sign, the sums over the pairs are so nested.
LEMMA PhilologyNests ==
  ASSUME ShownHold, NEW s \in UNION {Signs(shown[i].reference) : i \in Indices(shown)}
  PROVE  SignsNest(Philology(s))
<1>. DEFINE I == Indices(shown)
            f == SignsOfShown(s, "strict")
            g == SignsOfShown(s, "expansion")
            h == SignsOfShown(s, "total")
<1>1. IsFiniteSet(I)
  BY ShownAreFinite
<1>2. ASSUME NEW i \in I
      PROVE /\ f[i] \in Nat /\ g[i] \in Nat /\ h[i] \in Nat /\ f[i] <= g[i] /\ g[i] <= h[i]
            /\ s \in Signs(shown[i].reference) => h[i] > 0
  <2>1. PairHolds(shown[i])
    BY DEF ShownHold
  <2>2. /\ f[i] = (IF s \in DOMAIN shown[i].signs THEN shown[i].signs[s]["strict"] ELSE 0)
        /\ g[i] = (IF s \in DOMAIN shown[i].signs THEN shown[i].signs[s]["expansion"] ELSE 0)
        /\ h[i] = (IF s \in DOMAIN shown[i].signs THEN shown[i].signs[s]["total"] ELSE 0)
    BY DEF SignsOfShown
  <2>3. CASE s \in DOMAIN shown[i].signs
    <3>1. SignsNest(shown[i].signs[s])
      BY <2>1, <2>3 DEF PairHolds
    <3>. QED  BY <2>2, <2>3, <3>1 DEF SignsNest
  <2>4. CASE s \notin DOMAIN shown[i].signs
    <3>1. s \notin Signs(shown[i].reference)
      BY <2>1, <2>4 DEF PairHolds
    <3>. QED  BY <2>2, <2>4, <3>1
  <2>. QED  BY <2>3, <2>4
<1>3. /\ Philology(s).strict = SumFunctionOnSet(f, I)
      /\ Philology(s).expansion = SumFunctionOnSet(g, I)
      /\ Philology(s).total = SumFunctionOnSet(h, I)
  BY DEF Philology, SumFunction, SignsOfShown
<1>4. PICK j \in I : s \in Signs(shown[j].reference)
  OBVIOUS
<1>. HIDE DEF I, f, g, h
<1>5. /\ SumFunctionOnSet(f, I) \in Nat /\ SumFunctionOnSet(g, I) \in Nat
      /\ SumFunctionOnSet(h, I) \in Nat
      /\ SumFunctionOnSet(f, I) <= SumFunctionOnSet(g, I)
      /\ SumFunctionOnSet(g, I) <= SumFunctionOnSet(h, I)
  <2>1. \A i \in I : f[i] \in Nat /\ g[i] \in Nat /\ h[i] \in Nat /\ f[i] <= g[i] /\ g[i] <= h[i]
    BY <1>2
  <2>. QED  BY ONLY <1>1, <2>1, SumsNest
<1>6. SumFunctionOnSet(h, I) > 0
  <2>1. \A i \in I : h[i] \in Nat
    BY <1>2
  <2>2. SumFunctionOnSet(h, I) = h[j] + SumFunctionOnSet(h, I \ {j})
    BY <1>1, <2>1, SumTakesOut
  <2>3. SumFunctionOnSet(h, I \ {j}) \in Nat
    <3>1. IsFiniteSet(I \ {j}) /\ \A i \in I \ {j} : h[i] \in Nat
      BY <1>1, <2>1, FS_RemoveElement
    <3>. QED  BY <3>1, SumIsNat
  <2>4. h[j] \in Nat /\ h[j] > 0
    BY <1>2, <1>4
  <2>. QED  BY <2>2, <2>3, <2>4
<1>. QED  BY <1>3, <1>5, <1>6 DEF SignsNest

\* The dates of all the texts are among the numerals that are preserved.
LEMMA DatesArePreservedInAll ==
  ASSUME ShownHold,
         \A i \in Indices(shown) : YearsAreDetected(shown[i].reference)
  PROVE  Structured("regnal").strict <= Roman["strict_preserved"]
<1>. DEFINE I == Indices(shown)
            f == [i \in I |-> shown[i].sequences["regnal"]["strict"]]
            g == [i \in I |-> shown[i].romans["strict_preserved"]]
<1>1. IsFiniteSet(I)
  BY ShownAreFinite
<1>2. ASSUME NEW i \in I PROVE f[i] \in Nat /\ g[i] \in Nat /\ f[i] <= g[i]
  <2>1. PairHolds(shown[i])
    BY DEF ShownHold
  <2>2. "regnal" \in Categories /\ "strict_preserved" \in Statuses
    BY DEF Categories, Statuses
  <2>3. SequencesNest(shown[i].sequences["regnal"]) /\ shown[i].romans["strict_preserved"] \in Nat
    BY <2>1, <2>2 DEF PairHolds
  <2>4. shown[i].sequences["regnal"].strict <= shown[i].romans["strict_preserved"]
    BY <2>1 DEF PairHolds
  <2>. QED  BY <2>3, <2>4 DEF SequencesNest
<1>3. Structured("regnal").strict = SumFunctionOnSet(f, I)
  BY DEF Structured, SumFunction
<1>4. Roman["strict_preserved"] = SumFunctionOnSet(g, I)
  BY DEF Roman, SumFunction, Statuses
<1>. HIDE DEF I, f, g
<1>5. SumFunctionOnSet(f, I) <= SumFunctionOnSet(g, I)
  BY <1>1, <1>2, SumsCompare
<1>. QED  BY <1>3, <1>4, <1>5

\* The lenses of the sections are nested.
LEMMA LensesNest ==
  ASSUME ShownHold, restitution = Restituted
  PROVE  LensesAreNested
<1>1. /\ restitution.structured = [c \in {k \in Categories : Structured(k).total > 0} |-> Structured(c)]
      /\ restitution.roman = IF \A s \in Statuses : Roman[s] = 0 THEN {} ELSE {Roman}
      /\ restitution.philology
           = [s \in UNION {Signs(shown[i].reference) : i \in Indices(shown)} |-> Philology(s)]
  BY DEF Restituted
<1>2. ASSUME NEW c \in DOMAIN restitution.structured
      PROVE  LET n == restitution.structured[c] IN n.strict <= n.value /\ n.value <= n.total
  <2>1. c \in Categories /\ restitution.structured[c] = Structured(c)
    BY <1>1
  <2>. QED  BY <2>1, StructuredNests DEF SequencesNest
<1>3. ASSUME NEW s \in DOMAIN restitution.philology
      PROVE  LET n == restitution.philology[s]
             IN n.strict <= n.expansion /\ n.expansion <= n.total /\ n.total > 0
  <2>. DEFINE all == UNION {Signs(shown[i].reference) : i \in Indices(shown)}
  <2>1. s \in all /\ restitution.philology[s] = Philology(s)
    <3>1. restitution.philology = [t \in all |-> Philology(t)]
      BY <1>1
    <3>. HIDE DEF all
    <3>. QED  BY <3>1
  <2>. QED  BY <2>1, PhilologyNests DEF SignsNest
<1>4. ASSUME NEW r \in restitution.roman, "regnal" \in DOMAIN restitution.structured,
             \A i \in Indices(shown) : YearsAreDetected(shown[i].reference)
      PROVE  restitution.structured["regnal"].strict <= r.strict_preserved
  <2>1. r = Roman
    BY <1>1
  <2>2. restitution.structured["regnal"] = Structured("regnal")
    BY <1>1, <1>4
  <2>. QED  BY <1>4, <2>1, <2>2, DatesArePreservedInAll
<1>. QED  BY <1>2, <1>3, <1>4 DEF LensesAreNested

\* The verdicts are those of the lines.
LEMMA VerdictsAddUp ==
  ASSUME VerdictsHold, restitution = Restituted
  PROVE  DecisionsAddUp
<1>. DEFINE I == Indices(verdicts)
            as(v) == {i \in I : verdicts[i].verdict = v}
            C == {i \in I : Cut(verdicts[i].line.source) # Cut(verdicts[i].line.final)}
            Silent == {i \in I : /\ ~verdicts[i].line.code /\ verdicts[i].line.proposed = NoProposal
                                 /\ verdicts[i].line.final = verdicts[i].line.source}
            R == as("refused")
            U == as("untouched")
<1>1. /\ restitution.decisions["changed"] = Cardinality(as("changed"))
      /\ restitution.decisions["refused"] = Cardinality(R)
      /\ restitution.decisions["untouched"] = Cardinality(U)
  <2>1. restitution.decisions = [v \in {"changed", "refused", "untouched"} |-> DecidedAs(v)]
    BY DEF Restituted
  <2>. QED  BY <2>1 DEF DecidedAs
<1>2. \A i \in I : verdicts[i].verdict = Verdict(verdicts[i].line)
  BY DEF VerdictsHold
<1>3. as("changed") = C
  <2>. SUFFICES ASSUME NEW i \in I PROVE i \in as("changed") <=> i \in C
    OBVIOUS
  <2>. QED  BY <1>2 DEF Verdict
<1>4. R \cup U = I \ C /\ R \cap U = {}
  <2>. SUFFICES ASSUME NEW i \in I
                PROVE  (i \in R \/ i \in U <=> i \notin C) /\ ~ (i \in R /\ i \in U)
    OBVIOUS
  <2>. QED  BY <1>2 DEF Verdict
<1>5. Silent \in SUBSET U
  <2>. SUFFICES ASSUME NEW i \in Silent PROVE i \in U
    OBVIOUS
  <2>. QED  BY <1>2 DEF Verdict
<1>6. IsFiniteSet(I) /\ Cardinality(I) = Len(verdicts) /\ C \in SUBSET I /\ R \in SUBSET I /\ U \in SUBSET I
  <2>1. Len(verdicts) \in Nat
    BY DEF VerdictsHold
  <2>. QED  BY <2>1, CountFromOne DEF Indices
<1>7. DecisionsAddUp <=> /\ restitution.decisions["changed"] = Cardinality(C)
                         /\ restitution.decisions["untouched"] >= Cardinality(Silent)
                         /\ restitution.decisions["refused"] + restitution.decisions["untouched"]
                              = Len(verdicts) - Cardinality(C)
  BY DEF DecisionsAddUp
<1>. HIDE DEF I, C, R, U, Silent
<1>8. /\ IsFiniteSet(C) /\ IsFiniteSet(R) /\ IsFiniteSet(U) /\ IsFiniteSet(Silent)
      /\ Cardinality(Silent) <= Cardinality(U)
  BY <1>5, <1>6, FS_Subset
<1>9. /\ Cardinality(C) \in Nat /\ Cardinality(R) \in Nat /\ Cardinality(U) \in Nat /\ Cardinality(Silent) \in Nat
      /\ Cardinality(I) \in Nat
  BY <1>6, <1>8, FS_CardinalityType
<1>10. Cardinality(R \cup U) = Cardinality(R) + Cardinality(U)
  <2>1. Cardinality(R \cup U) = Cardinality(R) + Cardinality(U) - Cardinality(R \cap U)
    BY <1>8, FS_Union
  <2>2. Cardinality(R \cap U) = 0
    BY <1>4, FS_EmptySet
  <2>. QED  BY ONLY <1>9, <2>1, <2>2
<1>11. Cardinality(I \ C) = Cardinality(I) - Cardinality(C)
  <2>1. I \cap C = C
    BY <1>6
  <2>2. IsFiniteSet(I) /\ IsFiniteSet(C)
    BY <1>6, <1>8
  <2>3. Cardinality(I \ C) = Cardinality(I) - Cardinality(I \cap C)
    BY ONLY <2>2, FS_Difference
  <2>. QED  BY <2>1, <2>3
<1>12. Cardinality(R) + Cardinality(U) = Len(verdicts) - Cardinality(C)
  BY <1>4, <1>6, <1>10, <1>11
<1>. QED  BY <1>1, <1>3, <1>7, <1>8, <1>9, <1>12

\* The sum of products by one number.
LEMMA ScaledSums ==
  ASSUME NEW S, IsFiniteSet(S), NEW f, NEW g, \A x \in S : f[x] \in Nat /\ g[x] \in Nat,
         NEW k \in Nat, NEW m \in Nat, \A x \in S : f[x] * k <= m * g[x]
  PROVE  SumFunctionOnSet(f, S) * k <= m * SumFunctionOnSet(g, S)
<1>. DEFINE Good == {T \in SUBSET S : SumFunctionOnSet(f, T) * k <= m * SumFunctionOnSet(g, T)}
<1>1. {} \in Good
  <2>1. SumFunctionOnSet(f, {}) = 0 /\ SumFunctionOnSet(g, {}) = 0
    BY SumOfNone
  <2>. QED  BY <2>1
<1>2. ASSUME NEW T \in SUBSET S, T # {}, \A x \in T : T \ {x} \in Good
      PROVE  T \in Good
  <2>1. PICK x \in T : TRUE
    BY <1>2
  <2>2. IsFiniteSet(T) /\ IsFiniteSet(T \ {x})
    BY FS_Subset
  <2>3. \A y \in T : f[y] \in Nat
    OBVIOUS
  <2>4. \A y \in T : g[y] \in Nat
    OBVIOUS
  <2>. DEFINE a == f[x]
              b == g[x]
              c == SumFunctionOnSet(f, T \ {x})
              d == SumFunctionOnSet(g, T \ {x})
              e == SumFunctionOnSet(f, T)
              h == SumFunctionOnSet(g, T)
  <2>5. e = a + c /\ h = b + d
    BY <2>2, <2>3, <2>4, SumTakesOut
  <2>6. c \in Nat /\ d \in Nat
    BY <2>2, <2>3, <2>4, SumIsNat
  <2>7. a \in Nat /\ b \in Nat /\ a * k <= m * b
    OBVIOUS
  <2>8. c * k <= m * d
    BY <1>2
  <2>. HIDE DEF a, b, c, d, e, h
  <2>9. e * k <= m * h
    <3>1. (a + c) * k = a * k + c * k /\ m * (b + d) = m * b + m * d
      BY ONLY <2>6, <2>7, k \in Nat, m \in Nat
    <3>2. a * k \in Nat /\ c * k \in Nat /\ m * b \in Nat /\ m * d \in Nat
      BY ONLY <2>6, <2>7, k \in Nat, m \in Nat
    <3>. QED  BY ONLY <2>5, <2>7, <2>8, <3>1, <3>2
  <2>. QED  BY <2>9 DEF e, h
<1>. HIDE DEF Good
<1>3. S \in Good
  BY <1>1, <1>2, SetInduction
<1>. QED  BY <1>3 DEF Good

\* One number of each bin, of each pair, and of all of them.
BinsOfShown(n) == [i \in Indices(shown) |-> InBins(shown[i].bins, n)]

\* The sums over the bins of all pairs are the sums over the pairs of all bins.
LEMMA BinsOfAll ==
  ASSUME ShownHold, NEW n \in {"count", "hits", "claimed"}
  PROVE  /\ \A b \in AllBins : Reliability[b][n] \in Nat
         /\ SumFunctionOnSet(InBins(Reliability, n), AllBins)
              = SumFunctionOnSet([i \in Indices(shown) |-> SumFunctionOnSet(InBins(shown[i].bins, n), AllBins)],
                                 Indices(shown))
<1>. DEFINE I == Indices(shown)
            m == BinsOfShown(n)
            rows == [i \in I |-> SumFunctionOnSet(InBins(shown[i].bins, n), AllBins)]
            column == [b \in AllBins |-> [i \in I |-> shown[i].bins[b][n]]]
            cols == InBins(Reliability, n)
<1>1. IsFiniteSet(I) /\ IsFiniteSet(AllBins)
  BY ShownAreFinite, BinsHoldConfidences
<1>2. ASSUME NEW i \in I, NEW b \in AllBins PROVE m[i][b] \in Nat /\ column[b][i] = m[i][b]
  <2>1. BinsHold(shown[i].bins, shown[i].reference, shown[i].hypothesis)
    BY DEF ShownHold, PairHolds
  <2>2. m[i][b] = shown[i].bins[b][n] /\ column[b][i] = shown[i].bins[b][n]
    BY DEF BinsOfShown, InBins
  <2>3. shown[i].bins[b][n] \in Nat
    BY <2>1 DEF BinsHold
  <2>. QED  BY <2>2, <2>3
<1>3. \A i \in I : rows[i] = SumFunctionOnSet(m[i], AllBins)
  BY DEF BinsOfShown
<1>4. \A b \in AllBins : cols[b] = Reliability[b][n] /\ cols[b] = SumFunctionOnSet(column[b], I)
  <2>. SUFFICES ASSUME NEW b \in AllBins
                PROVE  cols[b] = Reliability[b][n] /\ cols[b] = SumFunctionOnSet(column[b], I)
    OBVIOUS
  <2>1. cols[b] = Reliability[b][n]
    BY DEF InBins
  <2>2. Reliability[b] = [k \in {"count", "hits", "claimed"} |->
                            SumFunction([i \in I |-> shown[i].bins[b][k]])]
    BY DEF Reliability, AllBins
  <2>3. Reliability[b][n] = SumFunction([i \in I |-> shown[i].bins[b][n]])
    BY <2>2
  <2>. QED  BY <2>1, <2>3 DEF SumFunction
<1>. HIDE DEF I, m, rows, column, cols
<1>5. SumFunctionOnSet(rows, I) = SumFunctionOnSet(cols, AllBins)
  <2>1. \A s \in I, t \in AllBins : m[s][t] \in Nat
    BY <1>2
  <2>2. \A t \in AllBins, s \in I : column[t][s] = m[s][t]
    BY <1>2
  <2>3. \A t \in AllBins : cols[t] = SumFunctionOnSet(column[t], I)
    BY <1>4
  <2>. QED  BY ONLY <1>1, <1>3, <2>1, <2>2, <2>3, SumExchange
<1>6. \A b \in AllBins : Reliability[b][n] \in Nat
  <2>. SUFFICES ASSUME NEW b \in AllBins PROVE SumFunctionOnSet(column[b], I) \in Nat
    BY <1>4
  <2>1. \A i \in I : column[b][i] \in Nat
    BY <1>2
  <2>. QED  BY <1>1, <2>1, SumIsNat
<1>. QED  BY <1>5, <1>6 DEF I, rows, cols

\* Of all the bins no more items are right than there are.
LEMMA HitsAreCounted ==
  ASSUME ShownHold, NEW b \in AllBins
  PROVE  Reliability[b]["hits"] <= Reliability[b]["count"]
<1>. DEFINE I == Indices(shown)
            f == [i \in I |-> shown[i].bins[b]["hits"]]
            g == [i \in I |-> shown[i].bins[b]["count"]]
<1>1. IsFiniteSet(I)
  BY ShownAreFinite
<1>2. \A i \in I : f[i] \in Nat /\ g[i] \in Nat /\ f[i] <= g[i]
  <2>. SUFFICES ASSUME NEW i \in I PROVE f[i] \in Nat /\ g[i] \in Nat /\ f[i] <= g[i]
    OBVIOUS
  <2>1. BinsHold(shown[i].bins, shown[i].reference, shown[i].hypothesis)
    BY DEF ShownHold, PairHolds
  <2>. QED  BY <2>1 DEF BinsHold
<1>3. Reliability[b]["hits"] = SumFunctionOnSet(f, I) /\ Reliability[b]["count"] = SumFunctionOnSet(g, I)
  <2>1. Reliability[b] = [k \in {"count", "hits", "claimed"} |->
                            SumFunction([i \in I |-> shown[i].bins[b][k]])]
    BY DEF Reliability, AllBins
  <2>. QED  BY <2>1 DEF SumFunction
<1>. HIDE DEF I, f, g
<1>. QED  BY <1>1, <1>2, <1>3, SumsCompare

\* The bins add up to the texts, and one of them is at least as wrong as all.
LEMMA BinsAddUp ==
  ASSUME ShownHold, restitution = Restituted
  PROVE  ReliabilityAddsUp
<1>. DEFINE I == Indices(shown)
            used == BinsUsed
            count == InBins(Reliability, "count")
            hits == InBins(Reliability, "hits")
            usedCount == [b \in used |-> restitution.reliability[b]["count"]]
            usedHits == [b \in used |-> restitution.reliability[b]["hits"]]
            gap == [b \in used |-> Gap(b)]
            texts == [i \in I |-> Len(shown[i].hypothesis)]
            common == [i \in I |-> KeptOf(shown[i].reference, shown[i].hypothesis)]
<1>1. restitution.reliability = Reliability /\ DOMAIN Reliability = AllBins
  BY DEF Restituted, Reliability, AllBins
<1>2. IsFiniteSet(AllBins) /\ used \in SUBSET AllBins /\ IsFiniteSet(used)
  <2>1. used \in SUBSET AllBins
    BY <1>1 DEF BinsUsed
  <2>. QED  BY <2>1, BinsHoldConfidences, FS_Subset
<1>3. \A b \in AllBins : count[b] = Reliability[b]["count"] /\ hits[b] = Reliability[b]["hits"]
  BY DEF InBins
<1>4. \A b \in AllBins : count[b] \in Nat /\ hits[b] \in Nat /\ hits[b] <= count[b]
                      /\ Reliability[b]["claimed"] \in Nat
  BY <1>3, BinsOfAll, HitsAreCounted
<1>5. \A b \in AllBins : b \in used <=> count[b] > 0
  BY <1>1, <1>3 DEF BinsUsed
<1>6. \A b \in used : usedCount[b] = count[b] /\ usedHits[b] = hits[b]
  BY <1>1, <1>2, <1>3
<1>7. SumFunctionOnSet(count, AllBins) = SumFunctionOnSet(texts, I)
  <2>. DEFINE rows == [i \in I |-> SumFunctionOnSet(InBins(shown[i].bins, "count"), AllBins)]
  <2>1. SumFunctionOnSet(count, AllBins) = SumFunctionOnSet(rows, I)
    BY BinsOfAll
  <2>2. \A i \in I : rows[i] = Len(shown[i].hypothesis)
    BY DEF ShownHold, PairHolds, BinsHold
  <2>3. rows = texts
    BY <2>2
  <2>. QED  BY <2>1, <2>3
<1>8. SumFunctionOnSet(hits, AllBins) = SumFunctionOnSet(common, I)
  <2>. DEFINE rows == [i \in I |-> SumFunctionOnSet(InBins(shown[i].bins, "hits"), AllBins)]
  <2>1. SumFunctionOnSet(hits, AllBins) = SumFunctionOnSet(rows, I)
    BY BinsOfAll
  <2>2. \A i \in I : rows[i] = KeptOf(shown[i].reference, shown[i].hypothesis)
    BY DEF ShownHold, PairHolds, BinsHold
  <2>3. rows = common
    BY <2>2
  <2>. QED  BY <2>1, <2>3
<1>9. \A b \in used : gap[b] \in Nat
  <2>. SUFFICES ASSUME NEW b \in used PROVE Gap(b) \in Nat
    OBVIOUS
  <2>. DEFINE h == Reliability[b]["hits"]
              c == Reliability[b]["claimed"]
              x == 100 * h - c
              y == c - 100 * h
  <2>1. h \in Nat /\ c \in Nat
    BY <1>2, <1>3, <1>4
  <2>2. Gap(b) = Max({x, y})
    BY <1>1 DEF Gap
  <2>. HIDE DEF h, c
  <2>3. x \in Int /\ y \in Int /\ (x >= 0 \/ y >= 0)
    BY <2>1
  <2>. HIDE DEF x, y
  <2>4. Max({x, y}) = IF x >= y THEN x ELSE y
    BY <2>3, GreaterOf
  <2>. QED  BY <2>2, <2>3, <2>4
<1>10. ReliabilityAddsUp <=>
         /\ SumFunctionOnSet(usedCount, used) = SumFunctionOnSet(texts, I)
         /\ SumFunctionOnSet(usedHits, used) = SumFunctionOnSet(common, I)
         /\ used # {} => \E b \in used :
              SumFunctionOnSet(gap, used) * restitution.reliability[b].count
                <= Gap(b) * SumFunctionOnSet(usedCount, used)
  BY DEF ReliabilityAddsUp, SumFunction
<1>11. \A b \in used : restitution.reliability[b].count = usedCount[b] /\ Gap(b) = gap[b]
  OBVIOUS
<1>. HIDE DEF I, used, count, hits, usedCount, usedHits, gap, texts, common
<1>12. SumFunctionOnSet(count, AllBins) = SumFunctionOnSet(usedCount, used)
  <2>1. \A b \in AllBins : count[b] \in Nat
    BY <1>4
  <2>2. \A b \in used : usedCount[b] = count[b]
    BY <1>6
  <2>3. \A b \in AllBins \ used : count[b] = 0
    BY <1>4, <1>5
  <2>. QED  BY ONLY <1>2, <2>1, <2>2, <2>3, SumDrops
<1>13. SumFunctionOnSet(hits, AllBins) = SumFunctionOnSet(usedHits, used)
  <2>1. \A b \in AllBins : hits[b] \in Nat
    BY <1>4
  <2>2. \A b \in used : usedHits[b] = hits[b]
    BY <1>6
  <2>3. \A b \in AllBins \ used : hits[b] = 0
    BY <1>4, <1>5
  <2>. QED  BY ONLY <1>2, <2>1, <2>2, <2>3, SumDrops
<1>14. ASSUME used # {}
       PROVE  \E b \in used : SumFunctionOnSet(gap, used) * usedCount[b]
                                <= gap[b] * SumFunctionOnSet(usedCount, used)
  <2>1. \A b \in used : gap[b] \in Nat /\ usedCount[b] \in Nat /\ usedCount[b] > 0
    BY <1>2, <1>4, <1>5, <1>6, <1>9
  <2>2. PICK b \in used : \A c \in used : gap[c] * usedCount[b] <= gap[b] * usedCount[c]
    BY ONLY <1>2, <1>14, <2>1, LargestShare
  <2>3. \A x \in used : gap[x] \in Nat /\ usedCount[x] \in Nat
    BY <2>1
  <2>4. usedCount[b] \in Nat /\ gap[b] \in Nat
    BY <2>1
  <2>5. SumFunctionOnSet(gap, used) * usedCount[b] <= gap[b] * SumFunctionOnSet(usedCount, used)
    BY ONLY <1>2, <2>2, <2>3, <2>4, ScaledSums
  <2>. QED  BY <2>5
<1>. QED  BY <1>7, <1>8, <1>10, <1>11, <1>12, <1>13, <1>14

\* What is kept is enough for the sections to add up.
LEMMA RestitutionHolds == RestitutionInv => RestitutionAddsUp
<1>. SUFFICES ASSUME RestitutionInv, restitution # <<>>
              PROVE  /\ LensesAreNested
                     /\ \A i \in Indices(shown) : PreservedIsNotAdded(shown[i])
                     /\ ReliabilityAddsUp
                     /\ DecisionsAddUp
  BY DEF RestitutionAddsUp
<1>1. ShownHold /\ VerdictsHold /\ restitution = Restituted
  BY DEF RestitutionInv
<1>2. \A i \in Indices(shown) : PreservedIsNotAdded(shown[i])
  BY <1>1 DEF ShownHold, PairHolds
<1>. QED  BY <1>1, <1>2, LensesNest, BinsAddUp, VerdictsAddUp

\* Before any text is shown all of it holds.
LEMMA RestitutionStarts == RestitutionInit => RestitutionInv
<1>. SUFFICES ASSUME RestitutionInit PROVE RestitutionInv
  OBVIOUS
<1>1. shown = <<>> /\ verdicts = <<>> /\ restitution = <<>> /\ family \in Families
  BY DEF RestitutionInit
<1>2. shown \in Seq(Families) /\ verdicts \in Seq(Families) /\ Len(shown) = 0 /\ Len(verdicts) = 0
  BY <1>1
<1>3. Indices(shown) = {} /\ Indices(verdicts) = {}
  BY <1>2 DEF Indices
<1>. QED  BY <1>1, <1>2, <1>3 DEF RestitutionInv, ShownHold, VerdictsHold

\* A pair of texts, a decision and the report keep it.
LEMMA RestitutionGoesOn ==
  ASSUME RestitutionInv, [RestitutionNext]_restitutionVars
  PROVE  RestitutionInv'
<1>1. CASE ShowTexts
  <2>0. PICK reference, hypothesis \in BoundedSeq(family, MaxItemsShown) :
          \E alignment \in Opcodes(reference, hypothesis),
             confidence \in [Indices(hypothesis) -> Confidences] :
             shown' = Append(shown, CountedPair(reference, hypothesis, alignment, confidence))
    BY <1>1 DEF ShowTexts, CountedPair
  <2>1. PICK alignment \in Opcodes(reference, hypothesis),
             confidence \in [Indices(hypothesis) -> Confidences] :
          shown' = Append(shown, CountedPair(reference, hypothesis, alignment, confidence))
    BY <2>0
  <2>. DEFINE p == CountedPair(reference, hypothesis, alignment, confidence)
  <2>2. reference \in Seq(family) /\ hypothesis \in Seq(family) /\ family \in Families
    BY RestitutionAssumption, BoundedLength DEF RestitutionInv
  <2>3. PairHolds(p)
    BY <2>2, PairsHold
  <2>4. restitution' = restitution /\ family' = family /\ verdicts' = verdicts /\ restitution = <<>>
    BY <1>1 DEF ShowTexts
  <2>5. PICK S : shown \in Seq(S)
    BY DEF RestitutionInv
  <2>6. shown' = Append(shown, p)
    BY <2>1
  <2>. HIDE DEF p
  <2>7. shown' \in Seq(S \cup {p})
    <3>1. shown \in Seq(S \cup {p})
      BY <2>5
    <3>. QED  BY <2>6, <3>1
  <2>8. Len(shown') \in Nat
    BY <2>7
  <2>9. \A i \in Indices(shown') : PairHolds(shown'[i])
    <3>. SUFFICES ASSUME NEW i \in Indices(shown') PROVE PairHolds(shown'[i])
      OBVIOUS
    <3>1. Len(shown') = Len(shown) + 1 /\ Len(shown) \in Nat /\ i \in 1 .. Len(shown')
      BY <2>5, <2>6 DEF Indices
    <3>2. CASE i = Len(shown) + 1
      <4>1. shown'[i] = p
        BY <2>5, <2>6, <3>2
      <4>. QED  BY <2>3, <4>1
    <3>3. CASE i # Len(shown) + 1
      <4>1. i \in Indices(shown)
        BY <3>1, <3>3 DEF Indices
      <4>2. shown'[i] = shown[i]
        BY <2>5, <2>6, <4>1 DEF Indices
      <4>. QED  BY <4>1, <4>2 DEF RestitutionInv, ShownHold
    <3>. QED  BY <3>2, <3>3
  <2>10. ShownHold'
    BY <2>8, <2>9 DEF ShownHold
  <2>11. VerdictsHold'
    BY <2>4 DEF RestitutionInv, VerdictsHold
  <2>. QED  BY <2>4, <2>7, <2>10, <2>11 DEF RestitutionInv
<1>2. CASE Decide
  <2>1. PICK line \in Decisions : verdicts' = Append(verdicts, [line |-> line, verdict |-> Verdict(line)])
    BY <1>2 DEF Decide
  <2>. DEFINE v == [line |-> line, verdict |-> Verdict(line)]
  <2>2. restitution' = restitution /\ family' = family /\ shown' = shown /\ restitution = <<>>
    BY <1>2 DEF Decide
  <2>3. PICK S : verdicts \in Seq(S)
    BY DEF RestitutionInv
  <2>4. verdicts' = Append(verdicts, v) /\ v.verdict = Verdict(v.line)
    BY <2>1
  <2>. HIDE DEF v
  <2>5. verdicts' \in Seq(S \cup {v})
    <3>1. verdicts \in Seq(S \cup {v})
      BY <2>3
    <3>. QED  BY <2>4, <3>1
  <2>6. Len(verdicts') \in Nat
    BY <2>5
  <2>7. \A i \in Indices(verdicts') : verdicts'[i].verdict = Verdict(verdicts'[i].line)
    <3>. SUFFICES ASSUME NEW i \in Indices(verdicts') PROVE verdicts'[i].verdict = Verdict(verdicts'[i].line)
      OBVIOUS
    <3>1. Len(verdicts') = Len(verdicts) + 1 /\ Len(verdicts) \in Nat /\ i \in 1 .. Len(verdicts')
      BY <2>3, <2>4 DEF Indices
    <3>2. CASE i = Len(verdicts) + 1
      <4>1. verdicts'[i] = v
        BY <2>3, <2>4, <3>2
      <4>. QED  BY <2>4, <4>1
    <3>3. CASE i # Len(verdicts) + 1
      <4>1. i \in Indices(verdicts)
        BY <3>1, <3>3 DEF Indices
      <4>2. verdicts'[i] = verdicts[i]
        BY <2>3, <2>4, <4>1 DEF Indices
      <4>. QED  BY <4>1, <4>2 DEF RestitutionInv, VerdictsHold
    <3>. QED  BY <3>2, <3>3
  <2>8. VerdictsHold'
    BY <2>6, <2>7 DEF VerdictsHold
  <2>9. ShownHold'
    BY <2>2 DEF RestitutionInv, ShownHold
  <2>. QED  BY <2>2, <2>5, <2>8, <2>9 DEF RestitutionInv
<1>3. CASE BuildRestitution
  <2>1. family' = family /\ shown' = shown /\ verdicts' = verdicts /\ restitution' = Restituted
    BY <1>3 DEF BuildRestitution, Restituted
  <2>2. Restituted' = Restituted
    BY <2>1 DEF Restituted, Structured, Roman, Philology, Reliability, DecidedAs
  <2>. QED  BY <2>1, <2>2 DEF RestitutionInv, ShownHold, VerdictsHold
<1>4. CASE UNCHANGED restitutionVars
  <2>1. family' = family /\ shown' = shown /\ verdicts' = verdicts /\ restitution' = restitution
    BY <1>4 DEF restitutionVars
  <2>2. Restituted' = Restituted
    BY <2>1 DEF Restituted, Structured, Roman, Philology, Reliability, DecidedAs
  <2>. QED  BY <2>1, <2>2 DEF RestitutionInv, ShownHold, VerdictsHold
<1>. QED  BY <1>1, <1>2, <1>3, <1>4 DEF RestitutionNext

-----------------------------------------------------------------------------
(* The distance of two texts.                                              *)

\* A sequence of m elements, and one more.
LEMMA AppendPuts ==
  ASSUME NEW m \in Nat, NEW T, NEW s \in [1 .. m -> T], NEW x \in T
  PROVE  /\ Append(s, x) \in [1 .. m + 1 -> T]
         /\ \A k \in 1 .. m : Append(s, x)[k] = s[k]
         /\ Append(s, x)[m + 1] = x
<1>1. s \in Seq(T) /\ Len(s) = m
  OBVIOUS
<1>2. Append(s, x) \in Seq(T) /\ Len(Append(s, x)) = m + 1
  BY <1>1
<1>3. Append(s, x) \in [1 .. m + 1 -> T]
  <2>. DEFINE a == Append(s, x)
  <2>1. a \in Seq(T) /\ Len(a) = m + 1 /\ m + 1 \in Nat
    BY <1>2
  <2>. HIDE DEF a
  <2>2. a \in [1 .. Len(a) -> T]
    BY <2>1
  <2>. QED  BY <2>1, <2>2 DEF a
<1>. QED  BY <1>1, <1>3

\* The first i places of a text paired with the first j of another, in order.
Pairs(a, i, j) ==
  /\ Len(a) \in Nat /\ DOMAIN a = 1 .. Len(a)
  /\ \A k \in 1 .. Len(a) :
       a[k] = <<a[k][1], a[k][2]>> /\ a[k][1] \in 1 .. i /\ a[k][2] \in 1 .. j
  /\ \A k, l \in 1 .. Len(a) : k < l => a[k][1] < a[l][1] /\ a[k][2] < a[l][2]

\* What such a pairing costs.
Cost(a, reference, hypothesis, i, j) == i + j - 2 * Len(a) + Mismatches(a, reference, hypothesis)

\* A table of distances: a cell follows from three others.
Differ(x, y) == IF x = y THEN 0 ELSE 1
\* A table of distances: the borders count the words, and every other cell is the
\* least of its three neighbours, each with what the step from it costs.
IsTable(D, reference, hypothesis) ==
  \A i \in 0 .. Len(reference), j \in 0 .. Len(hypothesis) :
    /\ D[i][j] \in Nat
    /\ i = 0 => D[i][j] = j
    /\ j = 0 => D[i][j] = i
    /\ i > 0 /\ j > 0 =>
         /\ D[i][j] <= D[i - 1][j] + 1
         /\ D[i][j] <= D[i][j - 1] + 1
         /\ D[i][j] <= D[i - 1][j - 1] + Differ(reference[i], hypothesis[j])
         /\ \/ D[i][j] = D[i - 1][j] + 1
            \/ D[i][j] = D[i][j - 1] + 1
            \/ D[i][j] = D[i - 1][j - 1] + Differ(reference[i], hypothesis[j])

\* A pairing of one more pair than another, and what it mismatches.
OnePairMore(a, b, n) ==
  n \in Nat /\ Len(a) = n /\ Len(b) = n + 1 /\ \A k \in 1 .. n : b[k] = a[k]
OneMismatchMore(a, b, n, reference, hypothesis) ==
  /\ Mismatches(a, reference, hypothesis) \in Nat
  /\ Mismatches(b, reference, hypothesis)
       = Mismatches(a, reference, hypothesis)
           + Differ(reference[b[n + 1][1]], hypothesis[b[n + 1][2]])

\* The mismatches of a pairing are those before its last pair, and this one.
LEMMA MismatchesGrow ==
  ASSUME NEW reference, NEW hypothesis, NEW a, NEW b, NEW n, OnePairMore(a, b, n)
  PROVE  OneMismatchMore(a, b, n, reference, hypothesis)
<1>0. n \in Nat /\ Len(a) = n /\ Len(b) = n + 1 /\ \A k \in 1 .. n : b[k] = a[k]
  BY DEF OnePairMore
<1>. DEFINE bad(s) == {k \in Indices(s) : reference[s[k][1]] # hypothesis[s[k][2]]}
            Ba == bad(a)
            Bb == bad(b)
            last == reference[b[n + 1][1]] = hypothesis[b[n + 1][2]]
<1>1. Indices(a) = 1 .. n /\ Indices(b) = 1 .. n + 1
  BY <1>0 DEF Indices
<1>2. Ba \in SUBSET (1 .. n)
  BY <1>1
<1>3. Bb = IF last THEN Ba ELSE Ba \cup {n + 1}
  <2>1. \A k : k \in 1 .. n + 1 <=> k \in 1 .. n \/ k = n + 1
    BY <1>0
  <2>2. \A k \in 1 .. n : k # n + 1
    BY <1>0
  <2>. QED  BY <1>0, <1>1, <2>1, <2>2
<1>4. Mismatches(a, reference, hypothesis) = Cardinality(Ba)
      /\ Mismatches(b, reference, hypothesis) = Cardinality(Bb)
  BY DEF Mismatches
<1>5. n + 1 \notin 1 .. n
  BY <1>0
<1>6. Differ(reference[b[n + 1][1]], hypothesis[b[n + 1][2]]) = IF last THEN 0 ELSE 1
  BY DEF Differ
<1>. HIDE DEF Ba, Bb, last
<1>7. IsFiniteSet(Ba) /\ Cardinality(Ba) \in Nat
  BY <1>0, <1>2, CountFromOne, FS_Subset, FS_CardinalityType
<1>8. n + 1 \notin Ba
  BY <1>2, <1>5
<1>9. Cardinality(Ba \cup {n + 1}) = Cardinality(Ba) + 1
  BY <1>7, <1>8, FS_AddElement
<1>. QED  BY <1>3, <1>4, <1>6, <1>7, <1>9 DEF OneMismatchMore

\* The pairs before the last.
Before(a) == [k \in 1 .. Len(a) - 1 |-> a[k]]

\* Without its last pair, a pairing is one of the places before that pair.
LEMMA BeforeLast ==
  ASSUME NEW i \in Nat, NEW j \in Nat, NEW a, Pairs(a, i, j), Len(a) # 0,
         NEW p \in Nat, NEW q \in Nat, a[Len(a)][1] = p + 1, a[Len(a)][2] = q + 1
  PROVE  Pairs(Before(a), p, q) /\ Len(Before(a)) = Len(a) - 1
<1>. DEFINE n == Len(a) - 1
            b == Before(a)
<1>1. n \in Nat /\ Len(a) = n + 1 /\ Len(a) \in 1 .. Len(a)
  BY DEF Pairs
<1>2. b = [k \in 1 .. n |-> a[k]]
  BY DEF Before
<1>. HIDE DEF n, b
<1>3. Len(b) = n /\ DOMAIN b = 1 .. n /\ \A k \in 1 .. n : b[k] = a[k]
  BY <1>1, <1>2
<1>4. ASSUME NEW k \in 1 .. n
      PROVE  b[k] = <<b[k][1], b[k][2]>> /\ b[k][1] \in 1 .. p /\ b[k][2] \in 1 .. q
  <2>1. k \in 1 .. Len(a) /\ k < Len(a)
    BY <1>1
  <2>2. a[k][1] < a[Len(a)][1] /\ a[k][2] < a[Len(a)][2]
    BY <1>1, <2>1 DEF Pairs
  <2>3. a[k] = <<a[k][1], a[k][2]>> /\ a[k][1] \in 1 .. i /\ a[k][2] \in 1 .. j
    BY <2>1 DEF Pairs
  <2>4. b[k] = a[k]
    BY <1>3
  <2>. QED  BY <2>2, <2>3, <2>4
<1>5. \A k, l \in 1 .. n : k < l => b[k][1] < b[l][1] /\ b[k][2] < b[l][2]
  <2>. SUFFICES ASSUME NEW k \in 1 .. n, NEW l \in 1 .. n, k < l
                PROVE  b[k][1] < b[l][1] /\ b[k][2] < b[l][2]
    OBVIOUS
  <2>1. k \in 1 .. Len(a) /\ l \in 1 .. Len(a)
    BY <1>1
  <2>. QED  BY <1>3, <2>1 DEF Pairs
<1>. QED  BY <1>1, <1>3, <1>4, <1>5 DEF Pairs, b, n

\* The places of the last pair, and whether the last places are left unpaired.
LEMMA LastPlaces ==
  ASSUME NEW i \in Nat, NEW j \in Nat, NEW a, Pairs(a, i + 1, j + 1)
  PROVE  \/ Pairs(a, i, j + 1)
         \/ Pairs(a, i + 1, j)
         \/ Len(a) # 0 /\ a[Len(a)][1] = i + 1 /\ a[Len(a)][2] = j + 1
<1>1. CASE Len(a) = 0
  <2>1. Pairs(a, i, j + 1)
    BY <1>1 DEF Pairs
  <2>. QED  BY <2>1
<1>2. CASE Len(a) # 0
  <2>. DEFINE n == Len(a)
  <2>1. n \in Nat /\ n \in 1 .. n /\ DOMAIN a = 1 .. n
    BY <1>2 DEF Pairs
  <2>2. \A k \in 1 .. n : /\ a[k] = <<a[k][1], a[k][2]>>
                          /\ a[k][1] \in 1 .. i + 1 /\ a[k][2] \in 1 .. j + 1
    BY DEF Pairs
  <2>3. \A k, l \in 1 .. n : k < l => a[k][1] < a[l][1] /\ a[k][2] < a[l][2]
    BY DEF Pairs
  <2>4. \A k \in 1 .. n : k < n \/ k = n
    <3>1. n \in Nat
      BY <2>1
    <3>. HIDE DEF n
    <3>. QED  BY <3>1
  <2>5. CASE a[n][1] # i + 1
    <3>1. a[n][1] \in 1 .. i
      BY <2>1, <2>2, <2>5
    <3>2. \A k \in 1 .. n : a[k][1] \in 1 .. i
      <4>. SUFFICES ASSUME NEW k \in 1 .. n PROVE a[k][1] \in 1 .. i
        OBVIOUS
      <4>1. a[k][1] \in 1 .. i + 1 /\ (k = n \/ a[k][1] < a[n][1])
        BY <2>1, <2>2, <2>3, <2>4
      <4>. HIDE DEF n
      <4>. QED  BY <3>1, <4>1
    <3>3. Pairs(a, i, j + 1)
      BY <2>1, <2>2, <2>3, <3>2 DEF Pairs
    <3>. QED  BY <3>3
  <2>6. CASE a[n][2] # j + 1
    <3>1. a[n][2] \in 1 .. j
      BY <2>1, <2>2, <2>6
    <3>2. \A k \in 1 .. n : a[k][2] \in 1 .. j
      <4>. SUFFICES ASSUME NEW k \in 1 .. n PROVE a[k][2] \in 1 .. j
        OBVIOUS
      <4>1. a[k][2] \in 1 .. j + 1 /\ (k = n \/ a[k][2] < a[n][2])
        BY <2>1, <2>2, <2>3, <2>4
      <4>. HIDE DEF n
      <4>. QED  BY <3>1, <4>1
    <3>3. Pairs(a, i + 1, j)
      BY <2>1, <2>2, <2>3, <3>2 DEF Pairs
    <3>. QED  BY <3>3
  <2>. QED  BY <1>2, <2>5, <2>6
<1>. QED  BY <1>1, <1>2

\* No pairing of the first places costs less than the cell.
LEMMA CellsAreBounds ==
  ASSUME NEW reference, NEW hypothesis, Len(reference) \in Nat, Len(hypothesis) \in Nat,
         NEW D, IsTable(D, reference, hypothesis),
         NEW i \in 0 .. Len(reference), NEW j \in 0 .. Len(hypothesis), NEW a, Pairs(a, i, j)
  PROVE  D[i][j] <= Cost(a, reference, hypothesis, i, j)
<1>. DEFINE C(x, y, b) == Cost(b, reference, hypothesis, x, y)
            Bad(x, y) == \E b : Pairs(b, x, y) /\ ~(D[x][y] <= C(x, y, b))
            Sizes == {n \in Nat : \E x \in 0 .. Len(reference), y \in 0 .. Len(hypothesis) :
                                    n = x + y /\ Bad(x, y)}
<1>. SUFFICES ASSUME ~(D[i][j] <= C(i, j, a)) PROVE FALSE
  OBVIOUS
<1>1. i + j \in Sizes
  BY DEF Bad
<1>2. PICK n \in Sizes : \A m \in Sizes : n <= m
  <2>1. Sizes \subseteq Nat /\ Sizes # {}
    BY <1>1
  <2>. HIDE DEF Sizes
  <2>. QED  BY <2>1, LeastNat
<1>3. PICK x \in 0 .. Len(reference), y \in 0 .. Len(hypothesis) : n = x + y /\ Bad(x, y)
  OBVIOUS
<1>4. PICK b : Pairs(b, x, y) /\ ~(D[x][y] <= C(x, y, b))
  BY <1>3
<1>5. \A u \in 0 .. Len(reference), v \in 0 .. Len(hypothesis) :
        u + v < x + y => \A c : Pairs(c, u, v) => D[u][v] <= C(u, v, c)
  <2>. SUFFICES ASSUME NEW u \in 0 .. Len(reference), NEW v \in 0 .. Len(hypothesis), u + v < x + y,
                       NEW c, Pairs(c, u, v), ~(D[u][v] <= C(u, v, c))
                PROVE  FALSE
    OBVIOUS
  <2>1. u + v \in Sizes
    BY DEF Bad
  <2>. HIDE DEF Sizes
  <2>. QED  BY <1>2, <1>3, <2>1
<1>. HIDE DEF Sizes, Bad
<1>6. x \in Nat /\ y \in Nat /\ Len(b) \in Nat /\ D[x][y] \in Nat
  BY <1>4 DEF Pairs, IsTable
<1>7. Mismatches(b, reference, hypothesis) \in Nat
  <2>1. IsFiniteSet(1 .. Len(b))
    BY <1>6, CountFromOne
  <2>2. IsFiniteSet({k \in Indices(b) : reference[b[k][1]] # hypothesis[b[k][2]]})
    BY <2>1, FS_Subset DEF Indices
  <2>. QED  BY <2>2, FS_CardinalityType DEF Mismatches
<1>. DEFINE mb == Mismatches(b, reference, hypothesis)
<1>8. C(x, y, b) = x + y - 2 * Len(b) + mb
  BY DEF Cost
<1>9. CASE x = 0 \/ y = 0
  <2>1. Len(b) = 0
    <3>. SUFFICES ASSUME Len(b) # 0 PROVE FALSE
      OBVIOUS
    <3>1. 1 \in 1 .. Len(b)
      BY <1>6
    <3>2. b[1][1] \in 1 .. x /\ b[1][2] \in 1 .. y
      BY <1>4, <3>1 DEF Pairs
    <3>. QED  BY <1>9, <3>2
  <2>2. D[x][y] = x + y
    BY <1>6, <1>9 DEF IsTable
  <2>. HIDE DEF mb
  <2>. QED  BY <1>4, <1>6, <1>7, <1>8, <2>1, <2>2 DEF mb
<1>10. CASE x # 0 /\ y # 0
  <2>. DEFINE p == x - 1
              q == y - 1
              dpq == D[p][q]
              dpy == D[p][y]
              dxq == D[x][q]
              dxy == D[x][y]
              e == Differ(reference[x], hypothesis[y])
  <2>1. p \in Nat /\ q \in Nat /\ x = p + 1 /\ y = q + 1
        /\ p \in 0 .. Len(reference) /\ q \in 0 .. Len(hypothesis)
    BY <1>6, <1>10
  <2>2. dxy <= dpy + 1 /\ dxy <= dxq + 1 /\ dxy <= dpq + e
    BY <1>6, <1>10 DEF IsTable
  <2>3. dxy \in Nat /\ dpy \in Nat /\ dxq \in Nat /\ dpq \in Nat /\ e \in Nat
    BY <2>1 DEF IsTable, Differ
  <2>4. /\ \A c : Pairs(c, p, y) => dpy <= C(p, y, c)
        /\ \A c : Pairs(c, x, q) => dxq <= C(x, q, c)
        /\ \A c : Pairs(c, p, q) => dpq <= C(p, q, c)
    <3>1. p + y < x + y /\ x + q < x + y /\ p + q < x + y
      BY ONLY <1>6, <2>1
    <3>. HIDE DEF C, p, q
    <3>. QED  BY <1>5, <2>1, <3>1
  <2>5. C(p, y, b) = p + y - 2 * Len(b) + mb /\ C(x, q, b) = x + q - 2 * Len(b) + mb
    BY DEF Cost
  <2>. HIDE DEF dpq, dpy, dxq, dxy, e, p, q
  <2>6. Pairs(b, p, y) \/ Pairs(b, x, q)
          \/ (Len(b) # 0 /\ b[Len(b)][1] = p + 1 /\ b[Len(b)][2] = q + 1)
    BY <1>4, <2>1, LastPlaces
  <2>7. ~(dxy <= x + y - 2 * Len(b) + mb)
    BY <1>4, <1>8 DEF dxy
  <2>. HIDE DEF mb, C
  <2>8. mb \in Nat
    BY <1>7 DEF mb
  <2>9. CASE Pairs(b, p, y)
    <3>. DEFINE ll == Len(b)
    <3>1. dpy <= p + y - 2 * ll + mb
      BY <2>4, <2>5, <2>9
    <3>2. ll \in Nat /\ ~(dxy <= x + y - 2 * ll + mb)
      BY <1>6, <2>7
    <3>. HIDE DEF ll
    <3>3. dxy <= dpy + 1 /\ x = p + 1
      BY <2>1, <2>2
    <3>4. dxy \in Nat /\ dpy \in Nat /\ p \in Nat /\ y \in Nat /\ mb \in Nat
      BY <1>6, <2>1, <2>3, <2>8
    <3>5. dxy <= (p + y - 2 * ll + mb) + 1
      BY ONLY <3>1, <3>2, <3>3, <3>4
    <3>. QED  BY ONLY <3>2, <3>3, <3>4, <3>5
  <2>10. CASE Pairs(b, x, q)
    <3>. DEFINE ll == Len(b)
    <3>1. dxq <= x + q - 2 * ll + mb
      BY <2>4, <2>5, <2>10
    <3>2. ll \in Nat /\ ~(dxy <= x + y - 2 * ll + mb)
      BY <1>6, <2>7
    <3>. HIDE DEF ll
    <3>3. dxy <= dxq + 1 /\ y = q + 1
      BY <2>1, <2>2
    <3>4. dxy \in Nat /\ dxq \in Nat /\ x \in Nat /\ q \in Nat /\ mb \in Nat
      BY <1>6, <2>1, <2>3, <2>8
    <3>5. dxy <= (x + q - 2 * ll + mb) + 1
      BY ONLY <3>1, <3>2, <3>3, <3>4
    <3>. QED  BY ONLY <3>2, <3>3, <3>4, <3>5
  <2>11. CASE Len(b) # 0 /\ b[Len(b)][1] = p + 1 /\ b[Len(b)][2] = q + 1
    <3>. DEFINE c == Before(b)
                mc == Mismatches(c, reference, hypothesis)
    <3>1. Pairs(c, p, q) /\ Len(c) = Len(b) - 1
      BY <1>4, <1>6, <2>1, <2>11, BeforeLast
    <3>2. \A k \in 1 .. Len(c) : b[k] = c[k]
      BY <3>1 DEF Before
    <3>. HIDE DEF c
    <3>3. Len(c) \in Nat /\ Len(b) = Len(c) + 1
      BY <1>6, <2>11, <3>1
    <3>4. mc \in Nat /\ mb = mc + Differ(reference[b[Len(c) + 1][1]], hypothesis[b[Len(c) + 1][2]])
      <4>. DEFINE m == Len(c)
      <4>1. m \in Nat /\ Len(c) = m /\ Len(b) = m + 1 /\ \A k \in 1 .. m : b[k] = c[k]
        BY <3>2, <3>3
      <4>. HIDE DEF m
      <4>2. /\ Mismatches(c, reference, hypothesis) \in Nat
            /\ Mismatches(b, reference, hypothesis)
                 = Mismatches(c, reference, hypothesis)
                     + Differ(reference[b[m + 1][1]], hypothesis[b[m + 1][2]])
        <5>1. OnePairMore(c, b, m)
          BY <4>1 DEF OnePairMore
        <5>2. OneMismatchMore(c, b, m, reference, hypothesis)
          BY ONLY <5>1, MismatchesGrow
        <5>. QED  BY <5>2 DEF OneMismatchMore
      <4>. QED  BY <4>2 DEF m, mb
    <3>5. mb = mc + e
      BY <2>1, <2>11, <3>3, <3>4 DEF e
    <3>6. dpq <= C(p, q, c)
      BY <2>4, <3>1
    <3>7. C(p, q, c) = p + q - 2 * Len(c) + mc
      BY DEF Cost, C
    <3>. HIDE DEF mc
    <3>8. dpq <= p + q - 2 * Len(c) + mc /\ mc \in Nat
      BY <3>4, <3>6, <3>7
    <3>. QED  BY <1>6, <2>1, <2>2, <2>3, <2>7, <3>3, <3>5, <3>8
  <2>. QED  BY <2>6, <2>9, <2>10, <2>11
<1>. QED  BY <1>9, <1>10

\* Wider bounds allow what narrower ones do.
LEMMA PairsWiden ==
  ASSUME NEW i \in Nat, NEW j \in Nat, NEW p \in Nat, NEW q \in Nat, i <= p, j <= q,
         NEW a, Pairs(a, i, j)
  PROVE  Pairs(a, p, q)
<1>1. \A x : (x \in 1 .. i => x \in 1 .. p) /\ (x \in 1 .. j => x \in 1 .. q)
  OBVIOUS
<1>. QED  BY <1>1 DEF Pairs

\* A pairing with one more pair.
Extended(a, p) == [k \in 1 .. Len(a) + 1 |-> IF k = Len(a) + 1 THEN p ELSE a[k]]

\* A pairing of the first places takes the next place of each text.
LEMMA PairsExtend ==
  ASSUME NEW i \in Nat, NEW j \in Nat, NEW a, Pairs(a, i, j),
         NEW b, b = Extended(a, <<i + 1, j + 1>>)
  PROVE  /\ Pairs(b, i + 1, j + 1) /\ Len(b) = Len(a) + 1
         /\ \A k \in 1 .. Len(a) : b[k] = a[k]
         /\ b[Len(a) + 1] = <<i + 1, j + 1>>
<1>. DEFINE n == Len(a)
<1>1. n \in Nat
  BY DEF Pairs
<1>2. b = [k \in 1 .. n + 1 |-> IF k = n + 1 THEN <<i + 1, j + 1>> ELSE a[k]]
  BY DEF Extended
<1>3. /\ \A k \in 1 .. n : /\ a[k] = <<a[k][1], a[k][2]>>
                           /\ a[k][1] \in 1 .. i /\ a[k][2] \in 1 .. j
      /\ \A k, l \in 1 .. n : k < l => a[k][1] < a[l][1] /\ a[k][2] < a[l][2]
  BY DEF Pairs
<1>. HIDE DEF n
<1>4. Len(b) = n + 1 /\ DOMAIN b = 1 .. n + 1
  BY <1>1, <1>2
<1>5. \A k \in 1 .. n : k \in 1 .. n + 1 /\ k # n + 1
  BY <1>1
<1>6. n + 1 \in 1 .. n + 1 /\ \A k \in 1 .. n + 1 : k \in 1 .. n \/ k = n + 1
  BY <1>1
<1>7. (\A k \in 1 .. n : b[k] = a[k]) /\ b[n + 1] = <<i + 1, j + 1>>
  BY <1>2, <1>5, <1>6
<1>8. \A x : (x \in 1 .. i => x \in 1 .. i + 1 /\ x < i + 1) /\ (x \in 1 .. j => x \in 1 .. j + 1 /\ x < j + 1)
  OBVIOUS
<1>9. \A k \in 1 .. n + 1 :
        b[k] = <<b[k][1], b[k][2]>> /\ b[k][1] \in 1 .. i + 1 /\ b[k][2] \in 1 .. j + 1
  <2>. SUFFICES ASSUME NEW k \in 1 .. n + 1
                PROVE  b[k] = <<b[k][1], b[k][2]>> /\ b[k][1] \in 1 .. i + 1 /\ b[k][2] \in 1 .. j + 1
    OBVIOUS
  <2>1. CASE k \in 1 .. n
    BY <1>3, <1>7, <1>8, <2>1
  <2>2. CASE k = n + 1
    BY <1>7, <2>2
  <2>. QED  BY <1>6, <2>1, <2>2
<1>10. \A k, l \in 1 .. n + 1 : k < l => b[k][1] < b[l][1] /\ b[k][2] < b[l][2]
  <2>. SUFFICES ASSUME NEW k \in 1 .. n + 1, NEW l \in 1 .. n + 1, k < l
                PROVE  b[k][1] < b[l][1] /\ b[k][2] < b[l][2]
    OBVIOUS
  <2>1. k \in 1 .. n
    BY <1>1
  <2>2. CASE l \in 1 .. n
    BY <1>3, <1>7, <2>1, <2>2
  <2>3. CASE l = n + 1
    BY <1>3, <1>7, <1>8, <2>1, <2>3
  <2>. QED  BY <1>6, <2>2, <2>3
<1>11. Pairs(b, i + 1, j + 1)
  <2>1. Len(b) \in Nat /\ DOMAIN b = 1 .. Len(b)
    BY <1>1, <1>4
  <2>2. \A k \in 1 .. Len(b) :
          b[k] = <<b[k][1], b[k][2]>> /\ b[k][1] \in 1 .. i + 1 /\ b[k][2] \in 1 .. j + 1
    BY ONLY <1>4, <1>9
  <2>3. \A k, l \in 1 .. Len(b) : k < l => b[k][1] < b[l][1] /\ b[k][2] < b[l][2]
    BY ONLY <1>4, <1>10
  <2>. QED  BY ONLY <2>1, <2>2, <2>3 DEF Pairs
<1>. QED  BY <1>4, <1>7, <1>11 DEF n

\* Some pairing of the first places costs as much as the cell.
LEMMA CellsAreReached ==
  ASSUME NEW reference, NEW hypothesis, Len(reference) \in Nat, Len(hypothesis) \in Nat,
         NEW D, IsTable(D, reference, hypothesis),
         NEW i \in 0 .. Len(reference), NEW j \in 0 .. Len(hypothesis)
  PROVE  \E a : Pairs(a, i, j) /\ D[i][j] = Cost(a, reference, hypothesis, i, j)
<1>. DEFINE C(x, y, b) == Cost(b, reference, hypothesis, x, y)
            Good(x, y) == \E b : Pairs(b, x, y) /\ D[x][y] = C(x, y, b)
            Sizes == {n \in Nat : \E x \in 0 .. Len(reference), y \in 0 .. Len(hypothesis) :
                                    n = x + y /\ ~Good(x, y)}
<1>. SUFFICES ASSUME ~Good(i, j) PROVE FALSE
  OBVIOUS
<1>1. i + j \in Sizes
  <2>. HIDE DEF Good
  <2>. QED  OBVIOUS
<1>2. PICK n \in Sizes : \A m \in Sizes : n <= m
  <2>1. Sizes \subseteq Nat /\ Sizes # {}
    BY <1>1
  <2>. HIDE DEF Sizes
  <2>. QED  BY <2>1, LeastNat
<1>3. PICK x \in 0 .. Len(reference), y \in 0 .. Len(hypothesis) : n = x + y /\ ~Good(x, y)
  <2>. HIDE DEF Good
  <2>. QED  OBVIOUS
<1>5. \A u \in 0 .. Len(reference), v \in 0 .. Len(hypothesis) : u + v < x + y => Good(u, v)
  <2>. SUFFICES ASSUME NEW u \in 0 .. Len(reference), NEW v \in 0 .. Len(hypothesis), u + v < x + y,
                       ~Good(u, v)
                PROVE  FALSE
    OBVIOUS
  <2>. HIDE DEF Good
  <2>1. u + v \in Sizes
    OBVIOUS
  <2>. HIDE DEF Sizes
  <2>. QED  BY <1>2, <1>3, <2>1
<1>. HIDE DEF Sizes
<1>6. x \in Nat /\ y \in Nat /\ D[x][y] \in Nat
  BY DEF IsTable
<1>7. CASE x = 0 \/ y = 0
  <2>1. Pairs(<<>>, x, y) /\ Mismatches(<<>>, reference, hypothesis) = 0
    BY FS_EmptySet DEF Pairs, Mismatches, Indices
  <2>2. D[x][y] = x + y
    <3>1. (x = 0 => D[x][y] = y) /\ (y = 0 => D[x][y] = x)
      BY DEF IsTable
    <3>. QED  BY <1>6, <1>7, <3>1
  <2>3. D[x][y] = C(x, y, <<>>)
    BY <1>6, <2>1, <2>2 DEF Cost
  <2>4. Good(x, y)
    BY <2>1, <2>3
  <2>. HIDE DEF Good
  <2>. QED  BY <1>3, <2>4
<1>8. CASE x # 0 /\ y # 0
  <2>. DEFINE p == x - 1
              q == y - 1
              dpq == D[p][q]
              dpy == D[p][y]
              dxq == D[x][q]
              dxy == D[x][y]
              e == Differ(reference[x], hypothesis[y])
  <2>1. p \in Nat /\ q \in Nat /\ x = p + 1 /\ y = q + 1
        /\ p \in 0 .. Len(reference) /\ q \in 0 .. Len(hypothesis)
    BY <1>6, <1>8
  <2>2. dxy = dpy + 1 \/ dxy = dxq + 1 \/ dxy = dpq + e
    BY <1>6, <1>8 DEF IsTable
  <2>3. dxy \in Nat /\ dpy \in Nat /\ dxq \in Nat /\ dpq \in Nat /\ e \in Nat
    BY <2>1 DEF IsTable, Differ
  <2>4. Good(p, y) /\ Good(x, q) /\ Good(p, q)
    <3>1. p + y < x + y /\ x + q < x + y /\ p + q < x + y
      BY ONLY <1>6, <2>1
    <3>. HIDE DEF Good, p, q
    <3>. QED  BY <1>5, <2>1, <3>1
  <2>5. \A b : C(p, y, b) = p + y - 2 * Len(b) + Mismatches(b, reference, hypothesis)
            /\ C(x, q, b) = x + q - 2 * Len(b) + Mismatches(b, reference, hypothesis)
            /\ C(p, q, b) = p + q - 2 * Len(b) + Mismatches(b, reference, hypothesis)
            /\ C(x, y, b) = x + y - 2 * Len(b) + Mismatches(b, reference, hypothesis)
    BY DEF Cost
  <2>6. PICK b : Pairs(b, p, y) /\ dpy = C(p, y, b)
    BY <2>4
  <2>7. PICK c : Pairs(c, x, q) /\ dxq = C(x, q, c)
    BY <2>4
  <2>8. PICK d : Pairs(d, p, q) /\ dpq = C(p, q, d)
    BY <2>4
  <2>9. \A z, u, v : Pairs(z, u, v) => Len(z) \in Nat /\ Mismatches(z, reference, hypothesis) \in Nat
    <3>. SUFFICES ASSUME NEW z, NEW u, NEW v, Pairs(z, u, v)
                  PROVE  Len(z) \in Nat /\ Mismatches(z, reference, hypothesis) \in Nat
      OBVIOUS
    <3>1. Len(z) \in Nat /\ IsFiniteSet(1 .. Len(z))
      BY CountFromOne DEF Pairs
    <3>2. IsFiniteSet({k \in Indices(z) : reference[z[k][1]] # hypothesis[z[k][2]]})
      BY <3>1, FS_Subset DEF Indices
    <3>. QED  BY <3>1, <3>2, FS_CardinalityType DEF Mismatches
  <2>. HIDE DEF dpq, dpy, dxq, dxy, e, p, q, C
  <2>10. CASE dxy = dpy + 1
    <3>1. Pairs(b, x, y)
      BY <1>6, <2>1, <2>6, PairsWiden
    <3>2. Len(b) \in Nat /\ Mismatches(b, reference, hypothesis) \in Nat
      BY <2>6, <2>9
    <3>3. dxy = C(x, y, b)
      <4>. DEFINE mm == Mismatches(b, reference, hypothesis)
                  ll == Len(b)
                  cc == C(x, y, b)
      <4>1. cc = x + y - 2 * ll + mm /\ dpy = p + y - 2 * ll + mm
        BY <2>5, <2>6
      <4>2. mm \in Nat /\ ll \in Nat /\ p \in Nat /\ y \in Nat /\ x = p + 1 /\ dxy = dpy + 1
        BY <1>6, <2>1, <2>10, <3>2
      <4>. HIDE DEF mm, ll, cc
      <4>3. dxy = cc
        BY ONLY <1>6, <4>1, <4>2
      <4>. QED  BY <4>3 DEF cc
    <3>. QED  BY <1>3, <3>1, <3>3 DEF dxy
  <2>11. CASE dxy = dxq + 1
    <3>1. Pairs(c, x, y)
      BY <1>6, <2>1, <2>7, PairsWiden
    <3>2. Len(c) \in Nat /\ Mismatches(c, reference, hypothesis) \in Nat
      BY <2>7, <2>9
    <3>3. dxy = C(x, y, c)
      <4>. DEFINE mm == Mismatches(c, reference, hypothesis)
                  ll == Len(c)
                  cc == C(x, y, c)
      <4>1. cc = x + y - 2 * ll + mm /\ dxq = x + q - 2 * ll + mm
        BY <2>5, <2>7
      <4>2. mm \in Nat /\ ll \in Nat /\ x \in Nat /\ q \in Nat /\ y = q + 1 /\ dxy = dxq + 1
        BY <1>6, <2>1, <2>11, <3>2
      <4>. HIDE DEF mm, ll, cc
      <4>3. dxy = cc
        BY ONLY <1>6, <4>1, <4>2
      <4>. QED  BY <4>3 DEF cc
    <3>. QED  BY <1>3, <3>1, <3>3 DEF dxy
  <2>12. CASE dxy = dpq + e
    <3>. DEFINE z == Extended(d, <<p + 1, q + 1>>)
                m == Len(d)
    <3>1. /\ Pairs(z, p + 1, q + 1) /\ Len(z) = m + 1
          /\ \A k \in 1 .. m : z[k] = d[k]
          /\ z[m + 1] = <<p + 1, q + 1>>
      BY <2>1, <2>8, PairsExtend
    <3>2. m \in Nat /\ Len(d) = m
      BY <2>8, <2>9
    <3>. HIDE DEF z, m
    <3>3. /\ Mismatches(d, reference, hypothesis) \in Nat
          /\ Mismatches(z, reference, hypothesis)
               = Mismatches(d, reference, hypothesis)
                   + Differ(reference[z[m + 1][1]], hypothesis[z[m + 1][2]])
      <4>1. OnePairMore(d, z, m)
        BY <3>1, <3>2 DEF OnePairMore
      <4>2. OneMismatchMore(d, z, m, reference, hypothesis)
        BY ONLY <4>1, MismatchesGrow
      <4>. QED  BY <4>2 DEF OneMismatchMore
    <3>4. Differ(reference[z[m + 1][1]], hypothesis[z[m + 1][2]]) = e
      BY <2>1, <3>1 DEF e
    <3>5. dxy = C(x, y, z)
      <4>. DEFINE mm == Mismatches(d, reference, hypothesis)
                  cc == C(x, y, z)
      <4>1. cc = x + y - 2 * (m + 1) + (mm + e)
        BY <2>5, <3>1, <3>3, <3>4
      <4>2. dpq = p + q - 2 * m + mm
        BY <2>5, <2>8, <3>2
      <4>3. /\ mm \in Nat /\ m \in Nat /\ p \in Nat /\ q \in Nat /\ e \in Nat
            /\ x = p + 1 /\ y = q + 1 /\ dxy = dpq + e
        BY <2>1, <2>3, <2>12, <3>2, <3>3
      <4>. HIDE DEF mm, cc
      <4>4. dxy = cc
        BY ONLY <4>1, <4>2, <4>3
      <4>. QED  BY <4>4 DEF cc
    <3>. QED  BY <1>3, <2>1, <3>1, <3>5 DEF dxy
  <2>. QED  BY <2>2, <2>10, <2>11, <2>12
<1>. QED  BY <1>7, <1>8

\* The values of the first n places.
Told(f, n) == {f[k] : k \in 1 .. n}

\* Places told in order are the places, in order.
LEMMA PlacesTold ==
  ASSUME NEW m \in Nat, NEW n \in Nat, NEW f, \A k \in 1 .. n : f[k] \in 1 .. m,
         \A k, l \in 1 .. n : k < l => f[k] < f[l],
         NEW K, K = Told(f, n)
  PROVE  /\ K \in SUBSET (1 .. m) /\ Cardinality(K) = n
         /\ \A k \in 1 .. n : Nth(K, k) = f[k]
<1>0. K = {f[k] : k \in 1 .. n}
  BY DEF Told
<1>1. K \in SUBSET (1 .. m)
  BY <1>0
<1>2. K \subseteq Nat /\ IsFiniteSet(K)
  BY <1>1, PlacesOfSequence
<1>3. \A k, l \in 1 .. n : f[k] <= f[l] <=> k <= l
  <2>. SUFFICES ASSUME NEW k \in 1 .. n, NEW l \in 1 .. n PROVE f[k] <= f[l] <=> k <= l
    OBVIOUS
  <2>1. f[k] \in Nat /\ f[l] \in Nat /\ k \in Nat /\ l \in Nat
    OBVIOUS
  <2>2. (k < l => f[k] < f[l]) /\ (l < k => f[l] < f[k])
    OBVIOUS
  <2>3. k = l => f[k] = f[l]
    OBVIOUS
  <2>. QED  BY ONLY <2>1, <2>2, <2>3
<1>4. ASSUME NEW k \in 0 .. n
      PROVE  Cardinality({f[l] : l \in 1 .. k}) = k
  <2>. DEFINE T == {f[l] : l \in 1 .. k}
  <2>1. k \in Nat /\ IsFiniteSet(1 .. k) /\ Cardinality(1 .. k) = k
    BY CountFromOne
  <2>2. \A l \in 1 .. k : l \in 1 .. n /\ l \in Nat
    OBVIOUS
  <2>3. \A x, y \in 1 .. k : f[x] = f[y] => x = y
    <3>. SUFFICES ASSUME NEW x \in 1 .. k, NEW y \in 1 .. k, f[x] = f[y] PROVE x = y
      OBVIOUS
    <3>1. f[x] <= f[y] /\ f[y] <= f[x]
      <4>1. f[x] \in Nat
        BY <2>2
      <4>. QED  BY <4>1
    <3>2. x <= y /\ y <= x
      BY <1>3, <2>2, <3>1
    <3>. QED  BY <2>2, <3>2
  <2>4. (\A x \in 1 .. k : f[x] \in T) /\ (\A y \in T : \E x \in 1 .. k : f[x] = y)
    OBVIOUS
  <2>. HIDE DEF T
  <2>5. TellsApart(f, 1 .. k, T)
    BY <2>3, <2>4 DEF TellsApart
  <2>6. Cardinality(T) = k
    BY <2>1, <2>5, ImageCounts
  <2>. QED  BY <2>6 DEF T
<1>5. ASSUME NEW k \in 1 .. n PROVE Nth(K, k) = f[k]
  <2>1. f[k] \in K
    BY <1>0
  <2>2. UpTo(K, f[k]) = {f[l] : l \in 1 .. k}
    <3>1. \A l \in 1 .. n : l \in 1 .. k <=> f[l] <= f[k]
      <4>1. \A l \in 1 .. n : l <= k <=> l \in 1 .. k
        OBVIOUS
      <4>. QED  BY <1>3, <4>1
    <3>2. \A l \in 1 .. k : l \in 1 .. n
      OBVIOUS
    <3>. QED  BY <1>0, <3>1, <3>2 DEF UpTo
  <2>3. Cardinality(UpTo(K, f[k])) = k
    BY <1>4, <2>2
  <2>. QED  BY <1>2, <2>1, <2>3, NthOfPlaces
<1>6. Cardinality(K) = n
  BY <1>0, <1>4
<1>. QED  BY <1>1, <1>5, <1>6

\* A pairing of the whole texts is an alignment, but for how it is written.
LEMMA PairsAlign ==
  ASSUME NEW reference, NEW hypothesis, Len(reference) \in Nat, Len(hypothesis) \in Nat,
         NEW a, Pairs(a, Len(reference), Len(hypothesis))
  PROVE  \E b \in Alignments(reference, hypothesis) :
           Price(b, reference, hypothesis)
             = Cost(a, reference, hypothesis, Len(reference), Len(hypothesis))
<1>. DEFINE n == Len(a)
            first == [k \in 1 .. n |-> a[k][1]]
            second == [k \in 1 .. n |-> a[k][2]]
            kept == Told(first, n)
            used == Told(second, n)
            b == Pairing(kept, used)
<1>1. n \in Nat
  BY DEF Pairs
<1>2. /\ \A k \in 1 .. n : /\ a[k] = <<a[k][1], a[k][2]>>
                           /\ a[k][1] \in 1 .. Len(reference) /\ a[k][2] \in 1 .. Len(hypothesis)
      /\ \A k, l \in 1 .. n : k < l => a[k][1] < a[l][1] /\ a[k][2] < a[l][2]
  BY DEF Pairs
<1>3. \A k \in 1 .. n : first[k] = a[k][1] /\ second[k] = a[k][2]
  OBVIOUS
<1>4. kept = Told(first, n) /\ used = Told(second, n)
  OBVIOUS
<1>5. b = [k \in 1 .. Cardinality(kept) |-> <<InOrder(kept)[k], InOrder(used)[k]>>]
  BY DEF Pairing
<1>. HIDE DEF n, first, second, kept, used, b
<1>6. /\ kept \in SUBSET (1 .. Len(reference)) /\ Cardinality(kept) = n
      /\ \A k \in 1 .. n : Nth(kept, k) = first[k]
  <2>1. /\ \A k \in 1 .. n : first[k] \in 1 .. Len(reference)
        /\ \A k, l \in 1 .. n : k < l => first[k] < first[l]
    BY <1>2, <1>3
  <2>. QED  BY <1>1, <1>4, <2>1, PlacesTold
<1>7. /\ used \in SUBSET (1 .. Len(hypothesis)) /\ Cardinality(used) = n
      /\ \A k \in 1 .. n : Nth(used, k) = second[k]
  <2>1. /\ \A k \in 1 .. n : second[k] \in 1 .. Len(hypothesis)
        /\ \A k, l \in 1 .. n : k < l => second[k] < second[l]
    BY <1>2, <1>3
  <2>. QED  BY <1>1, <1>4, <2>1, PlacesTold
<1>8. b \in Alignments(reference, hypothesis)
  <2>. DEFINE q == <<kept, used>>
              S == {r \in (SUBSET Indices(reference)) \X (SUBSET Indices(hypothesis)) :
                      Cardinality(r[1]) = Cardinality(r[2])}
  <2>1. q \in S
    BY <1>6, <1>7 DEF Indices
  <2>2. b = Pairing(q[1], q[2])
    BY DEF b
  <2>. HIDE DEF q
  <2>. QED  BY <2>1, <2>2 DEF Alignments
<1>9. Len(b) = n /\ \A k \in 1 .. n : b[k] = a[k]
  <2>1. \A k \in 1 .. n : InOrder(kept)[k] = a[k][1] /\ InOrder(used)[k] = a[k][2]
    BY <1>3, <1>6, <1>7 DEF InOrder
  <2>2. b = [k \in 1 .. n |-> <<InOrder(kept)[k], InOrder(used)[k]>>]
    BY <1>5, <1>6
  <2>3. Len(b) = n
    BY ONLY <1>1, <2>2
  <2>. QED  BY <1>2, <2>1, <2>2, <2>3
<1>10. Mismatches(b, reference, hypothesis) = Mismatches(a, reference, hypothesis)
  <2>1. Len(b) = Len(a) /\ \A k \in 1 .. Len(a) : b[k] = a[k]
    BY <1>9 DEF n
  <2>2. {k \in Indices(b) : reference[b[k][1]] # hypothesis[b[k][2]]}
          = {k \in Indices(a) : reference[a[k][1]] # hypothesis[a[k][2]]}
    BY <2>1 DEF Indices
  <2>. QED  BY <2>2 DEF Mismatches
<1>11. Price(b, reference, hypothesis) = Cost(a, reference, hypothesis, Len(reference), Len(hypothesis))
  BY <1>9, <1>10 DEF Price, Cost, n
<1>. QED  BY <1>8, <1>11

\* An alignment is a pairing of the whole texts.
LEMMA AlignmentsPair ==
  ASSUME NEW reference, NEW hypothesis, Len(reference) \in Nat, Len(hypothesis) \in Nat,
         NEW b \in Alignments(reference, hypothesis)
  PROVE  /\ Pairs(b, Len(reference), Len(hypothesis))
         /\ Price(b, reference, hypothesis)
              = Cost(b, reference, hypothesis, Len(reference), Len(hypothesis))
<1>1. IsAlignment(b, reference, hypothesis)
  BY AlignmentsAreSo
<1>2. \A k \in 1 .. Len(b) : b[k] = <<b[k][1], b[k][2]>>
  <2>1. PICK q \in (SUBSET Indices(reference)) \X (SUBSET Indices(hypothesis)) :
          Cardinality(q[1]) = Cardinality(q[2]) /\ b = Pairing(q[1], q[2])
    BY DEF Alignments
  <2>2. DOMAIN b = 1 .. Len(b)
    BY <1>1 DEF IsAlignment
  <2>3. b = [k \in 1 .. Cardinality(q[1]) |-> <<InOrder(q[1])[k], InOrder(q[2])[k]>>]
    BY <2>1 DEF Pairing
  <2>4. \A k \in DOMAIN b : b[k] = <<InOrder(q[1])[k], InOrder(q[2])[k]>>
    BY <2>3
  <2>. QED  BY <2>2, <2>4
<1>3. Pairs(b, Len(reference), Len(hypothesis))
  BY <1>1, <1>2 DEF IsAlignment, Pairs
<1>4. Price(b, reference, hypothesis)
        = Cost(b, reference, hypothesis, Len(reference), Len(hypothesis))
  BY DEF Price, Cost
<1>. QED  BY <1>3, <1>4

\* The last cell of a table of distances is the least price of an alignment.
LEMMA LastCellIsLeast ==
  ASSUME NEW reference, NEW hypothesis, Len(reference) \in Nat, Len(hypothesis) \in Nat,
         NEW D, IsTable(D, reference, hypothesis)
  PROVE  /\ D[Len(reference)][Len(hypothesis)] = LeastEdits(reference, hypothesis)
         /\ LeastEdits(reference, hypothesis) \in Nat
<1>. DEFINE i == Len(reference)
            j == Len(hypothesis)
            prices == {Price(a, reference, hypothesis) : a \in Alignments(reference, hypothesis)}
            v == D[i][j]
<1>0. i \in 0 .. Len(reference) /\ j \in 0 .. Len(hypothesis)
  OBVIOUS
<1>1. v \in Nat
  BY <1>0 DEF IsTable
<1>2. v \in prices
  <2>1. PICK a : Pairs(a, i, j) /\ D[i][j] = Cost(a, reference, hypothesis, i, j)
    BY <1>0, CellsAreReached
  <2>2. PICK b \in Alignments(reference, hypothesis) :
          Price(b, reference, hypothesis) = Cost(a, reference, hypothesis, i, j)
    BY <2>1, PairsAlign
  <2>. QED  BY <2>1, <2>2
<1>3. \A x \in prices : v <= x
  <2>. SUFFICES ASSUME NEW b \in Alignments(reference, hypothesis)
                PROVE  v <= Price(b, reference, hypothesis)
    OBVIOUS
  <2>1. Pairs(b, i, j) /\ Price(b, reference, hypothesis) = Cost(b, reference, hypothesis, i, j)
    BY AlignmentsPair
  <2>2. D[i][j] <= Cost(b, reference, hypothesis, i, j)
    BY <1>0, <2>1, CellsAreBounds
  <2>. QED  BY <2>1, <2>2
<1>4. \A x \in prices : x \in Nat
  BY AlignmentsAreSo, PriceOfAlignment
<1>5. LeastEdits(reference, hypothesis) = Min(prices)
  BY DEF LeastEdits
<1>. HIDE DEF prices, v
<1>6. Min(prices) = v
  <2>1. \A x \in prices : (\A y \in prices : x <= y) <=> x = v
    BY <1>1, <1>2, <1>3, <1>4
  <2>. QED  BY <1>2, <2>1 DEF Min
<1>. QED  BY <1>1, <1>5, <1>6 DEF v

\* What each of the folds of the distances does with one more place.
FoldStep(fold, v, k) ==
  CASE fold.of = "row"  -> Append(v, Min({fold.above[k + 1] + 1, v[k] + 1,
                                          fold.above[k] + (IF fold.word = fold.hypothesis[k] THEN 0 ELSE 1)}))
    [] fold.of = "last" -> NextRow(v, fold.reference[k], fold.hypothesis)
    [] fold.of = "rows" -> Append(v, NextRow(Last(v), fold.reference[k], fold.hypothesis))
FoldTurn(fold, base, n, h) ==
  [s \in SUBSET (1 .. n) |-> IF s = {} THEN base ELSE FoldStep(fold, h[s \ {Max(s)}], Max(s))]
\* A table of the steps of a fold, and that there is one.
Folds(fold, base, n, h) == h = FoldTurn(fold, base, n, h)
CanFold(fold, base, n) == \E h : Folds(fold, base, n, h)

\* A fold takes the last place last.
LEMMA LastPlace ==
  ASSUME NEW n \in Nat, NEW s \in SUBSET (1 .. n), s # {}
  PROVE  Max(s) \in s /\ Max(s) \in 1 .. n /\ s \ {Max(s)} \in SUBSET (1 .. n - 1)
<1>1. s \subseteq Nat /\ \A x \in s : x <= n
  OBVIOUS
<1>2. Max(s) \in s /\ \A y \in s : Max(s) >= y
  BY <1>1, LargestOf
<1>3. ASSUME NEW y \in s, y # Max(s) PROVE y \in 1 .. n - 1
  <2>. DEFINE m == Max(s)
  <2>1. m \in 1 .. n /\ y \in 1 .. n /\ m >= y /\ y # m
    BY <1>2, <1>3
  <2>. HIDE DEF m
  <2>. QED  BY <2>1
<1>. QED  BY <1>2, <1>3

\* A fold over the first places has a table of its steps.
LEMMA FoldsGoOn ==
  ASSUME NEW fold, NEW base, NEW n \in Nat
  PROVE  CanFold(fold, base, n)
<1>. DEFINE Bad == {m \in Nat : ~CanFold(fold, base, m)}
<1>. SUFFICES ASSUME Bad # {} PROVE FALSE
  OBVIOUS
<1>1. PICK m \in Bad : \A k \in Bad : m <= k
  BY LeastNat
<1>2. m \in Nat /\ ~CanFold(fold, base, m)
  OBVIOUS
<1>3. CASE m = 0
  <2>. DEFINE h == [s \in SUBSET (1 .. 0) |-> base]
  <2>1. \A s \in SUBSET (1 .. 0) : s = {}
    OBVIOUS
  <2>2. Folds(fold, base, 0, h)
    BY <2>1 DEF Folds, FoldTurn
  <2>. QED  BY <1>2, <1>3, <2>2 DEF CanFold
<1>4. CASE m # 0
  <2>1. m - 1 \in Nat /\ ~ (m <= m - 1)
    BY <1>2, <1>4
  <2>2. CanFold(fold, base, m - 1)
    BY <1>1, <2>1
  <2>3. PICK g : Folds(fold, base, m - 1, g)
    BY <2>2 DEF CanFold
  <2>. DEFINE turn(h, s) == IF s = {} THEN base ELSE FoldStep(fold, h[s \ {Max(s)}], Max(s))
              h == [s \in SUBSET (1 .. m) |-> turn(g, s)]
  <2>4. \A s \in SUBSET (1 .. m - 1) : g[s] = turn(g, s)
    BY <2>3 DEF Folds, FoldTurn
  <2>5. \A s \in SUBSET (1 .. m - 1) : s \in SUBSET (1 .. m)
    BY <1>2
  <2>6. \A s \in SUBSET (1 .. m - 1) : h[s] = g[s]
    BY <2>4, <2>5
  <2>7. ASSUME NEW s \in SUBSET (1 .. m) PROVE h[s] = turn(h, s)
    <3>1. CASE s = {}
      BY <3>1
    <3>2. CASE s # {}
      <4>1. s \ {Max(s)} \in SUBSET (1 .. m - 1)
        BY <1>2, <3>2, LastPlace
      <4>2. h[s \ {Max(s)}] = g[s \ {Max(s)}]
        BY <2>6, <4>1
      <4>3. h[s] = FoldStep(fold, g[s \ {Max(s)}], Max(s))
        BY <3>2
      <4>. QED  BY <3>2, <4>2, <4>3
    <3>. QED  BY <3>1, <3>2
  <2>8. h = [s \in SUBSET (1 .. m) |-> turn(h, s)]
    <3>1. DOMAIN h = SUBSET (1 .. m) /\ h = [s \in DOMAIN h |-> h[s]]
      OBVIOUS
    <3>. HIDE DEF h
    <3>2. DOMAIN [s \in SUBSET (1 .. m) |-> turn(h, s)] = SUBSET (1 .. m)
      OBVIOUS
    <3>. QED  BY <2>7, <3>1
  <2>9. Folds(fold, base, m, h)
    BY <2>8 DEF Folds, FoldTurn
  <2>. QED  BY <1>2, <2>9 DEF CanFold
<1>. QED  BY <1>3, <1>4

\* What a fold makes of the first places, one after the other.
Folded(h, n) == [k \in 0 .. n |-> h[1 .. k]]

\* The steps of a fold take the places one by one.
LEMMA FoldsInOrder ==
  ASSUME NEW fold, NEW base, NEW n \in Nat, NEW h, Folds(fold, base, n, h)
  PROVE  /\ Folded(h, n)[0] = base
         /\ \A k \in 1 .. n : Folded(h, n)[k] = FoldStep(fold, Folded(h, n)[k - 1], k)
<1>. DEFINE f == Folded(h, n)
<1>2. \A k \in 0 .. n : f[k] = h[1 .. k]
  BY DEF Folded
<1>. HIDE DEF f
<1>3. \A s \in SUBSET (1 .. n) :
        h[s] = IF s = {} THEN base ELSE FoldStep(fold, h[s \ {Max(s)}], Max(s))
  BY DEF Folds, FoldTurn
<1>4. f[0] = base
  <2>1. 1 .. 0 = {} /\ 1 .. 0 \in SUBSET (1 .. n) /\ 0 \in 0 .. n
    OBVIOUS
  <2>. QED  BY <1>2, <1>3, <2>1
<1>5. ASSUME NEW k \in 1 .. n PROVE f[k] = FoldStep(fold, f[k - 1], k)
  <2>. DEFINE s == 1 .. k
  <2>1. s \in SUBSET (1 .. n) /\ s # {} /\ k \in 0 .. n /\ k - 1 \in 0 .. n
    BY ONLY n \in Nat, k \in 1 .. n
  <2>2. Max(s) = k
    <3>1. Max(s) \in s /\ \A y \in s : Max(s) >= y
      <4>1. s \subseteq Nat /\ n \in Nat /\ \A x \in s : x <= n
        OBVIOUS
      <4>. HIDE DEF s
      <4>. QED  BY <2>1, <4>1, LargestOf
    <3>2. k \in s /\ \A y \in s : y \in Nat /\ y <= k
      OBVIOUS
    <3>. HIDE DEF s
    <3>3. Max(s) >= k /\ Max(s) <= k /\ Max(s) \in Nat
      BY <3>1, <3>2
    <3>. QED  BY <3>3
  <2>3. s \ {k} = 1 .. k - 1
    OBVIOUS
  <2>4. h[s] = FoldStep(fold, h[1 .. k - 1], k)
    <3>. HIDE DEF s
    <3>. QED  BY <1>3, <2>1, <2>2, <2>3
  <2>. QED  BY <1>2, <2>1, <2>4
<1>. QED  BY <1>4, <1>5 DEF f

\* A row is what the fold over the words makes of its first cell.
RowCell(above, word, hypothesis, v, j) ==
  Append(v, Min({above[j + 1] + 1, v[j] + 1, above[j] + (IF word = hypothesis[j] THEN 0 ELSE 1)}))

\* The first cell of a row.
RowStart(above) == <<above[1] + 1>>

\* A row of the table is reached cell by cell.
LEMMA RowIsFolded ==
  ASSUME NEW above, NEW word, NEW hypothesis, Len(hypothesis) \in Nat
  PROVE  \E f : /\ NextRow(above, word, hypothesis) = f[Len(hypothesis)]
                /\ f[0] = RowStart(above)
                /\ \A k \in 1 .. Len(hypothesis) : f[k] = RowCell(above, word, hypothesis, f[k - 1], k)
<1>. DEFINE n == Len(hypothesis)
            seq == [j \in Indices(hypothesis) |-> j]
            base == <<above[1] + 1>>
            fold == [of |-> "row", above |-> above, word |-> word, hypothesis |-> hypothesis]
            Raw(h) == h = [s \in SUBSET DOMAIN seq |->
                             IF s = {} THEN base
                             ELSE RowCell(above, word, hypothesis, h[s \ {Max(s)}], seq[Max(s)])]
            h == CHOOSE h : Raw(h)
<1>1. NextRow(above, word, hypothesis) = h[DOMAIN seq]
  BY DEF NextRow, FoldLeft, MapThenFoldSet, RowCell
<1>2. DOMAIN seq = 1 .. n /\ \A k \in 1 .. n : seq[k] = k
  BY DEF Indices
<1>n. n \in Nat
  OBVIOUS
<1>. HIDE DEF seq, n
<1>3. \A v, k : FoldStep(fold, v, k) = RowCell(above, word, hypothesis, v, k)
  BY DEF FoldStep, RowCell
<1>. HIDE DEF base, fold
<1>4. \A g : Folds(fold, base, n, g) <=> Raw(g)
  <2>. SUFFICES ASSUME NEW g
                PROVE  FoldTurn(fold, base, n, g)
                         = [s \in SUBSET DOMAIN seq |->
                             IF s = {} THEN base
                             ELSE RowCell(above, word, hypothesis, g[s \ {Max(s)}], seq[Max(s)])]
    BY DEF Folds
  <2>1. ASSUME NEW s \in SUBSET (1 .. n), s # {}
        PROVE  FoldStep(fold, g[s \ {Max(s)}], Max(s))
                 = RowCell(above, word, hypothesis, g[s \ {Max(s)}], seq[Max(s)])
    <3>1. seq[Max(s)] = Max(s)
      BY <1>n, <1>2, <2>1, LastPlace
    <3>. QED  BY <1>3, <3>1
  <2>. QED  BY <1>2, <2>1 DEF FoldTurn
<1>5. \E g : Folds(fold, base, n, g)
  BY <1>n, FoldsGoOn DEF CanFold
<1>6. Raw(h)
  <2>1. \E g : Raw(g)
    BY <1>4, <1>5
  <2>. HIDE DEF Raw
  <2>. QED  BY <2>1
<1>7. Folds(fold, base, n, h)
  BY <1>4, <1>6
<1>. HIDE DEF h
<1>. DEFINE f == Folded(h, n)
<1>8. f = Folded(h, n) /\ f[n] = h[1 .. n]
  BY <1>n DEF Folded
<1>. HIDE DEF f, Raw
<1>9. f[0] = base /\ \A k \in 1 .. n : f[k] = FoldStep(fold, f[k - 1], k)
  <2>1. /\ Folded(h, n)[0] = base
        /\ \A k \in 1 .. n : Folded(h, n)[k] = FoldStep(fold, Folded(h, n)[k - 1], k)
    BY <1>n, <1>7, FoldsInOrder
  <2>. QED  BY <1>8, <2>1
<1>10. \A k \in 1 .. n : f[k] = RowCell(above, word, hypothesis, f[k - 1], k)
  BY <1>3, <1>9
<1>. QED  BY <1>1, <1>2, <1>8, <1>9, <1>10 DEF base, n, RowStart

\* The distance is what the fold over the words of the reference ends with.
LEMMA DistanceIsFolded ==
  ASSUME NEW reference, NEW hypothesis, NEW n \in Nat, Len(reference) = n, DOMAIN reference = 1 .. n
  PROVE  \E f : /\ EditDistance(reference, hypothesis) = Last(f[n])
                /\ f[0] = FirstRow(hypothesis)
                /\ \A k \in 1 .. n : f[k] = NextRow(f[k - 1], reference[k], hypothesis)
<1>. DEFINE base == FirstRow(hypothesis)
            fold == [of |-> "last", reference |-> reference, hypothesis |-> hypothesis]
            Raw(h) == h = [s \in SUBSET DOMAIN reference |->
                             IF s = {} THEN base
                             ELSE NextRow(h[s \ {Max(s)}], reference[Max(s)], hypothesis)]
            h == CHOOSE h : Raw(h)
<1>1. EditDistance(reference, hypothesis) = Last(h[DOMAIN reference])
  BY DEF EditDistance, FoldLeft, MapThenFoldSet
<1>2. \A v, k : FoldStep(fold, v, k) = NextRow(v, reference[k], hypothesis)
  BY DEF FoldStep
<1>. HIDE DEF base, fold
<1>3. \A g : Folds(fold, base, n, g) <=> Raw(g)
  <2>. SUFFICES ASSUME NEW g PROVE Folds(fold, base, n, g) <=> Raw(g)
    OBVIOUS
  <2>1. Raw(g) <=> g = [s \in SUBSET (1 .. n) |->
                          IF s = {} THEN base ELSE NextRow(g[s \ {Max(s)}], reference[Max(s)], hypothesis)]
    OBVIOUS
  <2>2. [s \in SUBSET (1 .. n) |->
           IF s = {} THEN base ELSE NextRow(g[s \ {Max(s)}], reference[Max(s)], hypothesis)]
          = [s \in SUBSET (1 .. n) |-> IF s = {} THEN base ELSE FoldStep(fold, g[s \ {Max(s)}], Max(s))]
    BY <1>2
  <2>. QED  BY <2>1, <2>2 DEF Folds, FoldTurn
<1>4. \E g : Folds(fold, base, n, g)
  BY FoldsGoOn DEF CanFold
<1>5. Raw(h)
  <2>1. \E g : Raw(g)
    BY <1>3, <1>4
  <2>. HIDE DEF Raw
  <2>. QED  BY <2>1
<1>6. Folds(fold, base, n, h)
  BY <1>3, <1>5
<1>. HIDE DEF h, Raw
<1>. DEFINE f == Folded(h, n)
<1>7. f[n] = h[1 .. n]
  BY DEF Folded
<1>8. f[0] = base /\ \A k \in 1 .. n : f[k] = FoldStep(fold, f[k - 1], k)
  BY <1>6, FoldsInOrder
<1>. HIDE DEF f
<1>9. \A k \in 1 .. n : f[k] = NextRow(f[k - 1], reference[k], hypothesis)
  BY <1>2, <1>8
<1>. QED  BY <1>1, <1>7, <1>8, <1>9 DEF base

\* So is the table, with the rows so far.
RowsStart(hypothesis) == <<FirstRow(hypothesis)>>
\* One more row of the table.
RowsNext(v, reference, hypothesis, k) == Append(v, NextRow(Last(v), reference[k], hypothesis))

\* The table is reached row by row.
LEMMA TableIsFolded ==
  ASSUME NEW reference, NEW hypothesis, NEW n \in Nat, Len(reference) = n, DOMAIN reference = 1 .. n
  PROVE  \E f : /\ Table(reference, hypothesis) = f[n]
                /\ f[0] = RowsStart(hypothesis)
                /\ \A k \in 1 .. n : f[k] = RowsNext(f[k - 1], reference, hypothesis, k)
<1>. DEFINE base == <<FirstRow(hypothesis)>>
            fold == [of |-> "rows", reference |-> reference, hypothesis |-> hypothesis]
            Raw(h) == h = [s \in SUBSET DOMAIN reference |->
                             IF s = {} THEN base
                             ELSE Append(h[s \ {Max(s)}],
                                         NextRow(Last(h[s \ {Max(s)}]), reference[Max(s)], hypothesis))]
            h == CHOOSE h : Raw(h)
<1>1. Table(reference, hypothesis) = h[DOMAIN reference]
  BY DEF Table, FoldLeft, MapThenFoldSet
<1>2. \A v, k : FoldStep(fold, v, k) = Append(v, NextRow(Last(v), reference[k], hypothesis))
  BY DEF FoldStep
<1>. HIDE DEF base, fold
<1>3. \A g : Folds(fold, base, n, g) <=> Raw(g)
  <2>. SUFFICES ASSUME NEW g PROVE Folds(fold, base, n, g) <=> Raw(g)
    OBVIOUS
  <2>. DEFINE Prior(s) == g[s \ {Max(s)}]
  <2>1. Raw(g) <=> g = [s \in SUBSET (1 .. n) |->
                          IF s = {} THEN base
                          ELSE Append(Prior(s), NextRow(Last(Prior(s)), reference[Max(s)], hypothesis))]
    OBVIOUS
  <2>2. [s \in SUBSET (1 .. n) |->
           IF s = {} THEN base
           ELSE Append(Prior(s), NextRow(Last(Prior(s)), reference[Max(s)], hypothesis))]
          = [s \in SUBSET (1 .. n) |-> IF s = {} THEN base ELSE FoldStep(fold, Prior(s), Max(s))]
    BY <1>2
  <2>. QED  BY <2>1, <2>2 DEF Folds, FoldTurn
<1>4. \E g : Folds(fold, base, n, g)
  BY FoldsGoOn DEF CanFold
<1>5. Raw(h)
  <2>1. \E g : Raw(g)
    BY <1>3, <1>4
  <2>. HIDE DEF Raw
  <2>. QED  BY <2>1
<1>6. Folds(fold, base, n, h)
  BY <1>3, <1>5
<1>. HIDE DEF h, Raw
<1>. DEFINE f == Folded(h, n)
<1>7. f[n] = h[1 .. n]
  BY DEF Folded
<1>8. f[0] = base /\ \A k \in 1 .. n : f[k] = FoldStep(fold, f[k - 1], k)
  BY <1>6, FoldsInOrder
<1>. HIDE DEF f
<1>9. \A k \in 1 .. n : f[k] = RowsNext(f[k - 1], reference, hypothesis, k)
  BY <1>2, <1>8 DEF RowsNext
<1>. QED  BY <1>1, <1>7, <1>8, <1>9 DEF base, RowsStart

\* The least of three.
LEMMA LeastOfThree ==
  ASSUME NEW a \in Nat, NEW b \in Nat, NEW c \in Nat
  PROVE  LET m == Min({a, b, c}) IN
         /\ m \in Nat /\ m <= a /\ m <= b /\ m <= c
         /\ m = a \/ m = b \/ m = c
<1>. DEFINE S == {a, b, c}
<1>1. \E x \in S : \A y \in S : x <= y
  BY LeastNat
<1>2. Min(S) \in S /\ \A y \in S : Min(S) <= y
  <2>. HIDE DEF S
  <2>. QED  BY <1>1 DEF Min
<1>. QED  BY <1>2

\* How a cell follows from those above it, before it and across.
Follows(v, above, before, across, e) ==
  /\ v \in Nat
  /\ v <= above + 1 /\ v <= before + 1 /\ v <= across + e
  /\ v = above + 1 \/ v = before + 1 \/ v = across + e

\* The first k + 1 cells of a row follow from the row above.
RowSoFar(above, word, hypothesis, v, k) ==
  /\ v \in [1 .. k + 1 -> Nat]
  /\ v[1] = above[1] + 1
  /\ \A j \in 1 .. k : Follows(v[j + 1], above[j + 1], v[j], above[j], Differ(word, hypothesis[j]))

\* One more cell of a row follows from the row above.
LEMMA RowGrows ==
  ASSUME NEW m \in Nat, NEW above \in [1 .. m + 1 -> Nat], NEW word, NEW hypothesis,
         NEW k \in 1 .. m, NEW v, RowSoFar(above, word, hypothesis, v, k - 1)
  PROVE  RowSoFar(above, word, hypothesis, RowCell(above, word, hypothesis, v, k), k)
<1>. DEFINE e == Differ(word, hypothesis[k])
            x == Min({above[k + 1] + 1, v[k] + 1, above[k] + e})
            w == RowCell(above, word, hypothesis, v, k)
<1>1. w = Append(v, x)
  BY DEF RowCell, Differ
<1>2. above[k + 1] \in Nat /\ above[k] \in Nat /\ e \in Nat
  BY DEF Differ
<1>3. k - 1 \in Nat /\ k \in Nat /\ (k - 1) + 1 = k /\ k \in 1 .. k
  OBVIOUS
<1>4. v \in [1 .. k -> Nat] /\ v[k] \in Nat
  BY <1>3 DEF RowSoFar
<1>5. Follows(x, above[k + 1], v[k], above[k], e)
  <2>1. above[k + 1] + 1 \in Nat /\ v[k] + 1 \in Nat /\ above[k] + e \in Nat
    <3>. DEFINE va == above[k + 1]
                vb == v[k]
                vc == above[k]
    <3>1. va \in Nat /\ vb \in Nat /\ vc \in Nat /\ e \in Nat
      BY <1>2, <1>4
    <3>. HIDE DEF va, vb, vc, e
    <3>2. va + 1 \in Nat /\ vb + 1 \in Nat /\ vc + e \in Nat
      BY ONLY <3>1
    <3>. QED  BY <3>2 DEF va, vb, vc
  <2>. QED  BY <2>1, LeastOfThree DEF Follows
<1>. HIDE DEF e, x
<1>6. x \in Nat
  BY <1>5 DEF Follows
<1>. HIDE DEF w
<1>7. w \in [1 .. k + 1 -> Nat]
  BY <1>1, <1>3, <1>4, <1>6, AppendPuts
<1>8. (\A j \in 1 .. k : w[j] = v[j]) /\ w[k + 1] = x
  BY <1>1, <1>3, <1>4, <1>6, AppendPuts
<1>9. w[1] = above[1] + 1
  <2>1. 1 \in 1 .. k
    BY <1>3
  <2>. QED  BY <1>8, <2>1 DEF RowSoFar
<1>10. ASSUME NEW j \in 1 .. k
       PROVE  Follows(w[j + 1], above[j + 1], w[j], above[j], Differ(word, hypothesis[j]))
  <2>1. CASE j = k
    BY <1>3, <1>5, <1>8, <2>1 DEF e
  <2>2. CASE j # k
    <3>1. j \in 1 .. k - 1 /\ j + 1 \in 1 .. k
      BY <1>3, <2>2
    <3>. QED  BY <1>8, <3>1 DEF RowSoFar
  <2>. QED  BY <2>1, <2>2
<1>. QED  BY <1>7, <1>9, <1>10 DEF RowSoFar, w

\* The next row follows from the one above it.
LEMMA NextRowFollows ==
  ASSUME NEW m \in Nat, NEW above \in [1 .. m + 1 -> Nat], NEW word, NEW hypothesis,
         Len(hypothesis) = m
  PROVE  RowSoFar(above, word, hypothesis, NextRow(above, word, hypothesis), m)
<1>1. PICK f : /\ NextRow(above, word, hypothesis) = f[m]
               /\ f[0] = RowStart(above)
               /\ \A k \in 1 .. m : f[k] = RowCell(above, word, hypothesis, f[k - 1], k)
  <2>1. Len(hypothesis) \in Nat
    OBVIOUS
  <2>2. \E f : /\ NextRow(above, word, hypothesis) = f[Len(hypothesis)]
                /\ f[0] = RowStart(above)
                /\ \A k \in 1 .. Len(hypothesis) : f[k] = RowCell(above, word, hypothesis, f[k - 1], k)
    BY <2>1, RowIsFolded
  <2>. QED  BY <2>2
<1>. DEFINE Bad == {k \in 0 .. m : ~RowSoFar(above, word, hypothesis, f[k], k)}
<1>2. Bad = {}
  <2>. SUFFICES ASSUME Bad # {} PROVE FALSE
    OBVIOUS
  <2>1. PICK k \in Bad : \A l \in Bad : k <= l
    <3>1. Bad \subseteq Nat
      OBVIOUS
    <3>. HIDE DEF Bad
    <3>. QED  BY <3>1, LeastNat
  <2>2. k \in 0 .. m /\ ~RowSoFar(above, word, hypothesis, f[k], k)
    OBVIOUS
  <2>3. CASE k = 0
    <3>1. above[1] + 1 \in Nat
      OBVIOUS
    <3>2. <<above[1] + 1>> \in [1 .. 1 -> Nat] /\ <<above[1] + 1>>[1] = above[1] + 1
      BY <3>1
    <3>3. RowSoFar(above, word, hypothesis, <<above[1] + 1>>, 0)
      BY <3>2 DEF RowSoFar
    <3>. QED  BY <1>1, <2>2, <2>3, <3>3 DEF RowStart
  <2>4. CASE k # 0
    <3>1. k \in 1 .. m /\ k - 1 \in 0 .. m /\ ~ (k <= k - 1)
      BY <2>2, <2>4
    <3>2. RowSoFar(above, word, hypothesis, f[k - 1], k - 1)
      BY <2>1, <3>1
    <3>3. RowSoFar(above, word, hypothesis, f[k], k)
      BY <1>1, <3>1, <3>2, RowGrows
    <3>. QED  BY <2>2, <3>3
  <2>. QED  BY <2>3, <2>4
<1>3. m \in 0 .. m
  OBVIOUS
<1>. QED  BY <1>1, <1>2, <1>3

\* Rows that follow each other make a table of distances.
AreRows(R, reference, hypothesis) ==
  /\ R[0] = FirstRow(hypothesis)
  /\ \A k \in 1 .. Len(reference) : R[k] = NextRow(R[k - 1], reference[k], hypothesis)
\* Rows that follow from each other, as a table counted from 0.
TableOf(R, n, m) == [i \in 0 .. n |-> [j \in 0 .. m |-> R[i][j + 1]]]

\* Every row has as many cells as the hypothesis has words, and one more.
LEMMA RowsAreTyped ==
  ASSUME NEW reference, NEW hypothesis, NEW n \in Nat, NEW m \in Nat,
         Len(reference) = n, Len(hypothesis) = m,
         NEW R, AreRows(R, reference, hypothesis)
  PROVE  \A i \in 0 .. n : R[i] \in [1 .. m + 1 -> Nat] /\ R[i][1] = i
<1>. DEFINE Good(i) == R[i] \in [1 .. m + 1 -> Nat] /\ R[i][1] = i
            Bad == {i \in 0 .. n : ~Good(i)}
<1>. SUFFICES Bad = {}
  OBVIOUS
<1>. SUFFICES ASSUME Bad # {} PROVE FALSE
  OBVIOUS
<1>1. PICK i \in Bad : \A k \in Bad : i <= k
  <2>1. Bad \subseteq Nat
    OBVIOUS
  <2>. HIDE DEF Bad
  <2>. QED  BY <2>1, LeastNat
<1>2. i \in 0 .. n /\ ~Good(i)
  OBVIOUS
<1>3. CASE i = 0
  <2>1. R[0] = [j \in 1 .. m + 1 |-> j - 1]
    BY DEF AreRows, FirstRow
  <2>2. \A j \in 1 .. m + 1 : j - 1 \in Nat
    OBVIOUS
  <2>3. 1 \in 1 .. m + 1 /\ 1 - 1 = 0
    OBVIOUS
  <2>. QED  BY <1>2, <1>3, <2>1, <2>2, <2>3
<1>4. CASE i # 0
  <2>1. i \in 1 .. n /\ i - 1 \in 0 .. n /\ ~ (i <= i - 1) /\ i \in Nat /\ i = (i - 1) + 1
    BY <1>2, <1>4
  <2>2. Good(i - 1)
    BY <1>1, <2>1
  <2>. DEFINE above == R[i - 1]
  <2>3. R[i] = NextRow(above, reference[i], hypothesis)
    BY <2>1 DEF AreRows
  <2>4. above \in [1 .. m + 1 -> Nat] /\ above[1] = i - 1
    BY <2>2
  <2>. HIDE DEF above
  <2>5. RowSoFar(above, reference[i], hypothesis, R[i], m)
    BY <2>3, <2>4, NextRowFollows
  <2>6. R[i] \in [1 .. m + 1 -> Nat] /\ R[i][1] = i
    BY <2>1, <2>4, <2>5 DEF RowSoFar
  <2>. QED  BY <1>2, <2>6
<1>. QED  BY <1>3, <1>4

\* Rows that follow from each other make a table of distances.
LEMMA RowsMakeTable ==
  ASSUME NEW reference, NEW hypothesis, NEW n \in Nat, NEW m \in Nat,
         Len(reference) = n, Len(hypothesis) = m,
         NEW R, AreRows(R, reference, hypothesis), NEW D, D = TableOf(R, n, m)
  PROVE  IsTable(D, reference, hypothesis)
<1>1. \A i \in 0 .. n, j \in 0 .. m : D[i][j] = R[i][j + 1]
  BY DEF TableOf
<1>2. \A i \in 0 .. n : R[i] \in [1 .. m + 1 -> Nat] /\ R[i][1] = i
  BY RowsAreTyped
<1>. SUFFICES ASSUME NEW i \in 0 .. n, NEW j \in 0 .. m
              PROVE  /\ D[i][j] \in Nat
                     /\ i = 0 => D[i][j] = j
                     /\ j = 0 => D[i][j] = i
                     /\ i > 0 /\ j > 0 =>
                          /\ D[i][j] <= D[i - 1][j] + 1
                          /\ D[i][j] <= D[i][j - 1] + 1
                          /\ D[i][j] <= D[i - 1][j - 1] + Differ(reference[i], hypothesis[j])
                          /\ \/ D[i][j] = D[i - 1][j] + 1
                             \/ D[i][j] = D[i][j - 1] + 1
                             \/ D[i][j] = D[i - 1][j - 1] + Differ(reference[i], hypothesis[j])
  BY DEF IsTable
<1>3. j \in Nat /\ j + 1 \in 1 .. m + 1 /\ (j + 1) - 1 = j
  OBVIOUS
<1>4. D[i][j] \in Nat
  <2>1. D[i][j] = R[i][j + 1]
    BY <1>1
  <2>2. R[i] \in [1 .. m + 1 -> Nat]
    BY <1>2
  <2>3. R[i][j + 1] \in Nat
    BY ONLY <1>3, <2>2
  <2>. QED  BY <2>1, <2>3
<1>5. i = 0 => D[i][j] = j
  <2>1. R[0] = [k \in 1 .. m + 1 |-> k - 1]
    BY DEF AreRows, FirstRow
  <2>2. R[0][j + 1] = j
    BY <1>3, <2>1
  <2>. QED  BY <1>1, <2>2
<1>6. j = 0 => D[i][j] = i
  <2>1. D[i][j] = R[i][j + 1]
    BY <1>1
  <2>2. R[i][1] = i
    BY <1>2
  <2>3. j = 0 => j + 1 = 1
    OBVIOUS
  <2>. QED  BY ONLY <2>1, <2>2, <2>3
<1>7. ASSUME i > 0, j > 0
      PROVE  Follows(D[i][j], D[i - 1][j], D[i][j - 1], D[i - 1][j - 1], Differ(reference[i], hypothesis[j]))
  <2>1. /\ i \in 1 .. n /\ i - 1 \in 0 .. n /\ j \in 1 .. m /\ j - 1 \in 0 .. m
        /\ (j - 1) + 1 = j
    BY <1>7
  <2>. DEFINE above == R[i - 1]
  <2>2. R[i] = NextRow(above, reference[i], hypothesis)
    BY <2>1 DEF AreRows
  <2>3. above \in [1 .. m + 1 -> Nat]
    BY <1>2, <2>1
  <2>4. /\ D[i][j] = R[i][j + 1] /\ D[i - 1][j] = above[j + 1]
        /\ D[i][j - 1] = R[i][j] /\ D[i - 1][j - 1] = above[j]
    BY <1>1, <2>1
  <2>. HIDE DEF above
  <2>5. RowSoFar(above, reference[i], hypothesis, R[i], m)
    BY <2>2, <2>3, NextRowFollows
  <2>. QED  BY <2>1, <2>4, <2>5 DEF RowSoFar
<1>. QED  BY <1>4, <1>5, <1>6, <1>7 DEF Follows

\* The edit distance is the least price of an alignment.
LEMMA DistanceIsLeast ==
  ASSUME NEW reference, NEW hypothesis, Len(reference) \in Nat, Len(hypothesis) \in Nat,
         DOMAIN reference = 1 .. Len(reference)
  PROVE  /\ EditDistance(reference, hypothesis) = LeastEdits(reference, hypothesis)
         /\ EditDistance(reference, hypothesis) \in Nat
<1>. DEFINE n == Len(reference)
            m == Len(hypothesis)
<1>1. n \in Nat /\ m \in Nat /\ Len(reference) = n /\ Len(hypothesis) = m /\ DOMAIN reference = 1 .. n
  OBVIOUS
<1>. HIDE DEF n, m
<1>2. PICK R : /\ EditDistance(reference, hypothesis) = Last(R[n])
               /\ R[0] = FirstRow(hypothesis)
               /\ \A k \in 1 .. n : R[k] = NextRow(R[k - 1], reference[k], hypothesis)
  BY <1>1, DistanceIsFolded
<1>3. AreRows(R, reference, hypothesis)
  BY <1>1, <1>2 DEF AreRows
<1>. DEFINE D == TableOf(R, n, m)
<1>4. D[n][m] = R[n][m + 1]
  BY <1>1 DEF TableOf
<1>. HIDE DEF D
<1>5. IsTable(D, reference, hypothesis)
  BY <1>1, <1>3, RowsMakeTable DEF D
<1>6. D[Len(reference)][Len(hypothesis)] = LeastEdits(reference, hypothesis)
      /\ LeastEdits(reference, hypothesis) \in Nat
  BY <1>1, <1>5, LastCellIsLeast
<1>7. Last(R[n]) = R[n][m + 1]
  <2>1. n \in 0 .. n /\ m + 1 \in Nat
    BY <1>1
  <2>2. R[n] \in [1 .. m + 1 -> Nat]
    BY <1>1, <1>3, <2>1, RowsAreTyped
  <2>3. Len(R[n]) = m + 1
    BY <2>1, <2>2
  <2>. QED  BY <2>3 DEF Last
<1>. QED  BY <1>1, <1>2, <1>4, <1>6, <1>7

\* The table, as the rows so far.
RowsSoFar(v, reference, hypothesis, m, k) ==
  /\ v \in [1 .. k + 1 -> [1 .. m + 1 -> Nat]]
  /\ v[1] = FirstRow(hypothesis)
  /\ \A i \in 1 .. k : v[i + 1] = NextRow(v[i], reference[i], hypothesis)

\* One more row follows from the last.
LEMMA RowsGrow ==
  ASSUME NEW reference, NEW hypothesis, NEW m \in Nat, Len(hypothesis) = m,
         NEW k \in Nat, k # 0, NEW v, RowsSoFar(v, reference, hypothesis, m, k - 1),
         NEW w, w = Append(v, NextRow(Last(v), reference[k], hypothesis))
  PROVE  RowsSoFar(w, reference, hypothesis, m, k)
<1>. DEFINE Rows == [1 .. m + 1 -> Nat]
            r == NextRow(Last(v), reference[k], hypothesis)
<1>1. k - 1 \in Nat /\ (k - 1) + 1 = k /\ k \in 1 .. k
  OBVIOUS
<1>2. v \in [1 .. k -> Rows]
  BY <1>1 DEF RowsSoFar
<1>3. Last(v) = v[k] /\ v[k] \in Rows
  <2>. HIDE DEF Rows
  <2>1. Len(v) = k
    BY <1>1, <1>2
  <2>. QED  BY <1>1, <1>2, <2>1 DEF Last
<1>4. r \in Rows
  <2>1. RowSoFar(v[k], reference[k], hypothesis, r, m)
    BY <1>3, NextRowFollows
  <2>. QED  BY <2>1 DEF RowSoFar
<1>. HIDE DEF Rows
<1>5. /\ w \in [1 .. k + 1 -> Rows]
      /\ \A i \in 1 .. k : w[i] = v[i]
      /\ w[k + 1] = r
  <2>. HIDE DEF r
  <2>1. w = Append(v, r)
    BY DEF r
  <2>. QED  BY <1>2, <1>4, <2>1, AppendPuts
<1>6. w[1] = FirstRow(hypothesis)
  <2>1. 1 \in 1 .. k
    OBVIOUS
  <2>. QED  BY <1>5, <2>1 DEF RowsSoFar
<1>7. ASSUME NEW i \in 1 .. k PROVE w[i + 1] = NextRow(w[i], reference[i], hypothesis)
  <2>1. CASE i = k
    BY <1>3, <1>5, <2>1
  <2>2. CASE i # k
    <3>1. i \in 1 .. k - 1 /\ i + 1 \in 1 .. k
      BY <1>1, <2>2
    <3>2. v[i + 1] = NextRow(v[i], reference[i], hypothesis)
      BY <3>1 DEF RowsSoFar
    <3>. QED  BY <1>5, <3>1, <3>2
  <2>. QED  BY <2>1, <2>2
<1>. QED  BY <1>5, <1>6, <1>7 DEF RowsSoFar, Rows

\* The cells of the table are distances.
TableCells(reference, hypothesis) ==
  [i \in 0 .. Len(reference) |-> [j \in 0 .. Len(hypothesis) |-> Table(reference, hypothesis)[i + 1][j + 1]]]

\* What Table computes is a table of distances.
LEMMA TableIsTable ==
  ASSUME NEW reference, NEW hypothesis, NEW n \in Nat, NEW m \in Nat,
         Len(reference) = n, Len(hypothesis) = m, DOMAIN reference = 1 .. n
  PROVE  IsTable(TableCells(reference, hypothesis), reference, hypothesis)
<1>1. PICK f : /\ Table(reference, hypothesis) = f[n]
               /\ f[0] = RowsStart(hypothesis)
               /\ \A k \in 1 .. n : f[k] = RowsNext(f[k - 1], reference, hypothesis, k)
  BY TableIsFolded
<1>. DEFINE Bad == {k \in 0 .. n : ~RowsSoFar(f[k], reference, hypothesis, m, k)}
<1>2. Bad = {}
  <2>. SUFFICES ASSUME Bad # {} PROVE FALSE
    OBVIOUS
  <2>1. PICK k \in Bad : \A l \in Bad : k <= l
    <3>1. Bad \subseteq Nat
      OBVIOUS
    <3>. HIDE DEF Bad
    <3>. QED  BY <3>1, LeastNat
  <2>2. k \in 0 .. n /\ ~RowsSoFar(f[k], reference, hypothesis, m, k)
    OBVIOUS
  <2>3. CASE k = 0
    <3>1. FirstRow(hypothesis) \in [1 .. m + 1 -> Nat]
      BY DEF FirstRow
    <3>2. <<FirstRow(hypothesis)>> \in [1 .. 1 -> [1 .. m + 1 -> Nat]]
      BY <3>1
    <3>3. RowsSoFar(<<FirstRow(hypothesis)>>, reference, hypothesis, m, 0)
      BY <3>2 DEF RowsSoFar
    <3>. QED  BY <1>1, <2>2, <2>3, <3>3 DEF RowsStart
  <2>4. CASE k # 0
    <3>1. k \in 1 .. n /\ k - 1 \in 0 .. n /\ ~ (k <= k - 1) /\ k \in Nat
      BY <2>2, <2>4
    <3>2. RowsSoFar(f[k - 1], reference, hypothesis, m, k - 1)
      BY <2>1, <3>1
    <3>3. f[k] = Append(f[k - 1], NextRow(Last(f[k - 1]), reference[k], hypothesis))
      BY <1>1, <3>1 DEF RowsNext
    <3>4. RowsSoFar(f[k], reference, hypothesis, m, k)
      BY <2>4, <3>1, <3>2, <3>3, RowsGrow
    <3>. QED  BY <2>2, <3>4
  <2>. QED  BY <2>3, <2>4
<1>. DEFINE T == Table(reference, hypothesis)
            R == [i \in 0 .. n |-> T[i + 1]]
<1>3. RowsSoFar(T, reference, hypothesis, m, n)
  <2>1. n \in 0 .. n
    OBVIOUS
  <2>. QED  BY <1>1, <1>2, <2>1
<1>. HIDE DEF T
<1>4. AreRows(R, reference, hypothesis)
  <2>1. R[0] = T[1]
    OBVIOUS
  <2>2. \A k \in 1 .. n : R[k] = T[k + 1] /\ R[k - 1] = T[k]
    OBVIOUS
  <2>. QED  BY <1>3, <2>1, <2>2 DEF RowsSoFar, AreRows
<1>5. TableCells(reference, hypothesis) = TableOf(R, n, m)
  BY DEF TableCells, TableOf, T
<1>. HIDE DEF R
<1>. QED  BY <1>4, <1>5, RowsMakeTable

\* One step of the walk, from what was walked before it.
WalkStep(T, reference, hypothesis, w, at) ==
        LET i == at[1]
            j == at[2]
            cell(x, y) == T[x + 1][y + 1]
        IN CASE i = 0 /\ j = 0 -> NoEdits
             [] i > 0 /\ j > 0 /\ reference[i] = hypothesis[j]
                  /\ cell(i, j) = cell(i - 1, j - 1) ->
                  [w[<<i - 1, j - 1>>] EXCEPT !.hits = @ + 1]
             [] i > 0 /\ j > 0 /\ cell(i, j) = cell(i - 1, j - 1) + 1 ->
                  [w[<<i - 1, j - 1>>] EXCEPT !.subs = @ + 1]
             [] OTHER ->
                  IF i > 0 /\ cell(i, j) = cell(i - 1, j) + 1
                  THEN [w[<<i - 1, j>>] EXCEPT !.dels = @ + 1]
                  ELSE [w[<<i, j - 1>>] EXCEPT !.ins = @ + 1]
\* A walk back through the table.
Walks(T, reference, hypothesis, w) ==
  w = [at \in (0 .. Len(reference)) \X (0 .. Len(hypothesis)) |-> WalkStep(T, reference, hypothesis, w, at)]

\* The alignment counts what the walk from the last cell finds.
LEMMA AlignIs ==
  ASSUME NEW reference, NEW hypothesis
  PROVE  Align(reference, hypothesis)
           = (CHOOSE w : Walks(Table(reference, hypothesis), reference, hypothesis, w))
                [<<Len(reference), Len(hypothesis)>>]
BY DEF Align, Walks, WalkStep

\* The cells of the table.
Cells(reference, hypothesis) == (0 .. Len(reference)) \X (0 .. Len(hypothesis))

\* One more of each kind of edit.
OneHit(e) == [e EXCEPT !.hits = @ + 1]
OneSubstituted(e) == [e EXCEPT !.subs = @ + 1]
OneDeleted(e) == [e EXCEPT !.dels = @ + 1]
OneInserted(e) == [e EXCEPT !.ins = @ + 1]

\* The counts of an alignment.
EditCounts == [hits : Nat, subs : Nat, dels : Nat, ins : Nat]

\* What four counts make.
LEMMA CountsOfEdits ==
  ASSUME NEW a \in Nat, NEW b \in Nat, NEW c \in Nat, NEW d \in Nat,
         NEW e, e = [hits |-> a, subs |-> b, dels |-> c, ins |-> d]
  PROVE  e \in EditCounts /\ Edits(e) = b + c + d
BY DEF EditCounts, Edits

\* One more edit of a kind is one more edit, but for a hit.
LEMMA OneMoreEdit ==
  ASSUME NEW e \in EditCounts
  PROVE  /\ OneHit(e) \in EditCounts /\ Edits(OneHit(e)) = Edits(e)
         /\ OneSubstituted(e) \in EditCounts /\ Edits(OneSubstituted(e)) = Edits(e) + 1
         /\ OneDeleted(e) \in EditCounts /\ Edits(OneDeleted(e)) = Edits(e) + 1
         /\ OneInserted(e) \in EditCounts /\ Edits(OneInserted(e)) = Edits(e) + 1
<1>. DEFINE a == e.hits
            b == e.subs
            c == e.dels
            d == e.ins
<1>1. a \in Nat /\ b \in Nat /\ c \in Nat /\ d \in Nat
  BY DEF EditCounts
<1>2. /\ OneHit(e) = [hits |-> a + 1, subs |-> b, dels |-> c, ins |-> d]
      /\ OneSubstituted(e) = [hits |-> a, subs |-> b + 1, dels |-> c, ins |-> d]
      /\ OneDeleted(e) = [hits |-> a, subs |-> b, dels |-> c + 1, ins |-> d]
      /\ OneInserted(e) = [hits |-> a, subs |-> b, dels |-> c, ins |-> d + 1]
  BY DEF EditCounts, OneHit, OneSubstituted, OneDeleted, OneInserted
<1>3. Edits(e) = b + c + d
  BY DEF Edits
<1>. HIDE DEF a, b, c, d
<1>4. a + 1 \in Nat /\ b + 1 \in Nat /\ c + 1 \in Nat /\ d + 1 \in Nat
  BY <1>1
<1>5. OneHit(e) \in EditCounts /\ Edits(OneHit(e)) = b + c + d
  <2>. DEFINE m == a + 1
              f == OneHit(e)
  <2>1. f = [hits |-> m, subs |-> b, dels |-> c, ins |-> d] /\ m \in Nat
    BY <1>2, <1>4
  <2>. HIDE DEF f, m
  <2>2. f \in EditCounts /\ Edits(f) = b + c + d
    BY <1>1, <2>1, CountsOfEdits
  <2>. QED  BY <2>2 DEF f, m
<1>6. OneSubstituted(e) \in EditCounts /\ Edits(OneSubstituted(e)) = (b + 1) + c + d
  <2>. DEFINE m == b + 1
              f == OneSubstituted(e)
  <2>1. f = [hits |-> a, subs |-> m, dels |-> c, ins |-> d] /\ m \in Nat
    BY <1>2, <1>4
  <2>. HIDE DEF f, m
  <2>2. f \in EditCounts /\ Edits(f) = m + c + d
    BY <1>1, <2>1, CountsOfEdits
  <2>. QED  BY <2>2 DEF f, m
<1>7. OneDeleted(e) \in EditCounts /\ Edits(OneDeleted(e)) = b + (c + 1) + d
  <2>. DEFINE m == c + 1
              f == OneDeleted(e)
  <2>1. f = [hits |-> a, subs |-> b, dels |-> m, ins |-> d] /\ m \in Nat
    BY <1>2, <1>4
  <2>. HIDE DEF f, m
  <2>2. f \in EditCounts /\ Edits(f) = b + m + d
    BY <1>1, <2>1, CountsOfEdits
  <2>. QED  BY <2>2 DEF f, m
<1>8. OneInserted(e) \in EditCounts /\ Edits(OneInserted(e)) = b + c + (d + 1)
  <2>. DEFINE m == d + 1
              f == OneInserted(e)
  <2>1. f = [hits |-> a, subs |-> b, dels |-> c, ins |-> m] /\ m \in Nat
    BY <1>2, <1>4
  <2>. HIDE DEF f, m
  <2>2. f \in EditCounts /\ Edits(f) = b + c + m
    BY <1>1, <2>1, CountsOfEdits
  <2>. QED  BY <2>2 DEF f, m
<1>. QED  BY ONLY <1>1, <1>3, <1>5, <1>6, <1>7, <1>8

\* The walk back takes the cell another follows from, and counts what the edit is.
StepsBack(T, reference, hypothesis, i, j) ==
  LET cell(x, y) == T[x + 1][y + 1]
      step(w) == WalkStep(T, reference, hypothesis, w, <<i, j>>)
  IN \/ i = 0 /\ j = 0 /\ \A w : step(w) = NoEdits
     \/ /\ i > 0 /\ j > 0 /\ cell(i, j) = cell(i - 1, j - 1)
        /\ \A w : step(w) = OneHit(w[<<i - 1, j - 1>>])
     \/ /\ i > 0 /\ j > 0 /\ cell(i, j) = cell(i - 1, j - 1) + 1
        /\ \A w : step(w) = OneSubstituted(w[<<i - 1, j - 1>>])
     \/ /\ i > 0 /\ cell(i, j) = cell(i - 1, j) + 1
        /\ \A w : step(w) = OneDeleted(w[<<i - 1, j>>])
     \/ /\ j > 0 /\ cell(i, j) = cell(i, j - 1) + 1
        /\ \A w : step(w) = OneInserted(w[<<i, j - 1>>])

\* Where the walk goes from a cell, and what it counts there.
LEMMA WalkStepsBack ==
  ASSUME NEW reference, NEW hypothesis, NEW n \in Nat, NEW m \in Nat,
         Len(reference) = n, Len(hypothesis) = m, DOMAIN reference = 1 .. n,
         NEW T, T = Table(reference, hypothesis), NEW i \in 0 .. n, NEW j \in 0 .. m
  PROVE  StepsBack(T, reference, hypothesis, i, j)
<1>. DEFINE D == TableCells(reference, hypothesis)
            cell(x, y) == T[x + 1][y + 1]
            step(w) == WalkStep(T, reference, hypothesis, w, <<i, j>>)
            alike == reference[i] = hypothesis[j]
            v == cell(i, j)
            across == cell(i - 1, j - 1)
            above == cell(i - 1, j)
            before == cell(i, j - 1)
<1>1. \A x \in 0 .. n, y \in 0 .. m : D[x][y] = cell(x, y)
  BY DEF TableCells
<1>2. IsTable(D, reference, hypothesis)
  BY TableIsTable
<1>. HIDE DEF D
<1>3. i > 0 => i - 1 \in 0 .. n
  OBVIOUS
<1>4. j > 0 => j - 1 \in 0 .. m
  OBVIOUS
<1>5. /\ v \in Nat
      /\ i > 0 => above \in Nat
      /\ j > 0 => before \in Nat
      /\ i > 0 /\ j > 0 => across \in Nat
  <2>1. \A x \in 0 .. n, y \in 0 .. m : D[x][y] \in Nat
    BY <1>2 DEF IsTable
  <2>. HIDE DEF cell
  <2>2. \A x \in 0 .. n, y \in 0 .. m : cell(x, y) \in Nat
    BY <1>1, <2>1
  <2>. QED  BY <1>3, <1>4, <2>2
<1>6. i > 0 /\ j = 0 => v = above + 1
  <2>1. D[i][j] = v /\ (i > 0 => D[i - 1][j] = above)
    BY <1>1, <1>3
  <2>2. (j = 0 => D[i][j] = i) /\ (i > 0 /\ j = 0 => D[i - 1][j] = i - 1)
    BY <1>2, <1>3 DEF IsTable
  <2>. QED  BY <2>1, <2>2
<1>7. i = 0 /\ j > 0 => v = before + 1
  <2>1. D[i][j] = v /\ (j > 0 => D[i][j - 1] = before)
    BY <1>1, <1>4
  <2>2. (i = 0 => D[i][j] = j) /\ (i = 0 /\ j > 0 => D[i][j - 1] = j - 1)
    BY <1>2, <1>4 DEF IsTable
  <2>. QED  BY <2>1, <2>2
<1>8. i > 0 /\ j > 0 => v = above + 1 \/ v = before + 1 \/ v = across + (IF alike THEN 0 ELSE 1)
  <2>. SUFFICES ASSUME i > 0, j > 0
                PROVE  v = above + 1 \/ v = before + 1 \/ v = across + (IF alike THEN 0 ELSE 1)
    OBVIOUS
  <2>1. /\ D[i][j] = v /\ D[i - 1][j] = above
        /\ D[i][j - 1] = before /\ D[i - 1][j - 1] = across
    BY <1>1, <1>3, <1>4
  <2>2. \/ D[i][j] = D[i - 1][j] + 1
        \/ D[i][j] = D[i][j - 1] + 1
        \/ D[i][j] = D[i - 1][j - 1] + Differ(reference[i], hypothesis[j])
    BY <1>2 DEF IsTable
  <2>. QED  BY <2>1, <2>2 DEF Differ
<1>9. \A w : step(w) = CASE i = 0 /\ j = 0 -> NoEdits
                         [] i > 0 /\ j > 0 /\ alike /\ v = across -> OneHit(w[<<i - 1, j - 1>>])
                         [] i > 0 /\ j > 0 /\ v = across + 1 -> OneSubstituted(w[<<i - 1, j - 1>>])
                         [] OTHER -> IF i > 0 /\ v = above + 1
                                     THEN OneDeleted(w[<<i - 1, j>>]) ELSE OneInserted(w[<<i, j - 1>>])
  BY DEF WalkStep, OneHit, OneSubstituted, OneDeleted, OneInserted
<1>. HIDE DEF cell, step, alike, v, across, above, before
<1>10. CASE i = 0 /\ j = 0
  <2>1. \A w : step(w) = NoEdits
    BY <1>9, <1>10
  <2>. QED  BY <1>10, <2>1 DEF StepsBack, step
<1>11. CASE i > 0 /\ j > 0 /\ alike /\ v = across
  <2>1. \A w : step(w) = OneHit(w[<<i - 1, j - 1>>])
    <3>1. ~ (i = 0 /\ j = 0) /\ ~ (v = across + 1)
      BY <1>5, <1>11
    <3>. QED  BY <1>9, <1>11, <3>1
  <2>. QED  BY <1>11, <2>1 DEF StepsBack, step, cell, v, across
<1>12. CASE i > 0 /\ j > 0 /\ v = across + 1
  <2>1. \A w : step(w) = OneSubstituted(w[<<i - 1, j - 1>>])
    <3>1. ~ (i = 0 /\ j = 0) /\ ~ (v = across)
      BY <1>5, <1>12
    <3>. QED  BY <1>9, <1>12, <3>1
  <2>. QED  BY <1>12, <2>1 DEF StepsBack, step, cell, v, across
<1>13. CASE /\ ~ (i = 0 /\ j = 0)
            /\ ~ (i > 0 /\ j > 0 /\ alike /\ v = across)
            /\ ~ (i > 0 /\ j > 0 /\ v = across + 1)
  <2>1. \A w : step(w) = IF i > 0 /\ v = above + 1
                         THEN OneDeleted(w[<<i - 1, j>>]) ELSE OneInserted(w[<<i, j - 1>>])
    BY <1>9, <1>13
  <2>2. CASE i > 0 /\ v = above + 1
    <3>1. \A w : step(w) = OneDeleted(w[<<i - 1, j>>])
      BY <2>1, <2>2
    <3>. QED  BY <2>2, <3>1 DEF StepsBack, step, cell, v, above
  <2>3. CASE ~ (i > 0 /\ v = above + 1)
    <3>1. \A w : step(w) = OneInserted(w[<<i, j - 1>>])
      BY <2>1, <2>3
    <3>2. j > 0 /\ v = before + 1
      <4>1. i \in Nat /\ j \in Nat
        OBVIOUS
      <4>2. CASE i = 0
        BY <1>7, <1>13, <4>1, <4>2
      <4>3. CASE i > 0
        <5>1. j > 0
          BY <1>6, <2>3, <4>1, <4>3
        <5>2. v = before + 1
          BY <1>5, <1>8, <1>13, <2>3, <4>3, <5>1
        <5>. QED  BY <5>1, <5>2
      <4>. QED  BY <4>1, <4>2, <4>3
    <3>. QED  BY <3>1, <3>2 DEF StepsBack, step, cell, v, before
  <2>. QED  BY <2>2, <2>3
<1>. QED  BY <1>10, <1>11, <1>12, <1>13

\* How far a cell is from the first.
Far(at) == at[1] + at[2]

\* The cells the walk has been at, whatever it says of the others.
WalksWithin(T, reference, hypothesis, k, w) ==
  \A at \in Cells(reference, hypothesis) :
    Far(at) < k => w[at] = WalkStep(T, reference, hypothesis, w, at)

\* A step of the walk reads cells that are less far.
LEMMA WalkReadsBack ==
  ASSUME NEW reference, NEW hypothesis, NEW n \in Nat, NEW m \in Nat,
         Len(reference) = n, Len(hypothesis) = m, DOMAIN reference = 1 .. n,
         NEW T, T = Table(reference, hypothesis), NEW at \in Cells(reference, hypothesis),
         NEW w, NEW v,
         \A p \in Cells(reference, hypothesis) : Far(p) < Far(at) => w[p] = v[p]
  PROVE  WalkStep(T, reference, hypothesis, w, at) = WalkStep(T, reference, hypothesis, v, at)
<1>. DEFINE C == Cells(reference, hypothesis)
            i == at[1]
            j == at[2]
<1>1. at = <<i, j>> /\ i \in 0 .. n /\ j \in 0 .. m /\ i \in Nat /\ j \in Nat /\ Far(at) = i + j
  BY DEF Cells, Far
<1>. HIDE DEF i, j
<1>2. /\ i > 0 => w[<<i - 1, j>>] = v[<<i - 1, j>>]
      /\ j > 0 => w[<<i, j - 1>>] = v[<<i, j - 1>>]
      /\ i > 0 /\ j > 0 => w[<<i - 1, j - 1>>] = v[<<i - 1, j - 1>>]
  <2>1. ASSUME NEW x \in 0 .. n, NEW y \in 0 .. m, x + y < i + j PROVE w[<<x, y>>] = v[<<x, y>>]
    <3>1. <<x, y>> \in C /\ Far(<<x, y>>) = x + y
      BY DEF Cells, Far
    <3>. QED  BY <1>1, <2>1, <3>1
  <2>2. /\ i > 0 => i - 1 \in 0 .. n /\ (i - 1) + j < i + j
        /\ j > 0 => j - 1 \in 0 .. m /\ i + (j - 1) < i + j
        /\ i > 0 /\ j > 0 => (i - 1) + (j - 1) < i + j
    BY ONLY <1>1, n \in Nat, m \in Nat
  <2>. QED  BY <1>1, <2>1, <2>2
<1>3. StepsBack(T, reference, hypothesis, i, j)
  BY <1>1, WalkStepsBack
<1>4. WalkStep(T, reference, hypothesis, w, <<i, j>>) = WalkStep(T, reference, hypothesis, v, <<i, j>>)
  BY <1>2, <1>3 DEF StepsBack
<1>. QED  BY <1>1, <1>4

\* There is a walk, from whichever cell.
LEMMA WalkGoesOn ==
  ASSUME NEW reference, NEW hypothesis, NEW n \in Nat, NEW m \in Nat,
         Len(reference) = n, Len(hypothesis) = m, DOMAIN reference = 1 .. n,
         NEW T, T = Table(reference, hypothesis)
  PROVE  \E w : Walks(T, reference, hypothesis, w)
<1>. DEFINE C == Cells(reference, hypothesis)
            Can(k) == \E w : WalksWithin(T, reference, hypothesis, k, w)
            Bad == {k \in Nat : ~Can(k)}
<1>0. \A at \in C : at = <<at[1], at[2]>> /\ Far(at) \in Nat /\ Far(at) < n + m + 1
  <2>. SUFFICES ASSUME NEW at \in C
                PROVE  at = <<at[1], at[2]>> /\ Far(at) \in Nat /\ Far(at) < n + m + 1
    OBVIOUS
  <2>1. at = <<at[1], at[2]>> /\ at[1] \in 0 .. n /\ at[2] \in 0 .. m
    BY DEF Cells
  <2>. QED  BY <2>1 DEF Far
<1>1. Bad = {}
  <2>. SUFFICES ASSUME Bad # {} PROVE FALSE
    OBVIOUS
  <2>1. PICK k \in Bad : \A l \in Bad : k <= l
    <3>1. Bad \subseteq Nat
      OBVIOUS
    <3>. HIDE DEF Bad
    <3>. QED  BY <3>1, LeastNat
  <2>2. k \in Nat /\ ~Can(k)
    <3>. HIDE DEF Can
    <3>. QED  OBVIOUS
  <2>3. CASE k = 0
    <3>1. \A at \in C : ~ (Far(at) < 0)
      BY <1>0
    <3>2. WalksWithin(T, reference, hypothesis, 0, <<>>)
      BY <3>1 DEF WalksWithin
    <3>. QED  BY <2>2, <2>3, <3>2
  <2>4. CASE k # 0
    <3>. DEFINE l == k - 1
    <3>1. l \in Nat /\ k = l + 1 /\ ~ (k <= l)
      BY <2>2, <2>4
    <3>. HIDE DEF l
    <3>2. Can(l)
      <4>. HIDE DEF Can
      <4>. QED  BY <2>1, <3>1
    <3>3. PICK w : WalksWithin(T, reference, hypothesis, l, w)
      BY <3>2
    <3>. DEFINE v == [at \in C |-> WalkStep(T, reference, hypothesis, w, at)]
    <3>4. \A at \in C : v[at] = WalkStep(T, reference, hypothesis, w, at)
      OBVIOUS
    <3>. HIDE DEF v
    <3>5. \A at \in C : Far(at) < l => v[at] = w[at]
      BY <3>3, <3>4 DEF WalksWithin
    <3>6. ASSUME NEW at \in C, Far(at) < k
          PROVE  v[at] = WalkStep(T, reference, hypothesis, v, at)
      <4>1. \A p \in C : Far(p) < Far(at) => w[p] = v[p]
        <5>1. \A p \in C : Far(p) < Far(at) => Far(p) < l
          BY <1>0, <3>1, <3>6
        <5>. QED  BY <3>5, <5>1
      <4>2. WalkStep(T, reference, hypothesis, w, at) = WalkStep(T, reference, hypothesis, v, at)
        BY <4>1, WalkReadsBack
      <4>. QED  BY <3>4, <4>2
    <3>7. WalksWithin(T, reference, hypothesis, k, v)
      BY <3>6 DEF WalksWithin
    <3>. QED  BY <2>2, <3>7
  <2>. QED  BY <2>3, <2>4
<1>2. Can(n + m + 1)
  <2>1. n + m + 1 \in Nat
    OBVIOUS
  <2>. HIDE DEF Can
  <2>. QED  BY <1>1, <2>1
<1>3. PICK w : WalksWithin(T, reference, hypothesis, n + m + 1, w)
  BY <1>2
<1>. DEFINE v == [at \in C |-> w[at]]
<1>4. \A at \in C : v[at] = w[at]
  OBVIOUS
<1>5. v = [at \in C |-> v[at]]
  OBVIOUS
<1>. HIDE DEF v
<1>6. ASSUME NEW at \in C PROVE v[at] = WalkStep(T, reference, hypothesis, v, at)
  <2>1. w[at] = WalkStep(T, reference, hypothesis, w, at)
    BY <1>0, <1>3 DEF WalksWithin
  <2>2. WalkStep(T, reference, hypothesis, w, at) = WalkStep(T, reference, hypothesis, v, at)
    BY <1>4, WalkReadsBack
  <2>. QED  BY <1>4, <2>1, <2>2
<1>7. v = [at \in C |-> WalkStep(T, reference, hypothesis, v, at)]
  BY <1>5, <1>6
<1>8. Walks(T, reference, hypothesis, v)
  BY <1>7 DEF Walks, Cells
<1>. QED  BY <1>8

\* The edits the walk counts are as many as the distance of the cell.
LEMMA AlignCounts ==
  ASSUME NEW reference, NEW hypothesis, Len(reference) \in Nat, Len(hypothesis) \in Nat,
         DOMAIN reference = 1 .. Len(reference), NEW a, a = Align(reference, hypothesis)
  PROVE  /\ a \in [hits : Nat, subs : Nat, dels : Nat, ins : Nat]
         /\ Edits(a) = LeastEdits(reference, hypothesis)
<1>. DEFINE n == Len(reference)
            m == Len(hypothesis)
            T == Table(reference, hypothesis)
            D == TableCells(reference, hypothesis)
            C == Cells(reference, hypothesis)
            R == [hits : Nat, subs : Nat, dels : Nat, ins : Nat]
            w == CHOOSE u : Walks(T, reference, hypothesis, u)
            Good(x) == w[x] \in R /\ Edits(w[x]) = D[x[1]][x[2]]
            Bad == {k \in Nat : \E x \in C : Far(x) = k /\ ~Good(x)}
<1>1. a = w[<<Len(reference), Len(hypothesis)>>]
  BY AlignIs
<1>2. n \in Nat /\ m \in Nat /\ Len(reference) = n /\ Len(hypothesis) = m /\ DOMAIN reference = 1 .. n
  OBVIOUS
<1>3. IsTable(D, reference, hypothesis)
  BY TableIsTable
<1>4. \A x \in 0 .. n, y \in 0 .. m : D[x][y] = T[x + 1][y + 1]
  BY DEF TableCells
<1>5. Walks(T, reference, hypothesis, w)
  <2>. HIDE DEF n, m, T
  <2>1. \E u : Walks(T, reference, hypothesis, u)
    BY <1>2, WalkGoesOn DEF T
  <2>. QED  BY <2>1
<1>6. T = Table(reference, hypothesis)
  OBVIOUS
<1>. HIDE DEF n, m, T, D, w
<1>7. \A x \in C : w[x] = WalkStep(T, reference, hypothesis, w, x)
  BY <1>5 DEF Walks, Cells
<1>8. Bad = {}
  <2>. SUFFICES ASSUME Bad # {} PROVE FALSE
    OBVIOUS
  <2>1. PICK k \in Bad : \A l \in Bad : k <= l
    <3>1. Bad \subseteq Nat
      OBVIOUS
    <3>. HIDE DEF Bad
    <3>. QED  BY <3>1, LeastNat
  <2>2. PICK x \in C : Far(x) = k /\ ~Good(x)
    <3>. HIDE DEF Good, C
    <3>. QED  OBVIOUS
  <2>. DEFINE i == x[1]
              j == x[2]
  <2>3. x = <<i, j>> /\ i \in 0 .. n /\ j \in 0 .. m /\ i \in Nat /\ j \in Nat /\ k = i + j
    BY <1>2, <2>2 DEF Cells, Far
  <2>4. ASSUME NEW p \in 0 .. n, NEW q \in 0 .. m, p + q < i + j
        PROVE  w[<<p, q>>] \in R /\ Edits(w[<<p, q>>]) = D[p][q]
    <3>. DEFINE y == <<p, q>>
    <3>1. y \in C /\ Far(y) = p + q /\ p + q \in Nat /\ ~ (k <= p + q) /\ y[1] = p /\ y[2] = q
      <4>1. y[1] = p /\ y[2] = q
        OBVIOUS
      <4>2. y \in C
        BY <1>2 DEF Cells
      <4>. HIDE DEF y, C
      <4>3. p \in Nat /\ q \in Nat
        BY <1>2
      <4>4. k = i + j /\ i \in Nat /\ j \in Nat /\ p + q < i + j
        BY <2>3, <2>4
      <4>. HIDE DEF i, j
      <4>5. p + q \in Nat /\ ~ (k <= p + q)
        BY ONLY <4>3, <4>4
      <4>. QED  BY <4>1, <4>2, <4>5 DEF Far
    <3>. HIDE DEF y, i, j
    <3>2. Good(y)
      <4>. SUFFICES ASSUME ~Good(y) PROVE FALSE
        OBVIOUS
      <4>. HIDE DEF Good, C
      <4>1. p + q \in Bad
        BY <3>1
      <4>. HIDE DEF Bad
      <4>. QED  BY <2>1, <3>1, <4>1
    <3>. QED  BY <3>1, <3>2 DEF y
  <2>. HIDE DEF Bad
  <2>5. StepsBack(T, reference, hypothesis, i, j)
    BY <1>2, <1>6, <2>3, WalkStepsBack
  <2>6. w[x] = WalkStep(T, reference, hypothesis, w, <<i, j>>)
    BY <1>7, <2>3
  <2>7. ~ (w[x] \in R /\ Edits(w[x]) = D[i][j])
    BY <2>2
  <2>. HIDE DEF i, j, Good
  <2>8. /\ i > 0 => i - 1 \in 0 .. n /\ (i - 1) + j < i + j
        /\ j > 0 => j - 1 \in 0 .. m /\ i + (j - 1) < i + j
        /\ i > 0 /\ j > 0 => (i - 1) + (j - 1) < i + j
    BY ONLY <1>2, <2>3
  <2>9. \A p \in 0 .. n, q \in 0 .. m : D[p][q] \in Nat
    BY <1>2, <1>3 DEF IsTable
  <2>10. \A e \in R : /\ OneHit(e) \in R /\ Edits(OneHit(e)) = Edits(e)
                      /\ OneSubstituted(e) \in R /\ Edits(OneSubstituted(e)) = Edits(e) + 1
                      /\ OneDeleted(e) \in R /\ Edits(OneDeleted(e)) = Edits(e) + 1
                      /\ OneInserted(e) \in R /\ Edits(OneInserted(e)) = Edits(e) + 1
    BY OneMoreEdit DEF EditCounts
  <2>11. CASE i = 0 /\ j = 0 /\ w[x] = NoEdits
    <3>1. D[i][j] = 0
      BY <1>2, <1>3, <2>3, <2>11 DEF IsTable
    <3>. QED  BY <2>7, <2>11, <3>1 DEF NoEdits, Edits
  <2>12. CASE /\ i > 0 /\ j > 0 /\ D[i][j] = D[i - 1][j - 1]
              /\ w[x] = OneHit(w[<<i - 1, j - 1>>])
    <3>. DEFINE e == w[<<i - 1, j - 1>>]
    <3>1. e \in R /\ Edits(e) = D[i - 1][j - 1]
      BY <2>3, <2>4, <2>8, <2>12
    <3>2. w[x] = OneHit(e) /\ D[i][j] = D[i - 1][j - 1]
      BY <2>12
    <3>. HIDE DEF e, R
    <3>. QED  BY <2>7, <2>10, <3>1, <3>2
  <2>13. CASE /\ i > 0 /\ j > 0 /\ D[i][j] = D[i - 1][j - 1] + 1
              /\ w[x] = OneSubstituted(w[<<i - 1, j - 1>>])
    <3>. DEFINE e == w[<<i - 1, j - 1>>]
    <3>1. e \in R /\ Edits(e) = D[i - 1][j - 1]
      BY <2>3, <2>4, <2>8, <2>13
    <3>2. w[x] = OneSubstituted(e) /\ D[i][j] = D[i - 1][j - 1] + 1
      BY <2>13
    <3>. HIDE DEF e, R
    <3>. QED  BY <2>7, <2>10, <3>1, <3>2
  <2>14. CASE i > 0 /\ D[i][j] = D[i - 1][j] + 1 /\ w[x] = OneDeleted(w[<<i - 1, j>>])
    <3>. DEFINE e == w[<<i - 1, j>>]
    <3>1. e \in R /\ Edits(e) = D[i - 1][j]
      BY <2>3, <2>4, <2>8, <2>14
    <3>2. w[x] = OneDeleted(e) /\ D[i][j] = D[i - 1][j] + 1
      BY <2>14
    <3>. HIDE DEF e, R
    <3>. QED  BY <2>7, <2>10, <3>1, <3>2
  <2>15. CASE j > 0 /\ D[i][j] = D[i][j - 1] + 1 /\ w[x] = OneInserted(w[<<i, j - 1>>])
    <3>. DEFINE e == w[<<i, j - 1>>]
    <3>1. e \in R /\ Edits(e) = D[i][j - 1]
      BY <2>3, <2>4, <2>8, <2>15
    <3>2. w[x] = OneInserted(e) /\ D[i][j] = D[i][j - 1] + 1
      BY <2>15
    <3>. HIDE DEF e, R
    <3>. QED  BY <2>7, <2>10, <3>1, <3>2
  <2>16. /\ D[i][j] = T[i + 1][j + 1]
         /\ i > 0 => D[i - 1][j] = T[(i - 1) + 1][j + 1]
         /\ j > 0 => D[i][j - 1] = T[i + 1][(j - 1) + 1]
         /\ i > 0 /\ j > 0 => D[i - 1][j - 1] = T[(i - 1) + 1][(j - 1) + 1]
    BY <1>4, <2>3, <2>8
  <2>. QED  BY <2>5, <2>6, <2>11, <2>12, <2>13, <2>14, <2>15, <2>16 DEF StepsBack
<1>9. <<n, m>> \in C /\ Far(<<n, m>>) \in Nat
  BY <1>2 DEF Cells, Far
<1>10. Good(<<n, m>>)
  <2>. HIDE DEF Good, C
  <2>. QED  BY <1>8, <1>9
<1>11. a \in R /\ Edits(a) = D[n][m]
  BY <1>1, <1>10 DEF n, m
<1>12. D[n][m] = LeastEdits(reference, hypothesis)
  BY <1>3, LastCellIsLeast DEF n, m
<1>. QED  BY <1>11, <1>12

\* Whatever the texts, the edit distance computed row by row and the edits of the
\* full alignment are both the least number of edits of any alignment of the two
\* texts (the two implementations of evaluation/metrics/text.py agree).
THEOREM DistancesAreLeast ==
  ASSUME NEW S, NEW reference \in Seq(S), NEW hypothesis \in Seq(S)
  PROVE  /\ EditDistance(reference, hypothesis) = LeastEdits(reference, hypothesis)
         /\ Edits(Align(reference, hypothesis)) = LeastEdits(reference, hypothesis)
<1>1. Len(reference) \in Nat /\ Len(hypothesis) \in Nat /\ DOMAIN reference = 1 .. Len(reference)
  OBVIOUS
<1>2. EditDistance(reference, hypothesis) = LeastEdits(reference, hypothesis)
  BY <1>1, DistanceIsLeast
<1>3. Edits(Align(reference, hypothesis)) = LeastEdits(reference, hypothesis)
  BY <1>1, AlignCounts
<1>. QED  BY <1>2, <1>3

-----------------------------------------------------------------------------
(* The evaluation of a view.                                               *)

\* The score of an output against a ground truth, when there are both.
ScoreOf(reference, hypothesis) ==
  IF reference = NoText \/ hypothesis = NoText THEN NotApplicable ELSE Score(reference, hypothesis)
\* A text, or none; the scores there may be.
MaybeTexts == Texts \cup {NoText}
Scores == {ScoreOf(t[1], t[2]) : t \in MaybeTexts \X MaybeTexts}

\* The documents of a pipeline that are scored so far.
ScoredSoFar(p) == 1 .. Len(series[p])

\* What an output lacks of a word of its ground truth.
LackOf(reference, hypothesis, w) ==
  IF reference = NoText \/ hypothesis = NoText THEN 0 ELSE Count(w, reference) - Kept(w, reference, hypothesis)
\* What the outputs of a pipeline lack of a word, by document.
LacksOf(p, w) == [d \in ScoredSoFar(p) |-> LackOf(truth[d], outputs[<<p, d>>], w)]

\* The documents scored so far have their texts.
TextsKept ==
  /\ \A d \in DOMAIN truth : truth[d] \in MaybeTexts
  /\ \A x \in DOMAIN outputs : outputs[x] \in MaybeTexts
  /\ \A p \in Engines : \A d \in ScoredSoFar(p) : d \in DOMAIN truth /\ <<p, d>> \in DOMAIN outputs

\* The scores are those of the texts, in the order of the documents.
ScoresKept ==
  /\ DOMAIN series = Engines
  /\ \A p \in Engines :
       /\ series[p] \in Seq(Scores) /\ Len(series[p]) <= 2
       /\ \A d \in ScoredSoFar(p) : series[p][d] = ScoreOf(truth[d], outputs[<<p, d>>])

\* What a pipeline is told to miss of a word is at least what its outputs lack of it.
MissesKept ==
  /\ DOMAIN misses = Engines
  /\ \A p \in Engines : DOMAIN misses[p] = Words
  /\ \A p \in Engines, w \in Words :
       /\ misses[p][w] \in Nat
       /\ misses[p][w] >= SumFunctionOnSet(LacksOf(p, w), ScoredSoFar(p))

\* The report the texts, the scores and the misses make.
Closing ==
  [aggregates |-> [p \in Engines |-> Aggregate(p)],
   engines |-> IF Cardinality(Observers) < 2 \/ Covered = {} THEN {} ELSE {Complementarity},
   words |-> IF Cardinality(Observers) < 2 THEN <<>> ELSE WordMap]

\* A report is made when every document is scored, and stays the one they make.
ReportKept == viewReport # <<>> => Unscored = {} /\ viewReport = Closing

\* The inductive invariant of the evaluation of a view.
EvalInv == TextsKept /\ ScoresKept /\ MissesKept /\ ReportKept

\* A pairing in which every pair is of equal words.
LEMMA MatchesPairEquals ==
  ASSUME NEW reference, NEW hypothesis, Len(reference) \in Nat, Len(hypothesis) \in Nat,
         NEW m \in Matches(reference, hypothesis)
  PROVE  /\ IsAlignment(m, reference, hypothesis)
         /\ \A k \in 1 .. Len(m) : reference[m[k][1]] = hypothesis[m[k][2]]
<1>1. m \in Alignments(reference, hypothesis) /\ Mismatches(m, reference, hypothesis) = 0
  BY DEF Matches, CommonSubsequences
<1>2. IsAlignment(m, reference, hypothesis)
  BY <1>1, AlignmentsAreSo
<1>. DEFINE B == {k \in Indices(m) : reference[m[k][1]] # hypothesis[m[k][2]]}
<1>3. B \in SUBSET (1 .. Len(m)) /\ Len(m) \in Nat
  BY <1>2 DEF Indices, IsAlignment
<1>4. IsFiniteSet(B)
  BY <1>3, CountFromOne, FS_Subset
<1>5. Cardinality(B) = 0
  BY <1>1 DEF Mismatches
<1>6. B = {}
  BY <1>4, <1>5, FS_EmptySet
<1>. QED  BY <1>2, <1>6 DEF Indices

\* What is kept of the words of a ground truth is at least what any matching pairs.
LEMMA MissedAtLeast ==
  ASSUME NEW reference, NEW hypothesis, Len(reference) \in Nat, Len(hypothesis) \in Nat,
         NEW m \in Matches(reference, hypothesis), NEW w \in Words
  PROVE  /\ MissedIn(reference, m)[w] \in Nat
         /\ MissedIn(reference, m)[w] >= Count(w, reference) - Kept(w, reference, hypothesis)
<1>. DEFINE P == {i \in Indices(reference) : reference[i] = w}
            Q == {i \in P : \E k \in Indices(m) : m[k][1] = i}
            H == {j \in Indices(hypothesis) : hypothesis[j] = w}
            at(i) == CHOOSE k \in Indices(m) : m[k][1] = i
            f == [i \in Q |-> m[at(i)][2]]
<1>1. /\ IsAlignment(m, reference, hypothesis)
      /\ \A k \in Indices(m) : reference[m[k][1]] = hypothesis[m[k][2]]
  BY MatchesPairEquals DEF Indices
<1>2. \A i \in Q : at(i) \in Indices(m) /\ m[at(i)][1] = i
  OBVIOUS
<1>3. \A i \in Q : m[at(i)][2] \in H
  <2>1. \A k \in Indices(m) : m[k][2] \in Indices(hypothesis)
    BY <1>1 DEF IsAlignment, Indices
  <2>. QED  BY <1>1, <1>2, <2>1
<1>4. ASSUME NEW i \in Q, NEW j \in Q, m[at(i)][2] = m[at(j)][2] PROVE i = j
  <2>. DEFINE k == at(i)
              l == at(j)
  <2>1. k \in 1 .. Len(m) /\ l \in 1 .. Len(m) /\ m[k][1] = i /\ m[l][1] = j /\ m[k][2] = m[l][2]
    BY <1>2, <1>4 DEF Indices
  <2>. HIDE DEF k, l
  <2>2. k = l
    BY <1>1, <2>1, AlignmentsPairOnce
  <2>. QED  BY <2>1, <2>2
<1>5. f \in Injection(Q, H)
  <2>1. f \in [Q -> H]
    BY <1>3
  <2>2. \A i, j \in Q : f[i] = f[j] => i = j
    BY <1>4
  <2>. HIDE DEF f, Q, H
  <2>. QED  BY <2>1, <2>2 DEF Injection, IsInjective
<1>6. P \in SUBSET Indices(reference) /\ H \in SUBSET Indices(hypothesis) /\ Q \in SUBSET P
  OBVIOUS
<1>7. MissedIn(reference, m)[w] = Cardinality(P \ Q)
  <2>1. MissedIn(reference, m)[w]
          = Cardinality({i \in Indices(reference) : reference[i] = w /\ \A k \in Indices(m) : m[k][1] # i})
    BY DEF MissedIn
  <2>2. {i \in Indices(reference) : reference[i] = w /\ \A k \in Indices(m) : m[k][1] # i} = P \ Q
    OBVIOUS
  <2>. QED  BY <2>1, <2>2
<1>8. Count(w, reference) = Cardinality(P) /\ Count(w, hypothesis) = Cardinality(H)
  BY DEF Count
<1>. HIDE DEF P, Q, H, f
<1>9. IsFiniteSet(P) /\ IsFiniteSet(H) /\ Cardinality(P) \in Nat /\ Cardinality(H) \in Nat
  BY <1>6, PlacesOfText
<1>10. IsFiniteSet(Q) /\ Cardinality(Q) \in Nat /\ Cardinality(Q) <= Cardinality(P)
  BY <1>6, <1>9, FS_Subset, FS_CardinalityType
<1>11. Cardinality(Q) <= Cardinality(H)
  BY <1>5, <1>9, FS_Injection DEF ExistsInjection
<1>12. /\ IsFiniteSet(P \ Q)
       /\ Cardinality(P \ Q) = Cardinality(P) - Cardinality(Q)
  <2>1. P \cap Q = Q
    BY <1>6
  <2>. QED  BY <1>9, <2>1, FS_Difference
<1>13. Cardinality(P \ Q) \in Nat
  BY <1>12, FS_CardinalityType
<1>14. /\ Kept(w, reference, hypothesis) \in Nat
       /\ Cardinality(Q) <= Kept(w, reference, hypothesis)
  BY <1>8, <1>10, <1>11, KeptIsLess
<1>. DEFINE c == Cardinality(Q)
            u == Cardinality(P \ Q)
            n == Cardinality(P)
            y == Kept(w, reference, hypothesis)
<1>15. c \in Nat /\ u \in Nat /\ n \in Nat /\ y \in Nat /\ u = n - c /\ c <= y
  BY <1>9, <1>10, <1>12, <1>13, <1>14
<1>. HIDE DEF c, u, n, y
<1>16. u >= n - y
  BY <1>15
<1>. QED  BY <1>7, <1>8, <1>15, <1>16 DEF u, n, y

\* Every pipeline has its turn.
LEMMA OrderOfPipelines ==
  /\ Len(PipelineOrder) \in Nat
  /\ \A k \in Indices(PipelineOrder) : PipelineOrder[k] \in Engines
  /\ \A p \in Engines : \E k \in Indices(PipelineOrder) : PipelineOrder[k] = p
<1>. DEFINE n == Cardinality(Engines)
            D == 1 .. n
<1>1. IsFiniteSet(Engines)
  BY EvaluateAssumption
<1>2. n \in Nat /\ ExistsBijection(D, Engines)
  BY <1>1, FS_CardinalityType
<1>3. PICK f : f \in Bijection(D, Engines)
  BY <1>2 DEF ExistsBijection
<1>4. f \in [D -> Engines] /\ \A i, j \in D : i # j => f[i] # f[j]
  BY <1>3 DEF Bijection, Injection, IsInjective
<1>5. f \in SetToSeqs(Engines)
  BY <1>4 DEF SetToSeqs
<1>. DEFINE o == PipelineOrder
<1>6. o \in SetToSeqs(Engines)
  BY <1>5 DEF PipelineOrder
<1>7. o \in [D -> Engines] /\ \A i, j \in D : i # j => o[i] # o[j]
  BY <1>6 DEF SetToSeqs
<1>. HIDE DEF o
<1>8. o \in Injection(D, Engines)
  BY <1>7 DEF Injection, IsInjective
<1>9. IsFiniteSet(D) /\ Cardinality(D) = n
  BY <1>2, CountFromOne
<1>10. o \in Surjection(D, Engines)
  <2>. HIDE DEF D
  <2>. QED  BY <1>1, <1>8, <1>9, FS_Injection
<1>11. \A p \in Engines : \E k \in D : o[k] = p
  BY <1>10 DEF Surjection
<1>12. Len(o) = n /\ Indices(o) = D
  <2>1. Len(o) = n
    BY <1>2, <1>7
  <2>. QED  BY <2>1 DEF Indices
<1>. QED  BY <1>2, <1>7, <1>11, <1>12 DEF o

\* While a series is not full, the pipeline scored is one whose series is not full.
LEMMA NextPipeline ==
  ASSUME Unscored # {}
  PROVE  /\ PipelineOrder[Min(Unscored)] \in Engines
         /\ Len(series[PipelineOrder[Min(Unscored)]]) < Cardinality(Corpus)
<1>1. Unscored \subseteq Nat
  BY OrderOfPipelines DEF Unscored, Indices
<1>2. \E x \in Unscored : \A y \in Unscored : x <= y
  BY <1>1, LeastNat
<1>3. Min(Unscored) \in Unscored
  BY <1>2 DEF Min
<1>. QED  BY <1>3, OrderOfPipelines DEF Unscored

\* There are two documents.
LEMMA TwoDocuments == IsFiniteSet(Corpus) /\ Cardinality(Corpus) = 2 /\ Corpus = 1 .. 2
<1>1. Corpus = 1 .. 2
  BY DEF Corpus
<1>. QED  BY <1>1, CountFromOne

\* When no series is left to fill, each has both documents.
LEMMA AllScored ==
  ASSUME ScoresKept, Unscored = {}, NEW p \in Engines
  PROVE  ScoredSoFar(p) = Corpus
<1>. DEFINE n == Len(series[p])
<1>1. PICK k \in Indices(PipelineOrder) : PipelineOrder[k] = p
  BY OrderOfPipelines
<1>2. ~ (n < 2)
  BY <1>1, TwoDocuments DEF Unscored
<1>3. n \in Nat /\ n <= 2
  BY DEF ScoresKept
<1>. HIDE DEF n
<1>4. n = 2
  BY <1>2, <1>3
<1>. QED  BY <1>4, TwoDocuments DEF ScoredSoFar, n

\* A text that is told is one of the words.
LEMMA ToldTexts ==
  ASSUME NEW t \in MaybeTexts, t # NoText
  PROVE  Len(t) \in Nat /\ DOMAIN t = 1 .. Len(t) /\ t \in Seq(Words)
<1>1. t \in BoundedSeq(Words, MaxWords)
  BY DEF MaybeTexts, Texts
<1>. QED  BY <1>1, BoundedLength, EvaluateAssumption

\* What lacks of a word is a number.
LEMMA LackIsNat ==
  ASSUME NEW r \in MaybeTexts, NEW h \in MaybeTexts, NEW w
  PROVE  LackOf(r, h, w) \in Nat
<1>1. CASE r = NoText \/ h = NoText  BY <1>1 DEF LackOf
<1>2. CASE r # NoText /\ h # NoText
  <2>1. Len(r) \in Nat /\ Len(h) \in Nat
    BY <1>2, ToldTexts
  <2>. DEFINE c == Count(w, r)
              k == Kept(w, r, h)
  <2>2. c \in Nat /\ k \in Nat /\ k <= c
    BY <2>1, KeptIsLess, CountIsNat
  <2>. HIDE DEF c, k
  <2>3. c - k \in Nat
    BY <2>2
  <2>. QED  BY <1>2, <2>3 DEF LackOf, c, k
<1>. QED  BY <1>1, <1>2

\* The metrics of a document: its errors are as few as any alignment allows,
\* the deletions and insertions are among them, and the accuracy completes them
\* but for its floor.
ScoreHolds(s, reference, hypothesis) ==
  /\ s.applies /\ s.words = Len(reference)
  /\ s.wer = LeastEdits(reference, hypothesis) /\ s.mer = LeastEdits(reference, hypothesis)
  /\ s.wer \in Nat /\ s.dels \in Nat /\ s.ins \in Nat /\ s.accuracy \in Nat
  /\ s.dels + s.ins <= s.wer
  /\ s.accuracy <= s.words /\ s.words <= s.accuracy + s.wer

\* The metrics of a document are what its two texts make them.
LEMMA ScoreIs ==
  ASSUME NEW reference, NEW hypothesis, Len(reference) \in Nat, Len(hypothesis) \in Nat,
         DOMAIN reference = 1 .. Len(reference)
  PROVE  ScoreHolds(Score(reference, hypothesis), reference, hypothesis)
<1>. DEFINE a == Align(reference, hypothesis)
            e == EditDistance(reference, hypothesis)
            l == LeastEdits(reference, hypothesis)
            n == Len(reference)
            s == Score(reference, hypothesis)
            x == Max({0, n - e})
<1>1. s = [applies |-> TRUE, words |-> n, wer |-> e, dels |-> a.dels, ins |-> a.ins,
           mer |-> Edits(a), merWords |-> a.hits + Edits(a), accuracy |-> x]
  BY DEF Score
<1>2. e = l /\ e \in Nat
  BY DistanceIsLeast
<1>3. a \in [hits : Nat, subs : Nat, dels : Nat, ins : Nat] /\ Edits(a) = l
  BY AlignCounts
<1>4. n \in Nat
  OBVIOUS
<1>. HIDE DEF a, e, l, n, s
<1>5. a.dels + a.ins <= l /\ a.dels \in Nat /\ a.ins \in Nat
  <2>1. a.subs \in Nat /\ a.dels \in Nat /\ a.ins \in Nat
    BY <1>3
  <2>2. l = a.subs + a.dels + a.ins
    BY <1>3 DEF Edits
  <2>. QED  BY <2>1, <2>2
<1>6. x \in Nat /\ x <= n /\ n <= x + e
  <2>. DEFINE d == n - e
  <2>1. d \in Int
    BY <1>2, <1>4
  <2>. HIDE DEF d
  <2>2. Max({0, d}) = IF d > 0 THEN d ELSE 0
    BY <2>1, GreaterOf
  <2>3. x = IF d > 0 THEN d ELSE 0
    BY <2>2 DEF x, d
  <2>. HIDE DEF x
  <2>. QED  BY <1>2, <1>4, <2>3 DEF d
<1>. HIDE DEF x
<1>7. /\ s.applies = TRUE /\ s.words = n /\ s.wer = e /\ s.dels = a.dels /\ s.ins = a.ins
      /\ s.mer = Edits(a) /\ s.accuracy = x
  BY <1>1
<1>8. ScoreHolds(s, reference, hypothesis)
  BY <1>2, <1>3, <1>5, <1>6, <1>7 DEF ScoreHolds, l, n
<1>. QED  BY <1>8 DEF s

\* The next document of a pipeline is scored.
OneScored(p, d, r, h) ==
  /\ p \in Engines /\ d = Len(series[p]) + 1 /\ Len(series[p]) < 2
  /\ r \in MaybeTexts /\ h \in MaybeTexts /\ (d \in DOMAIN truth => r = truth[d])
  /\ truth' = [c \in DOMAIN truth \cup {d} |-> IF c = d THEN r ELSE truth[c]]
  /\ outputs' = [x \in DOMAIN outputs \cup {<<p, d>>} |-> IF x = <<p, d>> THEN h ELSE outputs[x]]
  /\ series' = [series EXCEPT ![p] = Append(@, ScoreOf(r, h))]
  /\ IF r = NoText \/ h = NoText
     THEN misses' = misses
     ELSE \E m \in Matches(r, h) :
            misses' = [misses EXCEPT ![p] = [w \in Words |-> @[w] + MissedIn(r, m)[w]]]

\* A step that scores a document scores the next one of a pipeline.
LEMMA DocumentIs ==
  ASSUME EvalInv, ScoreDocument
  PROVE  /\ \E p, d, r, h : OneScored(p, d, r, h)
         /\ viewReport = <<>> /\ viewReport' = viewReport
<1>1. Unscored # {} /\ viewReport' = viewReport
  BY DEF ScoreDocument
<1>2. viewReport = <<>>
  BY <1>1 DEF EvalInv, ReportKept
<1>. DEFINE p == PipelineOrder[Min(Unscored)]
            d == Len(series[p]) + 1
<1>3. p \in Engines /\ Len(series[p]) < 2
  BY <1>1, NextPipeline, TwoDocuments
<1>4. PICK r \in References(d), h \in Texts \cup {NoText} :
        /\ truth' = [c \in DOMAIN truth \cup {d} |-> IF c = d THEN r ELSE truth[c]]
        /\ outputs' = [x \in DOMAIN outputs \cup {<<p, d>>} |-> IF x = <<p, d>> THEN h ELSE outputs[x]]
        /\ \/ /\ r = NoText \/ h = NoText
              /\ series' = [series EXCEPT ![p] = Append(@, NotApplicable)]
              /\ UNCHANGED misses
           \/ /\ r # NoText /\ h # NoText
              /\ series' = [series EXCEPT ![p] = Append(@, Score(r, h))]
              /\ \E m \in Matches(r, h) :
                   misses' = [misses EXCEPT ![p] = [w \in Words |-> @[w] + MissedIn(r, m)[w]]]
  BY DEF ScoreDocument
<1>5. r \in MaybeTexts /\ h \in MaybeTexts /\ (d \in DOMAIN truth => r = truth[d])
  BY <1>4 DEF References, MaybeTexts, EvalInv, TextsKept
<1>. HIDE DEF p
<1>6. CASE r = NoText \/ h = NoText
  <2>1. ScoreOf(r, h) = NotApplicable
    BY <1>6 DEF ScoreOf
  <2>2. OneScored(p, d, r, h)
    BY <1>3, <1>4, <1>5, <1>6, <2>1 DEF OneScored
  <2>. QED  BY <1>1, <1>2, <2>2
<1>7. CASE r # NoText /\ h # NoText
  <2>1. ScoreOf(r, h) = Score(r, h)
    BY <1>7 DEF ScoreOf
  <2>2. \E m \in Matches(r, h) :
          misses' = [misses EXCEPT ![p] = [w \in Words |-> @[w] + MissedIn(r, m)[w]]]
    BY <1>4, <1>7
  <2>3. OneScored(p, d, r, h)
    BY <1>3, <1>4, <1>5, <1>7, <2>1, <2>2 DEF OneScored
  <2>. QED  BY <1>1, <1>2, <2>3
<1>. QED  BY <1>6, <1>7

\* What was known of the texts stays so.
TextsStay(p, d, r, h) ==
  /\ DOMAIN truth' = DOMAIN truth \cup {d} /\ truth'[d] = r
  /\ \A c \in DOMAIN truth : truth'[c] = truth[c]
  /\ DOMAIN outputs' = DOMAIN outputs \cup {<<p, d>>} /\ outputs'[<<p, d>>] = h
  /\ \A x \in DOMAIN outputs : x # <<p, d>> => outputs'[x] = outputs[x]

\* A document that is scored keeps the texts known before.
LEMMA TextsAreKept ==
  ASSUME EvalInv, NEW p, NEW d, NEW r, NEW h, OneScored(p, d, r, h)
  PROVE  TextsStay(p, d, r, h)
<1>1. truth' = [c \in DOMAIN truth \cup {d} |-> IF c = d THEN r ELSE truth[c]] /\ (d \in DOMAIN truth => r = truth[d])
  BY DEF OneScored
<1>2. outputs' = [x \in DOMAIN outputs \cup {<<p, d>>} |-> IF x = <<p, d>> THEN h ELSE outputs[x]]
  BY DEF OneScored
<1>3. /\ DOMAIN truth' = DOMAIN truth \cup {d} /\ truth'[d] = r
      /\ \A c \in DOMAIN truth : truth'[c] = truth[c]
  BY <1>1
<1>. DEFINE k == <<p, d>>
<1>4. outputs' = [x \in DOMAIN outputs \cup {k} |-> IF x = k THEN h ELSE outputs[x]]
  BY <1>2
<1>. HIDE DEF k
<1>5. /\ DOMAIN outputs' = DOMAIN outputs \cup {k} /\ outputs'[k] = h
      /\ \A x \in DOMAIN outputs : x # k => outputs'[x] = outputs[x]
  BY <1>4
<1>. QED  BY <1>3, <1>5 DEF k, TextsStay

\* The series of the pipeline is one longer, the others are as they were.
LEMMA SeriesGrow ==
  ASSUME EvalInv, NEW p, NEW d, NEW r, NEW h, OneScored(p, d, r, h)
  PROVE  /\ DOMAIN series' = Engines
         /\ \A q \in Engines : q # p => series'[q] = series[q]
         /\ series'[p] \in Seq(Scores) /\ Len(series'[p]) = d /\ d \in Nat /\ d <= 2
         /\ series'[p][d] = ScoreOf(r, h) /\ \A c \in 1 .. d - 1 : series'[p][c] = series[p][c]
         /\ d - 1 = Len(series[p])
<1>. DEFINE s == series[p]
            n == Len(s)
            x == ScoreOf(r, h)
<1>1. s \in Seq(Scores) /\ DOMAIN series = Engines /\ p \in Engines
  BY DEF EvalInv, ScoresKept, OneScored
<1>2. d = n + 1 /\ n < 2 /\ series' = [series EXCEPT ![p] = Append(@, x)]
  BY DEF OneScored
<1>3. x \in Scores
  <2>1. <<r, h>> \in MaybeTexts \X MaybeTexts
    BY DEF OneScored
  <2>. QED  BY <2>1 DEF Scores
<1>. HIDE DEF x
<1>4. DOMAIN series' = Engines /\ \A q \in Engines : q # p => series'[q] = series[q]
  BY <1>1, <1>2
<1>5. series'[p] = Append(s, x)
  BY <1>1, <1>2
<1>. HIDE DEF s
<1>6. n \in Nat
  BY <1>1
<1>7. Append(s, x) \in Seq(Scores) /\ Len(Append(s, x)) = n + 1
  BY <1>1, <1>3
<1>8. Append(s, x)[n + 1] = x /\ \A c \in 1 .. n : Append(s, x)[c] = s[c]
  BY <1>1, <1>3
<1>9. d \in Nat /\ d <= 2 /\ d - 1 = n
  <2>. HIDE DEF n
  <2>. QED  BY <1>2, <1>6
<1>. HIDE DEF n
<1>10. Len(series'[p]) = d /\ series'[p] \in Seq(Scores)
  BY <1>2, <1>5, <1>7
<1>11. series'[p][d] = x /\ \A c \in 1 .. d - 1 : series'[p][c] = s[c]
  BY <1>2, <1>5, <1>8, <1>9
<1>. QED  BY <1>4, <1>9, <1>10, <1>11 DEF n, s, x

\* A document that is scored has its texts.
LEMMA TextsGoOn ==
  ASSUME EvalInv, NEW p, NEW d, NEW r, NEW h, OneScored(p, d, r, h)
  PROVE  TextsKept'
<1>0. TextsStay(p, d, r, h)
  BY TextsAreKept
<1>a. /\ DOMAIN truth' = DOMAIN truth \cup {d} /\ truth'[d] = r
      /\ \A c \in DOMAIN truth : truth'[c] = truth[c]
  BY <1>0 DEF TextsStay
<1>b. /\ DOMAIN outputs' = DOMAIN outputs \cup {<<p, d>>} /\ outputs'[<<p, d>>] = h
      /\ \A x \in DOMAIN outputs : x # <<p, d>> => outputs'[x] = outputs[x]
  BY <1>0 DEF TextsStay
<1>c. /\ \A q \in Engines : q # p => series'[q] = series[q]
      /\ series'[p] \in Seq(Scores) /\ Len(series'[p]) = d /\ d \in Nat /\ d <= 2
      /\ series'[p][d] = ScoreOf(r, h) /\ d - 1 = Len(series[p])
  BY SeriesGrow
<1>1. p \in Engines /\ r \in MaybeTexts /\ h \in MaybeTexts
  BY DEF OneScored
<1>2. \A c \in DOMAIN truth' : truth'[c] \in MaybeTexts
  <2>1. \A c \in DOMAIN truth : truth[c] \in MaybeTexts
    BY DEF EvalInv, TextsKept
  <2>. QED  BY <1>1, <1>a, <2>1
<1>3. \A x \in DOMAIN outputs' : outputs'[x] \in MaybeTexts
  <2>1. \A x \in DOMAIN outputs : outputs[x] \in MaybeTexts
    BY DEF EvalInv, TextsKept
  <2>. QED  BY <1>1, <1>b, <2>1
<1>4. ASSUME NEW q \in Engines, NEW c \in 1 .. Len(series'[q])
      PROVE  c \in DOMAIN truth' /\ <<q, c>> \in DOMAIN outputs'
  <2>1. CASE q = p /\ c = d
    BY <2>1, <1>a, <1>b
  <2>2. CASE ~ (q = p /\ c = d)
    <3>1. c \in 1 .. Len(series[q])
      <4>1. CASE q # p  BY <1>4, <1>c, <4>1
      <4>2. CASE q = p
        <5>1. Len(series'[q]) = d /\ d \in Nat
          BY <1>c, <4>2
        <5>2. c \in 1 .. d /\ c # d
          BY ONLY <1>4, <2>2, <4>2, <5>1
        <5>3. c \in 1 .. d - 1
          BY ONLY <5>1, <5>2
        <5>. QED  BY <5>3, <1>c, <4>2
      <4>. QED  BY <4>1, <4>2
    <3>2. c \in DOMAIN truth /\ <<q, c>> \in DOMAIN outputs
      BY <3>1 DEF EvalInv, TextsKept, ScoredSoFar
    <3>. QED  BY <1>a, <1>b, <3>2
  <2>. QED  BY <2>1, <2>2
<1>. QED  BY <1>2, <1>3, <1>4 DEF TextsKept, ScoredSoFar

\* A document that was scored before is one of the same texts.
LEMMA SameTexts ==
  ASSUME EvalInv, NEW p, NEW d, NEW r, NEW h, OneScored(p, d, r, h),
         NEW q \in Engines, NEW c \in ScoredSoFar(q)
  PROVE  /\ truth'[c] = truth[c] /\ outputs'[<<q, c>>] = outputs[<<q, c>>]
         /\ c \in ScoredSoFar(q)' /\ series'[q][c] = series[q][c]
<1>1. c \in DOMAIN truth /\ <<q, c>> \in DOMAIN outputs
  BY DEF EvalInv, TextsKept
<1>2. Len(series[q]) \in Nat /\ c \in 1 .. Len(series[q])
  BY DEF EvalInv, ScoresKept, ScoredSoFar
<1>3. q = p => c \in 1 .. d - 1
  BY <1>2, SeriesGrow
<1>4. <<q, c>> # <<p, d>>
  <2>1. d \in Nat
    BY SeriesGrow
  <2>2. q = p => c # d
    BY <1>3, <2>1
  <2>. QED  BY <2>2
<1>5. truth'[c] = truth[c] /\ outputs'[<<q, c>>] = outputs[<<q, c>>]
  <2>1. TextsStay(p, d, r, h)
    BY TextsAreKept
  <2>. QED  BY <1>1, <1>4, <2>1 DEF TextsStay
<1>6. series'[q][c] = series[q][c]
  BY <1>3, SeriesGrow
<1>7. c \in 1 .. Len(series'[q])
  BY <1>2, <1>3, SeriesGrow
<1>. QED  BY <1>5, <1>6, <1>7 DEF ScoredSoFar

\* A document that is scored has the score of its texts.
LEMMA ScoresGoOn ==
  ASSUME EvalInv, NEW p, NEW d, NEW r, NEW h, OneScored(p, d, r, h)
  PROVE  ScoresKept'
<1>1. p \in Engines
  BY DEF OneScored
<1>0. TextsStay(p, d, r, h)
  BY TextsAreKept
<1>a. /\ DOMAIN truth' = DOMAIN truth \cup {d} /\ truth'[d] = r
      /\ \A c \in DOMAIN truth : truth'[c] = truth[c]
  BY <1>0 DEF TextsStay
<1>b. /\ DOMAIN outputs' = DOMAIN outputs \cup {<<p, d>>} /\ outputs'[<<p, d>>] = h
      /\ \A x \in DOMAIN outputs : x # <<p, d>> => outputs'[x] = outputs[x]
  BY <1>0 DEF TextsStay
<1>c. /\ \A q \in Engines : q # p => series'[q] = series[q]
      /\ series'[p] \in Seq(Scores) /\ Len(series'[p]) = d /\ d \in Nat /\ d <= 2
      /\ series'[p][d] = ScoreOf(r, h) /\ d - 1 = Len(series[p])
  BY SeriesGrow
<1>2. DOMAIN series' = Engines
  BY SeriesGrow
<1>3. ASSUME NEW q \in Engines
      PROVE  series'[q] \in Seq(Scores) /\ Len(series'[q]) <= 2
  BY SeriesGrow DEF EvalInv, ScoresKept
<1>4. ASSUME NEW q \in Engines, NEW c \in 1 .. Len(series'[q])
      PROVE  series'[q][c] = ScoreOf(truth'[c], outputs'[<<q, c>>])
  <2>1. CASE q = p /\ c = d
    BY <2>1, <1>a, <1>b, <1>c
  <2>2. CASE ~ (q = p /\ c = d)
    <3>1. c \in ScoredSoFar(q)
      <4>1. CASE q # p  BY <1>4, <1>c, <4>1 DEF ScoredSoFar
      <4>2. CASE q = p
        <5>1. Len(series'[q]) = d /\ d \in Nat
          BY <1>c, <4>2
        <5>2. c \in 1 .. d /\ c # d
          BY ONLY <1>4, <2>2, <4>2, <5>1
        <5>3. c \in 1 .. d - 1
          BY ONLY <5>1, <5>2
        <5>. QED  BY <5>3, <1>c, <4>2 DEF ScoredSoFar
      <4>. QED  BY <4>1, <4>2
    <3>2. series[q][c] = ScoreOf(truth[c], outputs[<<q, c>>])
      BY <3>1 DEF EvalInv, ScoresKept
    <3>. QED  BY <3>1, <3>2, SameTexts
  <2>. QED  BY <2>1, <2>2
<1>. QED  BY <1>2, <1>3, <1>4 DEF ScoresKept, ScoredSoFar

\* A pipeline misses at least what its output lacks of one more document.
LEMMA MissesGrow ==
  ASSUME EvalInv, NEW p, NEW d, NEW r, NEW h, OneScored(p, d, r, h)
  PROVE  /\ DOMAIN misses' = Engines
         /\ \A q \in Engines : DOMAIN misses'[q] = Words
         /\ \A q \in Engines : q # p => misses'[q] = misses[q]
         /\ \A w \in Words : /\ misses'[p][w] \in Nat
                             /\ misses'[p][w] >= misses[p][w] + LackOf(r, h, w)
<1>1. DOMAIN misses = Engines /\ p \in Engines /\ r \in MaybeTexts /\ h \in MaybeTexts
  BY DEF OneScored, EvalInv, MissesKept
<1>2. \A q \in Engines : DOMAIN misses[q] = Words
  BY DEF EvalInv, MissesKept
<1>3. \A w \in Words : misses[p][w] \in Nat
  BY <1>1 DEF EvalInv, MissesKept
<1>4. CASE r = NoText \/ h = NoText
  <2>1. misses' = misses
    BY <1>4 DEF OneScored
  <2>2. \A w \in Words : LackOf(r, h, w) = 0
    BY <1>4 DEF LackOf
  <2>. QED  BY <1>1, <1>2, <1>3, <2>1, <2>2
<1>5. CASE r # NoText /\ h # NoText
  <2>1. PICK m \in Matches(r, h) :
          misses' = [misses EXCEPT ![p] = [w \in Words |-> @[w] + MissedIn(r, m)[w]]]
    BY <1>5 DEF OneScored
  <2>2. /\ DOMAIN misses' = Engines
        /\ \A q \in Engines : q # p => misses'[q] = misses[q]
        /\ misses'[p] = [w \in Words |-> misses[p][w] + MissedIn(r, m)[w]]
    BY <1>1, <2>1
  <2>3. DOMAIN misses'[p] = Words /\ \A w \in Words : misses'[p][w] = misses[p][w] + MissedIn(r, m)[w]
    BY <2>2
  <2>4. \A q \in Engines : DOMAIN misses'[q] = Words
    BY <1>2, <2>2, <2>3
  <2>5. ASSUME NEW w \in Words
        PROVE  misses'[p][w] \in Nat /\ misses'[p][w] >= misses[p][w] + LackOf(r, h, w)
    <3>. DEFINE x == misses[p][w]
                y == MissedIn(r, m)[w]
                z == LackOf(r, h, w)
    <3>1. Len(r) \in Nat /\ Len(h) \in Nat
      BY <1>1, <1>5, ToldTexts
    <3>2. y \in Nat /\ y >= Count(w, r) - Kept(w, r, h)
      BY <3>1, MissedAtLeast
    <3>3. z = Count(w, r) - Kept(w, r, h)
      BY <1>5 DEF LackOf
    <3>4. x \in Nat /\ z \in Nat /\ y >= z
      BY <1>1, <1>3, <3>2, <3>3, LackIsNat
    <3>5. misses'[p][w] = x + y
      BY <2>3
    <3>. HIDE DEF x, y, z
    <3>6. x + y \in Nat /\ x + y >= x + z
      BY <3>2, <3>4
    <3>. QED  BY <3>5, <3>6 DEF x, z
  <2>. QED  BY <2>2, <2>4, <2>5
<1>. QED  BY <1>4, <1>5

\* A document that is scored adds at least what its output lacks.
LEMMA MissesGoOn ==
  ASSUME EvalInv, NEW p, NEW d, NEW r, NEW h, OneScored(p, d, r, h)
  PROVE  MissesKept'
<1>1. /\ DOMAIN misses' = Engines
      /\ \A q \in Engines : DOMAIN misses'[q] = Words
      /\ \A q \in Engines : q # p => misses'[q] = misses[q]
      /\ \A w \in Words : /\ misses'[p][w] \in Nat
                          /\ misses'[p][w] >= misses[p][w] + LackOf(r, h, w)
  BY MissesGrow
<1>2. /\ \A q \in Engines : q # p => series'[q] = series[q]
      /\ Len(series'[p]) = d /\ d \in Nat /\ d - 1 = Len(series[p])
  BY SeriesGrow
<1>3. p \in Engines /\ r \in MaybeTexts /\ h \in MaybeTexts
  BY DEF OneScored
<1>4. ASSUME NEW q \in Engines, NEW w \in Words
      PROVE  /\ misses[q][w] \in Nat
             /\ misses[q][w] >= SumFunctionOnSet(LacksOf(q, w), ScoredSoFar(q))
             /\ IsFiniteSet(ScoredSoFar(q))
             /\ \A c \in ScoredSoFar(q) : LacksOf(q, w)[c] \in Nat
  <2>1. misses[q][w] \in Nat /\ misses[q][w] >= SumFunctionOnSet(LacksOf(q, w), ScoredSoFar(q))
    BY DEF EvalInv, MissesKept
  <2>2. Len(series[q]) \in Nat
    BY DEF EvalInv, ScoresKept
  <2>3. IsFiniteSet(ScoredSoFar(q))
    BY <2>2, CountFromOne DEF ScoredSoFar
  <2>4. ASSUME NEW c \in ScoredSoFar(q) PROVE LacksOf(q, w)[c] \in Nat
    <3>1. LacksOf(q, w)[c] = LackOf(truth[c], outputs[<<q, c>>], w)
      BY DEF LacksOf
    <3>2. truth[c] \in MaybeTexts /\ outputs[<<q, c>>] \in MaybeTexts
      BY DEF EvalInv, TextsKept
    <3>. QED  BY <3>1, <3>2, LackIsNat
  <2>. QED  BY <2>1, <2>3, <2>4
<1>5. ASSUME NEW q \in Engines, NEW w \in Words, NEW c \in ScoredSoFar(q)
      PROVE  LacksOf(q, w)'[c] = LacksOf(q, w)[c]
  <2>1. /\ truth'[c] = truth[c] /\ outputs'[<<q, c>>] = outputs[<<q, c>>]
        /\ c \in ScoredSoFar(q)'
    BY SameTexts
  <2>2. LacksOf(q, w)'[c] = LackOf(truth'[c], outputs'[<<q, c>>], w)
    BY <2>1 DEF LacksOf
  <2>3. LacksOf(q, w)[c] = LackOf(truth[c], outputs[<<q, c>>], w)
    BY DEF LacksOf
  <2>. QED  BY <2>1, <2>2, <2>3
<1>6. ASSUME NEW q \in Engines, NEW w \in Words, q # p
      PROVE  /\ misses'[q][w] \in Nat
             /\ misses'[q][w] >= SumFunctionOnSet(LacksOf(q, w), ScoredSoFar(q))'
  <2>1. ScoredSoFar(q)' = ScoredSoFar(q)
    BY <1>2, <1>6 DEF ScoredSoFar
  <2>2. LacksOf(q, w)' = LacksOf(q, w)
    BY <1>5, <2>1 DEF LacksOf
  <2>. QED  BY <1>1, <1>4, <1>6, <2>1, <2>2
<1>7. ASSUME NEW w \in Words
      PROVE  /\ misses'[p][w] \in Nat
             /\ misses'[p][w] >= SumFunctionOnSet(LacksOf(p, w), ScoredSoFar(p))'
  <2>. DEFINE S == ScoredSoFar(p)
              T == ScoredSoFar(p)'
              f == LacksOf(p, w)
              g == LacksOf(p, w)'
              x == misses[p][w]
              y == misses'[p][w]
              z == LackOf(r, h, w)
  <2>1. T = 1 .. d /\ S = 1 .. d - 1
    BY <1>2 DEF ScoredSoFar
  <2>2. d # 0
    <3>1. Len(series[p]) \in Nat
      BY <1>3 DEF EvalInv, ScoresKept
    <3>. QED  BY <1>2, <3>1
  <2>3. d \in T /\ T \ {d} = S /\ IsFiniteSet(T)
    BY <1>2, <2>1, <2>2, CountFromOne
  <2>4. g[d] = z
    <3>1. g[d] = LackOf(truth'[d], outputs'[<<p, d>>], w)
      BY <2>3 DEF LacksOf
    <3>2. TextsStay(p, d, r, h)
      BY TextsAreKept
    <3>. QED  BY <3>1, <3>2 DEF TextsStay
  <2>5. z \in Nat
    BY <1>3, LackIsNat
  <2>6. \A c \in S : g[c] = f[c] /\ f[c] \in Nat
    BY <1>3, <1>4, <1>5
  <2>7. x \in Nat /\ x >= SumFunctionOnSet(f, S)
    BY <1>3, <1>4
  <2>8. y \in Nat /\ y >= x + z
    BY <1>1
  <2>. HIDE DEF S, T, f, g, x, y, z
  <2>9. \A c \in T : g[c] \in Nat
    <3>1. \A c \in T : c = d \/ c \in S
      BY <2>3
    <3>. QED  BY <2>4, <2>5, <2>6, <3>1
  <2>10. SumFunctionOnSet(g, T) = z + SumFunctionOnSet(g, S)
    BY <2>3, <2>4, <2>9, SumTakesOut
  <2>11. IsFiniteSet(S)
    BY <2>3, FS_RemoveElement
  <2>12. SumFunctionOnSet(g, S) = SumFunctionOnSet(f, S)
    <3>1. \A c \in S : g[c] \in Nat
      BY <2>6
    <3>. QED  BY <2>6, <2>11, <3>1, SumDrops
  <2>13. SumFunctionOnSet(f, S) \in Nat
    BY <2>6, <2>11, SumIsNat
  <2>. DEFINE a == SumFunctionOnSet(f, S)
              b == SumFunctionOnSet(g, T)
  <2>14. a \in Nat /\ b = z + a /\ x >= a
    BY <2>7, <2>10, <2>12, <2>13
  <2>. HIDE DEF a, b
  <2>15. y >= b
    BY <2>5, <2>7, <2>8, <2>14
  <2>. QED  BY <2>8, <2>15 DEF b, S, T, f, g, x, y, z
<1>. QED  BY <1>1, <1>6, <1>7 DEF MissesKept

\* At the start nothing is scored.
LEMMA EvalStarts == EvaluateInit => EvalInv
<1>. SUFFICES ASSUME EvaluateInit PROVE EvalInv
  OBVIOUS
<1>1. /\ truth = <<>> /\ outputs = <<>> /\ series = [p \in Engines |-> <<>>]
      /\ misses = [p \in Engines |-> [w \in Words |-> 0]] /\ viewReport = <<>>
  BY DEF EvaluateInit
<1>2. \A p \in Engines : series[p] = <<>> /\ Len(series[p]) = 0 /\ ScoredSoFar(p) = {}
  BY <1>1 DEF ScoredSoFar
<1>3. TextsKept
  <2>1. DOMAIN truth = {} /\ DOMAIN outputs = {}
    BY <1>1
  <2>. QED  BY <1>2, <2>1 DEF TextsKept
<1>4. ScoresKept
  <2>1. DOMAIN series = Engines
    BY <1>1
  <2>2. \A p \in Engines : series[p] \in Seq(Scores) /\ Len(series[p]) <= 2
    <3>1. <<>> \in Seq(Scores) /\ Len(<<>>) <= 2
      OBVIOUS
    <3>. QED  BY <1>2, <3>1
  <2>. QED  BY <1>2, <2>1, <2>2 DEF ScoresKept
<1>5. MissesKept
  <2>1. DOMAIN misses = Engines
    BY <1>1
  <2>2. ASSUME NEW p \in Engines
        PROVE  DOMAIN misses[p] = Words /\ \A w \in Words : misses[p][w] = 0
    BY <1>1
  <2>3. \A p \in Engines, w \in Words : SumFunctionOnSet(LacksOf(p, w), ScoredSoFar(p)) = 0
    BY <1>2, SumOfNone
  <2>. QED  BY <2>1, <2>2, <2>3 DEF MissesKept
<1>. QED  BY <1>1, <1>3, <1>4, <1>5 DEF EvalInv, ReportKept

\* What is computed of the same texts is the same.
LEMMA SameClosing ==
  ASSUME UNCHANGED <<truth, outputs, series, misses>>
  PROVE  Closing' = Closing
BY DEF Closing, Aggregate, Total, Weighing, Scored, Observers, Covered, Complementarity, WordMap,
       WordGroup, Missing, DocumentOracle, DocumentRecall, Preserved, Observed

\* What holds of the same texts still holds.
LEMMA SameEvaluation ==
  ASSUME EvalInv, UNCHANGED <<truth, outputs, series, misses>>
  PROVE  TextsKept' /\ ScoresKept' /\ MissesKept' /\ Unscored' = Unscored
<1>1. TextsKept' /\ ScoresKept'
  BY DEF EvalInv, TextsKept, ScoresKept, ScoredSoFar
<1>2. MissesKept'
  BY DEF EvalInv, MissesKept, ScoredSoFar, LacksOf
<1>3. Unscored' = Unscored
  BY DEF Unscored
<1>. QED  BY <1>1, <1>2, <1>3

\* Every step of the evaluation keeps what it has counted.
LEMMA EvalGoesOn ==
  ASSUME EvalInv, [EvaluateNext]_evalVars
  PROVE  EvalInv'
<1>1. CASE ScoreDocument
  <2>1. /\ \E p, d, r, h : OneScored(p, d, r, h)
        /\ viewReport = <<>> /\ viewReport' = viewReport
    BY <1>1, DocumentIs
  <2>2. PICK p, d, r, h : OneScored(p, d, r, h)
    BY <2>1
  <2>3. TextsKept' /\ ScoresKept' /\ MissesKept'
    BY <2>2, TextsGoOn, ScoresGoOn, MissesGoOn
  <2>4. ReportKept'
    BY <2>1 DEF ReportKept
  <2>. QED  BY <2>3, <2>4 DEF EvalInv
<1>2. CASE CloseView
  <2>1. Unscored = {} /\ viewReport' = Closing /\ UNCHANGED <<truth, outputs, series, misses>>
    BY <1>2 DEF CloseView, Closing
  <2>2. TextsKept' /\ ScoresKept' /\ MissesKept' /\ Unscored' = Unscored /\ Closing' = Closing
    BY <2>1, SameEvaluation, SameClosing
  <2>. QED  BY <2>1, <2>2 DEF EvalInv, ReportKept
<1>3. CASE UNCHANGED evalVars
  <2>1. viewReport' = viewReport /\ UNCHANGED <<truth, outputs, series, misses>>
    BY <1>3 DEF evalVars
  <2>2. TextsKept' /\ ScoresKept' /\ MissesKept' /\ Unscored' = Unscored /\ Closing' = Closing
    BY <2>1, SameEvaluation, SameClosing
  <2>. QED  BY <2>1, <2>2 DEF EvalInv, ReportKept
<1>. QED  BY <1>1, <1>2, <1>3 DEF EvaluateNext

\* What the closed view has of a pipeline and a document.
IsWords(text) == Len(text) \in Nat /\ DOMAIN text = 1 .. Len(text) /\ text \in Seq(Words)
\* A document weighs with a pipeline when it has both texts.
DocumentHolds(p, d) ==
  /\ Observed(p, d) <=> d \in Compared(p)
  /\ d \in Compared(p) =>
       /\ IsWords(truth[d]) /\ IsWords(outputs[<<p, d>>])
       /\ ScoreHolds(series[p][d], truth[d], outputs[<<p, d>>])
  /\ \A w \in Words :
       LacksOf(p, w)[d] = IF d \in Compared(p)
                          THEN Count(w, truth[d]) - Kept(w, truth[d], outputs[<<p, d>>]) ELSE 0

\* So it is once every document is scored.
LEMMA DocumentsHold ==
  ASSUME EvalInv, Unscored = {}, NEW p \in Engines, NEW d \in Corpus
  PROVE  DocumentHolds(p, d)
<1>1. d \in ScoredSoFar(p)
  BY AllScored DEF EvalInv
<1>. DEFINE r == truth[d]
            h == outputs[<<p, d>>]
            s == series[p][d]
<1>2. r \in MaybeTexts /\ h \in MaybeTexts
  BY <1>1 DEF EvalInv, TextsKept
<1>3. s = ScoreOf(r, h)
  BY <1>1 DEF EvalInv, ScoresKept
<1>4. d \in Compared(p) <=> r # NoText /\ h # NoText
  BY DEF Compared
<1>5. \A w \in Words : LacksOf(p, w)[d] = LackOf(r, h, w)
  BY <1>1 DEF LacksOf
<1>6. Observed(p, d) = s.applies
  BY DEF Observed
<1>. HIDE DEF s
<1>7. CASE r = NoText \/ h = NoText
  <2>1. s.applies = FALSE
    BY <1>3, <1>7 DEF ScoreOf, NotApplicable
  <2>2. \A w \in Words : LackOf(r, h, w) = 0
    BY <1>7 DEF LackOf
  <2>. QED  BY <1>4, <1>5, <1>6, <1>7, <2>1, <2>2 DEF DocumentHolds
<1>8. CASE r # NoText /\ h # NoText
  <2>1. IsWords(r) /\ IsWords(h)
    BY <1>2, <1>8, ToldTexts DEF IsWords
  <2>2. ScoreHolds(s, r, h)
    <3>1. s = Score(r, h)
      BY <1>3, <1>8 DEF ScoreOf
    <3>. QED  BY <2>1, <3>1, ScoreIs DEF IsWords
  <2>3. s.applies
    BY <2>2 DEF ScoreHolds
  <2>4. \A w \in Words : LackOf(r, h, w) = Count(w, r) - Kept(w, r, h)
    BY <1>8 DEF LackOf
  <2>5. d \in Compared(p)
    BY <1>4, <1>8
  <2>. QED  BY <1>5, <1>6, <2>1, <2>2, <2>3, <2>4, <2>5 DEF DocumentHolds, s
<1>. QED  BY <1>7, <1>8

\* The documents that weigh in the rates of a pipeline.
LEMMA WhatWeighs ==
  ASSUME EvalInv, Unscored = {}, NEW p \in Engines
  PROVE  /\ Weighing(p) = {c \in Compared(p) : truth[c] # <<>>}
         /\ Weighing(p) \in SUBSET Corpus /\ IsFiniteSet(Weighing(p))
<1>1. \A d \in Corpus : DocumentHolds(p, d)
  BY DocumentsHold
<1>2. Compared(p) \subseteq Corpus
  BY DEF Compared
<1>3. ASSUME NEW d \in Corpus
      PROVE  d \in Scored(p) <=> d \in Compared(p)
  BY <1>1 DEF Scored, DocumentHolds, Observed
<1>4. ASSUME NEW d \in Compared(p)
      PROVE  series[p][d].words > 0 <=> truth[d] # <<>>
  <2>1. DocumentHolds(p, d)
    BY <1>1, <1>2
  <2>2. series[p][d].words = Len(truth[d]) /\ IsWords(truth[d])
    BY <1>4, <2>1 DEF DocumentHolds, ScoreHolds
  <2>. DEFINE t == truth[d]
  <2>3. Len(t) > 0 <=> t # <<>>
    <3>1. t \in Seq(Words) /\ Len(t) \in Nat
      BY <2>2 DEF IsWords
    <3>. HIDE DEF t
    <3>. QED  BY <3>1
  <2>. QED  BY <2>2, <2>3
<1>5. Weighing(p) = {c \in Compared(p) : truth[c] # <<>>}
  BY <1>2, <1>3, <1>4 DEF Weighing, Scored
<1>6. Weighing(p) \in SUBSET Corpus
  BY <1>2, <1>5
<1>. QED  BY <1>5, <1>6, TwoDocuments, FS_Subset

\* The rates of a pipeline are the sums of the errors of its documents, and are in order.
LEMMA RatesHold ==
  ASSUME EvalInv, Unscored = {}, NEW p \in Engines
  PROVE  RatesAgree(p, Aggregate(p))
<1>. DEFINE W == Weighing(p)
            rates == Aggregate(p)
            of(m) == [d \in W |-> series[p][d][m]]
            wer == of("wer")
            dels == of("dels")
            ins == of("ins")
            acc == of("accuracy")
            words == of("words")
            both == [d \in W |-> dels[d] + ins[d]]
            full == [d \in W |-> acc[d] + wer[d]]
            least == [d \in {c \in Compared(p) : truth[c] # <<>>} |->
                        LeastEdits(truth[d], outputs[<<p, d>>])]
<1>1. /\ rates.wer = SumFunctionOnSet(wer, W)
      /\ rates.dels = SumFunctionOnSet(dels, W)
      /\ rates.ins = SumFunctionOnSet(ins, W)
      /\ rates.accuracy = SumFunctionOnSet(acc, W)
      /\ rates.words = SumFunctionOnSet(words, W)
  BY DEF Aggregate, Total, SumFunction
<1>2. /\ W = {c \in Compared(p) : truth[c] # <<>>} /\ W \in SUBSET Corpus /\ IsFiniteSet(W)
  BY WhatWeighs
<1>3. Compared(p) \subseteq Corpus
  BY DEF Compared
<1>4. ASSUME NEW d \in Compared(p)
      PROVE  ScoreHolds(series[p][d], truth[d], outputs[<<p, d>>])
  BY <1>3, <1>4, DocumentsHold DEF DocumentHolds
<1>5. ASSUME NEW d \in W
      PROVE  /\ wer[d] \in Nat /\ dels[d] \in Nat /\ ins[d] \in Nat /\ acc[d] \in Nat /\ words[d] \in Nat
             /\ both[d] = dels[d] + ins[d] /\ both[d] <= wer[d] /\ both[d] \in Nat
             /\ full[d] = acc[d] + wer[d] /\ words[d] <= full[d] /\ acc[d] <= words[d] /\ full[d] \in Nat
             /\ wer[d] = least[d]
  <2>1. ScoreHolds(series[p][d], truth[d], outputs[<<p, d>>])
    BY <1>2, <1>4
  <2>. DEFINE s == series[p][d]
  <2>2. /\ s.wer \in Nat /\ s.dels \in Nat /\ s.ins \in Nat /\ s.accuracy \in Nat
        /\ s.dels + s.ins <= s.wer /\ s.accuracy <= s.words /\ s.words <= s.accuracy + s.wer
        /\ s.wer = LeastEdits(truth[d], outputs[<<p, d>>])
    BY <2>1 DEF ScoreHolds
  <2>3. s.words \in Nat
    <3>1. IsWords(truth[d])
      BY <1>2, DocumentsHold DEF DocumentHolds
    <3>. QED  BY <2>1, <3>1 DEF ScoreHolds, IsWords
  <2>4. wer[d] = s.wer /\ dels[d] = s.dels /\ ins[d] = s.ins /\ acc[d] = s.accuracy /\ words[d] = s.words
    OBVIOUS
  <2>5. both[d] = dels[d] + ins[d] /\ full[d] = acc[d] + wer[d]
    OBVIOUS
  <2>6. least[d] = LeastEdits(truth[d], outputs[<<p, d>>])
    BY <1>2
  <2>. HIDE DEF s, wer, dels, ins, acc, words, both, full, least
  <2>. QED  BY <2>2, <2>3, <2>4, <2>5, <2>6
<1>6. SumFunction(least) = SumFunctionOnSet(least, W)
  BY <1>2 DEF SumFunction
<1>7. \A d \in Compared(p) : series[p][d].mer = LeastEdits(truth[d], outputs[<<p, d>>])
  BY <1>4 DEF ScoreHolds
<1>8. SumFunction([d \in {c \in Compared(p) : truth[c] # <<>>} |->
                     LeastEdits(truth[d], outputs[<<p, d>>])]) = SumFunction(least)
  OBVIOUS
<1>. HIDE DEF W, rates, wer, dels, ins, acc, words, both, full, least
<1>9. SumFunctionOnSet(wer, W) = SumFunctionOnSet(least, W)
  BY <1>2, <1>5, SumDrops
<1>10. /\ SumFunctionOnSet(both, W) = SumFunctionOnSet(dels, W) + SumFunctionOnSet(ins, W)
       /\ SumFunctionOnSet(both, W) <= SumFunctionOnSet(wer, W)
  BY <1>2, <1>5, SumsAdd, SumsCompare
<1>11. /\ SumFunctionOnSet(full, W) = SumFunctionOnSet(acc, W) + SumFunctionOnSet(wer, W)
       /\ SumFunctionOnSet(words, W) <= SumFunctionOnSet(full, W)
  BY <1>2, <1>5, SumsAdd, SumsCompare
<1>12. SumFunctionOnSet(acc, W) <= SumFunctionOnSet(words, W)
  BY <1>2, <1>5, SumsCompare
<1>13. /\ SumFunctionOnSet(acc, W) \in Nat /\ SumFunctionOnSet(words, W) \in Nat
       /\ SumFunctionOnSet(wer, W) \in Nat
  BY <1>2, <1>5, SumIsNat
<1>14. rates.dels + rates.ins <= rates.wer
  BY <1>1, <1>10
<1>15. rates.accuracy + rates.wer >= rates.words
  BY <1>1, <1>11, <1>13
<1>16. rates.accuracy <= rates.words
  BY <1>1, <1>12
<1>17. rates.wer = SumFunction(least)
  BY <1>1, <1>6, <1>9
<1>18. RatesAgree(p, rates)
  BY <1>7, <1>8, <1>14, <1>15, <1>16, <1>17 DEF RatesAgree
<1>. QED  BY <1>18 DEF rates

\* A text has as many words as it has of each.
LEMMA WordsOfText ==
  ASSUME NEW text, IsWords(text), NEW f, \A w \in Words : f[w] = Count(w, text)
  PROVE  SumFunctionOnSet(f, Words) = Len(text)
<1>1. IsFiniteSet(Words)
  BY EvaluateAssumption
<1>2. {i \in Indices(text) : text[i] \in Words} = 1 .. Len(text)
  BY DEF IsWords, Indices
<1>3. SumFunctionOnSet(f, Words) = Cardinality({i \in Indices(text) : text[i] \in Words})
  BY <1>1, CountsWithin DEF IsWords
<1>. QED  BY <1>2, <1>3, CountFromOne DEF IsWords

\* What the oracle has of a document is between what any pipeline preserves of
\* it and what there is.
LEMMA WordPreserved ==
  ASSUME EvalInv, Unscored = {}, NEW p \in Engines, NEW d \in Covered, NEW w
  PROVE  /\ IsWords(truth[d])
         /\ Preserved(p, d, w) \in Nat
         /\ Preserved(p, d, w) <= Count(w, truth[d])
<1>1. d \in Corpus /\ \E q \in Engines : Observed(q, d)
  BY DEF Covered
<1>2. PICK q \in Engines : Observed(q, d)
  BY <1>1
<1>3. DocumentHolds(q, d) /\ DocumentHolds(p, d)
  BY <1>1, DocumentsHold
<1>4. IsWords(truth[d])
  BY <1>2, <1>3 DEF DocumentHolds
<1>5. CASE Observed(p, d)
  <2>1. IsWords(outputs[<<p, d>>])
    BY <1>3, <1>5 DEF DocumentHolds
  <2>2. Preserved(p, d, w) = Kept(w, truth[d], outputs[<<p, d>>])
    BY <1>5 DEF Preserved
  <2>. QED  BY <1>4, <2>1, <2>2, KeptIsLess DEF IsWords
<1>6. CASE ~ Observed(p, d)
  <2>1. Preserved(p, d, w) = 0
    BY <1>6 DEF Preserved
  <2>2. Count(w, truth[d]) \in Nat
    BY <1>4, CountIsNat DEF IsWords
  <2>. QED  BY <1>4, <2>1, <2>2
<1>. QED  BY <1>5, <1>6

\* The pipelines that observed a document are finitely many.
LEMMA SomeObserve ==
  /\ Observers \in SUBSET Engines /\ IsFiniteSet(Observers)
  /\ Cardinality(Observers) \in Nat /\ (~ (Cardinality(Observers) < 2) => Observers # {})
<1>1. Observers \in SUBSET Engines
  BY DEF Observers
<1>2. IsFiniteSet(Observers) /\ Cardinality(Observers) \in Nat
  BY <1>1, EvaluateAssumption, FS_Subset, FS_CardinalityType
<1>3. Observers = {} => Cardinality(Observers) = 0
  BY FS_EmptySet
<1>. QED  BY <1>1, <1>2, <1>3

\* What the best pipeline preserves of a document.
BestRecall(d) == Max({DocumentRecall(p, d) : p \in Observers})

\* No pipeline preserves more of a document than the best, nor the best more than the oracle.
LEMMA DocumentBest ==
  ASSUME EvalInv, Unscored = {}, Observers # {}, NEW d \in Covered
  PROVE  /\ DocumentOracle(d) \in Nat /\ Len(truth[d]) \in Nat /\ DocumentOracle(d) <= Len(truth[d])
         /\ BestRecall(d) \in Nat /\ BestRecall(d) <= DocumentOracle(d)
         /\ \A p \in Observers : DocumentRecall(p, d) \in Nat /\ DocumentRecall(p, d) <= BestRecall(d)
<1>. DEFINE have == [w \in Words |-> Count(w, truth[d])]
            best == [w \in Words |-> Max({Preserved(p, d, w) : p \in Observers})]
            kept == [p \in Engines |-> [w \in Words |-> Preserved(p, d, w)]]
<1>1. IsFiniteSet(Words) /\ Observers \in SUBSET Engines
  BY EvaluateAssumption, SomeObserve
<1>2. IsWords(truth[d])
  BY <1>1, WordPreserved
<1>3. \A w \in Words : have[w] \in Nat /\ have[w] = Count(w, truth[d])
  BY <1>2, CountIsNat DEF IsWords
<1>4. \A p \in Observers, w \in Words :
        /\ kept[p][w] = Preserved(p, d, w) /\ Preserved(p, d, w) \in Nat
        /\ Preserved(p, d, w) <= have[w]
  BY <1>1, <1>3, WordPreserved
<1>5. ASSUME NEW w \in Words
      PROVE  /\ best[w] \in Nat /\ best[w] <= have[w]
             /\ \A p \in Observers : kept[p][w] <= best[w]
  <2>. DEFINE S == {Preserved(p, d, w) : p \in Observers}
              b == have[w]
  <2>1. S \subseteq Nat /\ b \in Nat /\ \A x \in S : x <= b
    BY <1>3, <1>4
  <2>2. S # {}
    OBVIOUS
  <2>3. best[w] = Max(S)
    OBVIOUS
  <2>4. \A p \in Observers : kept[p][w] \in S
    BY <1>4
  <2>. HIDE DEF S, b, best, kept
  <2>5. Max(S) \in S /\ \A y \in S : Max(S) >= y
    BY <2>1, <2>2, LargestOf
  <2>6. Max(S) \in Nat /\ Max(S) <= b
    BY <2>1, <2>5
  <2>7. ASSUME NEW p \in Observers PROVE kept[p][w] <= Max(S)
    <3>1. kept[p][w] \in S /\ kept[p][w] \in Nat
      BY <2>1, <2>4
    <3>. QED  BY <2>5, <2>6, <3>1
  <2>. QED  BY <2>3, <2>6, <2>7 DEF b
<1>6. DocumentOracle(d) = SumFunctionOnSet(best, Words)
  BY DEF DocumentOracle, SumFunction
<1>7. \A p \in Observers : DocumentRecall(p, d) = SumFunctionOnSet(kept[p], Words)
  BY <1>1 DEF DocumentRecall, SumFunction
<1>8. SumFunctionOnSet(have, Words) = Len(truth[d]) /\ Len(truth[d]) \in Nat
  <2>. HIDE DEF have
  <2>. QED  BY <1>2, <1>3, WordsOfText DEF IsWords
<1>9. \A p \in Observers, w \in Words : kept[p][w] \in Nat
  BY <1>4
<1>. HIDE DEF have, best, kept
<1>10. DocumentOracle(d) \in Nat /\ DocumentOracle(d) <= Len(truth[d])
  <2>1. SumFunctionOnSet(best, Words) <= SumFunctionOnSet(have, Words)
    BY <1>1, <1>3, <1>5, SumsCompare
  <2>2. SumFunctionOnSet(best, Words) \in Nat
    BY <1>1, <1>5, SumIsNat
  <2>. QED  BY <1>6, <1>8, <2>1, <2>2
<1>11. ASSUME NEW p \in Observers
       PROVE  DocumentRecall(p, d) \in Nat /\ DocumentRecall(p, d) <= DocumentOracle(d)
  <2>. DEFINE k == kept[p]
  <2>1. \A w \in Words : k[w] \in Nat /\ best[w] \in Nat /\ k[w] <= best[w]
    BY <1>5, <1>9
  <2>2. DocumentRecall(p, d) = SumFunctionOnSet(k, Words)
    BY <1>7
  <2>. HIDE DEF k
  <2>3. SumFunctionOnSet(k, Words) \in Nat
    BY <1>1, <2>1, SumIsNat
  <2>4. SumFunctionOnSet(k, Words) <= SumFunctionOnSet(best, Words)
    BY <1>1, <2>1, SumsCompare
  <2>. QED  BY <1>6, <2>2, <2>3, <2>4
<1>12. /\ BestRecall(d) \in Nat /\ BestRecall(d) <= DocumentOracle(d)
       /\ \A p \in Observers : DocumentRecall(p, d) <= BestRecall(d)
  <2>. DEFINE S == {DocumentRecall(p, d) : p \in Observers}
              b == DocumentOracle(d)
  <2>1. S \subseteq Nat /\ b \in Nat /\ \A x \in S : x <= b
    BY <1>10, <1>11
  <2>2. S # {} /\ BestRecall(d) = Max(S)
    BY DEF BestRecall
  <2>3. \A p \in Observers : DocumentRecall(p, d) \in S
    OBVIOUS
  <2>. HIDE DEF S, b
  <2>4. Max(S) \in S /\ \A y \in S : Max(S) >= y
    BY <2>1, <2>2, LargestOf
  <2>5. Max(S) \in Nat /\ Max(S) <= b
    BY <2>1, <2>4
  <2>6. ASSUME NEW p \in Observers PROVE DocumentRecall(p, d) <= Max(S)
    <3>1. DocumentRecall(p, d) \in S /\ DocumentRecall(p, d) \in Nat
      BY <1>11, <2>3
    <3>. QED  BY <2>4, <2>5, <3>1
  <2>. QED  BY <2>2, <2>5, <2>6 DEF b
<1>. QED  BY <1>8, <1>10, <1>11, <1>12

\* The covered documents are finitely many.
LEMMA CoveredIsFinite == Covered \in SUBSET Corpus /\ IsFiniteSet(Covered)
<1>1. Covered \in SUBSET Corpus
  BY DEF Covered
<1>. QED  BY <1>1, TwoDocuments, FS_Subset

\* The oracle preserves no less than any pipeline, and its gap is what it adds to the best.
LEMMA OracleHolds ==
  ASSUME EvalInv, Unscored = {}, Observers # {}
  PROVE  OracleDominates(Complementarity)
<1>. DEFINE C == Covered
            tokens == [d \in C |-> Len(truth[d])]
            oracle == [d \in C |-> DocumentOracle(d)]
            gaps == [d \in C |-> DocumentOracle(d) - Max({DocumentRecall(p, d) : p \in Observers})]
            recalls == [p \in Observers |-> SumFunction([d \in C |-> DocumentRecall(p, d)])]
            recall(p) == [d \in C |-> DocumentRecall(p, d)]
            best == [d \in C |-> BestRecall(d)]
            e == Complementarity
<1>1. IsFiniteSet(C)
  BY CoveredIsFinite
<1>2. /\ e.oracle = SumFunctionOnSet(oracle, C) /\ e.tokens = SumFunctionOnSet(tokens, C)
      /\ e.gaps = SumFunctionOnSet(gaps, C) /\ DOMAIN e.recalls = Observers
      /\ \A p \in Observers : e.recalls[p] = SumFunctionOnSet(recall(p), C)
  BY DEF Complementarity, SumFunction
<1>3. ASSUME NEW d \in C
      PROVE  /\ tokens[d] \in Nat /\ oracle[d] \in Nat /\ oracle[d] <= tokens[d]
             /\ best[d] \in Nat /\ gaps[d] \in Nat /\ oracle[d] = best[d] + gaps[d]
  <2>1. /\ DocumentOracle(d) \in Nat /\ Len(truth[d]) \in Nat /\ DocumentOracle(d) <= Len(truth[d])
        /\ BestRecall(d) \in Nat /\ BestRecall(d) <= DocumentOracle(d)
    BY DocumentBest
  <2>. DEFINE o == DocumentOracle(d)
              b == BestRecall(d)
  <2>2. gaps[d] = o - b /\ oracle[d] = o /\ best[d] = b /\ tokens[d] = Len(truth[d])
    BY DEF BestRecall
  <2>3. o \in Nat /\ b \in Nat /\ b <= o /\ Len(truth[d]) \in Nat /\ o <= Len(truth[d])
    BY <2>1
  <2>. HIDE DEF o, b, gaps, oracle, best, tokens
  <2>. QED  BY <2>2, <2>3
<1>4. ASSUME NEW p \in Observers
      PROVE  e.recalls[p] <= e.oracle - e.gaps
  <2>. DEFINE r == recall(p)
  <2>1. \A d \in C : r[d] \in Nat /\ r[d] <= best[d] /\ best[d] \in Nat
    BY DocumentBest
  <2>2. e.recalls[p] = SumFunctionOnSet(r, C)
    BY <1>2
  <2>. HIDE DEF C, tokens, oracle, gaps, best, e, r
  <2>3. SumFunctionOnSet(r, C) <= SumFunctionOnSet(best, C)
    BY <1>1, <2>1, SumsCompare
  <2>4. SumFunctionOnSet(oracle, C) = SumFunctionOnSet(best, C) + SumFunctionOnSet(gaps, C)
    BY <1>1, <1>3, SumsAdd
  <2>5. /\ SumFunctionOnSet(r, C) \in Nat /\ SumFunctionOnSet(best, C) \in Nat
        /\ SumFunctionOnSet(gaps, C) \in Nat
    BY <1>1, <1>3, <2>1, SumIsNat
  <2>. DEFINE x == SumFunctionOnSet(r, C)
              y == SumFunctionOnSet(best, C)
              z == SumFunctionOnSet(gaps, C)
              v == SumFunctionOnSet(oracle, C)
  <2>6. x \in Nat /\ y \in Nat /\ z \in Nat /\ x <= y /\ v = y + z
    BY <2>3, <2>4, <2>5
  <2>. HIDE DEF x, y, z, v
  <2>7. x <= v - z
    BY <2>6
  <2>. QED  BY <1>2, <2>2, <2>7 DEF x, z, v
<1>. HIDE DEF C, tokens, oracle, gaps, best, e
<1>5. SumFunctionOnSet(oracle, C) <= SumFunctionOnSet(tokens, C)
  BY <1>1, <1>3, SumsCompare
<1>6. OracleDominates(e)
  BY <1>2, <1>4, <1>5 DEF OracleDominates
<1>. QED  BY <1>6 DEF e

\* Terms that are all zero add up to zero.
LEMMA SumOfZeros ==
  ASSUME NEW S, IsFiniteSet(S), NEW f, \A x \in S : f[x] = 0
  PROVE  SumFunctionOnSet(f, S) = 0
<1>1. {} \in SUBSET S /\ \A x \in S : f[x] \in Nat
  OBVIOUS
<1>2. SumFunctionOnSet(f, S) = SumFunctionOnSet(f, {})
  BY <1>1, SumDrops
<1>. QED  BY <1>2, SumOfNone

\* Terms that are all one add up to how many there are.
LEMMA SumOfOnes ==
  ASSUME NEW S, IsFiniteSet(S), NEW f, \A x \in S : f[x] = 1
  PROVE  SumFunctionOnSet(f, S) = Cardinality(S)
<1>. DEFINE g == [x \in S |-> x]
<1>1. ASSUME NEW k \in S PROVE f[k] = Cardinality(OfKind(S, g, k))
  <2>1. OfKind(S, g, k) = {k}
    BY DEF OfKind
  <2>. QED  BY <2>1, FS_Singleton
<1>2. \A i \in S : g[i] \in S
  OBVIOUS
<1>. HIDE DEF g
<1>. QED  BY <1>1, <1>2, CountByKind

\* What a pipeline preserves of a document, and what its output lacks of it.
LacksIn(p, d) == [w \in Words |-> LacksOf(p, w)[d]]

\* A text is what a pipeline preserves of it and what its output lacks of it.
LEMMA RecallOfDocument ==
  ASSUME EvalInv, Unscored = {}, NEW p \in Engines, NEW d \in Corpus
  PROVE  /\ DocumentRecall(p, d) \in Nat
         /\ d \notin Compared(p) => DocumentRecall(p, d) = 0
         /\ \A w \in Words : LacksIn(p, d)[w] \in Nat
         /\ d \in Compared(p) =>
              /\ Len(truth[d]) \in Nat
              /\ Len(truth[d]) = SumFunctionOnSet(LacksIn(p, d), Words) + DocumentRecall(p, d)
<1>. DEFINE kept == [w \in Words |-> Preserved(p, d, w)]
            lack == LacksIn(p, d)
            have == [w \in Words |-> Count(w, truth[d])]
<1>1. IsFiniteSet(Words) /\ DocumentHolds(p, d)
  BY EvaluateAssumption, DocumentsHold
<1>2. DocumentRecall(p, d) = SumFunctionOnSet(kept, Words)
  BY DEF DocumentRecall, SumFunction
<1>3. \A w \in Words : lack[w] = LacksOf(p, w)[d]
  BY DEF LacksIn
<1>4. CASE d \notin Compared(p)
  <2>1. \A w \in Words : kept[w] = 0
    BY <1>1, <1>4 DEF DocumentHolds, Preserved
  <2>2. \A w \in Words : lack[w] = 0
    BY <1>1, <1>3, <1>4 DEF DocumentHolds
  <2>. HIDE DEF kept
  <2>3. DocumentRecall(p, d) = 0
    BY <1>1, <1>2, <2>1, SumOfZeros
  <2>. QED  BY <1>4, <2>2, <2>3
<1>5. CASE d \in Compared(p)
  <2>1. IsWords(truth[d]) /\ IsWords(outputs[<<p, d>>]) /\ Observed(p, d)
    BY <1>1, <1>5 DEF DocumentHolds
  <2>2. ASSUME NEW w \in Words
        PROVE  lack[w] \in Nat /\ kept[w] \in Nat /\ have[w] = lack[w] + kept[w]
    <3>. DEFINE c == Count(w, truth[d])
                k == Kept(w, truth[d], outputs[<<p, d>>])
    <3>1. c \in Nat /\ k \in Nat /\ k <= c
      BY <2>1, KeptIsLess, CountIsNat DEF IsWords
    <3>2. kept[w] = k
      BY <2>1 DEF Preserved
    <3>3. lack[w] = c - k
      BY <1>1, <1>3, <1>5 DEF DocumentHolds
    <3>4. have[w] = c
      OBVIOUS
    <3>. HIDE DEF c, k, kept, lack, have
    <3>. QED  BY <3>1, <3>2, <3>3, <3>4
  <2>3. \A w \in Words : have[w] = Count(w, truth[d])
    OBVIOUS
  <2>. HIDE DEF kept, lack, have
  <2>4. SumFunctionOnSet(have, Words) = Len(truth[d])
    BY <2>1, <2>3, WordsOfText
  <2>5. SumFunctionOnSet(have, Words) = SumFunctionOnSet(lack, Words) + SumFunctionOnSet(kept, Words)
    BY <1>1, <2>2, SumsAdd
  <2>6. SumFunctionOnSet(kept, Words) \in Nat
    BY <1>1, <2>2, SumIsNat
  <2>7. Len(truth[d]) \in Nat
    BY <2>1 DEF IsWords
  <2>8. Len(truth[d]) = SumFunctionOnSet(lack, Words) + DocumentRecall(p, d)
    BY <1>2, <2>4, <2>5
  <2>9. DocumentRecall(p, d) \in Nat /\ \A w \in Words : lack[w] \in Nat
    BY <1>2, <2>2, <2>6
  <2>. QED  BY <1>5, <2>7, <2>8, <2>9 DEF lack
<1>. QED  BY <1>4, <1>5

\* A pipeline misses at least the words of its texts that it does not preserve.
LEMMA MissesMatch ==
  ASSUME EvalInv, Unscored = {}, NEW p \in Engines
  PROVE  SumFunction([w \in Words |-> misses[p][w]])
           >= SumFunction([d \in Compared(p) |-> Len(truth[d])])
                - SumFunction([d \in Covered |-> DocumentRecall(p, d)])
<1>. DEFINE miss == [w \in Words |-> misses[p][w]]
            rows == [w \in Words |-> SumFunctionOnSet(LacksOf(p, w), Corpus)]
            m == [w \in Words |-> LacksOf(p, w)]
            column == [d \in Corpus |-> LacksIn(p, d)]
            cols == [d \in Corpus |-> SumFunctionOnSet(LacksIn(p, d), Words)]
            rec == [d \in Corpus |-> IF d \in Compared(p) THEN DocumentRecall(p, d) ELSE 0]
            len == [d \in Corpus |-> IF d \in Compared(p) THEN Len(truth[d]) ELSE 0]
            least == [d \in Corpus |-> IF d \in Compared(p) THEN cols[d] ELSE 0]
            lens == [d \in Compared(p) |-> Len(truth[d])]
            recalls == [d \in Covered |-> DocumentRecall(p, d)]
<1>1. IsFiniteSet(Words) /\ IsFiniteSet(Corpus)
  BY EvaluateAssumption, TwoDocuments
<1>2. ScoredSoFar(p) = Corpus
  BY AllScored DEF EvalInv
<1>3. Compared(p) \in SUBSET Corpus /\ Covered \in SUBSET Corpus
  BY DEF Compared, Covered
<1>4. \A d \in Corpus :
        /\ DocumentRecall(p, d) \in Nat
        /\ d \notin Compared(p) => DocumentRecall(p, d) = 0
        /\ \A w \in Words : LacksIn(p, d)[w] \in Nat
        /\ d \in Compared(p) =>
             /\ Len(truth[d]) \in Nat
             /\ Len(truth[d]) = SumFunctionOnSet(LacksIn(p, d), Words) + DocumentRecall(p, d)
  BY RecallOfDocument
<1>5. \A d \in Corpus : cols[d] = SumFunctionOnSet(LacksIn(p, d), Words) /\ cols[d] \in Nat
  BY <1>1, <1>4, SumIsNat
<1>6. \A w \in Words : /\ miss[w] \in Nat /\ miss[w] = misses[p][w]
                       /\ rows[w] = SumFunctionOnSet(LacksOf(p, w), Corpus) /\ rows[w] <= miss[w]
  BY <1>2 DEF EvalInv, MissesKept
<1>7. /\ \A w \in Words, d \in Corpus : m[w][d] \in Nat /\ column[d][w] = m[w][d]
      /\ \A w \in Words : rows[w] = SumFunctionOnSet(m[w], Corpus)
      /\ \A d \in Corpus : cols[d] = SumFunctionOnSet(column[d], Words)
  BY <1>4 DEF LacksIn
<1>8. \A w \in Words : rows[w] \in Nat
  BY <1>1, <1>7, SumIsNat
<1>9. ASSUME NEW d \in Corpus
      PROVE  /\ rec[d] \in Nat /\ len[d] \in Nat /\ least[d] \in Nat
             /\ len[d] = least[d] + rec[d] /\ least[d] <= cols[d]
             /\ rec[d] = DocumentRecall(p, d)
  <2>1. CASE d \in Compared(p)
    BY <1>4, <1>5, <2>1
  <2>2. CASE d \notin Compared(p)
    BY <1>4, <1>5, <2>2
  <2>. QED  BY <2>1, <2>2
<1>10. ASSUME NEW d \in Corpus \ Covered PROVE rec[d] = 0
  <2>1. CASE d \notin Compared(p)
    BY <2>1
  <2>2. CASE d \in Compared(p)
    <3>1. Observed(p, d)
      BY <2>2, DocumentsHold DEF DocumentHolds
    <3>2. Len(truth[d]) \in Nat /\ ~ (Len(truth[d]) > 0)
      BY <1>4, <1>10, <2>2, <3>1 DEF Covered
    <3>3. len[d] = 0
      BY <2>2, <3>2
    <3>. HIDE DEF len, rec, least
    <3>. QED  BY <1>9, <3>3
  <2>. QED  BY <2>1, <2>2
<1>11. /\ \A d \in Compared(p) : lens[d] = len[d]
       /\ \A d \in Corpus \ Compared(p) : len[d] = 0
       /\ \A d \in Covered : recalls[d] = rec[d]
  BY <1>3, <1>9
<1>. HIDE DEF miss, rows, m, column, cols, rec, len, least, lens, recalls
<1>12. SumFunctionOnSet(rows, Words) <= SumFunctionOnSet(miss, Words)
  BY <1>1, <1>6, <1>8, SumsCompare
<1>13. SumFunctionOnSet(rows, Words) = SumFunctionOnSet(cols, Corpus)
  BY <1>1, <1>7, SumExchange
<1>14. SumFunctionOnSet(least, Corpus) <= SumFunctionOnSet(cols, Corpus)
  BY <1>1, <1>5, <1>9, SumsCompare
<1>15. SumFunctionOnSet(len, Corpus) = SumFunctionOnSet(least, Corpus) + SumFunctionOnSet(rec, Corpus)
  BY <1>1, <1>9, SumsAdd
<1>16. SumFunctionOnSet(len, Corpus) = SumFunctionOnSet(lens, Compared(p))
  BY <1>1, <1>3, <1>9, <1>11, SumDrops
<1>17. SumFunctionOnSet(rec, Corpus) = SumFunctionOnSet(recalls, Covered)
  BY <1>1, <1>3, <1>9, <1>10, <1>11, SumDrops
<1>. DEFINE a == SumFunctionOnSet(miss, Words)
            b == SumFunctionOnSet(least, Corpus)
            c == SumFunctionOnSet(cols, Corpus)
            x == SumFunctionOnSet(lens, Compared(p))
            y == SumFunctionOnSet(recalls, Covered)
<1>18. a \in Nat /\ b \in Nat /\ c \in Nat /\ y \in Nat
  <2>1. /\ SumFunctionOnSet(miss, Words) \in Nat /\ SumFunctionOnSet(least, Corpus) \in Nat
        /\ SumFunctionOnSet(cols, Corpus) \in Nat /\ SumFunctionOnSet(rec, Corpus) \in Nat
    BY <1>1, <1>5, <1>6, <1>9, SumIsNat
  <2>. QED  BY <1>17, <2>1
<1>19. c <= a /\ b <= c /\ x = b + y
  BY <1>12, <1>13, <1>14, <1>15, <1>16, <1>17
<1>. HIDE DEF a, b, c, x, y
<1>20. a >= x - y
  BY <1>18, <1>19
<1>21. /\ SumFunction([w \in Words |-> misses[p][w]]) = a
       /\ SumFunction([d \in Compared(p) |-> Len(truth[d])]) = x
       /\ SumFunction([d \in Covered |-> DocumentRecall(p, d)]) = y
  BY DEF SumFunction, a, x, y, miss, lens, recalls
<1>. QED  BY <1>20, <1>21

\* A word that every pipeline misses has an error of each.
LEMMA UniversalMisses ==
  ASSUME EvalInv, NEW w \in DOMAIN WordMap, WordMap[w].group = "universal"
  PROVE  WordMap[w].errors >= Cardinality(Observers)
<1>. DEFINE f == [p \in Observers |-> misses[p][w]]
            ones == [p \in Observers |-> 1]
<1>1. w \in Words
  BY DEF WordMap
<1>2. WordMap[w].group = WordGroup(w) /\ WordMap[w].errors = SumFunctionOnSet(f, Observers)
  BY DEF WordMap, SumFunction
<1>3. Missing(w) = Observers
  <2>1. WordGroup(w) = "universal"
    BY <1>2
  <2>. QED  BY <2>1 DEF WordGroup
<1>4. Observers \in SUBSET Engines /\ IsFiniteSet(Observers)
  BY SomeObserve
<1>5. ASSUME NEW p \in Observers PROVE f[p] \in Nat /\ ones[p] \in Nat /\ ones[p] = 1 /\ ones[p] <= f[p]
  <2>1. misses[p][w] > 0
    BY <1>3, <1>5 DEF Missing
  <2>2. misses[p][w] \in Nat
    BY <1>1, <1>4 DEF EvalInv, MissesKept
  <2>3. f[p] = misses[p][w] /\ ones[p] = 1
    OBVIOUS
  <2>. HIDE DEF f, ones
  <2>. QED  BY <2>1, <2>2, <2>3
<1>. HIDE DEF f, ones
<1>6. SumFunctionOnSet(ones, Observers) <= SumFunctionOnSet(f, Observers)
  BY <1>4, <1>5, SumsCompare
<1>7. SumFunctionOnSet(ones, Observers) = Cardinality(Observers)
  BY <1>4, <1>5, SumOfOnes
<1>8. Cardinality(Observers) \in Nat /\ SumFunctionOnSet(f, Observers) \in Nat
  BY <1>4, <1>5, SomeObserve, SumIsNat
<1>. QED  BY <1>2, <1>6, <1>7, <1>8

\* The map of the words tells no fewer misses than the recalls leave.
LEMMA MapMatches ==
  ASSUME EvalInv, Unscored = {}, viewReport = Closing, ~ (Cardinality(Observers) < 2)
  PROVE  MapMatchesRecalls(Complementarity)
<1>. DEFINE e == Complementarity
<1>1. /\ DOMAIN e.recalls = Observers
      /\ \A p \in Observers : e.recalls[p] = SumFunction([d \in Covered |-> DocumentRecall(p, d)])
  BY DEF Complementarity
<1>2. viewReport.words = WordMap
  BY DEF Closing
<1>3. Observers \in SUBSET Engines
  BY SomeObserve
<1>4. ASSUME NEW p \in DOMAIN e.recalls
      PROVE  SumFunction([w \in Words |-> misses[p][w]])
               >= SumFunction([d \in Compared(p) |-> Len(truth[d])]) - e.recalls[p]
  BY <1>1, <1>3, MissesMatch
<1>5. ASSUME NEW w \in DOMAIN viewReport.words, viewReport.words[w].group = "universal"
      PROVE  viewReport.words[w].errors >= Cardinality(DOMAIN e.recalls)
  BY <1>1, <1>2, <1>5, UniversalMisses
<1>. HIDE DEF e
<1>6. MapMatchesRecalls(e)
  BY <1>4, <1>5 DEF MapMatchesRecalls
<1>. QED  BY <1>6 DEF e

\* What is computed of the documents of a view agrees with itself.
LEMMA EvaluationHolds == EvalInv => SectionsAgree
<1>. SUFFICES ASSUME EvalInv, viewReport # <<>>
              PROVE  /\ \A p \in Engines : RatesAgree(p, viewReport.aggregates[p])
                     /\ \A e \in viewReport.engines : OracleDominates(e) /\ MapMatchesRecalls(e)
  BY DEF SectionsAgree
<1>1. Unscored = {} /\ viewReport = Closing
  BY DEF EvalInv, ReportKept
<1>2. ASSUME NEW p \in Engines PROVE RatesAgree(p, viewReport.aggregates[p])
  <2>1. viewReport.aggregates[p] = Aggregate(p)
    BY <1>1 DEF Closing
  <2>2. RatesAgree(p, Aggregate(p))
    BY <1>1, RatesHold
  <2>. QED  BY <2>1, <2>2
<1>3. ASSUME NEW e \in viewReport.engines PROVE OracleDominates(e) /\ MapMatchesRecalls(e)
  <2>1. e = Complementarity /\ ~ (Cardinality(Observers) < 2)
    BY <1>1 DEF Closing
  <2>2. Observers # {}
    BY <2>1, SomeObserve
  <2>3. OracleDominates(Complementarity) /\ MapMatchesRecalls(Complementarity)
    BY <1>1, <2>1, <2>2, OracleHolds, MapMatches
  <2>. QED  BY <2>1, <2>3
<1>. QED  BY <1>2, <1>3

-----------------------------------------------------------------------------
(* The results of a run.                                                   *)

\* What is counted so far adds up, in each of the four.
ResultsInv == EvalInv /\ RestitutionInv /\ CorrectionInv /\ EntityInv

\* An analysis that stands still keeps what it has counted.
LEMMA ResultsGoOn ==
  ASSUME ResultsInv, [ResultsNext]_resultsVars
  PROVE  ResultsInv'
<1>1. /\ [EvaluateNext]_evalVars
      /\ [RestitutionNext]_restitutionVars
      /\ [CorrectionNext]_correctionVars
      /\ [EntityNext]_entityVars
  BY DEF ResultsNext, resultsVars
<1>2. EvalInv'
  BY <1>1, EvalGoesOn DEF ResultsInv
<1>3. RestitutionInv'
  BY <1>1, RestitutionGoesOn DEF ResultsInv
<1>4. CorrectionInv'
  BY <1>1, CorrectionGoesOn DEF ResultsInv
<1>5. EntityInv'
  BY <1>1, EntitiesGoOn DEF ResultsInv
<1>. QED  BY <1>2, <1>3, <1>4, <1>5 DEF ResultsInv

\* The invariant of the four holds of every state.
LEMMA ResultsAreKept == ResultsSpec => []ResultsInv
<1>1. ResultsInit => ResultsInv
  <2>1. ResultsInit => EvaluateInit /\ RestitutionInit /\ CorrectionInit /\ EntityInit
    BY DEF ResultsInit
  <2>. QED  BY <2>1, EvalStarts, RestitutionStarts, CorrectionStarts, EntityStarts DEF ResultsInv
<1>2. ResultsInv /\ [ResultsNext]_resultsVars => ResultsInv'
  BY ResultsGoOn
<1>. QED  BY <1>1, <1>2, PTL DEF ResultsSpec

\* Whatever the texts and the pipelines, what the sections of a closed view say of
\* the same documents agrees: the errors of the rates are as few as any alignment
\* allows, the oracle of the pipelines preserves no less than any of them, and the
\* map of the words tells no fewer misses than the recalls leave
\* (evaluation/metrics and evaluation/views, which compute each on its own).
THEOREM SectionsAreConsistent == ResultsSpec => []SectionsAgree
<1>1. ResultsInv => SectionsAgree
  BY EvaluationHolds DEF ResultsInv
<1>. QED  BY <1>1, ResultsAreKept, PTL

\* Whatever the texts, the lexicon and the labels, what the sections on what
\* survives, the balance of the corrections and the entities count of the same
\* texts adds up (evaluation/correction.py, evaluation/ner.py, the collectors
\* of evaluation/views).
THEOREM BalancesAreKept == ResultsSpec => []BalancesAddUp
<1>1. ResultsInv => BalancesAddUp
  BY RestitutionHolds, CorrectionHolds, EntitiesHold DEF ResultsInv, BalancesAddUp
<1>. QED  BY <1>1, ResultsAreKept, PTL

=============================================================================
