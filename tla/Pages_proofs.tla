----------------------------- MODULE Pages_proofs -----------------------------
(***************************************************************************)
(* Proofs about the pages.  The history page, for any number of runs and   *)
(* any values: what it shows was read in the order of the runs, and the    *)
(* change point that pettitt finds by updating U at each boundary is the   *)
(* first of those that separate the series the most, by the definition of  *)
(* U.  The browser of a report, for any number of engines and documents    *)
(* and any size of a page of the gallery: the detail is the one asked for  *)
(* and what is selected is what is shown.                                  *)
(***************************************************************************)
EXTENDS Pages, Ranks_proofs

-----------------------------------------------------------------------------
(* The order of the runs.                                                  *)

\* A run has one row, of when it completed and of a number.
RowsFit ==
  /\ DOMAIN rows \subseteq HistoryRuns
  /\ \A r \in DOMAIN rows : rows[r].stamp \in 1 .. MaxStamp /\ rows[r].value \in Int

InOrder(runs) == \A j, k \in DOMAIN runs : j < k => Earlier(runs[j], runs[k])

\* The rows are totally ordered by ORDER BY completed_at, run_id.
LEMMA EarlierOrders ==
  ASSUME RowsFit, NEW r \in DOMAIN rows, NEW s \in DOMAIN rows
  PROVE  /\ r \in Nat /\ rows[r].stamp \in Nat /\ rows[r].value \in Int
         /\ r <= MaxRuns /\ rows[r].stamp <= MaxStamp
         /\ Earlier(r, s) \/ r = s \/ Earlier(s, r)
         /\ ~(Earlier(r, s) /\ Earlier(s, r))
         /\ \A t \in DOMAIN rows : Earlier(r, s) /\ Earlier(s, t) => Earlier(r, t)
<1>1. \A t \in DOMAIN rows : t \in 1 .. MaxRuns /\ rows[t].stamp \in 1 .. MaxStamp
  BY DEF RowsFit, HistoryRuns
<1>2. \A t \in DOMAIN rows : t \in Nat /\ rows[t].stamp \in Nat /\ t <= MaxRuns
                             /\ rows[t].stamp <= MaxStamp
  BY <1>1, HistoryAssumption
<1>3. rows[r].value \in Int
  BY DEF RowsFit
<1>. QED
  BY <1>2, <1>3 DEF Earlier

\* Among some rows, one comes last.
LEMMA SomeRunIsLast ==
  ASSUME RowsFit, NEW D, D \subseteq DOMAIN rows, D # {}
  PROVE  \E x \in D : \A y \in D \ {x} : Earlier(y, x)
<1>. DEFINE Ages == {n \in Nat : \E r \in D : n = MaxStamp - rows[r].stamp}
<1>1. \A r \in D : /\ r \in Nat /\ rows[r].stamp \in Nat
                   /\ r <= MaxRuns /\ rows[r].stamp <= MaxStamp
  BY EarlierOrders
<1>2. PICK r0 \in D : TRUE
  OBVIOUS
<1>3. MaxStamp - rows[r0].stamp \in Ages
  BY <1>1, HistoryAssumption
<1>4. PICK n \in Ages : \A m \in Ages : n <= m
  BY <1>3, LeastNat
<1>5. PICK q \in D : n = MaxStamp - rows[q].stamp
  BY <1>4
<1>6. \A r \in D : MaxStamp - rows[r].stamp \in Ages
  BY <1>1, HistoryAssumption
<1>7. \A r \in D : rows[r].stamp <= rows[q].stamp
  BY <1>1, <1>4, <1>5, <1>6, HistoryAssumption
<1>. DEFINE Places == {m \in Nat : \E r \in D : rows[r].stamp = rows[q].stamp /\ m = MaxRuns - r}
<1>8. \A r \in D : rows[r].stamp = rows[q].stamp => MaxRuns - r \in Places
  BY <1>1, HistoryAssumption
<1>9. PICK m \in Places : \A l \in Places : m <= l
  BY <1>5, <1>8, LeastNat
<1>10. PICK x \in D : rows[x].stamp = rows[q].stamp /\ m = MaxRuns - x
  BY <1>9
<1>11. \A y \in D : rows[y].stamp = rows[q].stamp => y <= x
  BY <1>1, <1>8, <1>9, <1>10, HistoryAssumption
<1>12. \A y \in D \ {x} : Earlier(y, x)
  BY <1>1, <1>7, <1>10, <1>11 DEF Earlier
<1>. QED
  BY <1>12

\* Some rows can be put in order.
LEMMA SortedRunsExist ==
  ASSUME RowsFit, NEW D, D \subseteq DOMAIN rows, IsFiniteSet(D)
  PROVE  \E runs \in [1 .. Cardinality(D) -> D] : InOrder(runs)
<1>. DEFINE Sorts(E) == \E runs \in [1 .. Cardinality(E) -> E] : InOrder(runs)
            Failing == {n \in Nat : \E E \in SUBSET D : Cardinality(E) = n /\ ~Sorts(E)}
<1>0. \A E \in SUBSET D : IsFiniteSet(E) /\ Cardinality(E) \in Nat
  BY FS_Subset, FS_CardinalityType
<1>1. SUFFICES ASSUME Failing # {} PROVE FALSE
  <2>1. Failing = {} => Sorts(D)
    BY <1>0
  <2>. QED
    BY <1>1, <2>1
<1>2. PICK n \in Failing : \A m \in Failing : n <= m
  BY <1>1, LeastNat
<1>3. PICK E \in SUBSET D : Cardinality(E) = n /\ ~Sorts(E)
  BY <1>2
<1>4. E # {}
  <2>1. SUFFICES ASSUME E = {} PROVE FALSE
    OBVIOUS
  <2>2. Cardinality(E) = 0
    BY <2>1, FS_EmptySet
  <2>3. 1 .. Cardinality(E) = {}
    BY <2>2
  <2>. DEFINE none == [k \in 1 .. Cardinality(E) |-> 0]
  <2>4. none \in [1 .. Cardinality(E) -> E] /\ DOMAIN none = {}
    BY <2>3
  <2>5. InOrder(none)
    BY <2>4 DEF InOrder
  <2>. QED
    BY <1>3, <2>4, <2>5
<1>5. PICK x \in E : \A y \in E \ {x} : Earlier(y, x)
  BY <1>4, SomeRunIsLast
<1>. DEFINE F == E \ {x}
<1>6. n \in Nat /\ Cardinality(F) = n - 1 /\ Cardinality(F) \in Nat /\ F \in SUBSET D
  <2>1. IsFiniteSet(E) /\ Cardinality(E) \in Nat /\ F \in SUBSET D
    BY <1>0
  <2>2. Cardinality(F) = Cardinality(E) - 1
    BY <2>1, FS_RemoveElement
  <2>. QED
    BY <1>0, <1>3, <2>1, <2>2
<1>7. Sorts(F)
  <2>1. SUFFICES ASSUME ~Sorts(F) PROVE FALSE
    OBVIOUS
  <2>2. Cardinality(F) \in Failing
    BY <2>1, <1>6
  <2>3. n <= Cardinality(F)
    BY <2>2, <1>2
  <2>. HIDE DEF F, Failing
  <2>. QED
    BY <2>3, <1>6
<1>8. PICK runs \in [1 .. Cardinality(F) -> F] : InOrder(runs)
  BY <1>7
<1>. DEFINE longer == [k \in 1 .. n |-> IF k = n THEN x ELSE runs[k]]
<1>9. \A k \in 1 .. n : k # n => k \in 1 .. Cardinality(F)
  BY <1>6
<1>10. longer \in [1 .. Cardinality(E) -> E]
  BY <1>3, <1>8, <1>9
<1>11. ASSUME NEW j \in 1 .. n, NEW k \in 1 .. n, j < k
       PROVE  Earlier(longer[j], longer[k])
  <2>0. j # n /\ j \in 1 .. Cardinality(F)
    <3>. HIDE DEF F
    <3>1. j # n
      BY <1>6, <1>11
    <3>. QED
      BY <3>1, <1>9
  <2>1. j # n /\ j \in 1 .. Cardinality(F) /\ longer[j] = runs[j] /\ runs[j] \in F
    <3>. HIDE DEF F
    <3>. QED
      BY <2>0, <1>8
  <2>2. CASE k = n
    BY <2>1, <2>2, <1>5
  <2>3. CASE k # n
    <3>1. k \in 1 .. Cardinality(F) /\ longer[k] = runs[k]
      BY <1>9, <2>3
    <3>. QED
      BY <2>1, <3>1, <1>8, <1>11 DEF InOrder
  <2>. QED
    BY <2>2, <2>3
<1>12. InOrder(longer)
  <2>1. DOMAIN longer = 1 .. n
    OBVIOUS
  <2>. HIDE DEF longer
  <2>. QED
    BY <1>11, <2>1 DEF InOrder
<1>. QED
  BY <1>3, <1>10, <1>12

\* RunsInOrder gives each row once, in order.
LEMMA RunsAreInOrder ==
  ASSUME RowsFit
  PROVE  LET n == Cardinality(DOMAIN rows)
         IN  /\ n \in Nat
             /\ RunsInOrder \in [1 .. n -> DOMAIN rows]
             /\ InOrder(RunsInOrder)
             /\ Series \in [1 .. n -> Int]
             /\ \A k \in 1 .. n : Series[k] = rows[RunsInOrder[k]].value
             /\ \A r \in DOMAIN rows : \E k \in 1 .. n : RunsInOrder[k] = r
<1>. DEFINE n == Cardinality(DOMAIN rows)
<1>1. IsFiniteSet(DOMAIN rows) /\ n \in Nat
  <2>1. IsFiniteSet(HistoryRuns)
    BY FS_Interval, HistoryAssumption DEF HistoryRuns
  <2>2. IsFiniteSet(DOMAIN rows)
    BY <2>1, FS_Subset DEF RowsFit
  <2>. QED
    BY <2>2, FS_CardinalityType
<1>2. RunsInOrder \in [1 .. n -> DOMAIN rows] /\ InOrder(RunsInOrder)
  <2>1. \E runs \in [1 .. n -> DOMAIN rows] : InOrder(runs)
    BY <1>1, SortedRunsExist
  <2>. QED
    BY <2>1 DEF InOrder, RunsInOrder
<1>3. DOMAIN RunsInOrder = 1 .. n
  BY <1>2
<1>4. Series \in [1 .. n -> Int] /\ \A k \in 1 .. n : Series[k] = rows[RunsInOrder[k]].value
  BY <1>2, <1>3 DEF Series, RowsFit
<1>5. ASSUME NEW j \in 1 .. n, NEW k \in 1 .. n, RunsInOrder[j] = RunsInOrder[k]
      PROVE  j = k
  <2>1. RunsInOrder[j] \in DOMAIN rows
    BY <1>2
  <2>2. ~Earlier(RunsInOrder[j], RunsInOrder[j])
    BY <2>1, EarlierOrders
  <2>3. ~(j < k) /\ ~(k < j)
    BY <1>2, <1>3, <1>5, <2>2 DEF InOrder
  <2>. QED
    BY <2>3, <1>1
<1>6. RunsInOrder \in Surjection(1 .. n, DOMAIN rows)
  <2>1. RunsInOrder \in Injection(1 .. n, DOMAIN rows)
    BY <1>2, <1>5 DEF Injection, IsInjective
  <2>2. Cardinality(1 .. n) = n
    BY <1>1, FS_Interval
  <2>. QED
    BY <2>1, <2>2, <1>1, FS_Injection
<1>7. \A r \in DOMAIN rows : \E k \in 1 .. n : RunsInOrder[k] = r
  BY <1>6 DEF Surjection
<1>. QED
  BY <1>1, <1>2, <1>4, <1>7

-----------------------------------------------------------------------------
(* The sums of signs.                                                      *)

\* Elements of two sets that have none in common are counted separately.
LEMMA CountsAdd ==
  ASSUME NEW S, NEW T, IsFiniteSet(S), IsFiniteSet(T), S \cap T = {}
  PROVE  /\ Cardinality(S) \in Nat /\ Cardinality(T) \in Nat
         /\ Cardinality(S \cup T) = Cardinality(S) + Cardinality(T)
<1>1. Cardinality(S \cap T) = 0
  BY FS_EmptySet
<1>2. Cardinality(S) \in Nat /\ Cardinality(T) \in Nat
  BY FS_CardinalityType
<1>3. Cardinality(S \cup T) = Cardinality(S) + Cardinality(T) - Cardinality(S \cap T)
  BY FS_Union
<1>. QED
  BY <1>1, <1>2, <1>3

\* The pairs of a sum, those that rise and those that fall.
Rising(values, before, after) == {p \in before \X after : values[p[2]] > values[p[1]]}
Falling(values, before, after) == {p \in before \X after : values[p[2]] < values[p[1]]}

\* U counts finitely many pairs: it is how many rise less how many fall.
LEMMA PairsAreFinite ==
  ASSUME NEW values, NEW before, NEW after, IsFiniteSet(before), IsFiniteSet(after)
  PROVE  /\ IsFiniteSet(Rising(values, before, after))
         /\ IsFiniteSet(Falling(values, before, after))
         /\ SumOfSigns(values, before, after) =
              Cardinality(Rising(values, before, after)) - Cardinality(Falling(values, before, after))
         /\ SumOfSigns(values, before, after) \in Int
<1>1. IsFiniteSet(before \X after)
  BY FS_Product
<1>2. Rising(values, before, after) \in SUBSET (before \X after)
      /\ Falling(values, before, after) \in SUBSET (before \X after)
  BY DEF Rising, Falling
<1>3. IsFiniteSet(Rising(values, before, after)) /\ IsFiniteSet(Falling(values, before, after))
  BY <1>1, <1>2, FS_Subset
<1>4. SumOfSigns(values, before, after) =
        Cardinality(Rising(values, before, after)) - Cardinality(Falling(values, before, after))
  BY DEF SumOfSigns, Rising, Falling
<1>5. /\ Cardinality(Rising(values, before, after)) \in Nat
      /\ Cardinality(Falling(values, before, after)) \in Nat
  BY <1>3, FS_CardinalityType
<1>. QED
  BY <1>3, <1>4, <1>5

\* A sum splits where the values before it, or those after it, do.
LEMMA SumsSplit ==
  ASSUME NEW values, NEW S, NEW T, NEW J,
         IsFiniteSet(S), IsFiniteSet(T), IsFiniteSet(J), S \cap T = {}
  PROVE  /\ SumOfSigns(values, S \cup T, J) = SumOfSigns(values, S, J) + SumOfSigns(values, T, J)
         /\ SumOfSigns(values, J, S \cup T) = SumOfSigns(values, J, S) + SumOfSigns(values, J, T)
<1>1. /\ Rising(values, S \cup T, J) = Rising(values, S, J) \cup Rising(values, T, J)
      /\ Falling(values, S \cup T, J) = Falling(values, S, J) \cup Falling(values, T, J)
      /\ Rising(values, J, S \cup T) = Rising(values, J, S) \cup Rising(values, J, T)
      /\ Falling(values, J, S \cup T) = Falling(values, J, S) \cup Falling(values, J, T)
  BY DEF Rising, Falling
<1>2. /\ Rising(values, S, J) \cap Rising(values, T, J) = {}
      /\ Falling(values, S, J) \cap Falling(values, T, J) = {}
      /\ Rising(values, J, S) \cap Rising(values, J, T) = {}
      /\ Falling(values, J, S) \cap Falling(values, J, T) = {}
  BY DEF Rising, Falling
<1>3. /\ IsFiniteSet(Rising(values, S, J)) /\ IsFiniteSet(Falling(values, S, J))
      /\ IsFiniteSet(Rising(values, T, J)) /\ IsFiniteSet(Falling(values, T, J))
      /\ SumOfSigns(values, S, J) = Cardinality(Rising(values, S, J)) - Cardinality(Falling(values, S, J))
      /\ SumOfSigns(values, T, J) = Cardinality(Rising(values, T, J)) - Cardinality(Falling(values, T, J))
  BY PairsAreFinite
<1>4. /\ IsFiniteSet(Rising(values, J, S)) /\ IsFiniteSet(Falling(values, J, S))
      /\ IsFiniteSet(Rising(values, J, T)) /\ IsFiniteSet(Falling(values, J, T))
      /\ SumOfSigns(values, J, S) = Cardinality(Rising(values, J, S)) - Cardinality(Falling(values, J, S))
      /\ SumOfSigns(values, J, T) = Cardinality(Rising(values, J, T)) - Cardinality(Falling(values, J, T))
  BY PairsAreFinite
<1>5. IsFiniteSet(S \cup T)
  BY FS_Union
<1>6. /\ SumOfSigns(values, S \cup T, J) =
           Cardinality(Rising(values, S \cup T, J)) - Cardinality(Falling(values, S \cup T, J))
      /\ SumOfSigns(values, J, S \cup T) =
           Cardinality(Rising(values, J, S \cup T)) - Cardinality(Falling(values, J, S \cup T))
  BY <1>5, PairsAreFinite
<1>7. /\ Cardinality(Rising(values, S \cup T, J)) =
           Cardinality(Rising(values, S, J)) + Cardinality(Rising(values, T, J))
      /\ Cardinality(Rising(values, S, J)) \in Nat /\ Cardinality(Rising(values, T, J)) \in Nat
  BY <1>1, <1>2, <1>3, CountsAdd
<1>8. /\ Cardinality(Falling(values, S \cup T, J)) =
           Cardinality(Falling(values, S, J)) + Cardinality(Falling(values, T, J))
      /\ Cardinality(Falling(values, S, J)) \in Nat /\ Cardinality(Falling(values, T, J)) \in Nat
  BY <1>1, <1>2, <1>3, CountsAdd
<1>9. /\ Cardinality(Rising(values, J, S \cup T)) =
           Cardinality(Rising(values, J, S)) + Cardinality(Rising(values, J, T))
      /\ Cardinality(Rising(values, J, S)) \in Nat /\ Cardinality(Rising(values, J, T)) \in Nat
  BY <1>1, <1>2, <1>4, CountsAdd
<1>10. /\ Cardinality(Falling(values, J, S \cup T)) =
            Cardinality(Falling(values, J, S)) + Cardinality(Falling(values, J, T))
       /\ Cardinality(Falling(values, J, S)) \in Nat /\ Cardinality(Falling(values, J, T)) \in Nat
  BY <1>1, <1>2, <1>4, CountsAdd
<1>11. SumOfSigns(values, S \cup T, J) = SumOfSigns(values, S, J) + SumOfSigns(values, T, J)
  BY <1>3, <1>6, <1>7, <1>8
<1>12. SumOfSigns(values, J, S \cup T) = SumOfSigns(values, J, S) + SumOfSigns(values, J, T)
  BY <1>4, <1>6, <1>9, <1>10
<1>. QED
  BY <1>11, <1>12

\* Its part about the values after, on its own.
LEMMA SumsSplitAfter ==
  ASSUME NEW values, NEW S, NEW T, NEW J,
         IsFiniteSet(S), IsFiniteSet(T), IsFiniteSet(J), S \cap T = {}
  PROVE  SumOfSigns(values, J, S \cup T) = SumOfSigns(values, J, S) + SumOfSigns(values, J, T)
BY SumsSplit

\* The boundaries of a series of at least two values.
Boundaries(values) == 1 .. Len(values) - 1

\* U and its magnitude are integers at every boundary of a series of integers.
LEMMA UIsAnInteger ==
  ASSUME NEW values \in Seq(Int), NEW t \in Boundaries(values)
  PROVE  t \in Nat /\ U(values, t) \in Int /\ Abs(U(values, t)) \in Nat
<1>1. Len(values) \in Nat
  OBVIOUS
<1>2. t \in Nat
  BY <1>1 DEF Boundaries
<1>3. IsFiniteSet(1 .. t) /\ IsFiniteSet(t + 1 .. Len(values))
  BY <1>1, <1>2, FS_Interval
<1>4. U(values, t) \in Int
  BY <1>3, PairsAreFinite DEF U
<1>. QED
  BY <1>2, <1>4 DEF Abs

\* The correction of U for the value that changes sides is that of its
\* definition.
LEMMA MovedIsU ==
  ASSUME NEW values \in Seq(Int), NEW t \in Boundaries(values), t # 1
  PROVE  /\ t - 1 \in Boundaries(values)
         /\ U(values, t) = Moved(U(values, t - 1), values, t)
<1>. DEFINE n == Len(values)
            before == 1 .. t - 1
            after == t + 1 .. n
<1>1. n \in Nat /\ t \in Nat /\ t >= 2 /\ t <= n - 1
  BY DEF Boundaries
<1>2. t - 1 \in Boundaries(values)
  BY <1>1 DEF Boundaries
<1>3. IsFiniteSet(before) /\ IsFiniteSet(after) /\ IsFiniteSet({t}) /\ IsFiniteSet(t .. n)
  <2>1. t - 1 \in Int /\ t + 1 \in Int
    BY <1>1
  <2>2. IsFiniteSet(before) /\ IsFiniteSet(after) /\ IsFiniteSet(t .. n)
    BY <1>1, <2>1, FS_Interval
  <2>3. IsFiniteSet({t})
    BY FS_Singleton
  <2>. QED
    BY <2>2, <2>3
<1>4. /\ 1 .. t = before \cup {t} /\ before \cap {t} = {}
      /\ t .. n = {t} \cup after /\ {t} \cap after = {}
      /\ t - 1 + 1 = t
  BY <1>1
<1>5. U(values, t) = SumOfSigns(values, before, after) + SumOfSigns(values, {t}, after)
  <2>1. U(values, t) = SumOfSigns(values, before \cup {t}, after)
    BY <1>4 DEF U
  <2>. HIDE DEF before, after
  <2>. QED
    BY <2>1, <1>3, <1>4, SumsSplit
<1>6. U(values, t - 1) = SumOfSigns(values, before, {t}) + SumOfSigns(values, before, after)
  <2>1. U(values, t - 1) = SumOfSigns(values, before, {t} \cup after)
    BY <1>4 DEF U
  <2>. HIDE DEF before, after
  <2>2. SumOfSigns(values, before, {t} \cup after) =
          SumOfSigns(values, before, {t}) + SumOfSigns(values, before, after)
    <3>1. IsFiniteSet({t}) /\ IsFiniteSet(before) /\ IsFiniteSet(after) /\ {t} \cap after = {}
      BY <1>3, <1>4
    <3>. QED
      BY <3>1, SumsSplitAfter
  <2>. QED
    BY <2>1, <2>2
<1>7. /\ SumOfSigns(values, before, after) \in Int
      /\ SumOfSigns(values, before, {t}) \in Int
      /\ SumOfSigns(values, {t}, after) \in Int
  <2>. HIDE DEF before, after
  <2>. QED
    BY <1>3, PairsAreFinite
<1>8. Moved(U(values, t - 1), values, t) =
        U(values, t - 1) - SumOfSigns(values, before, {t}) + SumOfSigns(values, {t}, after)
  BY DEF Moved
<1>. HIDE DEF before, after
<1>9. U(values, t) = Moved(U(values, t - 1), values, t)
  BY <1>5, <1>6, <1>7, <1>8
<1>. QED
  BY <1>2, <1>9

-----------------------------------------------------------------------------
(* The scan of the boundaries.                                             *)

\* The boundary b is the first, of those up to t, of the largest |U|.
IsFirst(values, t, b) ==
  /\ b \in 1 .. t
  /\ \A s \in 1 .. t : /\ Abs(U(values, s)) <= Abs(U(values, b))
                       /\ s < b => Abs(U(values, s)) < Abs(U(values, b))

\* It is unique.
LEMMA FirstIsUnique ==
  ASSUME NEW values \in Seq(Int), NEW t \in Boundaries(values), NEW b, NEW c,
         IsFirst(values, t, b), IsFirst(values, t, c)
  PROVE  b = c
<1>1. t \in Nat /\ t \in 1 .. Len(values) - 1 /\ Len(values) \in Nat
  BY UIsAnInteger DEF Boundaries
<1>2. b \in 1 .. t /\ c \in 1 .. t
  BY DEF IsFirst
<1>3. b \in Boundaries(values) /\ c \in Boundaries(values)
  BY <1>1, <1>2 DEF Boundaries
<1>4. /\ b \in Nat /\ c \in Nat
      /\ Abs(U(values, b)) \in Nat /\ Abs(U(values, c)) \in Nat
  BY <1>3, UIsAnInteger
<1>5. /\ Abs(U(values, b)) <= Abs(U(values, c)) /\ (b < c => Abs(U(values, b)) < Abs(U(values, c)))
      /\ Abs(U(values, c)) <= Abs(U(values, b)) /\ (c < b => Abs(U(values, c)) < Abs(U(values, b)))
  BY <1>2 DEF IsFirst
<1>. QED
  BY <1>4, <1>5

\* The comparison of the loop keeps it.
LEMMA FirstOfOneMore ==
  ASSUME NEW values \in Seq(Int), NEW t \in Boundaries(values), t # 1,
         NEW b, IsFirst(values, t - 1, b)
  PROVE  IsFirst(values, t, IF Abs(U(values, t)) > Abs(U(values, b)) THEN t ELSE b)
<1>1. t \in Nat /\ t >= 2 /\ t <= Len(values) - 1 /\ Len(values) \in Nat
  BY UIsAnInteger DEF Boundaries
<1>2. b \in 1 .. t - 1
  BY DEF IsFirst
<1>3. \A s \in 1 .. t : s \in Nat /\ Abs(U(values, s)) \in Nat
  <2>1. \A s \in 1 .. t : s \in Boundaries(values)
    BY <1>1 DEF Boundaries
  <2>. QED
    BY <2>1, UIsAnInteger
<1>4. \A s \in 1 .. t : s = t \/ s \in 1 .. t - 1
  BY <1>1
<1>5. \A s \in 1 .. t - 1 : /\ Abs(U(values, s)) <= Abs(U(values, b))
                            /\ s < b => Abs(U(values, s)) < Abs(U(values, b))
  BY DEF IsFirst
<1>6. b \in 1 .. t /\ b \in Nat /\ b < t /\ t \in 1 .. t
  BY <1>1, <1>2
<1>7. CASE Abs(U(values, t)) > Abs(U(values, b))
  <2>1. \A s \in 1 .. t - 1 : Abs(U(values, s)) < Abs(U(values, t))
    BY <1>3, <1>5, <1>6, <1>7, <1>1
  <2>2. \A s \in 1 .. t : /\ Abs(U(values, s)) <= Abs(U(values, t))
                          /\ s < t => Abs(U(values, s)) < Abs(U(values, t))
    BY <2>1, <1>3, <1>4, <1>6
  <2>. QED
    BY <2>2, <1>6, <1>7 DEF IsFirst
<1>8. CASE ~(Abs(U(values, t)) > Abs(U(values, b)))
  <2>1. Abs(U(values, t)) <= Abs(U(values, b))
    BY <1>3, <1>6, <1>8
  <2>2. \A s \in 1 .. t : /\ Abs(U(values, s)) <= Abs(U(values, b))
                          /\ s < b => Abs(U(values, s)) < Abs(U(values, b))
    BY <2>1, <1>4, <1>5, <1>6
  <2>. QED
    BY <2>2, <1>6, <1>8 DEF IsFirst
<1>. QED
  BY <1>7, <1>8

\* Every boundary has one.
LEMMA FirstExists ==
  ASSUME NEW values \in Seq(Int), NEW t \in Boundaries(values)
  PROVE  \E b : IsFirst(values, t, b)
<1>. DEFINE Without == {s \in Boundaries(values) : ~ \E b : IsFirst(values, s, b)}
<1>1. SUFFICES ASSUME Without # {} PROVE FALSE
  OBVIOUS
<1>2. Boundaries(values) \subseteq Nat
  BY UIsAnInteger
<1>3. PICK s \in Without : \A r \in Without : s <= r
  BY <1>1, <1>2, LeastNat
<1>4. s \in Boundaries(values) /\ s \in Nat
  BY <1>2, <1>3
<1>5. CASE s = 1
  <2>1. Abs(U(values, 1)) \in Nat
    BY <1>4, <1>5, UIsAnInteger
  <2>2. IsFirst(values, 1, 1)
    BY <2>1 DEF IsFirst
  <2>. QED
    BY <2>2, <1>3, <1>5
<1>6. CASE s # 1
  <2>1. s - 1 \in Boundaries(values)
    BY <1>4, <1>6, MovedIsU
  <2>2. s - 1 \notin Without
    <3>1. SUFFICES ASSUME s - 1 \in Without PROVE FALSE
      OBVIOUS
    <3>2. s <= s - 1
      BY <3>1, <1>3
    <3>. QED
      BY <3>2, <1>4
  <2>3. PICK b : IsFirst(values, s - 1, b)
    BY <2>1, <2>2
  <2>4. IsFirst(values, s, IF Abs(U(values, s)) > Abs(U(values, b)) THEN s ELSE b)
    BY <2>3, <1>4, <1>6, FirstOfOneMore
  <2>. QED
    BY <2>4, <1>3
<1>. QED
  BY <1>5, <1>6

\* What the scan has at each boundary, by the definition of U.
FirstOf(values, t) == CHOOSE b : IsFirst(values, t, b)
Scanned(values, t) ==
  [u |-> U(values, t), best |-> [u |-> U(values, FirstOf(values, t)), boundary |-> FirstOf(values, t)]]

\* One turn of the loop.
Turn(values, t, state) ==
  LET u == Moved(state.u, values, t)
  IN  [u |-> u, best |-> Better(state.best, u, t)]
FirstTurn(values) ==
  [u |-> FirstU(values), best |-> [u |-> FirstU(values), boundary |-> 1]]

\* The chosen first boundary of largest |U| up to t is one.
LEMMA FirstOfIsFirst ==
  ASSUME NEW values \in Seq(Int), NEW t \in Boundaries(values)
  PROVE  IsFirst(values, t, FirstOf(values, t))
BY FirstExists DEF FirstOf

\* The loop starts with U at the first boundary, and goes from what it has at
\* a boundary to what it has at the next one.
LEMMA TurnsFollow ==
  ASSUME NEW values \in Seq(Int), NEW t \in Boundaries(values)
  PROVE  Scanned(values, t) = IF t = 1 THEN FirstTurn(values)
                              ELSE Turn(values, t, Scanned(values, t - 1))
<1>1. CASE t = 1
  <2>1. U(values, 1) = FirstU(values)
    <3>1. 1 .. 1 = {1} /\ 1 + 1 = 2
      OBVIOUS
    <3>. QED
      BY <3>1 DEF U, FirstU
  <2>2. FirstOf(values, t) = 1
    <3>1. FirstOf(values, t) \in 1 .. 1
      BY <1>1, FirstOfIsFirst DEF IsFirst
    <3>. QED
      BY <3>1
  <2>. QED
    BY <1>1, <2>1, <2>2 DEF Scanned, FirstTurn
<1>2. CASE t # 1
  <2>. DEFINE b == FirstOf(values, t - 1)
              c == IF Abs(U(values, t)) > Abs(U(values, b)) THEN t ELSE b
              old == [u |-> U(values, b), boundary |-> b]
  <2>1. t - 1 \in Boundaries(values) /\ U(values, t) = Moved(U(values, t - 1), values, t)
    BY <1>2, MovedIsU
  <2>2. IsFirst(values, t - 1, b)
    BY <2>1, FirstOfIsFirst
  <2>3. IsFirst(values, t, c)
    BY <1>2, <2>2, FirstOfOneMore
  <2>4. IsFirst(values, t, FirstOf(values, t))
    BY FirstOfIsFirst
  <2>5. FirstOf(values, t) = c
    BY <2>3, <2>4, FirstIsUnique
  <2>6. Better(old, U(values, t), t) = [u |-> U(values, c), boundary |-> c]
    <3>1. old.u = U(values, b)
      OBVIOUS
    <3>2. CASE Abs(U(values, t)) > Abs(U(values, b))
      BY <3>1, <3>2 DEF Better
    <3>3. CASE ~(Abs(U(values, t)) > Abs(U(values, b)))
      BY <3>1, <3>3 DEF Better
    <3>. QED
      BY <3>2, <3>3
  <2>7. /\ Scanned(values, t - 1).u = U(values, t - 1)
        /\ Scanned(values, t - 1).best = old
    BY DEF Scanned
  <2>8. Scanned(values, t) = [u |-> U(values, t), best |-> [u |-> U(values, c), boundary |-> c]]
    BY <2>5 DEF Scanned
  <2>9. Turn(values, t, Scanned(values, t - 1)) =
          [u |-> U(values, t), best |-> Better(old, U(values, t), t)]
    BY <2>1, <2>7 DEF Turn
  <2>. HIDE DEF old, c
  <2>. QED
    BY <1>2, <2>6, <2>8, <2>9
<1>. QED
  BY <1>1, <1>2

\* The recursive function is that of the loop: what the loop has at each
\* boundary is a solution of its equation.
LEMMA ScanTurns ==
  ASSUME NEW values \in Seq(Int)
  PROVE  Scan(values) = [t \in Boundaries(values) |->
                           IF t = 1 THEN FirstTurn(values) ELSE Turn(values, t, Scan(values)[t - 1])]
<1>. DEFINE Follows(scan) ==
              scan = [t \in Boundaries(values) |->
                        IF t = 1 THEN FirstTurn(values) ELSE Turn(values, t, scan[t - 1])]
            solution == [t \in Boundaries(values) |-> Scanned(values, t)]
<1>1. Follows(solution)
  <2>1. ASSUME NEW t \in Boundaries(values), t # 1
        PROVE  solution[t - 1] = Scanned(values, t - 1)
    BY <2>1, MovedIsU
  <2>2. \A t \in Boundaries(values) :
          Scanned(values, t) = IF t = 1 THEN FirstTurn(values) ELSE Turn(values, t, solution[t - 1])
    BY <2>1, TurnsFollow
  <2>. QED
    BY <2>2
<1>2. Scan(values) = CHOOSE scan : Follows(scan)
  BY DEF Scan, Boundaries, Turn, FirstTurn
<1>3. (\E scan : Follows(scan)) => Follows(CHOOSE scan : Follows(scan))
  <2>. HIDE DEF Follows
  <2>. QED
    OBVIOUS
<1>4. Follows(Scan(values))
  BY <1>1, <1>2, <1>3
<1>. QED
  BY <1>4

\* The scan ends with U, and with the first boundary of the largest |U|.
LEMMA ScanIsExact ==
  ASSUME NEW values \in Seq(Int)
  PROVE  \A t \in Boundaries(values) : Scan(values)[t] = Scanned(values, t)
<1>. DEFINE Wrong == {t \in Boundaries(values) : Scan(values)[t] # Scanned(values, t)}
<1>1. SUFFICES ASSUME Wrong # {} PROVE FALSE
  OBVIOUS
<1>2. Boundaries(values) \subseteq Nat
  BY UIsAnInteger
<1>3. PICK t \in Wrong : \A s \in Wrong : t <= s
  BY <1>1, <1>2, LeastNat
<1>4. t \in Boundaries(values) /\ t \in Nat
  BY <1>2, <1>3
<1>5. Scan(values)[t] = IF t = 1 THEN FirstTurn(values) ELSE Turn(values, t, Scan(values)[t - 1])
  BY <1>4, ScanTurns
<1>6. t = 1 \/ Scan(values)[t - 1] = Scanned(values, t - 1)
  <2>1. SUFFICES ASSUME t # 1, Scan(values)[t - 1] # Scanned(values, t - 1) PROVE FALSE
    OBVIOUS
  <2>2. t - 1 \in Wrong
    BY <1>4, <2>1, MovedIsU
  <2>3. t <= t - 1
    BY <1>3, <2>2
  <2>. QED
    BY <1>4, <2>3
<1>7. Scan(values)[t] = Scanned(values, t)
  BY <1>4, <1>5, <1>6, TurnsFollow
<1>. QED
  BY <1>3, <1>7

-----------------------------------------------------------------------------
(* The change point.                                                       *)

\* What the page says of a series.
FirstRupture(runs, values, run) ==
  \E t \in Boundaries(values) :
    /\ run = runs[t + 1]
    /\ U(values, t) # 0
    /\ \A s \in Boundaries(values) :
         /\ Abs(U(values, s)) <= Abs(U(values, t))
         /\ s < t => Abs(U(values, s)) < Abs(U(values, t))

\* A series whose boundaries separate nothing has no change point: p is 1.
LEMMA NothingIsNotSignificant ==
  ASSUME NEW n \in Nat, n >= 2
  PROVE  ~Significant(0, n)
<1>1. n * n \in Nat /\ n * n > 0
  OBVIOUS
<1>2. n * n * n \in Nat
  BY <1>1
<1>. DEFINE m == n * n * n + n * n
<1>3. m \in Nat /\ m > 0
  BY <1>1, <1>2
<1>. HIDE DEF m
<1>4. Surprise * m > 0
  BY <1>3, HistoryAssumption
<1>5. 6000 * 0 * 0 = 0
  OBVIOUS
<1>6. Significant(0, n) => 6000 * 0 * 0 >= Surprise * m
  BY DEF Significant, m
<1>. QED
  BY <1>3, <1>4, <1>5, <1>6, HistoryAssumption

\* The run series_insight names as a rupture follows the first extremal boundary.
LEMMA InsightNamesTheFirstRupture ==
  ASSUME NEW runs, NEW values \in Seq(Int),
         NEW run \in SeriesInsight(runs, values).ruptureRun
  PROVE  FirstRupture(runs, values, run)
<1>. DEFINE n == Len(values)
            last == n - 1
            rupture == Pettitt(values)
<1>1. n \in Nat /\ n >= 2
  BY DEF SeriesInsight
<1>2. /\ Significant(Abs(rupture.u), n)
      /\ run = runs[rupture.boundary + 1]
  BY <1>1 DEF SeriesInsight
<1>3. last \in Boundaries(values) /\ Boundaries(values) = 1 .. last
  BY <1>1 DEF Boundaries
<1>. DEFINE t == FirstOf(values, last)
<1>4. rupture = [u |-> U(values, t), boundary |-> t]
  <2>1. rupture = Scan(values)[last].best
    BY DEF Pettitt
  <2>2. Scan(values)[last] = Scanned(values, last)
    BY <1>3, ScanIsExact
  <2>. QED
    BY <2>1, <2>2 DEF Scanned
<1>5. rupture.u = U(values, t) /\ rupture.boundary = t
  BY <1>4
<1>. HIDE DEF rupture, t, last
<1>6. IsFirst(values, last, t)
  BY <1>3, FirstOfIsFirst DEF t
<1>7. t \in Boundaries(values)
  BY <1>3, <1>6 DEF IsFirst
<1>8. U(values, t) # 0
  <2>1. SUFFICES ASSUME U(values, t) = 0 PROVE FALSE
    OBVIOUS
  <2>2. Abs(rupture.u) = 0
    BY <1>5, <2>1 DEF Abs
  <2>. QED
    BY <1>1, <1>2, <2>2, NothingIsNotSignificant
<1>9. \A s \in Boundaries(values) :
        /\ Abs(U(values, s)) <= Abs(U(values, t))
        /\ s < t => Abs(U(values, s)) < Abs(U(values, t))
  BY <1>3, <1>6 DEF IsFirst
<1>. QED
  BY <1>2, <1>5, <1>7, <1>8, <1>9 DEF FirstRupture

-----------------------------------------------------------------------------
(* The page.                                                               *)

\* The regression it has read is of two rows, in their order, the second
\* worse than the first; both stay, and more may come between and after.
RegressionHolds ==
  page.step \in {"regressions", "done"} =>
    \A r \in page.regression :
      /\ r.previous \in DOMAIN rows /\ r.latest \in DOMAIN rows
      /\ Earlier(r.previous, r.latest)
      /\ r.delta = rows[r.latest].value - rows[r.previous].value
      /\ r.delta > 0

\* The series it shows was read in order.
TrendsHold ==
  page.step = "done" =>
    /\ page.runs \in Seq(DOMAIN rows)
    /\ InOrder(page.runs)

HistoryInv == RowsFit /\ RegressionHolds /\ TrendsHold /\ RuptureIsExtremal

\* No run is recorded at first and nothing is shown.
LEMMA HistoryInv_init == HistoryInit => HistoryInv
<1>. SUFFICES ASSUME HistoryInit PROVE HistoryInv
  OBVIOUS
<1>1. DOMAIN rows = {} /\ page.step = "asked"
  BY DEF HistoryInit
<1>. QED
  BY <1>1 DEF HistoryInv, RowsFit, RegressionHolds, TrendsHold, RuptureIsExtremal

\* A row that is recorded leaves the others, and their order, as they are.
RowsStay ==
  /\ DOMAIN rows \subseteq DOMAIN rows'
  /\ \A r \in DOMAIN rows : rows'[r] = rows[r]

\* Recording a run adds its row and changes no other; the page writes none.
LEMMA RowsOnlyCome ==
  ASSUME RowsFit, [HistoryNext]_historyVars
  PROVE  RowsFit' /\ RowsStay
<1>1. CASE UNCHANGED rows
  BY <1>1 DEF RowsFit, RowsStay
<1>2. CASE RecordRun
  <2>1. CASE UNCHANGED rows
    BY <1>1, <2>1
  <2>2. CASE ~UNCHANGED rows
    <3>1. PICK run \in HistoryRuns \ (DOMAIN rows \cup unsaved) :
            \E stamp \in 1 .. MaxStamp, value \in Values :
              rows' = [r \in DOMAIN rows \cup {run} |->
                         IF r = run THEN [stamp |-> stamp, value |-> value] ELSE rows[r]]
      BY <1>2, <2>2 DEF RecordRun
    <3>2. PICK stamp \in 1 .. MaxStamp, value \in Values :
            rows' = [r \in DOMAIN rows \cup {run} |->
                       IF r = run THEN [stamp |-> stamp, value |-> value] ELSE rows[r]]
      BY <3>1
    <3>3. /\ DOMAIN rows' = DOMAIN rows \cup {run}
          /\ run \notin DOMAIN rows /\ run \in HistoryRuns
          /\ \A r \in DOMAIN rows : rows'[r] = rows[r]
          /\ rows'[run] = [stamp |-> stamp, value |-> value]
      BY <3>2
    <3>4. rows'[run].stamp \in 1 .. MaxStamp /\ rows'[run].value \in Int
      BY <3>3, HistoryAssumption
    <3>. QED
      BY <3>3, <3>4 DEF RowsFit, RowsStay
  <2>. QED
    BY <2>1, <2>2
<1>3. CASE ListSeries \/ ShowRegressions \/ ShowTrends \/ UNCHANGED historyVars
  BY <1>1, <1>3 DEF ListSeries, ShowRegressions, ShowTrends, historyVars
<1>. QED
  BY <1>2, <1>3 DEF HistoryNext

\* Two rows that stay keep their order.
LEMMA OrderStays ==
  ASSUME RowsStay, NEW r \in DOMAIN rows, NEW s \in DOMAIN rows, Earlier(r, s)
  PROVE  Earlier(r, s)'
BY DEF RowsStay, Earlier

\* What is shown of the order follows from what was read.
LEMMA SeriesInOrder ==
  ASSUME NEW runs \in Seq(DOMAIN rows), InOrder(runs)
  PROVE  \A k \in 2 .. Len(runs) : Earlier(runs[k - 1], runs[k])
<1>1. \A k \in 2 .. Len(runs) : k - 1 \in DOMAIN runs /\ k \in DOMAIN runs /\ k - 1 < k
  OBVIOUS
<1>. QED
  BY <1>1 DEF InOrder

\* The three parts of RuptureIsExtremal.
RegressionIsShown ==
  \A r \in page.regression :
    \E j, k \in DOMAIN page.runs :
      /\ j < k /\ page.runs[j] = r.previous /\ page.runs[k] = r.latest
      /\ page.values[k] - page.values[j] = r.delta /\ r.delta > 0

RuptureIsShown ==
  \A run \in page.insight.ruptureRun : FirstRupture(page.runs, page.values, run)

OrderIsShown == \A k \in 2 .. Len(page.runs) : Earlier(page.runs[k - 1], page.runs[k])

\* What is promised of the page, by its parts.
LEMMA PartsOfThePage ==
  RuptureIsExtremal <=> (page.step = "done" => OrderIsShown /\ RuptureIsShown /\ RegressionIsShown)
BY DEF RuptureIsExtremal, OrderIsShown, RuptureIsShown, RegressionIsShown, FirstRupture, Boundaries

\* While runs are recorded, the page stays true.
LEMMA HistoryInv_record ==
  ASSUME HistoryInv, RecordRun, RowsFit', RowsStay
  PROVE  HistoryInv'
<1>1. page' = page
  BY DEF RecordRun
<1>2. RegressionHolds'
  <2>1. SUFFICES ASSUME page.step \in {"regressions", "done"}, NEW r \in page.regression
        PROVE  /\ r.previous \in DOMAIN rows' /\ r.latest \in DOMAIN rows'
               /\ Earlier(r.previous, r.latest)'
               /\ r.delta = rows'[r.latest].value - rows'[r.previous].value
               /\ r.delta > 0
    BY <1>1 DEF RegressionHolds
  <2>2. /\ r.previous \in DOMAIN rows /\ r.latest \in DOMAIN rows
        /\ Earlier(r.previous, r.latest)
        /\ r.delta = rows[r.latest].value - rows[r.previous].value
        /\ r.delta > 0
    BY <2>1 DEF HistoryInv, RegressionHolds
  <2>3. Earlier(r.previous, r.latest)'
    BY <2>2, OrderStays
  <2>. QED
    BY <2>2, <2>3 DEF RowsStay
<1>3. ASSUME page.step = "done"
      PROVE  page.runs \in Seq(DOMAIN rows') /\ InOrder(page.runs)' /\ OrderIsShown'
  <2>1. page.runs \in Seq(DOMAIN rows) /\ InOrder(page.runs) /\ OrderIsShown
    BY <1>3, PartsOfThePage DEF HistoryInv, TrendsHold
  <2>2. page.runs \in Seq(DOMAIN rows')
    BY <2>1 DEF RowsStay
  <2>3. \A k \in DOMAIN page.runs : page.runs[k] \in DOMAIN rows
    BY <2>1
  <2>4. InOrder(page.runs)'
    BY <1>1, <2>1, <2>3, OrderStays DEF InOrder
  <2>5. \A k \in 2 .. Len(page.runs) : k - 1 \in DOMAIN page.runs /\ k \in DOMAIN page.runs
    BY <2>1
  <2>6. OrderIsShown'
    BY <1>1, <2>1, <2>3, <2>5, OrderStays DEF OrderIsShown
  <2>. QED
    BY <2>2, <2>4, <2>6
<1>4. TrendsHold'
  BY <1>1, <1>3 DEF TrendsHold
<1>5. page.step = "done" => RuptureIsShown' /\ RegressionIsShown'
  BY <1>1, PartsOfThePage DEF HistoryInv, RuptureIsShown, RegressionIsShown
<1>6. RuptureIsExtremal'
  <2>1. (page.step = "done" => OrderIsShown /\ RuptureIsShown /\ RegressionIsShown)'
    BY <1>1, <1>3, <1>5
  <2>. QED
    BY <2>1, PartsOfThePage, PTL
<1>. QED
  BY <1>2, <1>4, <1>6 DEF HistoryInv

\* The last two runs, read in order, are a regression if the last is worse.
LEMMA RegressionIsOfTwoRows ==
  ASSUME RowsFit, NEW r \in Regression
  PROVE  /\ r.previous \in DOMAIN rows /\ r.latest \in DOMAIN rows
         /\ Earlier(r.previous, r.latest)
         /\ r.delta = rows[r.latest].value - rows[r.previous].value
         /\ r.delta > 0
<1>. DEFINE n == Cardinality(DOMAIN rows)
<1>1. /\ n \in Nat
      /\ RunsInOrder \in [1 .. n -> DOMAIN rows]
      /\ InOrder(RunsInOrder)
      /\ Series \in [1 .. n -> Int]
      /\ \A k \in 1 .. n : Series[k] = rows[RunsInOrder[k]].value
  BY RunsAreInOrder
<1>. HIDE DEF n
<1>2. Len(Series) = n
  BY <1>1
<1>3. /\ n >= 2 /\ Series[n] - Series[n - 1] > 0
      /\ r = [previous |-> RunsInOrder[n - 1], latest |-> RunsInOrder[n],
              delta |-> Series[n] - Series[n - 1]]
  BY <1>2 DEF Regression
<1>4. n - 1 \in 1 .. n /\ n \in 1 .. n /\ n - 1 < n
  BY <1>1, <1>3
<1>5. Earlier(RunsInOrder[n - 1], RunsInOrder[n])
  BY <1>1, <1>4 DEF InOrder
<1>6. /\ RunsInOrder[n - 1] \in DOMAIN rows /\ RunsInOrder[n] \in DOMAIN rows
      /\ Series[n] = rows[RunsInOrder[n]].value
      /\ Series[n - 1] = rows[RunsInOrder[n - 1]].value
  BY <1>1, <1>4
<1>. QED
  BY <1>3, <1>5, <1>6

\* The step that lists the regressions keeps the invariant.
LEMMA HistoryInv_regressions ==
  ASSUME HistoryInv, ShowRegressions
  PROVE  HistoryInv'
<1>1. /\ rows' = rows /\ page'.step = "regressions" /\ page'.regression = Regression
  BY DEF ShowRegressions
<1>2. RowsFit /\ RowsFit'
  BY <1>1 DEF HistoryInv, RowsFit
<1>3. RegressionHolds'
  BY <1>1, <1>2, RegressionIsOfTwoRows DEF RegressionHolds, Earlier
<1>. QED
  BY <1>1, <1>2, <1>3 DEF HistoryInv, TrendsHold, RuptureIsExtremal

\* The trends are computed from one reading of the rows, which has the two of
\* the regression read before.
LEMMA HistoryInv_trends ==
  ASSUME HistoryInv, ShowTrends
  PROVE  HistoryInv'
<1>. DEFINE n == Cardinality(DOMAIN rows)
<1>1. /\ rows' = rows /\ page.step = "regressions"
      /\ page' = [step |-> "done", regression |-> page.regression,
                  runs |-> RunsInOrder, values |-> Series,
                  insight |-> SeriesInsight(RunsInOrder, Series)]
  BY DEF ShowTrends
<1>2. /\ page'.step = "done" /\ page'.regression = page.regression
      /\ page'.runs = RunsInOrder /\ page'.values = Series
      /\ page'.insight = SeriesInsight(RunsInOrder, Series)
  BY <1>1
<1>3. RowsFit /\ RowsFit' /\ RegressionHolds
  BY <1>1 DEF HistoryInv, RowsFit
<1>4. /\ n \in Nat
      /\ RunsInOrder \in [1 .. n -> DOMAIN rows]
      /\ InOrder(RunsInOrder)
      /\ Series \in [1 .. n -> Int]
      /\ \A k \in 1 .. n : Series[k] = rows[RunsInOrder[k]].value
      /\ \A r \in DOMAIN rows : \E k \in 1 .. n : RunsInOrder[k] = r
  BY <1>3, RunsAreInOrder
<1>. HIDE DEF n
<1>5. RunsInOrder \in Seq(DOMAIN rows) /\ Series \in Seq(Int)
  BY <1>4
<1>6. RegressionHolds'
  BY <1>1, <1>2, <1>3 DEF RegressionHolds, Earlier
<1>7. TrendsHold'
  BY <1>1, <1>2, <1>4, <1>5 DEF TrendsHold, InOrder, Earlier
<1>8. OrderIsShown'
  <2>1. \A k \in 2 .. Len(RunsInOrder) : Earlier(RunsInOrder[k - 1], RunsInOrder[k])
    BY <1>4, <1>5, SeriesInOrder
  <2>. QED
    BY <1>1, <1>2, <2>1 DEF OrderIsShown, Earlier
<1>9. RuptureIsShown'
  <2>1. \A run \in SeriesInsight(RunsInOrder, Series).ruptureRun :
          FirstRupture(RunsInOrder, Series, run)
    BY <1>5, InsightNamesTheFirstRupture
  <2>. QED
    BY <1>2, <2>1 DEF RuptureIsShown, FirstRupture
<1>10. RegressionIsShown'
  <2>1. SUFFICES ASSUME NEW r \in page.regression
        PROVE  \E j, k \in DOMAIN RunsInOrder :
                 /\ j < k /\ RunsInOrder[j] = r.previous /\ RunsInOrder[k] = r.latest
                 /\ Series[k] - Series[j] = r.delta /\ r.delta > 0
    BY <1>2 DEF RegressionIsShown
  <2>2. /\ r.previous \in DOMAIN rows /\ r.latest \in DOMAIN rows
        /\ Earlier(r.previous, r.latest)
        /\ r.delta = rows[r.latest].value - rows[r.previous].value
        /\ r.delta > 0
    BY <1>1, <1>3 DEF RegressionHolds
  <2>3. PICK j \in 1 .. n : RunsInOrder[j] = r.previous
    BY <1>4, <2>2
  <2>4. PICK k \in 1 .. n : RunsInOrder[k] = r.latest
    BY <1>4, <2>2
  <2>5. j < k
    <3>1. ~Earlier(r.latest, r.previous) /\ ~Earlier(r.previous, r.previous)
      BY <1>3, <2>2, EarlierOrders
    <3>2. j # k
      BY <2>2, <2>3, <2>4, <3>1
    <3>3. ~(k < j)
      BY <1>4, <2>3, <2>4, <3>1 DEF InOrder
    <3>. QED
      BY <1>4, <3>2, <3>3
  <2>6. Series[k] - Series[j] = r.delta
    BY <1>4, <2>2, <2>3, <2>4
  <2>7. DOMAIN RunsInOrder = 1 .. n
    BY <1>4
  <2>. QED
    BY <2>2, <2>3, <2>4, <2>5, <2>6, <2>7
<1>11. RuptureIsExtremal'
  BY <1>8, <1>9, <1>10, PartsOfThePage, PTL
<1>. QED
  BY <1>3, <1>6, <1>7, <1>11 DEF HistoryInv

\* Every step, of a run or of the page, keeps the invariant.
LEMMA HistoryInv_step == HistoryInv /\ [HistoryNext]_historyVars => HistoryInv'
<1>. SUFFICES ASSUME HistoryInv, [HistoryNext]_historyVars PROVE HistoryInv'
  OBVIOUS
<1>1. RowsFit' /\ RowsStay
  BY RowsOnlyCome DEF HistoryInv
<1>2. CASE RecordRun
  BY <1>1, <1>2, HistoryInv_record
<1>3. CASE ListSeries
  <2>1. page'.step \in {"empty", "listed"}
    BY <1>3 DEF ListSeries
  <2>. QED
    BY <1>1, <2>1 DEF HistoryInv, RegressionHolds, TrendsHold, RuptureIsExtremal
<1>4. CASE ShowRegressions
  BY <1>4, HistoryInv_regressions
<1>5. CASE ShowTrends
  BY <1>5, HistoryInv_trends
<1>6. CASE UNCHANGED historyVars
  BY <1>6 DEF historyVars, HistoryInv, RowsFit, RegressionHolds, TrendsHold, RuptureIsExtremal,
     InOrder, Earlier
<1>. QED
  BY <1>2, <1>3, <1>4, <1>5, <1>6 DEF HistoryNext

\* The change point a page of the history names is one (longitudinal.py,
\* pettitt; home.py, history): by the definition of U, no boundary of the
\* series separates it more, the run is the first after the earliest such
\* boundary, and U is not zero there; what the page shows is in the order of
\* the runs, and a regression it shows is of two of them, though runs are
\* recorded, in any order, between its three readings.
THEOREM ChangePointsAreExtremal == HistorySpec => []RuptureIsExtremal
<1>1. HistoryInv => RuptureIsExtremal
  BY DEF HistoryInv
<1>. QED
  BY <1>1, HistoryInv_init, HistoryInv_step, PTL DEF HistorySpec

\* The history page stands alone among the pages: whatever is read or clicked
\* in a report, its variables take the steps of RunHistory.
THEOREM HistoryStandsAlone == PagesSpec => HistorySpec
<1>1. PagesInit => HistoryInit
  BY DEF PagesInit
<1>2. [PagesNext]_pagesVars => [HistoryNext]_historyVars
  BY DEF PagesNext, pagesVars, historyVars
<1>. QED
  BY <1>1, <1>2, PTL DEF PagesSpec, HistorySpec

-----------------------------------------------------------------------------
(* Numbers: sums, divisions, and the pages of a list.                      *)

Adds(f, s, n) ==
  /\ f \in [0 .. n -> Int]
  /\ \A i \in 0 .. n : f[i] = IF i = 0 THEN 0 ELSE f[i - 1] + s[i]

\* A sequence of numbers can be added up to any of its places.
LEMMA SumsExist ==
  ASSUME NEW s \in Seq(Int), NEW n \in 0 .. Len(s)
  PROVE  \E f : Adds(f, s, n)
<1>. DEFINE Failing == {m \in 0 .. Len(s) : ~\E f : Adds(f, s, m)}
<1>0. Len(s) \in Nat /\ \A i \in 1 .. Len(s) : s[i] \in Int
  OBVIOUS
<1>. SUFFICES ASSUME Failing # {} PROVE FALSE
  OBVIOUS
<1>1. Failing \subseteq Nat
  BY <1>0
<1>2. PICK m \in Failing : \A l \in Failing : m <= l
  BY <1>1, LeastNat
<1>3. m # 0
  <2>. DEFINE f == [i \in 0 .. 0 |-> 0]
  <2>1. Adds(f, s, 0)
    BY DEF Adds
  <2>. QED  BY <2>1
<1>4. m \in Nat /\ m - 1 \in 0 .. Len(s) /\ m \in 1 .. Len(s)
  BY <1>0, <1>3
<1>5. PICK f : Adds(f, s, m - 1)
  BY <1>0, <1>2, <1>4
<1>. DEFINE g == [i \in 0 .. m |-> IF i = m THEN f[m - 1] + s[m] ELSE f[i]]
<1>6. \A i \in 0 .. m - 1 : f[i] \in Int /\ f[i] = IF i = 0 THEN 0 ELSE f[i - 1] + s[i]
  BY <1>5 DEF Adds
<1>7. \A i \in 0 .. m : g[i] \in Int
  BY <1>0, <1>4, <1>6
<1>8. \A i \in 0 .. m : g[i] = IF i = 0 THEN 0 ELSE g[i - 1] + s[i]
  BY <1>3, <1>4, <1>6
<1>9. Adds(g, s, m)
  BY <1>7, <1>8 DEF Adds
<1>. QED  BY <1>2, <1>9

\* The sum of numbers is a number.
LEMMA SumIsInt ==
  ASSUME NEW s \in Seq(Int)
  PROVE  SumSeq(s) \in Int
<1>. DEFINE Solves(f) == f = [i \in 0 .. Len(s) |-> IF i = 0 THEN 0 ELSE f[i - 1] + s[i]]
<1>1. SumSeq(s) = (CHOOSE f : Solves(f))[Len(s)]
  BY DEF SumSeq
<1>2. Len(s) \in Nat
  OBVIOUS
<1>3. PICK f : Adds(f, s, Len(s))
  BY <1>2, SumsExist
<1>4. Solves(f)
  BY <1>3 DEF Adds
<1>5. Solves(CHOOSE h : Solves(h))
  BY <1>4, Zenon
<1>6. PICK g : g = (CHOOSE h : Solves(h)) /\ Solves(g)
  BY <1>5
<1>7. \A i \in 0 .. Len(s) : g[i] = f[i]
  <2>. DEFINE Failing == {i \in 0 .. Len(s) : g[i] # f[i]}
  <2>1. SUFFICES ASSUME Failing # {} PROVE FALSE
    OBVIOUS
  <2>2. Failing \subseteq Nat
    BY <1>2
  <2>3. PICK i \in Failing : \A j \in Failing : i <= j
    BY <2>1, <2>2, LeastNat
  <2>4. /\ g[i] = IF i = 0 THEN 0 ELSE g[i - 1] + s[i]
        /\ f[i] = IF i = 0 THEN 0 ELSE f[i - 1] + s[i]
    BY <1>3, <1>6, <2>3 DEF Adds
  <2>5. i \in Nat /\ (i # 0 => i - 1 \in 0 .. Len(s) /\ ~(i <= i - 1))
    BY <1>2, <2>3
  <2>6. i # 0 => g[i - 1] = f[i - 1]
    BY <2>3, <2>5
  <2>. QED  BY <2>3, <2>4, <2>6
<1>8. f[Len(s)] \in Int
  BY <1>2, <1>3 DEF Adds
<1>. QED  BY <1>1, <1>2, <1>6, <1>7, <1>8

\* What a sequence has at some of its places is a sequence.
LEMMA AtPlacesIsSequence ==
  ASSUME NEW T, NEW s, NEW m \in Nat, NEW K \in SUBSET (1 .. m), \A i \in K : s[i] \in T
  PROVE  AtPlaces(s, K) \in Seq(T) /\ Len(AtPlaces(s, K)) = Cardinality(K)
<1>1. K \subseteq Nat /\ IsFiniteSet(K) /\ Cardinality(K) \in Nat
  BY PlacesOfSequence
<1>2. \A n \in 1 .. Cardinality(K) : Nth(K, n) \in K
  BY <1>1, NthOfPlaces
<1>3. AtPlaces(s, K) = [n \in 1 .. Cardinality(K) |-> s[Nth(K, n)]]
  BY DEF AtPlaces
<1>4. \A n \in 1 .. Cardinality(K) : s[Nth(K, n)] \in T
  BY <1>2
<1>. QED  BY <1>1, <1>3, <1>4

\* The remainder of a division by a positive number.
LEMMA Remainders ==
  ASSUME NEW n \in Nat \ {0}, NEW i \in Int
  PROVE  i % n \in 0 .. n - 1
  OBVIOUS

\* A quotient by a positive number is an integer.
LEMMA Quotients ==
  ASSUME NEW n \in Nat \ {0}, NEW i \in Int
  PROVE  i \div n \in Int
  OBVIOUS

\* Division, by its remainder.
LEMMA DivisionBounds ==
  ASSUME NEW n \in Nat \ {0}, NEW x \in Int
  PROVE  n * (x \div n) <= x /\ x < n * (x \div n) + n
  OBVIOUS

\* A number within n of a multiple of n has that quotient.
LEMMA DivisionIsOne ==
  ASSUME NEW n \in Nat \ {0}, NEW x \in Int, NEW q \in Int, n * q <= x, x < n * q + n
  PROVE  x \div n = q
<1>. DEFINE r == x \div n
<1>1. r \in Int /\ n * r <= x /\ x < n * r + n
  BY Quotients, DivisionBounds
<1>. HIDE DEF r
<1>2. n * r \in Int /\ n * q \in Int
  BY <1>1
<1>3. ~ r < q
  <2>1. SUFFICES ASSUME r + 1 <= q PROVE FALSE
    BY <1>1
  <2>2. n * (r + 1) <= n * q
    BY <2>1, <1>1
  <2>3. n * (r + 1) = n * r + n
    BY <1>1
  <2>. QED  BY <1>1, <1>2, <2>2, <2>3
<1>4. ~ q < r
  <2>1. SUFFICES ASSUME q + 1 <= r PROVE FALSE
    BY <1>1
  <2>2. n * (q + 1) <= n * r
    BY <2>1, <1>1
  <2>3. n * (q + 1) = n * q + n
    BY <1>1
  <2>. QED  BY <1>1, <1>2, <2>2, <2>3
<1>5. r = q
  BY <1>1, <1>3, <1>4
<1>. QED  BY <1>5 DEF r

PagesOf(c) == Max({1, (c + PageSize - 1) \div PageSize})
OnPage(c, p) == {k \in 1 .. c : (k - 1) \div PageSize = p}

\* There is a page, and the last one is not empty unless there is nothing.
LEMMA LastPageIsNotEmpty ==
  ASSUME NEW c \in Nat
  PROVE  /\ PagesOf(c) \in Nat \ {0}
         /\ c = 0 => PagesOf(c) = 1
         /\ c > 0 => \A p \in 0 .. PagesOf(c) - 1 : PageSize * p < c
<1>. DEFINE P == PageSize
            n == (c + P - 1) \div P
<1>1. P \in Nat \ {0}
  BY PagesAssumption
<1>. HIDE DEF P
<1>2. n \in Int /\ P * n <= c + P - 1 /\ c + P - 1 < P * n + P
  BY <1>1, Quotients, DivisionBounds
<1>3. PagesOf(c) = Max({1, n})
  BY DEF PagesOf, P
<1>. HIDE DEF n
<1>4. PagesOf(c) = IF 1 >= n THEN 1 ELSE n
  BY <1>2, <1>3, GreaterOf
<1>5. c = 0 => n <= 0
  <2>1. SUFFICES ASSUME c = 0, n >= 1 PROVE FALSE
    BY <1>2
  <2>2. P * n >= P * 1
    BY <1>1, <1>2, <2>1
  <2>. QED  BY <1>1, <1>2, <2>1, <2>2
<1>6. c > 0 => n >= 1
  <2>1. SUFFICES ASSUME c > 0, n <= 0 PROVE FALSE
    BY <1>2
  <2>2. P * n <= P * 0
    BY <1>1, <1>2, <2>1
  <2>. QED  BY <1>1, <1>2, <2>1, <2>2
<1>7. ASSUME c > 0, NEW p \in 0 .. PagesOf(c) - 1
      PROVE  P * p < c
  <2>1. p \in Int /\ p + 1 <= n
    BY <1>2, <1>4, <1>6, <1>7
  <2>2. P * (p + 1) <= P * n
    BY <1>1, <1>2, <2>1
  <2>3. P * (p + 1) = P * p + P
    BY <1>1, <2>1
  <2>4. P * p \in Int /\ P * n \in Int
    BY <1>1, <1>2, <2>1
  <2>. QED  BY <1>1, <1>2, <2>2, <2>3, <2>4
<1>8. PagesOf(c) \in Nat \ {0}
  BY <1>2, <1>4
<1>9. c = 0 => PagesOf(c) = 1
  BY <1>2, <1>4, <1>5
<1>10. c > 0 => \A p \in 0 .. PagesOf(c) - 1 : PageSize * p < c
  BY <1>7 DEF P
<1>. QED  BY <1>8, <1>9, <1>10

\* A page is full, or the last one.
LEMMA PageIsFull ==
  ASSUME NEW c \in Nat, NEW p \in 0 .. PagesOf(c) - 1
  PROVE  /\ IsFiniteSet(OnPage(c, p)) /\ OnPage(c, p) \subseteq 1 .. c
         /\ Cardinality(OnPage(c, p)) = Min({PageSize, c - PageSize * p})
<1>. DEFINE P == PageSize
            low == P * p
            high == IF P <= c - low THEN low + P ELSE c
<1>1. P \in Nat \ {0} /\ p \in Nat /\ PagesOf(c) \in Nat
  BY PagesAssumption, LastPageIsNotEmpty
<1>. HIDE DEF P
<1>2. low \in Nat
  BY <1>1
<1>3. low < c \/ (c = 0 /\ low = 0)
  <2>1. CASE c > 0
    BY <2>1, LastPageIsNotEmpty DEF P
  <2>2. CASE c = 0
    <3>1. p = 0
      BY <1>1, <2>2, LastPageIsNotEmpty
    <3>. QED  BY <1>1, <2>2, <3>1
  <2>. QED  BY <2>1, <2>2
<1>. HIDE DEF low
<1>4. \A k \in 1 .. c : (k - 1) \div P = p <=> (low + 1 <= k /\ k <= low + P)
  <2>. SUFFICES ASSUME NEW k \in 1 .. c
                PROVE  (k - 1) \div P = p <=> (low + 1 <= k /\ k <= low + P)
    OBVIOUS
  <2>1. k - 1 \in Int /\ p \in Int
    BY <1>1
  <2>2. (k - 1) \div P = p => P * p <= k - 1 /\ k - 1 < P * p + P
    BY <1>1, <2>1, DivisionBounds
  <2>3. P * p <= k - 1 /\ k - 1 < P * p + P => (k - 1) \div P = p
    BY <1>1, <2>1, DivisionIsOne
  <2>4. low = P * p
    BY DEF low
  <2>5. P * p <= k - 1 /\ k - 1 < P * p + P <=> low + 1 <= k /\ k <= low + P
    BY <1>1, <1>2, <2>1, <2>4
  <2>. QED  BY <2>2, <2>3, <2>5
<1>5. OnPage(c, p) = {k \in 1 .. c : low + 1 <= k /\ k <= low + P}
  BY <1>4 DEF OnPage, P
<1>6. {k \in 1 .. c : low + 1 <= k /\ k <= low + P} = low + 1 .. high
  BY <1>1, <1>2, <1>3
<1>7. low + 1 \in Int /\ high \in Int
  BY <1>1, <1>2
<1>8. /\ IsFiniteSet(low + 1 .. high)
      /\ Cardinality(low + 1 .. high) = IF low + 1 > high THEN 0 ELSE high - (low + 1) + 1
  BY <1>7, FS_Interval
<1>9. (IF low + 1 > high THEN 0 ELSE high - (low + 1) + 1) = IF P <= c - low THEN P ELSE c - low
  BY <1>1, <1>2, <1>3
<1>10. Min({P, c - low}) = IF P <= c - low THEN P ELSE c - low
  BY <1>1, <1>2, LesserOf
<1>11. Cardinality(OnPage(c, p)) = Min({P, c - low}) /\ IsFiniteSet(OnPage(c, p))
  BY <1>5, <1>6, <1>8, <1>9, <1>10
<1>12. OnPage(c, p) \subseteq 1 .. c
  BY DEF OnPage
<1>. QED  BY <1>11, <1>12 DEF P, low

\* The places that are on a page, each a number less: as many, and of them.
LEMMA ShownOnPage ==
  ASSUME NEW m \in Nat, NEW K \in SUBSET (1 .. m), NEW p \in 0 .. PagesOf(Cardinality(K)) - 1,
         NEW shown, shown = {Nth(K, k) - 1 : k \in OnPage(Cardinality(K), p)}
  PROVE  /\ shown \subseteq {i - 1 : i \in K}
         /\ Cardinality(shown) = Min({PageSize, Cardinality(K) - PageSize * p})
<1>. DEFINE c == Cardinality(K)
            onPage == OnPage(c, p)
            f == [k \in onPage |-> Nth(K, k) - 1]
<1>1. K \subseteq Nat /\ IsFiniteSet(K) /\ c \in Nat
  BY PlacesOfSequence
<1>2. /\ IsFiniteSet(onPage) /\ onPage \subseteq 1 .. c
      /\ Cardinality(onPage) = Min({PageSize, c - PageSize * p})
  BY <1>1, PageIsFull
<1>3. \A k \in 1 .. c : Nth(K, k) \in K
  BY <1>1, NthOfPlaces
<1>4. \A j, k \in 1 .. c : j < k => Nth(K, j) < Nth(K, k)
  BY <1>1, NthIncreases
<1>. HIDE DEF onPage
<1>5. \A j, k \in onPage : f[j] = f[k] => j = k
  <2>. SUFFICES ASSUME NEW j \in onPage, NEW k \in onPage, j # k
                PROVE  f[j] # f[k]
    OBVIOUS
  <2>1. j \in 1 .. c /\ k \in 1 .. c
    BY <1>2
  <2>2. j < k \/ k < j
    BY <1>1, <2>1
  <2>3. Nth(K, j) < Nth(K, k) \/ Nth(K, k) < Nth(K, j)
    BY <1>4, <2>1, <2>2
  <2>4. Nth(K, j) \in Nat /\ Nth(K, k) \in Nat
    BY <1>1, <1>3, <2>1
  <2>5. Nth(K, j) - 1 # Nth(K, k) - 1
    BY <2>3, <2>4
  <2>. QED  BY <2>5
<1>6. shown = {f[k] : k \in onPage}
  BY DEF onPage
<1>7. f \in Bijection(onPage, shown)
  <2>1. f \in [onPage -> shown]
    BY <1>6
  <2>. HIDE DEF f
  <2>. QED  BY <1>5, <1>6, <2>1 DEF Bijection, Injection, Surjection, IsInjective
<1>8. Cardinality(shown) = Cardinality(onPage)
  <2>. HIDE DEF f
  <2>1. ExistsBijection(onPage, shown)
    BY <1>7 DEF ExistsBijection
  <2>. QED  BY <1>2, <2>1, FS_Bijection
<1>9. shown \subseteq {i - 1 : i \in K}
  BY <1>2, <1>3 DEF onPage
<1>. QED  BY <1>2, <1>8, <1>9

-----------------------------------------------------------------------------
(* The report of the gallery: its result, and what is read of it.          *)

\* What the result the gallery is built from holds.
LEMMA GalleryFields ==
  ASSUME result = GalleryResult
  PROVE  /\ result.engines = Manifest /\ result.documents = Corpus
         /\ result.views = <<TextView, LayoutView>>
         /\ result.scores = ScoresOf(GalleryCers, NoTrust)
         /\ result.analyses = <<Texts, Inserted>>
  BY DEF GalleryResult, ResultOf

\* The engines of the manifest are the numbers up to NEngines, each once.
LEMMA ManifestNames ==
  /\ Manifest \in Seq(1 .. NEngines) /\ Len(Manifest) = NEngines
  /\ DOMAIN Manifest = 1 .. NEngines /\ Manifest # <<>>
  /\ NEngines \in Nat \ {0}
  /\ ToSet(Manifest) \subseteq 1 .. NEngines /\ \A i \in 1 .. NEngines : Manifest[i] \in ToSet(Manifest)
<1>1. NEngines \in Nat \ {0}
  BY PagesAssumption
<1>2. \A i \in 1 .. NEngines : (i % NEngines) + 1 \in 1 .. NEngines
  <2>1. \A i \in 1 .. NEngines : i % NEngines \in 0 .. NEngines - 1
    BY <1>1, Remainders
  <2>. HIDE PagesAssumption
  <2>. QED  BY <1>1, <2>1
<1>3. /\ DOMAIN Manifest = 1 .. NEngines
      /\ \A i \in 1 .. NEngines : Manifest[i] \in 1 .. NEngines
      /\ Manifest = [i \in 1 .. NEngines |-> Manifest[i]]
  BY <1>2 DEF Manifest
<1>4. Manifest \in Seq(1 .. NEngines) /\ Len(Manifest) = NEngines
  BY <1>1, <1>3
<1>5. Manifest # <<>>
  BY <1>1, <1>4
<1>6. ToSet(Manifest) = {Manifest[i] : i \in 1 .. NEngines}
  BY <1>3 DEF ToSet
<1>. QED  BY <1>1, <1>3, <1>4, <1>5, <1>6

\* The documents of the corpus are the numbers up to NDocuments, in order.
LEMMA CorpusNumbers ==
  /\ Corpus \in Seq(Nat) /\ Len(Corpus) = NDocuments /\ DOMAIN Corpus = 1 .. NDocuments
  /\ Corpus # <<>> /\ \A i \in 1 .. NDocuments : Corpus[i] = i
  /\ NDocuments \in Nat \ {0}
<1>1. NDocuments \in Nat \ {0}
  BY PagesAssumption
<1>2. /\ DOMAIN Corpus = 1 .. NDocuments /\ \A i \in 1 .. NDocuments : Corpus[i] = i
      /\ Corpus = [i \in 1 .. NDocuments |-> i]
  BY DEF Corpus
<1>3. Corpus \in Seq(Nat) /\ Len(Corpus) = NDocuments
  BY <1>1, <1>2
<1>4. Corpus # <<>>
  BY <1>1, <1>3
<1>. QED  BY <1>1, <1>2, <1>3, <1>4

\* The view that is shown first is the one of the text, which has its CER.
LEMMA GalleryViews ==
  ASSUME result = GalleryResult
  PROVE  /\ PrimaryView = "text" /\ MetricsOf("text") = TextView.metrics
         /\ "cer" \in ToSet(MetricsOf(PrimaryView)) /\ MetricsOf(PrimaryView) # <<>>
         /\ HasPipelines /\ HasDocuments
<1>1. result.views = <<TextView, LayoutView>>
  BY GalleryFields
<1>2. /\ TextView.name = "text" /\ LayoutView.name = "layout"
      /\ TextView.metrics = <<"cer", "wer", "mer", "fca", "char_accuracy", "hallucination">>
  BY DEF TextView, LayoutView
<1>3. PrimaryView = "text"
  BY <1>1, <1>2 DEF PrimaryView
<1>4. ToSet(result.views) = {TextView, LayoutView}
  BY <1>1 DEF ToSet
<1>5. MetricsOf("text") = TextView.metrics
  BY <1>2, <1>4 DEF MetricsOf
<1>6. "cer" \in ToSet(TextView.metrics) /\ TextView.metrics # <<>>
  <2>1. TextView.metrics[1] = "cer" /\ 1 \in DOMAIN TextView.metrics
    BY <1>2
  <2>. QED  BY <1>2, <2>1 DEF ToSet
<1>7. HasPipelines
  BY <1>1, GalleryFields, ManifestNames DEF HasPipelines
<1>8. HasDocuments
  BY <1>7, GalleryFields, CorpusNumbers DEF HasDocuments
<1>. QED  BY <1>3, <1>5, <1>6, <1>7, <1>8

\* A document has a CER of every engine.
LEMMA GalleryScores ==
  ASSUME result = GalleryResult, NEW e \in 1 .. NEngines, NEW d \in 1 .. NDocuments
  PROVE  ScoreOf("text", e, d, "cer") \in Int
<1>. DEFINE S == {"text", "layout"} \X (1 .. NEngines) \X (1 .. NDocuments)
            t == <<"text", e, d>>
<1>1. result.scores = ScoresOf(GalleryCers, NoTrust)
  BY GalleryFields
<1>2. t \in S /\ t[1] = "text" /\ t[2] = e /\ t[3] = d
  OBVIOUS
<1>3. ScoresOf(GalleryCers, NoTrust)[t].cer = GalleryCers[<<e, d>>]
  BY <1>2 DEF ScoresOf
<1>4. GalleryCers[<<e, d>>] \in Int
  <2>1. <<e, d>> \in Points /\ <<e, d>>[2] = d
    BY DEF Points
  <2>2. d \in Int /\ d % 2 \in Int
    BY CorpusNumbers
  <2>3. GalleryCers[<<e, d>>] = IF <<e, d>> = <<1, 1>> THEN 90 ELSE 30 * (d % 2)
    BY <2>1 DEF GalleryCers
  <2>. QED  BY <2>2, <2>3
<1>. QED  BY <1>1, <1>3, <1>4 DEF ScoreOf

\* An aggregate is a number, if any score is known.
LEMMA GalleryAggregates ==
  ASSUME result = GalleryResult, NEW e \in 1 .. NEngines
  PROVE  AggregateOf("text", e, "cer") \in Int \cup {NoScore}
<1>1. result.documents = Corpus
  BY GalleryFields
<1>. DEFINE scores == [i \in Indices(result.documents) |-> ScoreOf("text", e, result.documents[i], "cer")]
            K == {i \in Indices(result.documents) : scores[i] # NoScore}
            known == Known("text", e, "cer")
<1>2. Indices(result.documents) = 1 .. NDocuments
  BY <1>1, CorpusNumbers DEF Indices
<1>3. \A i \in 1 .. NDocuments : scores[i] \in Int
  BY <1>1, <1>2, CorpusNumbers, GalleryScores
<1>4. known = AtPlaces(scores, K)
  BY DEF Known
<1>5. K \in SUBSET (1 .. NDocuments) /\ NDocuments \in Nat /\ \A i \in K : scores[i] \in Int
  BY <1>2, <1>3, CorpusNumbers
<1>. HIDE DEF scores, K
<1>6. known \in Seq(Int)
  BY <1>4, <1>5, AtPlacesIsSequence
<1>. HIDE DEF known
<1>7. SumSeq(known) \in Int
  BY <1>6, SumIsInt
<1>8. known # <<>> => Len(known) \in Nat \ {0}
  BY <1>6
<1>9. known # <<>> => SumSeq(known) \div Len(known) \in Int
  BY <1>7, <1>8, Quotients
<1>10. AggregateOf("text", e, "cer") = IF known = <<>> THEN NoScore ELSE SumSeq(known) \div Len(known)
  BY DEF AggregateOf, known
<1>. QED  BY <1>9, <1>10

\* Engines are ranked in a total order: by their aggregate, then by name.
LEMMA KeysAreOrdered ==
  ASSUME NEW keys, \A k \in keys : \E a \in Int \cup {NoScore}, e \in Int : k = <<a, e>>
  PROVE  StrictOrder({p \in keys \X keys : Precedes(p[1], p[2])}, keys)
<1>. DEFINE R == {p \in keys \X keys : Precedes(p[1], p[2])}
<1>1. \A k, l \in keys : <<k, l>> \in R <=> Precedes(k, l)
  OBVIOUS
<1>2. \A k \in keys : /\ k[1] \in Int \/ k[1] = NoScore
                      /\ k[2] \in Int /\ k = <<k[1], k[2]>>
  OBVIOUS
<1>3. NoScore \notin Int
  BY PagesAssumption
<1>4. \A k \in keys : ~Precedes(k, k)
  BY <1>2, <1>3 DEF Precedes, Before
<1>5. \A k, l, m \in keys : Precedes(k, l) /\ Precedes(l, m) => Precedes(k, m)
  BY <1>2, <1>3 DEF Precedes, Before
<1>6. \A k, l \in keys : k # l => Precedes(k, l) \/ Precedes(l, k)
  <2>1. ASSUME NEW k \in keys, NEW l \in keys, ~Precedes(k, l), ~Precedes(l, k)
        PROVE  k[1] = l[1] /\ k[2] = l[2]
    BY <1>2, <1>3, <2>1 DEF Precedes, Before
  <2>2. \A k, l \in keys : k[1] = l[1] /\ k[2] = l[2] => k = l
    BY <1>2
  <2>. QED  BY <2>1, <2>2
<1>. HIDE DEF R
<1>7. StrictOrder(R, keys)
  BY <1>1, <1>4, <1>5, <1>6 DEF StrictOrder
<1>. QED  BY <1>7 DEF R

\* The comparison has a row for each engine of the manifest.
LEMMA RankedAreTheEngines ==
  ASSUME result = GalleryResult
  PROVE  /\ \E n \in Nat : DOMAIN RankedBy("text", "cer") = 1 .. n
         /\ {RankedBy("text", "cer")[n] : n \in DOMAIN RankedBy("text", "cer")} = ToSet(Manifest)
<1>. DEFINE names == ToSet(Manifest)
            keys == {<<AggregateOf("text", e, "cer"), e>> : e \in ToSet(result.engines)}
            R == {p \in keys \X keys : Precedes(p[1], p[2])}
            ranked == ByRank(keys, R)
            sorted == RankedBy("text", "cer")
<1>1. result.engines = Manifest
  BY GalleryFields
<1>2. \A e \in names : e \in 1 .. NEngines /\ e \in Int
  BY ManifestNames
<1>3. \A e \in names : AggregateOf("text", e, "cer") \in Int \cup {NoScore}
  BY <1>2, GalleryAggregates
<1>4. \A k \in keys : \E a \in Int \cup {NoScore}, e \in Int : k = <<a, e>>
  BY <1>1, <1>2, <1>3
<1>5. IsFiniteSet(keys)
  <2>1. IsFiniteSet(1 .. NEngines)
    BY ManifestNames, FS_Interval
  <2>2. IsFiniteSet(names)
    BY <2>1, ManifestNames, FS_Subset
  <2>. DEFINE f == [e \in names |-> <<AggregateOf("text", e, "cer"), e>>]
  <2>3. keys = {f[e] : e \in names}
    BY <1>1
  <2>4. f \in Surjection(names, keys)
    BY <2>3 DEF Surjection
  <2>. HIDE DEF f, keys, names
  <2>. QED  BY <2>2, <2>4, FS_Surjection
<1>6. StrictOrder(R, keys)
  <2>. HIDE DEF keys
  <2>. QED  BY <1>4, KeysAreOrdered
<1>7. sorted = [n \in DOMAIN ranked |-> ranked[n][2]]
  BY DEF RankedBy
<1>8. {k[2] : k \in keys} = names
  <2>1. \A k \in keys : k[2] \in names
    BY <1>1
  <2>2. \A e \in names : \E k \in keys : k[2] = e
    <3>1. \A e \in names : <<AggregateOf("text", e, "cer"), e>> \in keys
      BY <1>1
    <3>2. \A e : <<AggregateOf("text", e, "cer"), e>>[2] = e
      OBVIOUS
    <3>. HIDE DEF keys, names
    <3>. QED  BY <3>1, <3>2
  <2>. HIDE DEF keys, names
  <2>. QED  BY <2>1, <2>2
<1>. HIDE DEF keys, R, sorted, names
<1>9. /\ DOMAIN ranked = 1 .. Cardinality(keys)
      /\ {ranked[n] : n \in 1 .. Cardinality(keys)} = keys
  BY <1>5, <1>6, ByRankHoldsAll
<1>10. Cardinality(keys) \in Nat
  BY <1>5, FS_CardinalityType
<1>. HIDE DEF ranked
<1>11. DOMAIN sorted = DOMAIN ranked /\ \A n \in DOMAIN ranked : sorted[n] = ranked[n][2]
  BY <1>7
<1>12. {sorted[n] : n \in DOMAIN sorted} = {k[2] : k \in keys}
  BY <1>9, <1>11
<1>13. {sorted[n] : n \in DOMAIN sorted} = names
  BY <1>8, <1>12
<1>. QED  BY <1>9, <1>10, <1>11, <1>13 DEF sorted, names

\* The table of the comparison, and the links of its rows.
LEMMA RowsOfTheComparison ==
  ASSUME result = GalleryResult
  PROVE  /\ ByEngine # <<>>
         /\ ToSet(ByEngine[1].rows) = {Row(e) : e \in ToSet(Manifest)}
<1>. DEFINE sorted == RankedBy("text", "cer")
            metrics == MetricsOf(PrimaryView)
            shown == ColumnsOf(PrimaryView, Aggregates(PrimaryView))
<1>1. /\ PrimaryView = "text" /\ "cer" \in ToSet(metrics) /\ metrics # <<>> /\ HasPipelines
  BY GalleryViews
<1>2. ByEngine = <<MetricTable(2 + Len(shown), GroupHeader(shown, 1, 1), Rows(sorted))>>
  BY <1>1 DEF ByEngine, OnlyIf
<1>3. ByEngine # <<>> /\ ByEngine[1].rows = Rows(sorted)
  BY <1>2 DEF MetricTable
<1>4. PICK n \in Nat : DOMAIN sorted = 1 .. n
  BY RankedAreTheEngines
<1>5. {sorted[i] : i \in DOMAIN sorted} = ToSet(Manifest)
  BY RankedAreTheEngines
<1>. HIDE DEF sorted
<1>6. Len(sorted) = n
  BY <1>4
<1>7. DOMAIN Rows(sorted) = 1 .. n /\ \A i \in 1 .. n : Rows(sorted)[i] = Row(sorted[i])
  BY <1>6 DEF Rows, Indices
<1>8. ToSet(Rows(sorted)) = {Row(sorted[i]) : i \in 1 .. n}
  BY <1>7 DEF ToSet
<1>9. {Row(sorted[i]) : i \in 1 .. n} = {Row(e) : e \in ToSet(Manifest)}
  BY <1>4, <1>5
<1>. QED  BY <1>3, <1>8, <1>9

\* Each link of the comparison names an engine and the panel of that engine.
LEMMA LinksOfTheComparison ==
  ASSUME result = GalleryResult
  PROVE  /\ \A l \in ProfileLinks : l.engine \in ToSet(Manifest) /\ l.to = PositionIn(Manifest, l.engine)
         /\ {r.of[2] : r \in ToSet(ByEngine[1].rows)} = ToSet(Manifest)
<1>1. result.engines = Manifest
  BY GalleryFields
<1>2. \A e : Row(e).of[2] = e /\ Row(e).badge = PositionIn(Manifest, e)
  BY <1>1 DEF Row, Badge
<1>3. {r.of[2] : r \in ToSet(ByEngine[1].rows)} = ToSet(Manifest)
  BY <1>2, RowsOfTheComparison
<1>4. ProfileLinks = {[engine |-> r.of[2], to |-> r.badge] : r \in ToSet(ByEngine[1].rows)}
  BY RowsOfTheComparison DEF ProfileLinks
<1>5. \A l \in ProfileLinks : l.engine \in ToSet(Manifest) /\ l.to = PositionIn(Manifest, l.engine)
  BY <1>2, <1>4, RowsOfTheComparison
<1>. QED  BY <1>3, <1>5

\* The profiles, in the order of the manifest, and around.
LEMMA GalleryProfiles ==
  ASSUME result = GalleryResult
  PROVE  /\ DOMAIN Profiles = 1 .. NEngines
         /\ \A i \in 1 .. NEngines :
              /\ Profiles[i].id = PositionIn(Manifest, Manifest[i]) /\ Profiles[i].of = Manifest[i]
              /\ Profiles[i].previous = PositionIn(Manifest, Manifest[((i - 2) % NEngines) + 1])
              /\ Profiles[i].next = PositionIn(Manifest, Manifest[(i % NEngines) + 1])
<1>1. result.engines = Manifest /\ Len(result.engines) = NEngines
  BY GalleryFields, ManifestNames
<1>2. Profiles = [i \in Indices(result.engines) |-> Profile(i)]
  BY GalleryViews DEF Profiles
<1>3. DOMAIN Profiles = 1 .. NEngines /\ \A i \in 1 .. NEngines : Profiles[i] = Profile(i)
  BY <1>1, <1>2 DEF Indices
<1>4. \A i : /\ Profile(i).id = Badge(result.engines[i]) /\ Profile(i).of = result.engines[i]
             /\ Profile(i).previous = Badge(result.engines[((i - 2) % Len(result.engines)) + 1])
             /\ Profile(i).next = Badge(result.engines[(i % Len(result.engines)) + 1])
  BY DEF Profile
<1>5. \A e : Badge(e) = PositionIn(Manifest, e)
  BY <1>1 DEF Badge
<1>. SUFFICES ASSUME NEW i \in 1 .. NEngines
              PROVE  /\ Profiles[i].id = PositionIn(Manifest, Manifest[i]) /\ Profiles[i].of = Manifest[i]
                     /\ Profiles[i].previous = PositionIn(Manifest, Manifest[((i - 2) % NEngines) + 1])
                     /\ Profiles[i].next = PositionIn(Manifest, Manifest[(i % NEngines) + 1])
  BY <1>3
<1>6. Profiles[i] = Profile(i)
  BY <1>3
<1>7. Profiles[i].id = PositionIn(Manifest, Manifest[i]) /\ Profiles[i].of = Manifest[i]
  BY <1>1, <1>4, <1>5, <1>6, Zenon
<1>8. Profiles[i].previous = PositionIn(Manifest, Manifest[((i - 2) % NEngines) + 1])
  BY <1>1, <1>4, <1>5, <1>6, Zenon
<1>9. Profiles[i].next = PositionIn(Manifest, Manifest[(i % NEngines) + 1])
  BY <1>1, <1>4, <1>5, <1>6, Zenon
<1>. QED  BY <1>7, <1>8, <1>9

\* The texts of the first document only are in the result.
LEMMA GalleryTexts ==
  ASSUME result = GalleryResult, NEW d \in 1 .. NDocuments
  PROVE  TextsOn(d) = IF d = 1 THEN Manifest ELSE <<>>
<1>. DEFINE kept == {i \in Indices(result.analyses) : result.analyses[i].kind = "document_texts"}
            texts == AnalysesOf("document_texts")
            here == {i \in Indices(texts) : texts[i].view = PrimaryView /\ d \in DOMAIN texts[i].texts}
<1>1. result.analyses = <<Texts, Inserted>>
  BY GalleryFields
<1>2. /\ Texts.kind = "document_texts" /\ Texts.view = "text" /\ Texts.texts = [x \in {1} |-> Manifest]
      /\ Inserted.kind = "document_hallucination"
  BY DEF Texts, Inserted
<1>3. Indices(result.analyses) = 1 .. 2
  BY <1>1 DEF Indices
<1>4. kept = {1}
  BY <1>1, <1>2, <1>3
<1>5. {1} \in SUBSET (1 .. 2) /\ Cardinality({1}) = 1
  BY FS_Singleton
<1>6. Nth({1}, 1) = 1
  <2>0. IsFiniteSet({1})
    BY FS_Singleton
  <2>1. {1} \subseteq Nat /\ IsFiniteSet({1})
    BY <2>0
  <2>2. Nth({1}, 1) \in {1}
    BY <1>5, <2>1, NthOfPlaces
  <2>. QED  BY <2>2
<1>7. texts = [n \in 1 .. 1 |-> Texts]
  <2>1. texts = AtPlaces(result.analyses, kept)
    BY DEF AnalysesOf
  <2>2. texts = [n \in 1 .. 1 |-> result.analyses[Nth({1}, n)]]
    BY <1>4, <1>5, <2>1 DEF AtPlaces
  <2>3. \A n \in 1 .. 1 : n = 1
    OBVIOUS
  <2>. QED  BY <1>1, <1>6, <2>2, <2>3
<1>8. Indices(texts) = 1 .. 1 /\ texts[1] = Texts
  <2>. HIDE DEF texts
  <2>1. Len(texts) = 1 /\ texts[1] = Texts
    BY <1>7
  <2>. QED  BY <2>1 DEF Indices
<1>9. DOMAIN Texts.texts = {1} /\ Texts.texts[1] = Manifest
  BY <1>2
<1>. HIDE DEF texts
<1>10. here = IF d = 1 THEN {1} ELSE {}
  BY <1>2, <1>8, <1>9, GalleryViews
<1>11. TextsOn(d) = IF here = {} THEN <<>> ELSE texts[Nth(here, 1)].texts[d]
  BY DEF TextsOn, texts
<1>. HIDE DEF here
<1>12. CASE d = 1
  BY <1>2, <1>6, <1>8, <1>9, <1>10, <1>11, <1>12
<1>13. CASE d # 1
  BY <1>10, <1>11, <1>13
<1>. QED  BY <1>12, <1>13

\* The fiches, in the order of the corpus, and around.
LEMMA GalleryFiches ==
  ASSUME result = GalleryResult
  PROVE  /\ DOMAIN Fiches = 1 .. NDocuments
         /\ \A i \in 1 .. NDocuments :
              /\ Fiches[i].previous = (i - 2) % NDocuments /\ Fiches[i].next = i % NDocuments
              /\ Fiches[i].tabs = IF i = 1 THEN Manifest ELSE <<>>
<1>1. result.documents = Corpus /\ Len(result.documents) = NDocuments
  BY GalleryFields, CorpusNumbers
<1>2. Fiches = [i \in Indices(result.documents) |-> Fiche(i)]
  BY GalleryViews DEF Fiches
<1>3. DOMAIN Fiches = 1 .. NDocuments /\ \A i \in 1 .. NDocuments : Fiches[i] = Fiche(i)
  BY <1>1, <1>2 DEF Indices
<1>4. \A i : /\ Fiche(i).previous = (i - 2) % Len(result.documents)
             /\ Fiche(i).next = i % Len(result.documents)
             /\ Fiche(i).tabs = TextsOn(result.documents[i])
  BY DEF Fiche
<1>5. \A i \in 1 .. NDocuments : result.documents[i] = i
  BY <1>1, CorpusNumbers
<1>. SUFFICES ASSUME NEW i \in 1 .. NDocuments
              PROVE  /\ Fiches[i].previous = (i - 2) % NDocuments /\ Fiches[i].next = i % NDocuments
                     /\ Fiches[i].tabs = IF i = 1 THEN Manifest ELSE <<>>
  BY <1>3
<1>6. Fiches[i] = Fiche(i)
  BY <1>3
<1>7. Fiches[i].previous = (i - 2) % NDocuments /\ Fiches[i].next = i % NDocuments
  BY <1>1, <1>4, <1>6, Zenon
<1>8. Fiches[i].tabs = TextsOn(i)
  BY <1>4, <1>5, <1>6
<1>. QED  BY <1>7, <1>8, GalleryTexts

\* The cards, in the order of the corpus.
LEMMA GalleryCards ==
  ASSUME result = GalleryResult
  PROVE  /\ DOMAIN Cards = 1 .. NDocuments
         /\ \A i \in 1 .. NDocuments :
              /\ Cards[i].to = i - 1 /\ Cards[i].of = i
              /\ Cards[i].stratum = result.strata[i] /\ Cards[i].anom = Anomalies(i)
<1>1. result.documents = Corpus /\ Len(result.documents) = NDocuments
  BY GalleryFields, CorpusNumbers
<1>2. \A i \in 1 .. NDocuments : result.documents[i] = i
  BY <1>1, CorpusNumbers
<1>3. Cards = [i \in Indices(result.documents) |->
          LET d == result.documents[i]
          IN [to |-> i - 1, of |-> d, stratum |-> result.strata[d], anom |-> Anomalies(d),
              best |-> IF HasCer THEN BestOf(d) ELSE {}]]
  BY GalleryViews DEF Cards
<1>. QED  BY <1>1, <1>2, <1>3 DEF Indices

\* The documents that have all that was chosen.
Chosen(choice) ==
  {i \in 1 .. NDocuments : /\ choice["stratum"] \in {AnyChoice, result.strata[i]}
                           /\ choice["anom"] \in Anomalies(i) \cup {AnyChoice}}

\* The cards a choice of facets keeps are those of the documents it asks for.
LEMMA ActiveCardsAreChosen ==
  ASSUME result = GalleryResult, NEW choice
  PROVE  ActiveCards(choice) = Chosen(choice)
<1>1. \A card : Kept(card, choice) <=> /\ choice["stratum"] = AnyChoice \/ card.stratum = choice["stratum"]
                                       /\ choice["anom"] = AnyChoice \/ choice["anom"] \in card.anom
  BY DEF Kept, Matches, Facets
<1>2. ActiveCards(choice) = {i \in 1 .. NDocuments : Kept(Cards[i], choice)}
  BY GalleryCards DEF ActiveCards
<1>3. \A i \in 1 .. NDocuments : Cards[i].stratum = result.strata[i] /\ Cards[i].anom = Anomalies(i)
  BY GalleryCards
<1>. QED  BY <1>1, <1>2, <1>3 DEF Chosen

\* What the paginator shows, by the places of the cards.
LEMMA PaginatedByPlaces ==
  ASSUME result = GalleryResult, NEW choice,
         NEW number \in 0 .. PagesOf(Cardinality(Chosen(choice))) - 1
  PROVE  /\ Pages(choice) = PagesOf(Cardinality(Chosen(choice)))
         /\ Paginated(choice, number)
              = {Nth(Chosen(choice), k) - 1 : k \in OnPage(Cardinality(Chosen(choice)), number)}
<1>. DEFINE K == Chosen(choice)
            c == Cardinality(K)
            onPage == OnPage(c, number)
<1>1. ActiveCards(choice) = K
  BY ActiveCardsAreChosen
<1>2. Pages(choice) = PagesOf(c)
  BY <1>1 DEF Pages, PagesOf
<1>3. NDocuments \in Nat /\ K \in SUBSET (1 .. NDocuments)
  BY CorpusNumbers DEF Chosen
<1>. HIDE DEF K
<1>4. K \subseteq Nat /\ IsFiniteSet(K) /\ c \in Nat
  BY <1>3, PlacesOfSequence
<1>5. PagesOf(c) \in Nat \ {0}
  BY <1>4, LastPageIsNotEmpty
<1>. HIDE DEF c
<1>6. number \in 0 .. PagesOf(c) - 1
  BY DEF c, K
<1>7. Clamped(number, 0, PagesOf(c) - 1) = number
  <2>1. number \in Int /\ PagesOf(c) - 1 \in Int
    BY <1>5, <1>6
  <2>2. Min({number, PagesOf(c) - 1}) = number
    BY <1>6, <2>1, LesserOf
  <2>3. Max({0, number}) = number
    BY <1>6, <2>1, GreaterOf
  <2>. QED  BY <2>2, <2>3 DEF Clamped
<1>8. Paginated(choice, number) = {Cards[Nth(K, k)].to : k \in onPage}
  BY <1>1, <1>2, <1>7 DEF Paginated, OnPage, c
<1>9. \A k \in onPage : Cards[Nth(K, k)].to = Nth(K, k) - 1
  <2>1. \A k \in onPage : k \in 1 .. c
    BY DEF OnPage
  <2>2. \A k \in 1 .. c : Nth(K, k) \in K
    BY <1>4, NthOfPlaces DEF c
  <2>. QED  BY <1>3, <2>1, <2>2, GalleryCards
<1>10. Paginated(choice, number) = {Nth(K, k) - 1 : k \in onPage}
  BY <1>8, <1>9
<1>. QED  BY <1>2, <1>10 DEF K, c

\* What is read of the result stands as long as the result does.
LEMMA ScoresStand ==
  ASSUME result' = result, NEW d, NEW m
  PROVE  ValuesOf(d, m)' = ValuesOf(d, m)
  BY DEF ValuesOf, ScoreOf, PrimaryView, MetricsOf, Indices

\* The spread of a document depends on the result only.
LEMMA SpreadStands ==
  ASSUME result' = result, NEW d
  PROVE  Spread(d)' = Spread(d)
  BY DEF Spread, CersOf, ScoreOf, PrimaryView

\* The anomalies of a document depend on the result only.
LEMMA AnomaliesStand ==
  ASSUME result' = result, NEW d
  PROVE  Anomalies(d)' = Anomalies(d)
<1>1. \A c, m : ValuesOf(c, m)' = ValuesOf(c, m)
  BY ScoresStand
<1>2. \A c : Spread(c)' = Spread(c)
  BY SpreadStands
<1>3. \A m : Observed(m)' = Observed(m)
  BY <1>1 DEF Observed, Indices
<1>4. SpreadsSeen' = SpreadsSeen
  BY <1>1, <1>2 DEF SpreadsSeen, Indices
<1>5. \A kind : AnalysesOf(kind)' = AnalysesOf(kind)
  BY DEF AnalysesOf, Indices
<1>6. InsertedDocuments' = InsertedDocuments
  BY <1>5 DEF InsertedDocuments, Indices
<1>. QED  BY <1>1, <1>2, <1>3, <1>4, <1>6 DEF Anomalies

\* The aggregate of an engine depends on the result only.
LEMMA AggregatesStand ==
  ASSUME result' = result, NEW v, NEW e, NEW m
  PROVE  AggregateOf(v, e, m)' = AggregateOf(v, e, m)
<1>1. Known(v, e, m)' = Known(v, e, m)
  BY DEF Known, ScoreOf, Indices
<1>. QED  BY <1>1 DEF AggregateOf

-----------------------------------------------------------------------------
(* The browser.                                                            *)

\* The details of a page that stands still.
Closed == open = [m \in ModeSet |-> FALSE] /\ live = NoFiche /\ tab = NoFiche
Idle == shownModes = {} /\ Closed

DrillType ==
  /\ open \in [ModeSet -> BOOLEAN] /\ trigger \in [ModeSet -> Int] /\ followed \in [ModeSet -> Int]
  /\ live \in 0 .. NDocuments - 1 \/ live = NoFiche
\* The profile that is shown is of the engine of the last link.
ProfileInv ==
  open["report"] =>
    /\ followed["report"] \in ToSet(Manifest) /\ trigger["report"] \in ToSet(Manifest)
    /\ panels = {PositionIn(Manifest, followed["report"])}
\* The fiche is of the document of the last link; only the first has texts.
FicheInv ==
  /\ open["explorer"] =>
       /\ live # NoFiche /\ followed["explorer"] = live + 1
       /\ docView = "grid" /\ trigger["explorer"] \in visible
  /\ live # NoFiche => open["explorer"]
  /\ tab # NoFiche => live = 0 /\ tab \in ToSet(Manifest)
  /\ shownModes = {} => ~open["report"] /\ ~open["explorer"]
\* The page of the gallery is one of those there are, and what is on it shown.
SelectionInv ==
  /\ pageNumber \in 0 .. PagesOf(Cardinality(Chosen(facets))) - 1
  /\ shownModes # {} =>
       visible = {Nth(Chosen(facets), k) - 1 : k \in OnPage(Cardinality(Chosen(facets)), pageNumber)}
CompareInv ==
  /\ reading \subseteq chosen /\ \A choice \in chosen : choice.file \notin TooLarge
  /\ ComparisonIsOfTheFile

GalleryInv == result = GalleryResult /\ DrillType /\ ProfileInv /\ FicheInv /\ SelectionInv
PageInv ==
  /\ aspect # "gallery" => Idle
  /\ aspect = "gallery" => GalleryInv
  /\ CompareInv

-----------------------------------------------------------------------------
\* There are first pages, whatever is chosen.
LEMMA ChosenPages ==
  ASSUME NEW choice
  PROVE  /\ Chosen(choice) \in SUBSET (1 .. NDocuments)
         /\ 0 \in 0 .. PagesOf(Cardinality(Chosen(choice))) - 1
<1>1. NDocuments \in Nat /\ Chosen(choice) \in SUBSET (1 .. NDocuments)
  BY CorpusNumbers DEF Chosen
<1>2. Cardinality(Chosen(choice)) \in Nat
  BY <1>1, PlacesOfSequence
<1>3. PagesOf(Cardinality(Chosen(choice))) \in Nat \ {0}
  BY <1>2, LastPageIsNotEmpty
<1>. QED  BY <1>1, <1>3

\* The documents a choice asks for depend on the result only.
LEMMA ChosenStands ==
  ASSUME result' = result
  PROVE  Chosen(facets)' = Chosen(facets')
<1>1. \A d : Anomalies(d)' = Anomalies(d)
  BY AnomaliesStand
<1>. QED  BY <1>1 DEF Chosen

\* The page as it is before it is loaded.
LEMMA PageInv_init ==
  ASSUME PagesInit
  PROVE  PageInv
<1>. USE DEF PagesInit, PageInit
<1>1. Idle
  BY DEF Idle, Closed
<1>2. CompareInv
  BY DEF CompareInv, ComparisonIsOfTheFile
<1>3. ASSUME aspect = "gallery" PROVE GalleryInv
  <2>1. result = GalleryResult
    BY <1>3 DEF ResultInit
  <2>2. DrillType
    BY DEF DrillType, NoFiche
  <2>3. ProfileInv /\ FicheInv
    BY DEF ProfileInv, FicheInv, ModeSet
  <2>4. SelectionInv
    BY ChosenPages DEF SelectionInv
  <2>. QED  BY <2>1, <2>2, <2>3, <2>4 DEF GalleryInv
<1>. QED  BY <1>1, <1>2, <1>3 DEF PageInv

\* What is selected is shown, after any step in the browser.
LEMMA SelectionInv_step ==
  ASSUME GalleryInv, BrowseNext, result' = result
  PROVE  SelectionInv'
<1>0. result = GalleryResult /\ SelectionInv
  BY DEF GalleryInv
<1>1. Chosen(facets)' = Chosen(facets')
  BY ChosenStands
<1>2. ASSUME facets' = facets, pageNumber' = pageNumber, visible' = visible,
             shownModes # {} \/ shownModes' = {}
      PROVE  SelectionInv'
  BY <1>0, <1>1, <1>2 DEF SelectionInv
<1>3. ASSUME NEW number \in 0 .. PagesOf(Cardinality(Chosen(facets'))) - 1,
             pageNumber' = number, visible' = Paginated(facets', number)
      PROVE  SelectionInv'
  <2>1. visible' = {Nth(Chosen(facets'), k) - 1 : k \in OnPage(Cardinality(Chosen(facets')), number)}
    BY <1>0, <1>3, PaginatedByPlaces
  <2>. QED  BY <1>1, <1>3, <2>1 DEF SelectionInv
<1>4. CASE LoadPage
  <2>1. facets' = facets /\ pageNumber' = pageNumber /\ visible' = Paginated(facets, pageNumber)
    BY <1>4 DEF LoadPage
  <2>2. pageNumber \in 0 .. PagesOf(Cardinality(Chosen(facets'))) - 1
    BY <1>0, <2>1 DEF SelectionInv
  <2>. QED  BY <1>3, <2>1, <2>2
<1>5. CASE ChooseFacet
  <2>1. pageNumber' = 0 /\ visible' = Paginated(facets', 0)
    BY <1>5 DEF ChooseFacet
  <2>. QED  BY <1>3, <2>1, ChosenPages
<1>6. CASE TurnPage
  <2>1. /\ pageNumber' \in 0 .. Pages(facets) - 1
        /\ visible' = Paginated(facets, pageNumber') /\ facets' = facets
    BY <1>6 DEF TurnPage
  <2>2. Pages(facets) = PagesOf(Cardinality(Chosen(facets)))
    BY <1>0, ChosenPages, PaginatedByPlaces
  <2>3. pageNumber' \in 0 .. PagesOf(Cardinality(Chosen(facets'))) - 1
    BY <2>1, <2>2
  <2>. QED  BY <1>3, <2>1, <2>3
<1>7. CASE ActivateMode
  BY <1>2, <1>7 DEF ActivateMode, galleryVars
<1>8. CASE OpenProfile
  BY <1>2, <1>8 DEF OpenProfile, OpenPanel, galleryVars
<1>9. CASE NeighbourProfile
  BY <1>2, <1>9 DEF NeighbourProfile, OpenPanel, galleryVars
<1>10. CASE OpenDocument
  BY <1>2, <1>10 DEF OpenDocument, OpenFiche, galleryVars
<1>11. CASE NeighbourDocument
  BY <1>2, <1>11 DEF NeighbourDocument, OpenFiche, galleryVars
<1>12. CASE ShowEngine
  BY <1>2, <1>12 DEF ShowEngine, galleryVars
<1>13. CASE CloseDetail
  BY <1>2, <1>13 DEF CloseDetail, galleryVars
<1>14. CASE ChooseView
  BY <1>2, <1>14 DEF ChooseView
<1>. QED
  BY <1>4, <1>5, <1>6, <1>7, <1>8, <1>9, <1>10, <1>11, <1>12, <1>13, <1>14 DEF BrowseNext

DrillInv == DrillType /\ ProfileInv /\ FicheInv

\* A profile that a link opens is of the engine the link is about.
LEMMA PanelOpens ==
  ASSUME DrillInv, "report" \in shownModes, NEW id, NEW link, NEW about, NEW inside \in BOOLEAN,
         OpenPanel(id, link, about, inside),
         about \in ToSet(Manifest), id = PositionIn(Manifest, about),
         IF inside THEN open["report"] ELSE link \in ToSet(Manifest)
  PROVE  DrillInv'
<1>1. /\ open' = [open EXCEPT !["report"] = TRUE]
      /\ trigger' = IF inside THEN trigger ELSE [trigger EXCEPT !["report"] = link]
      /\ followed' = [followed EXCEPT !["report"] = about]
      /\ panels' = {id}
      /\ shownModes' = shownModes /\ live' = live /\ tab' = tab
      /\ docView' = docView /\ visible' = visible
  BY DEF OpenPanel, Swap, galleryVars
<1>2. \A e \in ToSet(Manifest) : e \in Int
  BY ManifestNames
<1>3. /\ open \in [ModeSet -> BOOLEAN] /\ trigger \in [ModeSet -> Int]
      /\ followed \in [ModeSet -> Int]
  BY DEF DrillInv, DrillType
<1>4. /\ open' \in [ModeSet -> BOOLEAN] /\ trigger' \in [ModeSet -> Int]
      /\ followed' \in [ModeSet -> Int]
  BY <1>1, <1>2, <1>3
<1>5. /\ open'["explorer"] = open["explorer"] /\ open'["report"] = TRUE
      /\ followed'["explorer"] = followed["explorer"] /\ followed'["report"] = about
      /\ trigger'["explorer"] = trigger["explorer"]
      /\ trigger'["report"] = IF inside THEN trigger["report"] ELSE link
  BY <1>1, <1>3 DEF ModeSet
<1>6. DrillType'
  BY <1>1, <1>4 DEF DrillInv, DrillType
<1>7. trigger'["report"] \in ToSet(Manifest)
  BY <1>5 DEF DrillInv, ProfileInv
<1>8. ProfileInv'
  BY <1>1, <1>5, <1>7 DEF ProfileInv
<1>9. FicheInv'
  BY <1>1, <1>5 DEF DrillInv, FicheInv
<1>. QED  BY <1>6, <1>8, <1>9 DEF DrillInv

\* A fiche that is opened is of the document the link is about, with a text of
\* an engine of the manifest, if it has one.
LEMMA FicheOpens ==
  ASSUME DrillInv, result = GalleryResult, "explorer" \in shownModes,
         NEW id \in 0 .. NDocuments - 1, NEW link, NEW about, NEW inside \in BOOLEAN,
         OpenFiche(id, link, about, inside), about = id + 1,
         IF inside THEN open["explorer"] ELSE link = id /\ link \in visible /\ docView = "grid"
  PROVE  DrillInv'
<1>1. /\ open' = [open EXCEPT !["explorer"] = TRUE]
      /\ trigger' = IF inside THEN trigger ELSE [trigger EXCEPT !["explorer"] = link]
      /\ followed' = [followed EXCEPT !["explorer"] = about]
      /\ live' = id /\ tab' = FirstTab(Fiches[id + 1])
      /\ shownModes' = shownModes /\ panels' = panels
      /\ docView' = docView /\ visible' = visible
  BY DEF OpenFiche, Swap, galleryVars
<1>2. id \in Int /\ about \in Int /\ id # NoFiche /\ id + 1 \in 1 .. NDocuments
  BY CorpusNumbers DEF NoFiche
<1>3. /\ open \in [ModeSet -> BOOLEAN] /\ trigger \in [ModeSet -> Int]
      /\ followed \in [ModeSet -> Int]
  BY DEF DrillInv, DrillType
<1>4. /\ open' \in [ModeSet -> BOOLEAN] /\ trigger' \in [ModeSet -> Int]
      /\ followed' \in [ModeSet -> Int]
  BY <1>1, <1>2, <1>3
<1>5. /\ open'["report"] = open["report"] /\ open'["explorer"] = TRUE
      /\ followed'["report"] = followed["report"] /\ followed'["explorer"] = about
      /\ trigger'["report"] = trigger["report"]
      /\ trigger'["explorer"] = IF inside THEN trigger["explorer"] ELSE link
  BY <1>1, <1>3 DEF ModeSet
<1>6. DrillType'
  BY <1>1, <1>4 DEF DrillType
<1>7. ProfileInv'
  BY <1>1, <1>5 DEF DrillInv, ProfileInv
<1>8. trigger'["explorer"] \in visible' /\ docView' = "grid"
  BY <1>1, <1>5 DEF DrillInv, FicheInv
<1>9. tab' # NoFiche => live' = 0 /\ tab' \in ToSet(Manifest)
  <2>1. Fiches[id + 1].tabs = IF id + 1 = 1 THEN Manifest ELSE <<>>
    BY <1>2, GalleryFiches
  <2>2. tab' = IF Fiches[id + 1].tabs = <<>> THEN NoFiche ELSE Fiches[id + 1].tabs[1]
    BY <1>1 DEF FirstTab
  <2>3. Manifest[1] \in ToSet(Manifest)
    BY ManifestNames
  <2>4. id + 1 = 1 => id = 0
    BY <1>2
  <2>. QED  BY <1>1, <2>1, <2>2, <2>3, <2>4
<1>10. FicheInv'
  BY <1>1, <1>2, <1>5, <1>8, <1>9 DEF FicheInv
<1>. QED  BY <1>6, <1>7, <1>10 DEF DrillInv

\* The neighbours of a place, around.
LEMMA Neighbours ==
  ASSUME NEW n \in Nat \ {0}, NEW i \in 1 .. n
  PROVE  /\ ((i - 1 + 1) % n) + 1 = (i % n) + 1 /\ (i % n) + 1 \in 1 .. n
         /\ ((i - 1 + (-1)) % n) + 1 = ((i - 2) % n) + 1 /\ ((i - 2) % n) + 1 \in 1 .. n
<1>1. i \in Int /\ i - 1 + 1 = i /\ i - 1 + (-1) = i - 2 /\ i - 2 \in Int
  OBVIOUS
<1>2. i % n \in 0 .. n - 1 /\ (i - 2) % n \in 0 .. n - 1
  BY <1>1, Remainders
<1>. QED  BY <1>1, <1>2

\* A click on an engine of the comparison opens the panel of that engine.
LEMMA OpenProfile_keeps ==
  ASSUME DrillInv, result = GalleryResult, OpenProfile
  PROVE  DrillInv'
<1>1. PICK l \in ProfileLinks : OpenPanel(l.to, l.engine, l.engine, FALSE)
  BY DEF OpenProfile
<1>2. l.engine \in ToSet(Manifest) /\ l.to = PositionIn(Manifest, l.engine)
  BY LinksOfTheComparison
<1>3. "report" \in shownModes
  BY DEF OpenProfile
<1>. QED  BY <1>1, <1>2, <1>3, PanelOpens

\* Next and previous of a profile lead to the panel of the engine they name.
LEMMA NeighbourProfile_keeps ==
  ASSUME DrillInv, result = GalleryResult, NeighbourProfile
  PROVE  DrillInv'
<1>1. "report" \in shownModes /\ open["report"]
  BY DEF NeighbourProfile
<1>2. PICK i \in DOMAIN Profiles, step \in {-1, 1} :
        LET n == Len(result.engines)
            about == Profiles[((i - 1 + step) % n) + 1].of
        IN OpenPanel(IF step = 1 THEN Profiles[i].next ELSE Profiles[i].previous,
                     NoFiche, about, TRUE)
  BY DEF NeighbourProfile
<1>. DEFINE about == Profiles[((i - 1 + step) % NEngines) + 1].of
            id == IF step = 1 THEN Profiles[i].next ELSE Profiles[i].previous
<1>3. Len(result.engines) = NEngines /\ NEngines \in Nat \ {0}
  BY GalleryFields, ManifestNames
<1>4. OpenPanel(id, NoFiche, about, TRUE)
  BY <1>2, <1>3
<1>5. i \in 1 .. NEngines
  BY GalleryProfiles
<1>6. /\ ((i - 1 + 1) % NEngines) + 1 = (i % NEngines) + 1
      /\ (i % NEngines) + 1 \in 1 .. NEngines
      /\ ((i - 1 + (-1)) % NEngines) + 1 = ((i - 2) % NEngines) + 1
      /\ ((i - 2) % NEngines) + 1 \in 1 .. NEngines
  BY <1>3, <1>5, Neighbours
<1>7. about \in ToSet(Manifest) /\ id = PositionIn(Manifest, about)
  <2>1. CASE step = 1
    <3>1. about = Manifest[(i % NEngines) + 1]
      BY <1>6, <2>1, GalleryProfiles
    <3>2. id = PositionIn(Manifest, Manifest[(i % NEngines) + 1])
      BY <1>5, <2>1, GalleryProfiles
    <3>. QED  BY <1>6, <3>1, <3>2, ManifestNames
  <2>2. CASE step = -1
    <3>1. about = Manifest[((i - 2) % NEngines) + 1]
      BY <1>6, <2>2, GalleryProfiles
    <3>2. id = PositionIn(Manifest, Manifest[((i - 2) % NEngines) + 1])
      BY <1>5, <2>2, GalleryProfiles
    <3>. QED  BY <1>6, <3>1, <3>2, ManifestNames
  <2>. QED  BY <2>1, <2>2
<1>. HIDE DEF about, id
<1>. QED  BY <1>1, <1>4, <1>7, PanelOpens

\* A click on a visible card opens the sheet of its document.
LEMMA OpenDocument_keeps ==
  ASSUME DrillInv, result = GalleryResult, OpenDocument
  PROVE  DrillInv'
<1>1. "explorer" \in shownModes /\ docView = "grid"
  BY DEF OpenDocument
<1>2. PICK i \in DOMAIN Cards :
        Cards[i].to \in visible /\ OpenFiche(Cards[i].to, Cards[i].to, Cards[i].of, FALSE)
  BY DEF OpenDocument
<1>3. i \in 1 .. NDocuments /\ Cards[i].to = i - 1 /\ Cards[i].of = i
  BY GalleryCards
<1>4. i - 1 \in 0 .. NDocuments - 1 /\ i = (i - 1) + 1
  BY <1>3, CorpusNumbers
<1>5. i - 1 \in visible /\ OpenFiche(i - 1, i - 1, i, FALSE)
  BY <1>2, <1>3
<1>. QED  BY <1>1, <1>4, <1>5, FicheOpens

\* Next and previous of a sheet lead to the sheet of the document they name.
LEMMA NeighbourDocument_keeps ==
  ASSUME DrillInv, result = GalleryResult, NeighbourDocument
  PROVE  DrillInv'
<1>1. "explorer" \in shownModes /\ open["explorer"] /\ live # NoFiche
  BY DEF NeighbourDocument
<1>2. PICK step \in {-1, 1} :
       LET about == result.documents[((live + step) % Len(result.documents)) + 1]
           fiche == Fiches[live + 1]
       IN OpenFiche(IF step = 1 THEN fiche.next ELSE fiche.previous, NoFiche, about, TRUE)
  BY DEF NeighbourDocument
<1>. DEFINE i == live + 1
            about == ((i - 1 + step) % NDocuments) + 1
            id == IF step = 1 THEN i % NDocuments ELSE (i - 2) % NDocuments
<1>3. result.documents = Corpus /\ Len(Corpus) = NDocuments /\ NDocuments \in Nat \ {0}
  BY GalleryFields, CorpusNumbers
<1>4. i \in 1 .. NDocuments /\ live + step = i - 1 + step
  <2>1. live \in 0 .. NDocuments - 1
    BY <1>1 DEF DrillInv, DrillType
  <2>. QED  BY <1>3, <2>1
<1>5. /\ ((i - 1 + 1) % NDocuments) + 1 = (i % NDocuments) + 1
      /\ (i % NDocuments) + 1 \in 1 .. NDocuments
      /\ ((i - 1 + (-1)) % NDocuments) + 1 = ((i - 2) % NDocuments) + 1
      /\ ((i - 2) % NDocuments) + 1 \in 1 .. NDocuments
  BY <1>3, <1>4, Neighbours
<1>6. /\ Fiches[i].next = i % NDocuments /\ Fiches[i].previous = (i - 2) % NDocuments
  BY <1>4, GalleryFiches
<1>7. about = id + 1 /\ about \in 1 .. NDocuments
  BY <1>5
<1>8. id \in 0 .. NDocuments - 1
  <2>1. i % NDocuments \in 0 .. NDocuments - 1 /\ (i - 2) % NDocuments \in 0 .. NDocuments - 1
    <3>1. i \in Int /\ i - 2 \in Int
      BY <1>4
    <3>. HIDE DEF i
    <3>. QED  BY <1>3, <3>1, Remainders
  <2>. QED  BY <2>1
<1>9. result.documents[((live + step) % Len(result.documents)) + 1] = about
  BY <1>3, <1>4, <1>7, CorpusNumbers
<1>10. OpenFiche(id, NoFiche, about, TRUE)
  BY <1>2, <1>6, <1>9
<1>. HIDE DEF about, id
<1>. QED  BY <1>1, <1>7, <1>8, <1>10, FicheOpens

\* Closing a detail forgets what was followed and the open sheet.
LEMMA CloseDetail_keeps ==
  ASSUME DrillInv, CloseDetail
  PROVE  DrillInv'
<1>1. PICK m \in shownModes :
        /\ open[m] /\ open' = [open EXCEPT ![m] = FALSE]
        /\ live' = IF m = "explorer" THEN NoFiche ELSE live
        /\ tab' = IF m = "explorer" THEN NoFiche ELSE tab
        /\ followed' = [followed EXCEPT ![m] = NoFiche]
        /\ UNCHANGED <<shownModes, panels, trigger, galleryVars, compareVars>>
  BY DEF CloseDetail
<1>2. /\ shownModes' = shownModes /\ panels' = panels /\ trigger' = trigger
      /\ visible' = visible /\ docView' = docView
  BY <1>1 DEF galleryVars
<1>3. /\ open \in [ModeSet -> BOOLEAN] /\ trigger \in [ModeSet -> Int]
      /\ followed \in [ModeSet -> Int]
  BY DEF DrillInv, DrillType
<1>4. open' \in [ModeSet -> BOOLEAN] /\ followed' \in [ModeSet -> Int]
  <2>1. NoFiche \in Int
    BY DEF NoFiche
  <2>2. open' \in [ModeSet -> BOOLEAN]
    BY <1>1, <1>3
  <2>3. followed' \in [ModeSet -> Int]
    BY <1>1, <1>3, <2>1
  <2>. QED  BY <2>2, <2>3
<1>5. DrillType'
  BY <1>1, <1>2, <1>4 DEF DrillInv, DrillType
<1>6. \A k \in ModeSet : k # m => open'[k] = open[k] /\ followed'[k] = followed[k]
  BY <1>1, <1>3
<1>7. m \in ModeSet => ~open'[m]
  BY <1>1, <1>3
<1>8. "report" \in ModeSet /\ "explorer" \in ModeSet
  BY DEF ModeSet
<1>9. ProfileInv'
  <2>1. CASE m = "report"
    BY <1>7, <1>8, <2>1 DEF ProfileInv
  <2>2. CASE m # "report"
    BY <1>2, <1>6, <1>8, <2>2 DEF DrillInv, ProfileInv
  <2>. QED  BY <2>1, <2>2
<1>10. FicheInv'
  <2>1. CASE m = "explorer"
    <3>1. ~open'["explorer"] /\ live' = NoFiche /\ tab' = NoFiche
      BY <1>1, <1>7, <1>8, <2>1
    <3>. QED  BY <1>1, <1>2, <3>1 DEF FicheInv
  <2>2. CASE m # "explorer"
    <3>1. live' = live /\ tab' = tab
      BY <1>1, <2>2
    <3>. QED  BY <1>1, <1>2, <1>6, <1>8, <2>2, <3>1 DEF DrillInv, FicheInv
  <2>. QED  BY <2>1, <2>2
<1>. QED  BY <1>5, <1>9, <1>10 DEF DrillInv

\* Every step of the browser keeps the panels and the sheets true.
LEMMA DrillInv_step ==
  ASSUME DrillInv, result = GalleryResult, BrowseNext
  PROVE  DrillInv'
<1>1. ASSUME UNCHANGED drillVars, docView' = docView \/ ~open["explorer"],
             visible' = visible \/ ~open["explorer"], shownModes' = {} => shownModes = {}
      PROVE  DrillInv'
  <2>1. DrillType' /\ ProfileInv'
    BY <1>1 DEF DrillInv, DrillType, ProfileInv, drillVars
  <2>2. FicheInv'
    BY <1>1 DEF DrillInv, FicheInv, drillVars
  <2>. QED  BY <2>1, <2>2 DEF DrillInv
<1>2. CASE LoadPage
  <2>1. /\ shownModes = {} /\ UNCHANGED drillVars /\ docView' = docView
    BY <1>2 DEF LoadPage
  <2>2. ~open["explorer"]
    BY <2>1 DEF DrillInv, FicheInv
  <2>. QED  BY <1>1, <2>1, <2>2
<1>3. CASE ActivateMode
  BY <1>1, <1>3 DEF ActivateMode, galleryVars
<1>4. CASE OpenProfile
  BY <1>4, OpenProfile_keeps
<1>5. CASE NeighbourProfile
  BY <1>5, NeighbourProfile_keeps
<1>6. CASE OpenDocument
  BY <1>6, OpenDocument_keeps
<1>7. CASE NeighbourDocument
  BY <1>7, NeighbourDocument_keeps
<1>8. CASE ShowEngine
  <2>1. /\ live # NoFiche /\ tab' \in ToSet(Fiches[live + 1].tabs)
        /\ UNCHANGED <<shownModes, open, panels, live, trigger, followed>>
        /\ visible' = visible /\ docView' = docView
    BY <1>8 DEF ShowEngine, galleryVars
  <2>2. live \in 0 .. NDocuments - 1 /\ live + 1 \in 1 .. NDocuments
    BY <2>1, CorpusNumbers DEF DrillInv, DrillType
  <2>3. Fiches[live + 1].tabs = IF live + 1 = 1 THEN Manifest ELSE <<>>
    BY <2>2, GalleryFiches
  <2>4. live = 0 /\ tab' \in ToSet(Manifest)
    <3>1. ToSet(<<>>) = {}
      BY DEF ToSet
    <3>2. live + 1 = 1
      BY <2>1, <2>3, <3>1
    <3>. QED  BY <2>1, <2>2, <2>3, <3>2
  <2>5. DrillType' /\ ProfileInv'
    BY <2>1 DEF DrillInv, DrillType, ProfileInv
  <2>6. FicheInv'
    BY <2>1, <2>4 DEF DrillInv, FicheInv
  <2>. QED  BY <2>5, <2>6 DEF DrillInv
<1>9. CASE CloseDetail
  BY <1>9, CloseDetail_keeps
<1>10. CASE ChooseFacet
  BY <1>1, <1>10 DEF ChooseFacet, InGallery
<1>11. CASE TurnPage
  BY <1>1, <1>11 DEF TurnPage, InGallery
<1>12. CASE ChooseView
  BY <1>1, <1>12 DEF ChooseView, InGallery
<1>. QED
  BY <1>2, <1>3, <1>4, <1>5, <1>6, <1>7, <1>8, <1>9, <1>10, <1>11, <1>12 DEF BrowseNext

\* The comparison with a file, after any step and as long as the result stands.
LEMMA CompareInv_step ==
  ASSUME CompareInv, result' = result,
         CompareNext \/ UNCHANGED compareVars
  PROVE  CompareInv'
<1>1. \A v, e : AggregateOf(v, e, "cer")' = AggregateOf(v, e, "cer")
  BY AggregatesStand
<1>2. reading \subseteq chosen /\ \A choice \in chosen : choice.file \notin TooLarge
  BY DEF CompareInv
<1>3. ASSUME banner' = banner, chosen \subseteq chosen'
      PROVE  ComparisonIsOfTheFile'
  BY <1>1, <1>3 DEF CompareInv, ComparisonIsOfTheFile
<1>4. CASE ChooseFile
  <2>. DEFINE choice(f) == [file |-> f, turn |-> Cardinality(chosen) + 1]
              read(f) == IF f \in TooLarge THEN {} ELSE {choice(f)}
  <2>1. PICK f \in Files : reading' = reading \cup read(f) /\ chosen' = chosen \cup read(f)
    BY <1>4 DEF ChooseFile
  <2>2. banner' = banner /\ chosen \subseteq chosen' /\ reading' \subseteq chosen'
    BY <1>2, <1>4, <2>1 DEF ChooseFile
  <2>3. \A c \in chosen' : c.file \notin TooLarge
    <3>1. \A c \in read(f) : c.file \notin TooLarge
      OBVIOUS
    <3>. HIDE DEF read
    <3>. QED  BY <1>2, <2>1, <3>1
  <2>. QED  BY <1>3, <2>2, <2>3 DEF CompareInv
<1>5. CASE ReadFile
  <2>1. PICK choice \in reading, others \in SUBSET (ToSet(result.engines) \X ToSet(ViewNames)) :
          /\ reading' = reading \ {choice} /\ chosen' = chosen
          /\ banner' = {[choice |-> choice, deltas |-> Deltas([k \in others |-> OtherRate])]}
    BY <1>5 DEF ReadFile
  <2>. DEFINE deltas == Deltas([k \in others |-> OtherRate])
  <2>2. /\ DOMAIN deltas = DOMAIN CerByKey \cap others
        /\ \A k \in DOMAIN deltas : deltas[k] = OtherRate - CerByKey[k]
    BY DEF Deltas
  <2>3. \A k \in DOMAIN CerByKey : CerByKey[k] = AggregateOf(k[2], k[1], "cer")
    BY DEF CerByKey
  <2>4. \A k \in DOMAIN deltas : deltas[k] = OtherRate - AggregateOf(k[2], k[1], "cer")
    BY <2>2, <2>3
  <2>. HIDE DEF deltas
  <2>5. \A shown \in banner' : shown.choice = choice /\ shown.deltas = deltas
    BY <2>1 DEF deltas
  <2>6. choice \in chosen' /\ choice.file \notin TooLarge
    BY <1>2, <2>1
  <2>7. ComparisonIsOfTheFile'
    BY <1>1, <2>4, <2>5, <2>6 DEF ComparisonIsOfTheFile
  <2>. QED  BY <1>2, <2>1, <2>7 DEF CompareInv
<1>6. CASE ReadInvalid
  <2>1. /\ reading' \subseteq reading /\ chosen' = chosen /\ banner' = banner
    BY <1>6 DEF ReadInvalid
  <2>. QED  BY <1>2, <1>3, <2>1 DEF CompareInv
<1>7. CASE UNCHANGED compareVars
  BY <1>2, <1>3, <1>7 DEF CompareInv, compareVars
<1>. QED  BY <1>4, <1>5, <1>6, <1>7 DEF CompareNext

\* Browsing a report leaves the page of the comparison alone.
LEMMA BrowseNext_compares ==
  ASSUME BrowseNext
  PROVE  UNCHANGED compareVars
<1>1. CASE LoadPage  BY <1>1 DEF LoadPage
<1>2. CASE ActivateMode  BY <1>2 DEF ActivateMode
<1>3. CASE OpenProfile  BY <1>3 DEF OpenProfile, OpenPanel
<1>4. CASE NeighbourProfile  BY <1>4 DEF NeighbourProfile, OpenPanel
<1>5. CASE OpenDocument  BY <1>5 DEF OpenDocument, OpenFiche
<1>6. CASE NeighbourDocument  BY <1>6 DEF NeighbourDocument, OpenFiche
<1>7. CASE ShowEngine  BY <1>7 DEF ShowEngine
<1>8. CASE CloseDetail  BY <1>8 DEF CloseDetail
<1>9. CASE ChooseFacet  BY <1>9 DEF ChooseFacet
<1>10. CASE TurnPage  BY <1>10 DEF TurnPage
<1>11. CASE ChooseView  BY <1>11 DEF ChooseView
<1>. QED
  BY <1>1, <1>2, <1>3, <1>4, <1>5, <1>6, <1>7, <1>8, <1>9, <1>10, <1>11 DEF BrowseNext

\* Every step of the browser keeps the inductive invariant.
LEMMA PageInv_step ==
  ASSUME PageInv, [PagesNext]_pagesVars
  PROVE  PageInv'
<1>1. CASE aspect = "gallery" /\ BrowseNext /\ UNCHANGED <<aspect, result, historyVars>>
  <2>1. CompareInv'
    BY <1>1, CompareInv_step, BrowseNext_compares DEF PageInv
  <2>2. DrillInv /\ GalleryInv /\ result = GalleryResult
    BY <1>1 DEF PageInv, GalleryInv, DrillInv
  <2>3. DrillInv' /\ SelectionInv'
    BY <1>1, <2>2, DrillInv_step, SelectionInv_step
  <2>4. (result = GalleryResult)'
    BY <1>1, <2>2
  <2>5. GalleryInv'
    BY <2>3, <2>4 DEF DrillInv, GalleryInv
  <2>. QED  BY <1>1, <2>1, <2>5 DEF PageInv
<1>2. ASSUME UNCHANGED <<aspect, result, shownModes, drillVars, galleryVars>>, CompareInv'
      PROVE  PageInv'
  <2>1. Idle => Idle'
    BY <1>2 DEF Idle, Closed, drillVars
  <2>2. ASSUME GalleryInv PROVE GalleryInv'
    <3>1. Chosen(facets)' = Chosen(facets')
      BY <1>2, ChosenStands
    <3>2. SelectionInv'
      BY <1>2, <2>2, <3>1 DEF GalleryInv, SelectionInv, galleryVars
    <3>3. DrillType' /\ ProfileInv' /\ FicheInv'
      BY <1>2, <2>2 DEF GalleryInv, DrillType, ProfileInv, FicheInv, drillVars, galleryVars
    <3>4. (result = GalleryResult)'
      BY <1>2, <2>2 DEF GalleryInv
    <3>. QED  BY <3>2, <3>3, <3>4 DEF GalleryInv
  <2>. QED  BY <1>2, <2>1, <2>2 DEF PageInv
<1>3. CASE CompareNext /\ UNCHANGED <<aspect, result, historyVars>>
  <2>1. CompareInv'
    BY <1>3, CompareInv_step DEF PageInv
  <2>2. UNCHANGED <<shownModes, drillVars, galleryVars>>
    BY <1>3 DEF CompareNext, ChooseFile, ReadFile, ReadInvalid
  <2>. QED  BY <1>2, <1>3, <2>1, <2>2
<1>4. CASE UNCHANGED <<aspect, result, pageVars>>
  <2>1. CompareInv'
    BY <1>4, CompareInv_step DEF PageInv, pageVars
  <2>. QED  BY <1>2, <1>4, <2>1 DEF pageVars
<1>. QED  BY <1>1, <1>3, <1>4 DEF PagesNext, pagesVars

\* The invariant of the page says that it shows what was asked for.
LEMMA PageInv_shows ==
  ASSUME PageInv
  PROVE  PageShowsWhatWasAskedFor
<1>1. ComparisonIsOfTheFile
  BY DEF PageInv, CompareInv
<1>2. CASE aspect # "gallery"
  <2>1. Idle
    BY <1>2 DEF PageInv
  <2>2. FicheIsTheOneFollowed
    BY <2>1 DEF Idle, Closed, FicheIsTheOneFollowed, ModeSet
  <2>3. SelectionIsShown
    BY <2>1 DEF Idle, SelectionIsShown
  <2>. QED  BY <1>1, <2>2, <2>3 DEF PageShowsWhatWasAskedFor
<1>3. CASE aspect = "gallery"
  <2>1. GalleryInv
    BY <1>3 DEF PageInv
  <2>2. result = GalleryResult /\ DrillType /\ ProfileInv /\ FicheInv /\ SelectionInv
    BY <2>1 DEF GalleryInv
  <2>3. result.engines = Manifest /\ result.documents = Corpus
    BY <2>2, GalleryFields
  <2>4. open["report"] =>
          /\ \E e \in ToSet(result.engines) :
               panels = {PositionIn(result.engines, e)} /\ followed["report"] = e
          /\ trigger["report"] \in {r.of[2] : r \in ToSet(ByEngine[1].rows)}
    BY <2>2, <2>3, LinksOfTheComparison DEF ProfileInv
  <2>5. open["explorer"] =>
          /\ live # NoFiche /\ followed["explorer"] = result.documents[live + 1]
          /\ docView = "grid" /\ trigger["explorer"] \in visible
    <3>1. live # NoFiche => live + 1 \in 1 .. NDocuments
      BY <2>2, CorpusNumbers DEF DrillType
    <3>2. live # NoFiche => result.documents[live + 1] = live + 1
      BY <2>3, <3>1, CorpusNumbers
    <3>. QED  BY <2>2, <3>2 DEF FicheInv
  <2>6. /\ live # NoFiche => open["explorer"]
        /\ tab # NoFiche => live # NoFiche /\ tab \in ToSet(Fiches[live + 1].tabs)
    <3>1. 1 \in 1 .. NDocuments
      BY CorpusNumbers
    <3>2. Fiches[1].tabs = Manifest
      BY <2>2, <3>1, GalleryFiches
    <3>3. live = 0 => live # NoFiche /\ live + 1 = 1
      BY DEF NoFiche
    <3>4. tab # NoFiche => live # NoFiche /\ tab \in ToSet(Fiches[live + 1].tabs)
      BY <2>2, <3>2, <3>3 DEF FicheInv
    <3>. QED  BY <2>2, <3>4 DEF FicheInv
  <2>7. FicheIsTheOneFollowed
    BY <2>4, <2>5, <2>6 DEF FicheIsTheOneFollowed
  <2>8. SelectionIsShown
    <3>. DEFINE wanted == {i \in Indices(result.documents) : Wanted(result.documents[i])}
    <3>1. wanted = Chosen(facets)
      <4>1. Indices(result.documents) = 1 .. NDocuments
        BY <2>3, CorpusNumbers DEF Indices
      <4>2. \A i \in 1 .. NDocuments : result.documents[i] = i
        BY <2>3, CorpusNumbers
      <4>. QED  BY <4>1, <4>2 DEF Chosen, Wanted
    <3>. HIDE DEF wanted
    <3>2. ASSUME shownModes # {}
          PROVE  /\ visible \subseteq {i - 1 : i \in wanted}
                 /\ Cardinality(visible) = Min({PageSize, Cardinality(wanted) - PageSize * pageNumber})
      <4>1. NDocuments \in Nat /\ wanted \in SUBSET (1 .. NDocuments)
        BY <3>1, ChosenPages, CorpusNumbers
      <4>2. /\ pageNumber \in 0 .. PagesOf(Cardinality(wanted)) - 1
            /\ visible = {Nth(wanted, k) - 1 : k \in OnPage(Cardinality(wanted), pageNumber)}
        BY <2>2, <3>1, <3>2 DEF SelectionInv
      <4>. QED  BY <4>1, <4>2, ShownOnPage
    <3>. QED  BY <3>2 DEF SelectionIsShown, wanted
  <2>. QED  BY <1>1, <2>7, <2>8 DEF PageShowsWhatWasAskedFor
<1>. QED  BY <1>2, <1>3

\* Whatever is clicked in the page of a report, the open panel or sheet is that
\* of the last link followed, the cards shown are a page of exactly those the
\* facets ask for, and a comparison on show is of a file that was chosen (not
\* always the last one) and is not over the limit of size, with
\* the aggregates of this report (report.js, compare.js).
THEOREM BrowsingIsFaithful == PagesSpec => []PageShowsWhatWasAskedFor
<1>1. PagesInit => PageInv
  BY PageInv_init
<1>2. PageInv /\ [PagesNext]_pagesVars => PageInv'
  BY PageInv_step
<1>3. PageInv => PageShowsWhatWasAskedFor
  BY PageInv_shows
<1>. QED  BY <1>1, <1>2, <1>3, PTL DEF PagesSpec
=============================================================================
