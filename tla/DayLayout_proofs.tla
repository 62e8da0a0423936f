--------------------------- MODULE DayLayout_proofs ---------------------------
(***************************************************************************)
(* Proofs about DayLayout: on any day and for any list of events, pills    *)
(* that share a moment are side by side, the width is divided no finer     *)
(* than the busiest moment needs, and an event has a pill on exactly the   *)
(* days it takes time of.  What a recursive function or an order on a      *)
(* finite set gives for every size is shown by the least counterexample.   *)
(***************************************************************************)
EXTENDS DayLayout, TLAPS, WellFoundedInduction, FiniteSetTheorems

-----------------------------------------------------------------------------
(* Extremes, and the parts of an instant.                                  *)

LEMMA Least ==
  ASSUME NEW T \in SUBSET Nat, T # {}
  PROVE  \E n \in T : \A k \in T : n <= k
<1>1. PICK n \in T : \A k \in T : <<k, n>> \notin OpToRel(<, Nat)
  BY NatLessThanWellFounded, WFMin
<1>2. \A k \in T : ~(k < n)
  BY <1>1 DEF OpToRel
<1> QED BY <1>2

LEMMA TwoExtremes ==
  ASSUME NEW a \in Int, NEW b \in Int
  PROVE  /\ Max({a, b}) = IF a >= b THEN a ELSE b
         /\ Min({a, b}) = IF a <= b THEN a ELSE b
BY DEF Max, Min

(* An instant is its day and its time of day, and back.                    *)
LEMMA DayAndTime ==
  ASSUME NEW t \in Int
  PROVE  TimeOf(t) \in 0..SlotsPerDay - 1 /\ DayOf(t) \in Int /\ At(DayOf(t), TimeOf(t)) = t
BY LayoutAssumption DEF TimeOf, DayOf, At

LEMMA MinIs ==
  ASSUME NEW T \in SUBSET Nat, T # {}
  PROVE  Min(T) \in T /\ \A k \in T : Min(T) <= k
BY Least DEF Min

LEMMA MaxIs ==
  ASSUME NEW n \in Nat, NEW T \in SUBSET (0..n), T # {}
  PROVE  Max(T) \in T /\ \A k \in T : Max(T) >= k
<1> DEFINE U == {m \in Nat : m <= n /\ n - m \in T}
<1>1. U \in SUBSET Nat /\ U # {}
  <2>1. PICK t \in T : TRUE
    OBVIOUS
  <2>2. n - t \in Nat /\ n - t <= n /\ n - (n - t) = t
    BY <2>1
  <2>3. n - t \in U
    BY <2>2
  <2> QED BY <2>3
<1>2. PICK m \in U : \A k \in U : m <= k
  BY <1>1, Least
<1>3. ASSUME NEW k \in T PROVE n - m >= k
  <2>1. n - k \in Nat /\ n - k <= n /\ n - (n - k) = k
    OBVIOUS
  <2>2. n - k \in U
    BY <2>1
  <2>3. m <= n - k
    BY <1>2, <2>2
  <2> QED BY <2>3, <1>2
<1>4. n - m \in T
  BY <1>2
<1>5. \E x \in T : \A k \in T : x >= k
  BY <1>3, <1>4
<1> QED BY <1>5 DEF Max

LEMMA MaxEquals ==
  ASSUME NEW T \in SUBSET Int, NEW x \in T, \A y \in T : x >= y
  PROVE  Max(T) = x
<1>1. Max(T) \in T /\ \A y \in T : Max(T) >= y
  BY DEF Max
<1>2. PICK y : y = Max(T)
  OBVIOUS
<1>3. y \in Int /\ x \in Int /\ y >= x /\ x >= y
  BY <1>1, <1>2
<1>4. x = y
  BY <1>3
<1> QED BY <1>2, <1>4

-----------------------------------------------------------------------------
(* Any finite set can be sorted by a strict order.                         *)
Orders(R, S) ==
  /\ \A x, y \in S : x = y \/ <<x, y>> \in R \/ <<y, x>> \in R
  /\ \A x, y, z \in S : <<x, y>> \in R /\ <<y, z>> \in R => <<x, z>> \in R
  /\ \A x \in S : <<x, x>> \notin R

LastIn(R, T, x) == \A y \in T : y = x \/ <<y, x>> \in R

LEMMA LastExists ==
  ASSUME NEW R, NEW S, Orders(R, S), IsFiniteSet(S), S # {}
  PROVE  \E x \in S : LastIn(R, S, x)
<1> DEFINE Bad(T) == T # {} /\ ~ \E x \in T : LastIn(R, T, x)
           Sizes == {n \in Nat : \E T \in SUBSET S : Cardinality(T) = n /\ Bad(T)}
<1> SUFFICES ASSUME Bad(S) PROVE FALSE
  OBVIOUS
<1>1. Sizes \in SUBSET Nat /\ Sizes # {}
  <2>1. Cardinality(S) \in Nat
    BY FS_CardinalityType
  <2>2. Cardinality(S) \in Sizes
    BY <2>1
  <2> QED BY <2>2
<1>2. PICK n \in Sizes : \A k \in Sizes : n <= k
  BY <1>1, Least
<1>3. PICK T \in SUBSET S : Cardinality(T) = n /\ Bad(T)
  BY <1>2
<1>4. PICK x \in T : TRUE
  BY <1>3
<1>5. PICK U : U = T \ {x}
  OBVIOUS
<1>6. U \in SUBSET S /\ Cardinality(U) = n - 1 /\ Cardinality(U) \in Nat /\ n \in Nat
  <2>1. IsFiniteSet(T)
    BY FS_Subset
  <2>2. IsFiniteSet(U) /\ Cardinality(U) = n - 1
    BY <1>3, <1>4, <1>5, <2>1, FS_RemoveElement
  <2> QED BY <1>5, <2>2, FS_CardinalityType, <1>2
<1>7. ~Bad(U)
  <2>1. n - 1 \notin Sizes
    BY <1>2, <1>6
  <2> QED BY <1>6, <2>1
<1>8. CASE U = {}
  BY <1>3, <1>4, <1>5, <1>8 DEF LastIn
<1>9. CASE U # {}
  <2>1. PICK y \in U : LastIn(R, U, y)
    BY <1>7, <1>9
  <2>2. \A z \in T : z = x \/ z \in U
    BY <1>5
  <2>3. x # y /\ x \in S /\ y \in S /\ y \in T
    BY <1>4, <1>5, <2>1
  <2>4. CASE <<x, y>> \in R
    <3>1. LastIn(R, T, y)
      BY <2>1, <2>2, <2>4 DEF LastIn
    <3> QED BY <1>3, <2>3, <3>1
  <2>5. CASE <<y, x>> \in R
    <3>1. \A z \in U : <<z, x>> \in R
      BY <2>1, <2>3, <2>5, <1>6 DEF LastIn, Orders
    <3>2. LastIn(R, T, x)
      BY <3>1, <2>2 DEF LastIn
    <3> QED BY <1>3, <1>4, <3>2
  <2> QED BY <2>3, <2>4, <2>5 DEF Orders
<1> QED BY <1>8, <1>9

InOrder(R, s, n) == \A i, j \in 1..n : i < j => <<s[i], s[j]>> \in R

LEMMA SortExists ==
  ASSUME NEW R, NEW S, Orders(R, S), IsFiniteSet(S)
  PROVE  \E s \in [1..Cardinality(S) -> S] : InOrder(R, s, Cardinality(S))
<1> DEFINE Bad(T, n) == ~ \E s \in [1..n -> T] : InOrder(R, s, n)
           Sizes == {n \in Nat : \E T \in SUBSET S : Cardinality(T) = n /\ Bad(T, n)}
<1> SUFFICES ASSUME Bad(S, Cardinality(S)) PROVE FALSE
  OBVIOUS
<1>1. Sizes \in SUBSET Nat /\ Sizes # {}
  <2>1. Cardinality(S) \in Nat
    BY FS_CardinalityType
  <2>2. Cardinality(S) \in Sizes
    BY <2>1
  <2> QED BY <2>2
<1>2. PICK n \in Sizes : \A k \in Sizes : n <= k
  BY <1>1, Least
<1>3. PICK T \in SUBSET S : Cardinality(T) = n /\ Bad(T, n)
  BY <1>2
<1>4. IsFiniteSet(T)
  BY FS_Subset
<1>5. T # {}
  <2> SUFFICES ASSUME T = {} PROVE FALSE
    OBVIOUS
  <2>1. n = 0
    BY <1>3, FS_EmptySet
  <2>2. [i \in 1..0 |-> 0] \in [1..0 -> T] /\ InOrder(R, [i \in 1..0 |-> 0], 0)
    BY DEF InOrder
  <2> QED BY <1>3, <2>1, <2>2
<1>6. Orders(R, T)
  BY DEF Orders
<1>7. PICK x \in T : LastIn(R, T, x)
  BY <1>4, <1>5, <1>6, LastExists
<1>8. PICK U : U = T \ {x}
  OBVIOUS
<1>9. U \in SUBSET S /\ Cardinality(U) = n - 1 /\ n \in Nat /\ n - 1 \in Nat
  <2>1. IsFiniteSet(U) /\ Cardinality(U) = n - 1
    BY <1>3, <1>4, <1>7, <1>8, FS_RemoveElement
  <2> QED BY <1>8, <2>1, FS_CardinalityType, <1>2
<1>10. PICK s \in [1..n - 1 -> U] : InOrder(R, s, n - 1)
  <2>1. n - 1 \notin Sizes
    BY <1>2, <1>9
  <2> QED BY <1>9, <2>1
<1> DEFINE t == [i \in 1..n |-> IF i = n THEN x ELSE s[i]]
<1>11. t \in [1..n -> T]
  <2>1. ASSUME NEW i \in 1..n PROVE (IF i = n THEN x ELSE s[i]) \in T
    <3>1. i = n \/ i \in 1..n - 1
      BY <1>9
    <3> QED BY <3>1, <1>8, <1>10
  <2> QED BY <2>1
<1>12. InOrder(R, t, n)
  <2>1. ASSUME NEW i \in 1..n, NEW j \in 1..n, i < j PROVE <<t[i], t[j]>> \in R
    <3>1. i \in 1..n - 1 /\ t[i] = s[i] /\ s[i] \in U
      BY <1>9, <1>10, <2>1
    <3>2. CASE j = n
      <4>1. t[j] = x /\ s[i] # x /\ s[i] \in T
        BY <3>1, <3>2, <1>8
      <4> QED BY <3>1, <4>1, <1>7 DEF LastIn
    <3>3. CASE j # n
      <4>1. j \in 1..n - 1 /\ t[j] = s[j]
        BY <3>3, <1>9
      <4> QED BY <2>1, <3>1, <4>1, <1>10 DEF InOrder
    <3> QED BY <3>2, <3>3
  <2> QED BY <2>1 DEF InOrder
<1> QED BY <1>3, <1>11, <1>12

-----------------------------------------------------------------------------
(* The columns of a day's items, in the order of their starts.             *)
InStartOrder(items, n) ==
  /\ DOMAIN items = 1..n
  /\ \A k \in 1..n : /\ items[k].start \in Int /\ items[k].end \in Int
                     /\ items[k].start < items[k].end
  /\ \A j, k \in 1..n : j < k => items[j].start <= items[k].start

LEMMA ClusterIs ==
  ASSUME NEW n \in Nat, NEW items, InStartOrder(items, n), NEW k \in 1..n
  PROVE  /\ ClusterOf(items, k) \in 1..k
         /\ Begins(items, ClusterOf(items, k))
         /\ \A j \in 1..k : Begins(items, j) => j <= ClusterOf(items, k)
<1> DEFINE T == {j \in 1..k : Begins(items, j)}
<1>1. T \in SUBSET (0..n)
  OBVIOUS
<1>2. 1 \in T
  BY DEF Begins
<1>3. Max(T) \in T /\ \A j \in T : Max(T) >= j
  BY <1>1, <1>2, MaxIs
<1>4. ClusterOf(items, k) = Max(T)
  BY DEF ClusterOf
<1> HIDE DEF T
<1>5. PICK c : c = Max(T)
  OBVIOUS
<1>6. c \in 1..k /\ Begins(items, c)
  BY <1>3, <1>5 DEF T
<1>7. ASSUME NEW j \in 1..k, Begins(items, j) PROVE j <= c
  <2>1. j \in T
    BY <1>7 DEF T
  <2> QED BY <2>1, <1>3, <1>5, <1>6
<1> QED BY <1>4, <1>5, <1>6, <1>7

(* A pill shares the cluster of every later pill that starts before its    *)
(* end, and of every pill between its cluster's first and itself.          *)
LEMMA SameCluster ==
  ASSUME NEW n \in Nat, NEW items, InStartOrder(items, n),
         NEW j \in 1..n, NEW k \in 1..n, j < k,
         ClusterOf(items, k) <= j \/ items[k].start < items[j].end
  PROVE  ClusterOf(items, j) = ClusterOf(items, k) /\ ClusterOf(items, k) <= j
<1>1. PICK a, b : a = ClusterOf(items, j) /\ b = ClusterOf(items, k)
  OBVIOUS
<1>2. a \in 1..j /\ Begins(items, a) /\ \A i \in 1..j : Begins(items, i) => i <= a
  BY <1>1, ClusterIs
<1>3. b \in 1..k /\ Begins(items, b) /\ \A i \in 1..k : Begins(items, i) => i <= b
  BY <1>1, ClusterIs
<1>4. b <= j
  <2> SUFFICES ASSUME j < b PROVE FALSE
    BY <1>3
  <2>1. items[j].end <= items[b].start
    <3>1. j \in 1..b - 1
      BY <1>3
    <3> QED BY <3>1, <1>3 DEF Begins
  <2>2. items[b].start <= items[k].start
    <3>1. b = k \/ b < k
      BY <1>3
    <3> QED BY <3>1, <1>3 DEF InStartOrder
  <2>3. items[j].end \in Int /\ items[b].start \in Int /\ items[k].start \in Int
    BY <1>3 DEF InStartOrder
  <2>4. items[k].start < items[j].end
    BY <1>1, <1>3
  <2> QED BY <2>1, <2>2, <2>3, <2>4
<1>5. b <= a
  <2>1. b \in 1..j
    BY <1>3, <1>4
  <2> QED BY <2>1, <1>2, <1>3
<1>6. a <= b
  <2>1. a \in 1..k
    BY <1>2
  <2> QED BY <2>1, <1>2, <1>3
<1> QED BY <1>1, <1>2, <1>3, <1>4, <1>5, <1>6

(* The columns of the first n pills follow from each other.                *)
FreeColumns(items, f, k) ==
  {c \in 0..k - 1 : \A j \in ClusterOf(items, k)..k - 1 : f[j] = c => Fits(items[j], items[k])}

Assigned(items, f, n) ==
  \A k \in 1..n : f[k] \in 0..k - 1 /\ f[k] = Min(FreeColumns(items, f, k))

LEMMA FreeExists ==
  ASSUME NEW n \in Nat, NEW items, InStartOrder(items, n), NEW k \in 1..n, NEW f,
         \A j \in 1..k - 1 : f[j] \in 0..j - 1
  PROVE  /\ Min(FreeColumns(items, f, k)) \in FreeColumns(items, f, k)
         /\ \A c \in FreeColumns(items, f, k) : Min(FreeColumns(items, f, k)) <= c
<1>1. FreeColumns(items, f, k) \in SUBSET Nat
  BY DEF FreeColumns
<1>2. ClusterOf(items, k) \in 1..k
  BY ClusterIs
<1>3. ASSUME NEW j \in ClusterOf(items, k)..k - 1 PROVE f[j] # k - 1
  <2>1. j \in 1..k - 1
    BY <1>2
  <2>2. f[j] \in 0..j - 1
    BY <2>1
  <2> QED BY <2>1, <2>2
<1>4. k - 1 \in FreeColumns(items, f, k)
  BY <1>3 DEF FreeColumns
<1> QED BY <1>1, <1>4, MinIs

LEMMA SameFree ==
  ASSUME NEW n \in Nat, NEW items, InStartOrder(items, n), NEW k \in 1..n, NEW f, NEW g,
         \A j \in 1..k - 1 : f[j] = g[j]
  PROVE  FreeColumns(items, f, k) = FreeColumns(items, g, k)
<1>1. ClusterOf(items, k) \in 1..k
  BY ClusterIs
<1>2. \A j \in ClusterOf(items, k)..k - 1 : f[j] = g[j]
  BY <1>1
<1> QED BY <1>2 DEF FreeColumns

LEMMA ColumnsExist ==
  ASSUME NEW N \in Nat, NEW items, InStartOrder(items, N)
  PROVE  \A n \in 0..N : \E f \in [1..n -> Nat] : Assigned(items, f, n)
<1> DEFINE Missing == {n \in 0..N : ~ \E f \in [1..n -> Nat] : Assigned(items, f, n)}
<1> SUFFICES ASSUME Missing # {} PROVE FALSE
  OBVIOUS
<1>1. PICK n \in Missing : \A k \in Missing : n <= k
  <2>1. Missing \in SUBSET Nat
    OBVIOUS
  <2> QED BY <2>1, Least
<1>2. n # 0
  <2>1. [k \in 1..0 |-> 0] \in [1..0 -> Nat] /\ Assigned(items, [k \in 1..0 |-> 0], 0)
    BY DEF Assigned
  <2> QED BY <2>1
<1>3. n \in Nat /\ n \in 1..N /\ n - 1 \in 0..N /\ n - 1 \notin Missing
  <2>1. n \in 0..N /\ ~(n <= n - 1) /\ n \in 1..N /\ n - 1 \in 0..N
    BY <1>1, <1>2
  <2> HIDE DEF Missing
  <2> QED BY <1>1, <2>1
<1>4. PICK f \in [1..n - 1 -> Nat] : Assigned(items, f, n - 1)
  BY <1>3
<1>5. PICK m : m = Min(FreeColumns(items, f, n))
  OBVIOUS
<1>6. m \in 0..n - 1
  <2>1. \A j \in 1..n - 1 : f[j] \in 0..j - 1
    BY <1>4 DEF Assigned
  <2>2. m \in FreeColumns(items, f, n)
    BY <1>3, <1>5, <2>1, FreeExists
  <2> QED BY <2>2 DEF FreeColumns
<1>7. PICK g : g = [k \in 1..n |-> IF k = n THEN m ELSE f[k]]
  OBVIOUS
<1>8. \A k \in 1..n - 1 : g[k] = f[k]
  BY <1>3, <1>7
<1>9. g[n] = m
  BY <1>3, <1>7
<1>10. ASSUME NEW k \in 1..n
       PROVE  g[k] \in 0..k - 1 /\ g[k] = Min(FreeColumns(items, g, k))
  <2>1. k \in 1..N /\ \A j \in 1..k - 1 : g[j] = f[j]
    BY <1>3, <1>8
  <2>2. FreeColumns(items, g, k) = FreeColumns(items, f, k)
    BY <2>1, SameFree
  <2>3. CASE k = n
    BY <2>2, <2>3, <1>5, <1>6, <1>9
  <2>4. CASE k # n
    <3>1. k \in 1..n - 1
      BY <2>4, <1>3
    <3> QED BY <2>2, <3>1, <1>4, <1>8 DEF Assigned
  <2> QED BY <2>3, <2>4
<1>11. g \in [1..n -> Nat]
  BY <1>10, <1>7
<1>12. Assigned(items, g, n)
  BY <1>10 DEF Assigned
<1> QED BY <1>1, <1>11, <1>12

LEMMA ColumnsAre ==
  ASSUME NEW n \in Nat, NEW items, InStartOrder(items, n)
  PROVE  Columns(items) \in [1..n -> Nat] /\ Assigned(items, Columns(items), n)
<1> DEFINE Body(f) == [k \in DOMAIN items |->
              Min({c \in 0..k - 1 : \A j \in ClusterOf(items, k)..k - 1 :
                    f[j] = c => Fits(items[j], items[k])})]
<1>1. DOMAIN items = 1..n
  BY DEF InStartOrder
<1>2. PICK f \in [1..n -> Nat] : Assigned(items, f, n)
  BY ColumnsExist
<1>3. f = Body(f)
  BY <1>1, <1>2 DEF Assigned, FreeColumns
<1>4. Columns(items) = Body(Columns(items))
  BY <1>3 DEF Columns
<1>5. PICK g : g = Columns(items)
  OBVIOUS
<1>6. DOMAIN g = 1..n /\ g = [k \in 1..n |-> g[k]]
      /\ \A k \in 1..n : g[k] = Min(FreeColumns(items, g, k))
  BY <1>1, <1>4, <1>5 DEF FreeColumns
<1> HIDE DEF Body
<1>7. \A k \in 1..n : g[k] = f[k]
  <2> DEFINE Apart == {k \in 1..n : g[k] # f[k]}
  <2> SUFFICES ASSUME Apart # {} PROVE FALSE
    OBVIOUS
  <2>1. PICK k \in Apart : \A i \in Apart : k <= i
    <3>1. Apart \in SUBSET Nat
      OBVIOUS
    <3> QED BY <3>1, Least
  <2>2. k \in 1..n /\ \A j \in 1..k - 1 : g[j] = f[j]
    BY <2>1
  <2>3. FreeColumns(items, g, k) = FreeColumns(items, f, k)
    BY <2>2, SameFree
  <2>4. g[k] = f[k]
    BY <2>2, <2>3, <1>2, <1>6 DEF Assigned
  <2> QED BY <2>1, <2>4
<1>8. g = f
  BY <1>6, <1>7
<1> QED BY <1>2, <1>5, <1>8

(* What a pill's column says of the pills before it.                       *)
LEMMA ColumnIs ==
  ASSUME NEW n \in Nat, NEW items, InStartOrder(items, n), NEW k \in 1..n
  PROVE  /\ Columns(items)[k] \in Nat
         /\ \A j \in ClusterOf(items, k)..k - 1 :
              Columns(items)[j] = Columns(items)[k] => items[j].end <= items[k].start
         /\ \A c \in 0..Columns(items)[k] - 1 :
              \E j \in ClusterOf(items, k)..k - 1 :
                Columns(items)[j] = c /\ items[k].start < items[j].end
<1>1. PICK f : f = Columns(items)
  OBVIOUS
<1>2. f[k] \in 0..k - 1 /\ f[k] = Min(FreeColumns(items, f, k))
      /\ \A j \in 1..k - 1 : f[j] \in 0..j - 1
  BY <1>1, ColumnsAre DEF Assigned
<1>3. f[k] \in FreeColumns(items, f, k) /\ \A c \in FreeColumns(items, f, k) : f[k] <= c
  BY <1>2, FreeExists
<1>4. \A j \in ClusterOf(items, k)..k - 1 : f[j] = f[k] => items[j].end <= items[k].start
  BY <1>3 DEF FreeColumns, Fits
<1>5. ASSUME NEW c \in 0..f[k] - 1
      PROVE  \E j \in ClusterOf(items, k)..k - 1 : f[j] = c /\ items[k].start < items[j].end
  <2>1. c \in 0..k - 1 /\ c \notin FreeColumns(items, f, k)
    BY <1>2, <1>3
  <2>2. PICK j \in ClusterOf(items, k)..k - 1 : f[j] = c /\ ~(items[j].end <= items[k].start)
    BY <2>1 DEF FreeColumns, Fits
  <2>3. j \in 1..n
    BY ClusterIs
  <2>4. items[k].start < items[j].end
    BY <2>2, <2>3 DEF InStartOrder
  <2> QED BY <2>2, <2>4
<1>6. f[k] \in Nat
  BY <1>2
<1> QED BY <1>1, <1>4, <1>5, <1>6

-----------------------------------------------------------------------------
(* A day's items are its pills, in the order of their starts.              *)
TimesOk(events) ==
  /\ \E n \in Nat : DOMAIN events = 1..n
  /\ \A i \in DOMAIN events : events[i].start \in Int /\ events[i].end \in Int

PartOk(e, d) ==
  /\ ClippedStart(e, d) \in Int /\ ClippedEnd(e, d) \in Int
  /\ ClippedStart(e, d) < ClippedEnd(e, d)

LEMMA DayPills ==
  ASSUME NEW events, TimesOk(events), NEW d \in Int
  PROVE  /\ IsFiniteSet(Pills(events, d)) /\ Pills(events, d) \subseteq Nat
         /\ At(d, 0) \in Int /\ At(d + 1, 0) \in Int
         /\ \A i \in Pills(events, d) :
              events[i].start \in Int /\ PartOk(events[i], d)
<1>1. At(d, 0) \in Int /\ At(d + 1, 0) \in Int
  BY LayoutAssumption DEF At
<1>2. PICK n \in Nat : Pills(events, d) \in SUBSET (1..n)
  BY DEF Pills, TimesOk
<1>3. IsFiniteSet(Pills(events, d))
  <2>1. IsFiniteSet(1..n)
    BY <1>2, FS_Interval
  <2> QED BY <1>2, <2>1, FS_Subset
<1>4. ASSUME NEW i \in Pills(events, d)
      PROVE  events[i].start \in Int /\ PartOk(events[i], d)
  <2>1. i \in DOMAIN events /\ ClippedStart(events[i], d) < ClippedEnd(events[i], d)
    BY DEF Pills
  <2>2. events[i].start \in Int /\ events[i].end \in Int
    BY <2>1 DEF TimesOk
  <2>3. /\ Max({events[i].start, At(d, 0)}) \in Int
        /\ Min({events[i].end, At(d + 1, 0)}) \in Int
    BY <1>1, <2>2, TwoExtremes
  <2> QED BY <2>1, <2>2, <2>3 DEF PartOk, ClippedStart, ClippedEnd
<1> QED BY <1>1, <1>2, <1>3, <1>4

(* One pill's rank is before another's.                                    *)
Lower(r, s) ==
  \/ r[1] < s[1]
  \/ r[1] = s[1] /\ r[2] < s[2]
  \/ r[1] = s[1] /\ r[2] = s[2] /\ r[3] < s[3]
  \/ r[1] = s[1] /\ r[2] = s[2] /\ r[3] = s[3] /\ r[4] < s[4]

LEMMA RankIs ==
  ASSUME NEW events, TimesOk(events), NEW d \in Int, NEW i \in Pills(events, d)
  PROVE  Rank(events, d, i) \in Int \X Int \X Int \X Nat /\ Rank(events, d, i)[4] = i
BY DayPills DEF Rank, PartOk

LEMMA PrecedesIs ==
  ASSUME NEW events, TimesOk(events), NEW d \in Int,
         NEW i \in Pills(events, d), NEW j \in Pills(events, d)
  PROVE  Precedes(events, d, i, j) <=> Lower(Rank(events, d, i), Rank(events, d, j))
<1>1. PICK r, s : r = Rank(events, d, i) /\ s = Rank(events, d, j)
  OBVIOUS
<1>2. Precedes(events, d, i, j) <=>
        \E n \in 1..4 : r[n] < s[n] /\ \A k \in 1..n - 1 : r[k] = s[k]
  BY <1>1 DEF Precedes
<1>3. (\E n \in 1..4 : r[n] < s[n] /\ \A k \in 1..n - 1 : r[k] = s[k]) <=> Lower(r, s)
  BY DEF Lower
<1> QED BY <1>1, <1>2, <1>3

LEMMA PrecedesOrders ==
  ASSUME NEW events, TimesOk(events), NEW d \in Int
  PROVE  /\ \A i, j \in Pills(events, d) :
              i = j \/ Precedes(events, d, i, j) \/ Precedes(events, d, j, i)
         /\ \A i, j, k \in Pills(events, d) :
              Precedes(events, d, i, j) /\ Precedes(events, d, j, k) => Precedes(events, d, i, k)
         /\ \A i \in Pills(events, d) : ~Precedes(events, d, i, i)
<1> DEFINE Ranks == Int \X Int \X Int \X Nat
<1>1. \A r, s \in Ranks : r[4] = s[4] \/ Lower(r, s) \/ Lower(s, r)
  BY DEF Lower
<1>2. \A r, s, t \in Ranks : Lower(r, s) /\ Lower(s, t) => Lower(r, t)
  BY DEF Lower
<1>3. \A r \in Ranks : ~Lower(r, r)
  BY DEF Lower
<1>4. \A i \in Pills(events, d) : Rank(events, d, i) \in Ranks /\ Rank(events, d, i)[4] = i
  BY RankIs
<1> HIDE DEF Ranks
<1> QED BY <1>1, <1>2, <1>3, <1>4, PrecedesIs

LEMMA SortedIs ==
  ASSUME NEW events, TimesOk(events), NEW d \in Int
  PROVE  \E n \in Nat :
           /\ Sorted(events, d) \in [1..n -> Pills(events, d)]
           /\ \A j, k \in 1..n : j < k =>
                Precedes(events, d, Sorted(events, d)[j], Sorted(events, d)[k])
<1> DEFINE S == Pills(events, d)
           R == {p \in S \X S : Precedes(events, d, p[1], p[2])}
<1>1. PICK n : n = Cardinality(S)
  OBVIOUS
<1>2. n \in Nat /\ IsFiniteSet(S)
  BY <1>1, DayPills, FS_CardinalityType
<1>3. \A i, j \in S : <<i, j>> \in R <=> Precedes(events, d, i, j)
  OBVIOUS
<1>4. Orders(R, S)
  <2>1. \A i, j \in S : i = j \/ <<i, j>> \in R \/ <<j, i>> \in R
    BY <1>3, PrecedesOrders
  <2>2. \A i, j, k \in S : <<i, j>> \in R /\ <<j, k>> \in R => <<i, k>> \in R
    BY <1>3, PrecedesOrders
  <2>3. \A i \in S : <<i, i>> \notin R
    BY <1>3, PrecedesOrders
  <2> QED BY <2>1, <2>2, <2>3 DEF Orders
<1>5. PICK s \in [1..n -> S] : InOrder(R, s, n)
  <2> HIDE DEF R, S
  <2> QED BY <1>1, <1>2, <1>4, SortExists
<1>6. \A j, k \in 1..n : j < k => Precedes(events, d, s[j], s[k])
  BY <1>3, <1>5 DEF InOrder
<1>7. s \in SetToSeqs(S)
  <2>1. ASSUME NEW j \in 1..n, NEW k \in 1..n, j # k PROVE s[j] # s[k]
    <3>1. \A i \in S : <<i, i>> \notin R
      BY <1>4 DEF Orders
    <3>2. j < k \/ k < j
      BY <2>1, <1>2
    <3> HIDE DEF R
    <3> QED BY <3>1, <3>2, <1>5 DEF InOrder
  <2> QED BY <2>1, <1>1, <1>5 DEF SetToSeqs
<1>8. PICK t : t = Sorted(events, d)
  OBVIOUS
<1>9. t \in SetToSeqs(S) /\ \A j, k \in DOMAIN t : j < k => Precedes(events, d, t[j], t[k])
  BY <1>5, <1>6, <1>7, <1>8 DEF Sorted
<1>10. t \in [1..n -> S]
  BY <1>1, <1>9 DEF SetToSeqs
<1> QED BY <1>2, <1>8, <1>9, <1>10

LEMMA ItemsInOrder ==
  ASSUME NEW events, TimesOk(events), NEW d \in Int
  PROVE  \E n \in Nat : InStartOrder(Items(events, d), n)
<1>1. PICK s : s = Sorted(events, d)
  OBVIOUS
<1>2. PICK n \in Nat :
        /\ s \in [1..n -> Pills(events, d)]
        /\ \A j, k \in 1..n : j < k => Precedes(events, d, s[j], s[k])
  BY <1>1, SortedIs
<1>3. PICK items : items = Items(events, d)
  OBVIOUS
<1>4. DOMAIN items = 1..n
      /\ \A k \in 1..n : /\ items[k].start = ClippedStart(events[s[k]], d)
                         /\ items[k].end = ClippedEnd(events[s[k]], d)
  BY <1>1, <1>2, <1>3 DEF Items
<1>5. ASSUME NEW k \in 1..n
      PROVE  items[k].start \in Int /\ items[k].end \in Int /\ items[k].start < items[k].end
  <2>1. PICK i : i = s[k]
    OBVIOUS
  <2>2. PartOk(events[i], d)
    BY <2>1, <1>2, DayPills
  <2> QED BY <2>1, <2>2, <1>4 DEF PartOk
<1>6. ASSUME NEW j \in 1..n, NEW k \in 1..n, j < k PROVE items[j].start <= items[k].start
  <2>1. PICK a, b : a = s[j] /\ b = s[k]
    OBVIOUS
  <2>2. a \in Pills(events, d) /\ b \in Pills(events, d) /\ Precedes(events, d, a, b)
    BY <2>1, <1>2, <1>6
  <2>3. PICK r, t : r = Rank(events, d, a) /\ t = Rank(events, d, b)
    OBVIOUS
  <2>4. Lower(r, t)
    BY <2>2, <2>3, PrecedesIs
  <2>5. r[1] = items[j].start /\ t[1] = items[k].start
    BY <2>1, <2>3, <1>4 DEF Rank
  <2>6. items[j].start \in Int /\ items[k].start \in Int
    BY <1>5
  <2> QED BY <2>4, <2>5, <2>6 DEF Lower
<1>7. InStartOrder(items, n)
  BY <1>4, <1>5, <1>6 DEF InStartOrder
<1> QED BY <1>3, <1>7

Pill(items, k) ==
  [item |-> items[k].item, start |-> items[k].start, end |-> items[k].end,
   cluster |-> ClusterOf(items, k), columnIndex |-> Columns(items)[k]]

(* Pills that share a moment share a cluster and not a column.             *)
LEMMA SideBySide ==
  ASSUME NEW n \in Nat, NEW items, InStartOrder(items, n),
         NEW j \in 1..n, NEW k \in 1..n, j # k, Together(Pill(items, j), Pill(items, k))
  PROVE  /\ ClusterOf(items, j) = ClusterOf(items, k)
         /\ Columns(items)[j] # Columns(items)[k]
<1>1. items[j].start < items[k].end /\ items[k].start < items[j].end
  BY DEF Together, Pill
<1>2. ASSUME NEW a \in 1..n, NEW b \in 1..n, a < b, items[b].start < items[a].end
      PROVE  /\ ClusterOf(items, a) = ClusterOf(items, b)
             /\ Columns(items)[a] # Columns(items)[b]
  <2>1. ClusterOf(items, a) = ClusterOf(items, b) /\ ClusterOf(items, b) <= a
    BY <1>2, SameCluster
  <2>2. ClusterOf(items, b) \in 1..b
    BY ClusterIs
  <2>3. a \in ClusterOf(items, b)..b - 1
    BY <1>2, <2>1, <2>2
  <2>4. items[a].end \in Int /\ items[b].start \in Int
    BY DEF InStartOrder
  <2>5. Columns(items)[a] = Columns(items)[b] => items[a].end <= items[b].start
    BY <2>3, ColumnIs
  <2> QED BY <1>2, <2>1, <2>4, <2>5
<1>3. j < k \/ k < j
  OBVIOUS
<1> QED BY <1>1, <1>2, <1>3

(* The cluster's last column is a pill at whose start all the columns      *)
(* before it are taken.                                                    *)
LEMMA BusiestMoment ==
  ASSUME NEW n \in Nat, NEW items, InStartOrder(items, n), NEW k \in 1..n
  PROVE  \E m \in 1..n :
           /\ ClusterOf(items, m) = ClusterOf(items, k)
           /\ \A j \in 1..n : ClusterOf(items, j) = ClusterOf(items, k) =>
                                 Columns(items)[j] <= Columns(items)[m]
           /\ \A c \in 0..Columns(items)[m] :
                \E j \in 1..n : /\ Columns(items)[j] = c
                                /\ items[j].start <= items[m].start
                                /\ items[m].start < items[j].end
<1>1. PICK f : f = Columns(items)
  OBVIOUS
<1>2. f \in [1..n -> Nat] /\ \A j \in 1..n : f[j] \in 0..j - 1
  BY <1>1, ColumnsAre DEF Assigned
<1> DEFINE Used == {f[j] : j \in {i \in 1..n : ClusterOf(items, i) = ClusterOf(items, k)}}
<1>3. Used \in SUBSET (0..n) /\ Used # {}
  <2>1. \A j \in 1..n : f[j] \in 0..n
    BY <1>2
  <2> QED BY <2>1
<1>4. PICK m \in 1..n : /\ ClusterOf(items, m) = ClusterOf(items, k)
                        /\ \A u \in Used : u <= f[m]
  <2>1. PICK u \in Used : \A w \in Used : u >= w
    <3> HIDE DEF Used
    <3> QED BY <1>3, MaxIs
  <2> QED BY <2>1
<1>5. \A j \in 1..n : ClusterOf(items, j) = ClusterOf(items, k) => f[j] <= f[m]
  BY <1>4
<1>6. ASSUME NEW c \in 0..f[m]
      PROVE  \E j \in 1..n : /\ f[j] = c /\ items[j].start <= items[m].start
                             /\ items[m].start < items[j].end
  <2>1. items[m].start \in Int /\ items[m].end \in Int /\ items[m].start < items[m].end
    BY DEF InStartOrder
  <2>2. CASE c = f[m]
    BY <2>1, <2>2
  <2>3. CASE c # f[m]
    <3>1. c \in 0..f[m] - 1
      BY <2>3, <1>2
    <3>2. PICK j \in ClusterOf(items, m)..m - 1 : f[j] = c /\ items[m].start < items[j].end
      BY <1>1, <3>1, ColumnIs
    <3>3. j \in 1..n /\ j < m
      BY ClusterIs
    <3>4. items[j].start <= items[m].start
      BY <3>3 DEF InStartOrder
    <3> QED BY <3>2, <3>3, <3>4
  <2> QED BY <2>2, <2>3
<1> QED BY <1>1, <1>4, <1>5, <1>6

LEMMA LayoutIs ==
  ASSUME NEW events, NEW d, NEW n, DOMAIN Items(events, d) = 1..n
  PROVE  Layout(events, d) = {Pill(Items(events, d), k) : k \in 1..n}
BY DEF Layout, Pill

(* Of any events, on any day, pills that share a moment are in different   *)
(* columns of one cluster, and a cluster has as many columns as there are  *)
(* pills at its busiest moment, no more (relayoutEvents,                   *)
(* assignColumnsForCluster).  It is about time: the height in pixels, with *)
(* its minimum for short events, comes after.                              *)
THEOREM NothingIsCovered ==
  ASSUME NEW events, TimesOk(events), NEW d \in Int
  PROVE  NothingCovered(events, d)
<1>1. PICK items, layout : items = Items(events, d) /\ layout = Layout(events, d)
  OBVIOUS
<1>2. PICK n \in Nat : InStartOrder(items, n)
  BY <1>1, ItemsInOrder
<1>3. layout = {Pill(items, k) : k \in 1..n}
  BY <1>1, <1>2, LayoutIs DEF InStartOrder
<1>4. ASSUME NEW p \in layout, NEW q \in layout, p # q, Together(p, q)
      PROVE  p.cluster = q.cluster /\ p.columnIndex # q.columnIndex
  <2>1. PICK j \in 1..n, k \in 1..n : p = Pill(items, j) /\ q = Pill(items, k)
    BY <1>3
  <2>2. j # k
    BY <2>1, <1>4
  <2>3. ClusterOf(items, j) = ClusterOf(items, k) /\ Columns(items)[j] # Columns(items)[k]
    BY <1>2, <1>4, <2>1, <2>2, SideBySide
  <2> QED BY <2>1, <2>3 DEF Pill
<1>5. ASSUME NEW p \in layout
      PROVE  \E q \in layout :
               /\ q.cluster = p.cluster
               /\ Cardinality({r \in layout : r.start <= q.start /\ q.start < r.end})
                    = ColumnCount(layout, p.cluster)
  <2>1. PICK k \in 1..n : p = Pill(items, k)
    BY <1>3
  <2>2. PICK m \in 1..n :
          /\ ClusterOf(items, m) = ClusterOf(items, k)
          /\ \A j \in 1..n : ClusterOf(items, j) = ClusterOf(items, k) =>
                                Columns(items)[j] <= Columns(items)[m]
          /\ \A c \in 0..Columns(items)[m] :
               \E j \in 1..n : /\ Columns(items)[j] = c
                               /\ items[j].start <= items[m].start
                               /\ items[m].start < items[j].end
    BY <1>2, BusiestMoment
  <2>3. PICK last : last = Columns(items)[m] /\ last \in Nat
    BY <1>2, ColumnIs
  <2>4. PICK q : q = Pill(items, m)
    OBVIOUS
  <2>5. /\ q \in layout /\ q.cluster = p.cluster /\ q.start = items[m].start
        /\ q.start \in Int /\ q.columnIndex = last
    BY <2>1, <2>2, <2>3, <2>4, <1>2, <1>3 DEF Pill, InStartOrder
  <2>6. \A r \in layout : /\ r.start \in Int /\ r.end \in Int /\ r.columnIndex \in Nat
                          /\ r.start < r.end
                          /\ r.cluster = p.cluster => r.columnIndex <= last
    <3>1. \A j \in 1..n : /\ items[j].start \in Int /\ items[j].end \in Int
                          /\ items[j].start < items[j].end
      BY <1>2 DEF InStartOrder
    <3>2. \A j \in 1..n : Columns(items)[j] \in Nat
      BY <1>2, ColumnIs
    <3> QED BY <3>1, <3>2, <2>1, <2>2, <2>3, <1>3 DEF Pill
  <2>7. ColumnCount(layout, p.cluster) = last + 1
    <3> DEFINE T == {r.columnIndex + 1 : r \in {s \in layout : s.cluster = p.cluster}}
    <3>1. T \in SUBSET Int /\ last + 1 \in T /\ \A y \in T : last + 1 >= y
      BY <2>3, <2>5, <2>6
    <3>2. Max(T) = last + 1
      <4> HIDE DEF T
      <4> QED BY <3>1, MaxEquals
    <3> QED BY <3>2 DEF ColumnCount
  <2>8. PICK A : A = {r \in layout : r.start <= q.start /\ q.start < r.end}
    OBVIOUS
  <2>9. PICK h : h = [r \in A |-> r.columnIndex]
    OBVIOUS
  <2>10. \A r, s \in A : r # s => Together(r, s)
    BY <2>5, <2>6, <2>8 DEF Together
  <2>11. q \in A
    BY <2>5, <2>6, <2>8
  <2>12. h \in [A -> 0..last]
    <3>1. ASSUME NEW r \in A PROVE r.columnIndex \in 0..last
      <4>1. r \in layout /\ (r = q \/ Together(r, q))
        BY <2>8, <2>10, <2>11
      <4>2. r.cluster = p.cluster
        BY <4>1, <1>4, <2>5
      <4> QED BY <4>1, <4>2, <2>3, <2>6
    <3> QED BY <3>1, <2>9
  <2>13. \A r, s \in A : h[r] = h[s] => r = s
    BY <1>4, <2>8, <2>9, <2>10
  <2>14. \A c \in 0..last : \E r \in A : h[r] = c
    <3>1. ASSUME NEW c \in 0..last PROVE \E r \in A : h[r] = c
      <4>1. PICK j \in 1..n : /\ Columns(items)[j] = c
                              /\ items[j].start <= items[m].start
                              /\ items[m].start < items[j].end
        BY <2>2, <2>3
      <4>2. PICK r : r = Pill(items, j)
        OBVIOUS
      <4>3. r \in layout /\ r.columnIndex = c /\ r.start <= q.start /\ q.start < r.end
        BY <4>1, <4>2, <1>3, <2>5 DEF Pill
      <4> QED BY <4>3, <2>8, <2>9
    <3> QED BY <3>1
  <2>15. Cardinality(A) = last + 1
    <3>1. PICK C : C = 0..last
      OBVIOUS
    <3>2. IsFiniteSet(C) /\ Cardinality(C) = last + 1
      BY <2>3, <3>1, FS_Interval
    <3>3. h \in Injection(A, C) /\ h \in Surjection(A, C)
      BY <2>12, <2>13, <2>14, <3>1 DEF Injection, Surjection, IsInjective
    <3> QED BY <3>2, <3>3, FS_Injection
  <2> QED BY <2>5, <2>7, <2>8, <2>15
<1> QED BY <1>1, <1>4, <1>5 DEF NothingCovered

-----------------------------------------------------------------------------
(* The days an event is on.                                                *)

LEMMA DayBounds ==
  ASSUME NEW t \in Int, NEW d \in Int
  PROVE  /\ DayOf(t) \in Int
         /\ DayOf(t) <= d <=> t < At(d + 1, 0)
         /\ d < DayOf(t) \/ (d = DayOf(t) /\ TimeOf(t) # 0) <=> At(d, 0) < t
         /\ At(d, 0) \in Int /\ At(d + 1, 0) \in Int /\ At(d, 0) < At(d + 1, 0)
<1>1. PICK q, r, n : q = DayOf(t) /\ r = TimeOf(t) /\ n = SlotsPerDay
  OBVIOUS
<1>2. q \in Int /\ n \in Nat \ {0} /\ r \in 0..n - 1 /\ t = q * n + r
  BY <1>1, DayAndTime, LayoutAssumption DEF At
<1>3. At(d, 0) = d * n /\ At(d + 1, 0) = d * n + n
  BY <1>1, <1>2 DEF At
<1>4. q <= d => q * n <= d * n
  BY <1>2
<1>5. d < q => d * n + n <= q * n
  BY <1>2
<1>6. d * n \in Int /\ q * n \in Int /\ (d = q => d * n = q * n)
  BY <1>2
<1>7. q <= d \/ d < q
  BY <1>2
<1> QED BY <1>1, <1>2, <1>3, <1>4, <1>5, <1>6, <1>7

(* A timed event is listed and has a pill on exactly the days it takes     *)
(* time of, however it lies to the midnights (lastInclusiveLocalDate).     *)
THEOREM NothingIsMissing ==
  ASSUME NEW events, TimesOk(events), NEW d \in Int,
         \A i \in DOMAIN events : events[i].allDay \in BOOLEAN
  PROVE  NothingMissing(events, d)
<1> SUFFICES ASSUME NEW i \in DOMAIN events,
                    ~events[i].allDay, events[i].start < events[i].end,
                    d < StartDate(events[i]) + MaxSpanDays
             PROVE  LET e == events[i]
                        takesTime == e.start < At(d + 1, 0) /\ At(d, 0) < e.end
                    IN  (takesTime <=> d \in ListedOn(e)) /\ (takesTime <=> i \in Pills(events, d))
  BY DEF NothingMissing
<1>1. PICK e, s, t : e = events[i] /\ s = e.start /\ t = e.end
  OBVIOUS
<1>2. s \in Int /\ t \in Int /\ s < t /\ ~e.allDay
  BY <1>1 DEF TimesOk
<1>3. StartDate(e) = DayOf(s)
  BY <1>1, <1>2 DEF StartDate
<1>4. PICK first, last, dayEnd, a, b :
        /\ first = DayOf(s) /\ last = LastInclusiveDate(e) /\ dayEnd = DayOf(t)
        /\ a = At(d, 0) /\ b = At(d + 1, 0)
  OBVIOUS
<1>5. /\ first \in Int /\ dayEnd \in Int /\ a \in Int /\ b \in Int /\ a < b
      /\ first <= d <=> s < b
      /\ d < dayEnd \/ (d = dayEnd /\ TimeOf(t) # 0) <=> a < t
  BY <1>2, <1>4, DayBounds
<1>6. last = IF TimeOf(t) = 0 /\ dayEnd > first THEN
               (IF first >= dayEnd - 1 THEN first ELSE dayEnd - 1)
             ELSE (IF first >= dayEnd THEN first ELSE dayEnd)
  BY <1>1, <1>2, <1>3, <1>4, <1>5, TwoExtremes DEF LastInclusiveDate
<1>7. first < dayEnd \/ (first = dayEnd /\ TimeOf(t) # 0)
  <2>1. At(first, 0) <= s
    <3>1. PICK r, n : r = TimeOf(s) /\ n = first * SlotsPerDay
      OBVIOUS
    <3>2. r \in Nat /\ n \in Int /\ n + r = s /\ At(first, 0) = n + 0
      BY <1>2, <1>4, <1>5, <3>1, DayAndTime, LayoutAssumption DEF At
    <3> QED BY <3>2
  <2>2. At(first, 0) \in Int /\ At(first, 0) < t
    BY <2>1, <1>2, <1>5, DayBounds
  <2> QED BY <2>2, <1>2, <1>4, <1>5, DayBounds
<1>8. ListedOn(e) = first..(IF last <= first + MaxSpanDays - 1 THEN last
                            ELSE first + MaxSpanDays - 1)
  <2>1. PICK m : m = first + MaxSpanDays - 1
    OBVIOUS
  <2>2. m \in Int /\ last \in Int
    BY <2>1, <1>5, <1>6, LayoutAssumption
  <2>3. ListedOn(e) = first..Min({last, m})
    BY <2>1, <1>3, <1>4 DEF ListedOn
  <2>4. Min({last, m}) = IF last <= m THEN last ELSE m
    BY <2>2, TwoExtremes
  <2> QED BY <2>1, <2>3, <2>4
<1>9. d \in ListedOn(e) <=> first <= d /\ d <= last
  <2>1. last \in Int /\ MaxSpanDays \in Int /\ d < first + MaxSpanDays
    BY <1>1, <1>3, <1>4, <1>5, <1>6, LayoutAssumption
  <2> QED BY <2>1, <1>5, <1>8
<1>10. d \in ListedOn(e) <=> s < b /\ a < t
  BY <1>5, <1>6, <1>7, <1>9
<1>11. ClippedStart(e, d) < ClippedEnd(e, d) <=> s < b /\ a < t
  <2>1. ClippedStart(e, d) = Max({s, a}) /\ ClippedEnd(e, d) = Min({t, b})
    BY <1>1, <1>4 DEF ClippedStart, ClippedEnd
  <2>2. /\ Max({s, a}) = IF s >= a THEN s ELSE a
        /\ Min({t, b}) = IF t <= b THEN t ELSE b
    BY <1>2, <1>5, TwoExtremes
  <2>3. (IF s >= a THEN s ELSE a) < (IF t <= b THEN t ELSE b) <=> s < b /\ a < t
    BY <1>2, <1>5
  <2> QED BY <2>1, <2>2, <2>3
<1>12. i \in Pills(events, d) <=> s < b /\ a < t
  BY <1>1, <1>2, <1>10, <1>11 DEF Pills
<1> QED BY <1>1, <1>4, <1>10, <1>12

=============================================================================
