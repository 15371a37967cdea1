----------------------------- MODULE PlanningProofs -----------------------------

(***************************************************************************)
(* Theorems of the planners: HighlightPick (what a recording is shown by), *)
(* JudgementPlan (what is judged for a budget), LocalStory (what a story   *)
(* is cut from), CameraClock (whose clock its recordings carry) and        *)
(* WindowOrder (which order of its windows is bought).  Each has an        *)
(* invariant of its own, and they share the facts about numbers, orders    *)
(* and finite sets that a choice of the best, the least or the next comes  *)
(* to.                                                                     *)
(***************************************************************************)

EXTENDS HighlightPick, JudgementPlan, LocalStory, CameraClock, WindowOrder,
        FiniteSetTheorems, WellFoundedInduction, TLAPS

-----------------------------------------------------------------------------
(* What they have in common: numbers, functions built up, finite orders.   *)

\* Of numbers one is the least.
LEMMA LeastNatural ==
    ASSUME NEW T \in SUBSET Nat, T # {}
    PROVE  \E x \in T : \A y \in T : ~(y < x)
  <1>1. IsWellFoundedOn(OpToRel(<, Nat), Nat)
    BY NatLessThanWellFounded
  <1>2. PICK x \in T : \A y \in T : ~(<<y, x>> \in OpToRel(<, Nat))
    BY <1>1, WFMin
  <1>3. ASSUME NEW y \in T PROVE ~(y < x)
    BY <1>2, <1>3 DEF OpToRel
  <1> QED
    BY <1>3

\* A range is one shorter and its last.
LEMMA OneMore ==
    ASSUME NEW k \in Nat, k # 0
    PROVE  1 .. k = (1 .. (k - 1)) \cup {k}
  <1>1. \A x : x \in 1 .. k <=> x \in 1 .. (k - 1) \/ x = k
    OBVIOUS
  <1> QED BY <1>1

\* Of windows that can be put in an order one is before the others: what a
\* choice of the best comes to, whatever the order.
LEMMA FirstOfOrder ==
    ASSUME NEW n \in Nat, NEW S \in SUBSET (1 .. n), S # {}, NEW R,
           \A x, y \in S : x # y => <<x, y>> \in R \/ <<y, x>> \in R,
           \A x, y, z \in S : <<x, y>> \in R /\ <<y, z>> \in R => <<x, z>> \in R
    PROVE  \E b \in S : \A x \in S \ {b} : <<b, x>> \in R
  <1> DEFINE part(k) == S \cap (1 .. k)
             first(k) == \E b \in part(k) : \A x \in part(k) \ {b} : <<b, x>> \in R
             bad == {k \in Nat : part(k) # {} /\ ~first(k)}
  <1>1. SUFFICES first(n)
    BY DEF part
  <1>2. bad = {}
    <2> SUFFICES ASSUME bad # {} PROVE FALSE
      OBVIOUS
    <2>1. PICK k \in bad : \A j \in bad : ~(j < k)
      <3>1. bad \in SUBSET Nat
        OBVIOUS
      <3> HIDE DEF bad
      <3> QED BY <3>1, LeastNatural
    <2>2. k \in Nat /\ part(k) # {} /\ ~first(k)
      BY <2>1
    <2>3. k # 0
      BY <2>2
    <2>4. /\ k - 1 \in Nat /\ k - 1 < k
          /\ part(k) = part(k - 1) \cup (S \cap {k})
      <3>1. k \in Nat /\ k - 1 \in Nat /\ k - 1 < k
        BY <2>2, <2>3
      <3>2. 1 .. k = (1 .. (k - 1)) \cup {k}
        BY <2>2, <2>3, OneMore
      <3> QED BY <3>1, <3>2
    <2>5. part(k - 1) = {} \/ first(k - 1)
      BY <2>1, <2>4
    <2>6. CASE part(k - 1) = {}
      <3>1. part(k) = {k}
        BY <2>2, <2>4, <2>6
      <3> QED BY <2>2, <3>1
    <2>7. CASE first(k - 1)
      <3>1. PICK b \in part(k - 1) : \A x \in part(k - 1) \ {b} : <<b, x>> \in R
        BY <2>7
      <3>2. CASE k \notin S
        BY <2>2, <2>4, <3>1, <3>2
      <3>3. CASE k \in S /\ <<b, k>> \in R
        <4>1. b \in part(k) /\ \A x \in part(k) \ {b} : <<b, x>> \in R
          BY <2>4, <3>1, <3>3
        <4> QED BY <2>2, <4>1
      <3>4. CASE k \in S /\ <<b, k>> \notin R
        <4>1. b \in S /\ b # k
          BY <2>2, <3>1
        <4>2. <<k, b>> \in R
          BY <3>4, <4>1
        <4>3. \A x \in part(k) \ {k} : <<k, x>> \in R
          <5> SUFFICES ASSUME NEW x \in part(k) \ {k} PROVE <<k, x>> \in R
            OBVIOUS
          <5>1. x \in part(k - 1) /\ x \in S
            BY <2>4
          <5>2. CASE x = b
            BY <4>2, <5>2
          <5>3. CASE x # b
            <6>1. <<b, x>> \in R
              BY <3>1, <5>1, <5>3
            <6> QED BY <3>4, <4>1, <4>2, <5>1, <6>1
          <5> QED BY <5>2, <5>3
        <4>4. k \in part(k)
          BY <2>4, <3>4
        <4> QED BY <2>2, <4>3, <4>4
      <3> QED BY <3>2, <3>3, <3>4
    <2> QED BY <2>5, <2>6, <2>7
  <1>3. part(n) # {}
    OBVIOUS
  <1> QED BY <1>2, <1>3

\* The least and the greatest of some numbers are among them.
LEMMA LeastOf ==
    ASSUME NEW T \in SUBSET Nat, T # {}
    PROVE  Min(T) \in T /\ \A y \in T : Min(T) <= y
  <1>1. PICK x \in T : \A y \in T : ~(y < x)
    BY LeastNatural
  <1>2. x \in T /\ \A y \in T : x <= y
    BY <1>1
  <1> QED
    BY <1>2 DEF Min

\* The maximum of finitely many is one of them, and none is more.
LEMMA GreatestOf ==
    ASSUME NEW T \in SUBSET Nat, T # {}, IsFiniteSet(T)
    PROVE  Max(T) \in T /\ \A y \in T : Max(T) >= y
  <1>0. PICK n \in Nat : ExistsSurjection(1 .. n, T)
    BY FS_NatSurjection
  <1>1. PICK f \in [1 .. n -> T] : \A t \in T : \E k \in 1 .. n : f[k] = t
    BY <1>0 DEF ExistsSurjection, Surjection
  <1> DEFINE R == {p \in (1 .. n) \X (1 .. n) : f[p[1]] >= f[p[2]]}
  <1>3. \A x, y \in 1 .. n : <<x, y>> \in R <=> f[x] >= f[y]
    <2> SUFFICES ASSUME NEW x \in 1 .. n, NEW y \in 1 .. n
                 PROVE  <<x, y>> \in R <=> f[x] >= f[y]
      OBVIOUS
    <2>1. <<x, y>>[1] = x /\ <<x, y>>[2] = y /\ <<x, y>> \in (1 .. n) \X (1 .. n)
      OBVIOUS
    <2> QED BY <2>1
  <1> HIDE DEF R
  <1>4. 1 .. n # {}
    BY <1>1
  <1>5. \A x \in 1 .. n : f[x] \in Nat
    OBVIOUS
  <1>6. PICK b \in 1 .. n : \A x \in (1 .. n) \ {b} : <<b, x>> \in R
    <2>1. \A x, y \in 1 .. n : x # y => <<x, y>> \in R \/ <<y, x>> \in R
      BY <1>3, <1>5
    <2>2. \A x, y, z \in 1 .. n : <<x, y>> \in R /\ <<y, z>> \in R => <<x, z>> \in R
      BY <1>3, <1>5
    <2>3. 1 .. n \in SUBSET (1 .. n)
      OBVIOUS
    <2> QED BY <1>4, <2>1, <2>2, <2>3, FirstOfOrder
  <1>7. \A x \in 1 .. n : f[b] >= f[x]
    <2>1. f[b] \in Nat /\ f[b] >= f[b]
      BY <1>5
    <2>2. \A x \in (1 .. n) \ {b} : f[b] >= f[x]
      BY <1>3, <1>6
    <2> QED BY <2>1, <2>2
  <1>8. f[b] \in T /\ \A y \in T : f[b] >= y
    BY <1>1, <1>7
  <1> QED
    BY <1>8 DEF Max

\* The minimum and the maximum of two.
LEMMA OfTwo ==
    ASSUME NEW a \in Int, NEW b \in Int
    PROVE  /\ Min({a, b}) = IF a <= b THEN a ELSE b
           /\ Max({a, b}) = IF a >= b THEN a ELSE b
  <1> DEFINE lo == IF a <= b THEN a ELSE b
             hi == IF a >= b THEN a ELSE b
  <1>1. lo \in {a, b} /\ \A y \in {a, b} : lo <= y
    OBVIOUS
  <1>2. \A x \in {a, b} : (\A y \in {a, b} : x <= y) => x = lo
    OBVIOUS
  <1>3. hi \in {a, b} /\ \A y \in {a, b} : hi >= y
    OBVIOUS
  <1>4. \A x \in {a, b} : (\A y \in {a, b} : x >= y) => x = hi
    OBVIOUS
  <1> HIDE DEF lo, hi
  <1>5. Min({a, b}) = lo
    BY <1>1, <1>2 DEF Min
  <1>6. Max({a, b}) = hi
    BY <1>3, <1>4 DEF Max
  <1> QED BY <1>5, <1>6 DEF lo, hi

\* What is made of finitely many things is finitely many things.
LEMMA ImageIsFinite ==
    ASSUME NEW S, IsFiniteSet(S), NEW f, f = [x \in S |-> f[x]]
    PROVE  IsFiniteSet({f[x] : x \in S})
  <1> DEFINE T == {f[x] : x \in S}
  <1>1. f \in Surjection(S, T)
    BY DEF Surjection
  <1> QED BY <1>1, FS_Surjection

\* A division leaves less than it divides by.
LEMMA DivisionIs ==
    ASSUME NEW a \in Int, NEW d \in Nat \ {0}
    PROVE  /\ a \div d \in Int /\ a % d \in Int
           /\ a = d * (a \div d) + (a % d)
           /\ 0 <= a % d /\ a % d < d
  <1>1. a \div d \in Int /\ a % d \in Int
    OBVIOUS
  <1>2. a = d * (a \div d) + (a % d)
    OBVIOUS
  <1>3. 0 <= a % d /\ a % d < d
    OBVIOUS
  <1> QED BY <1>1, <1>2, <1>3

\* And only one number does.
LEMMA DivisionIsOne ==
    ASSUME NEW a \in Int, NEW d \in Nat \ {0}, NEW q \in Int, NEW r \in Int,
           a = d * q + r, 0 <= r, r < d
    PROVE  a \div d = q /\ a % d = r
  OBVIOUS

\* What is built a step at a time, each from the one before.
Built(n, D, b, g, f) ==
    f \in [0 .. n -> D] /\ f[0] = b /\ \A k \in 1 .. n : f[k] = g[k][f[k - 1]]

\* It can be built to any length.
LEMMA StepByStep ==
    ASSUME NEW n \in Nat, NEW D, NEW b \in D, NEW g \in [1 .. n -> [D -> D]]
    PROVE  \E f : Built(n, D, b, g, f)
  <1> DEFINE bad == {m \in 0 .. n : ~\E f : Built(m, D, b, g, f)}
  <1>1. n \in 0 .. n
    OBVIOUS
  <1>2. SUFFICES ASSUME ~\E f : Built(n, D, b, g, f) PROVE FALSE
    OBVIOUS
  <1>3. PICK m \in bad : \A j \in bad : ~(j < m)
    <2>1. bad \in SUBSET Nat /\ bad # {}
      BY <1>1, <1>2
    <2> HIDE DEF bad
    <2> QED BY <2>1, LeastNatural
  <1>4. m \in 0 .. n /\ ~\E f : Built(m, D, b, g, f)
    BY <1>3
  <1>5. CASE m = 0
    <2> DEFINE f == [k \in 0 .. 0 |-> b]
    <2>1. f \in [0 .. 0 -> D] /\ f[0] = b /\ 1 .. 0 = {}
      OBVIOUS
    <2>2. Built(0, D, b, g, f)
      BY <2>1 DEF Built
    <2> QED BY <1>4, <1>5, <2>2
  <1>6. CASE m # 0
    <2>1. m \in Nat /\ m - 1 \in 0 .. n /\ m - 1 < m /\ m \in 1 .. n
      BY <1>4, <1>6
    <2>2. \E f : Built(m - 1, D, b, g, f)
      BY <1>3, <2>1
    <2>3. PICK f : Built(m - 1, D, b, g, f)
      BY <2>2
    <2> DEFINE h == [k \in 0 .. m |-> IF k = m THEN g[m][f[m - 1]] ELSE f[k]]
    <2>4. f[m - 1] \in D /\ g[m][f[m - 1]] \in D
      BY <2>1, <2>3 DEF Built
    <2>5. \A k \in 0 .. m : k # m => k \in 0 .. (m - 1)
      BY <2>1
    <2>6. h \in [0 .. m -> D]
      BY <2>3, <2>4, <2>5 DEF Built
    <2>7. h[0] = b
      BY <1>6, <2>1, <2>3 DEF Built
    <2>8. ASSUME NEW k \in 1 .. m PROVE h[k] = g[k][h[k - 1]]
      <3>1. k \in 0 .. m /\ k - 1 \in 0 .. m /\ k - 1 # m /\ h[k - 1] = f[k - 1]
        BY <2>1
      <3>2. CASE k = m
        BY <3>1, <3>2
      <3>3. CASE k # m
        <4>1. k \in 1 .. (m - 1) /\ h[k] = f[k]
          BY <2>1, <3>1, <3>3
        <4> QED BY <2>3, <3>1, <4>1 DEF Built
      <3> QED BY <3>2, <3>3
    <2> HIDE DEF h
    <2>9. Built(m, D, b, g, h)
      BY <2>6, <2>7, <2>8 DEF Built
    <2> QED BY <1>4, <2>9
  <1> QED BY <1>5, <1>6

\* It stays where each step stays.
LEMMA StaysIn ==
    ASSUME NEW n \in Nat, NEW f, NEW D, f[0] \in D,
           \A k \in 1 .. n : f[k - 1] \in D => f[k] \in D
    PROVE  \A k \in 0 .. n : f[k] \in D
  <1> DEFINE bad == {k \in 0 .. n : f[k] \notin D}
  <1>1. SUFFICES ASSUME bad # {} PROVE FALSE
    OBVIOUS
  <1>2. PICK k \in bad : \A j \in bad : ~(j < k)
    <2>1. bad \in SUBSET Nat
      OBVIOUS
    <2> HIDE DEF bad
    <2> QED BY <1>1, <2>1, LeastNatural
  <1>3. k \in 0 .. n /\ f[k] \notin D /\ k # 0
    BY <1>2
  <1>4. k \in 1 .. n /\ k - 1 \in 0 .. n /\ k - 1 < k
    BY <1>3
  <1>5. f[k - 1] \in D
    BY <1>2, <1>4
  <1> QED BY <1>3, <1>4, <1>5

\* What only grows from step to step holds at the end what it held on the way.
LEMMA GrowsOn ==
    ASSUME NEW n \in Nat, NEW f, \A k \in 1 .. n : f[k - 1] \subseteq f[k], NEW m \in 0 .. n
    PROVE  f[m] \subseteq f[n]
  <1> DEFINE bad == {j \in Nat : m <= j /\ j <= n /\ ~(f[m] \subseteq f[j])}
  <1>1. SUFFICES ASSUME bad # {} PROVE FALSE
    OBVIOUS
  <1>2. PICK j \in bad : \A i \in bad : ~(i < j)
    <2>1. bad \in SUBSET Nat
      OBVIOUS
    <2> HIDE DEF bad
    <2> QED BY <1>1, <2>1, LeastNatural
  <1>3. j \in Nat /\ m <= j /\ j <= n /\ ~(f[m] \subseteq f[j])
    BY <1>2
  <1>4. j # m
    BY <1>3
  <1>5. j - 1 \in Nat /\ m <= j - 1 /\ j - 1 <= n /\ j \in 1 .. n /\ j - 1 < j
    BY <1>3, <1>4
  <1>6. f[m] \subseteq f[j - 1]
    BY <1>2, <1>5
  <1> QED BY <1>3, <1>5, <1>6

\* R puts any two of S in an order.
Orders(R, S) ==
    /\ \A x, y \in S : x # y => <<x, y>> \in R \/ <<y, x>> \in R
    /\ \A x, y, z \in S : <<x, y>> \in R /\ <<y, z>> \in R => <<x, z>> \in R
    /\ \A x \in S : <<x, x>> \notin R

\* Of finitely many one is the first.
LEMMA FirstOfFinite ==
    ASSUME NEW S, IsFiniteSet(S), S # {}, NEW R, Orders(R, S)
    PROVE  \E b \in S : \A x \in S \ {b} : <<b, x>> \in R
  <1> DEFINE n == Cardinality(S)
  <1>1. n \in Nat /\ ExistsBijection(1 .. n, S)
    BY FS_CardinalityType
  <1>2. PICK f \in [1 .. n -> S] : /\ \A x \in S : \E i \in 1 .. n : f[i] = x
                                   /\ \A i, j \in 1 .. n : f[i] = f[j] => i = j
    BY <1>1, Zenon DEF ExistsBijection, Bijection, Injection, Surjection, IsInjective
  <1> HIDE DEF n
  <1> DEFINE Q == {p \in (1 .. n) \X (1 .. n) : <<f[p[1]], f[p[2]]>> \in R}
             T == 1 .. n
  <1>3. T \in SUBSET (1 .. n) /\ T # {}
    BY <1>2
  <1>4. \A i, j \in T : <<i, j>> \in Q <=> <<f[i], f[j]>> \in R
    OBVIOUS
  <1>5. ASSUME NEW i \in T, NEW j \in T, i # j PROVE <<i, j>> \in Q \/ <<j, i>> \in Q
    <2>1. f[i] \in S /\ f[j] \in S /\ f[i] # f[j]
      BY <1>2, <1>5
    <2>2. <<f[i], f[j]>> \in R \/ <<f[j], f[i]>> \in R
      BY <2>1 DEF Orders
    <2> HIDE DEF Q
    <2> QED BY <1>4, <2>2
  <1>6. \A i, j, k \in T : <<i, j>> \in Q /\ <<j, k>> \in Q => <<i, k>> \in Q
    BY <1>2, <1>4 DEF Orders
  <1>7. PICK i \in T : \A j \in T \ {i} : <<i, j>> \in Q
    <2> HIDE DEF Q, T
    <2> QED BY <1>1, <1>3, <1>5, <1>6, FirstOfOrder
  <1>8. ASSUME NEW x \in S \ {f[i]} PROVE <<f[i], x>> \in R
    <2>1. PICK j \in 1 .. n : f[j] = x
      BY <1>2
    <2>2. j \in T \ {i}
      BY <2>1
    <2> QED BY <1>4, <1>7, <2>1, <2>2
  <1> QED BY <1>2, <1>7, <1>8

\* How many come before one of S.
PlaceIn(S, R, x) == Cardinality({y \in S : <<y, x>> \in R})

\* How many come before each is a place of its own.
LEMMA PlacesInOrder ==
    ASSUME NEW S, IsFiniteSet(S), NEW R, Orders(R, S), NEW n, n = Cardinality(S)
    PROVE  /\ n \in Nat
           /\ \A x \in S : PlaceIn(S, R, x) \in 0 .. n - 1
           /\ \A k \in 0 .. n - 1 : \E x \in S :
                 /\ PlaceIn(S, R, x) = k
                 /\ \A z \in S : PlaceIn(S, R, z) = k => z = x
  <1> DEFINE before(x) == {y \in S : <<y, x>> \in R}
             place == [x \in S |-> Cardinality(before(x))]
  <1>1. n \in Nat
    BY FS_CardinalityType
  <1>2. ASSUME NEW x \in S
        PROVE  IsFiniteSet(before(x)) /\ Cardinality(before(x)) \in 0 .. n - 1
               /\ Cardinality(before(x)) \in Int
    <2>1. before(x) \in SUBSET S /\ x \notin before(x)
      BY DEF Orders
    <2> HIDE DEF before
    <2>2. before(x) # S
      BY <2>1
    <2>3. IsFiniteSet(before(x)) /\ Cardinality(before(x)) <= n /\ Cardinality(before(x)) # n
      BY <2>1, <2>2, FS_Subset
    <2>4. Cardinality(before(x)) \in Nat
      BY <2>3, FS_CardinalityType
    <2> QED BY <1>1, <2>3, <2>4
  <1>3. ASSUME NEW x \in S, NEW y \in S, <<x, y>> \in R
        PROVE  Cardinality(before(x)) < Cardinality(before(y))
    <2>1. before(x) \in SUBSET before(y)
      BY <1>3 DEF Orders
    <2>2. x \in before(y) /\ x \notin before(x)
      BY <1>3 DEF Orders
    <2>3. IsFiniteSet(before(y)) /\ Cardinality(before(y)) \in Int /\ Cardinality(before(x)) \in Int
      BY <1>2
    <2> HIDE DEF before
    <2>4. Cardinality(before(x)) <= Cardinality(before(y)) /\ Cardinality(before(x)) # Cardinality(before(y))
      BY <2>1, <2>2, <2>3, FS_Subset
    <2> QED BY <2>3, <2>4
  <1>4. \A x \in S : place[x] = Cardinality(before(x))
    OBVIOUS
  <1> HIDE DEF before
  <1>5. ASSUME NEW x \in S, NEW y \in S, place[x] = place[y] PROVE x = y
    <2>1. Cardinality(before(x)) = Cardinality(before(y)) /\ Cardinality(before(x)) \in Int
      BY <1>2, <1>4, <1>5
    <2>2. <<x, y>> \notin R /\ <<y, x>> \notin R
      BY <1>3, <2>1
    <2> QED BY <2>2 DEF Orders
  <1>6. place \in Injection(S, 0 .. n - 1)
    BY <1>2, <1>5 DEF Injection, IsInjective
  <1>7. IsFiniteSet(0 .. n - 1) /\ Cardinality(0 .. n - 1) = n
    <2>1. 0 \in Int /\ n - 1 \in Int
      BY <1>1
    <2>2. IsFiniteSet(0 .. n - 1) /\ Cardinality(0 .. n - 1) = IF 0 > n - 1 THEN 0 ELSE (n - 1) - 0 + 1
      BY <2>1, FS_Interval
    <2> QED BY <1>1, <2>2
  <1>8. place \in Surjection(S, 0 .. n - 1)
    <2> HIDE DEF place
    <2> QED BY <1>6, <1>7, FS_Injection
  <1>9. \A k \in 0 .. n - 1 : \E x \in S : place[x] = k
    BY <1>8, Zenon DEF Surjection
  <1>10. ASSUME NEW k \in 0 .. n - 1
         PROVE  \E x \in S : /\ Cardinality(before(x)) = k
                             /\ \A z \in S : Cardinality(before(z)) = k => z = x
    <2>1. PICK x \in S : place[x] = k
      BY <1>9
    <2> QED BY <1>4, <1>5, <2>1
  <1> QED BY <1>1, <1>2, <1>10 DEF before, PlaceIn

-----------------------------------------------------------------------------
(***************************************************************************)
(* Highlights are picked: HighlightPick.                                   *)
(***************************************************************************)

Gates == way \in {"ranked", "focused", "balanced"} /\ film \in Footages /\ look \in Looks

PickType ==
  /\ Gates
  /\ admitted \in SUBSET DOMAIN film
  /\ picks \in Seq(admitted)
  /\ stage \in {"gating", "picking", "picked", "refused"}
  /\ stage = "gating" => admitted = {} /\ picks = <<>>

\* Any two picks stand apart, and none comes twice.
StandApart ==
  \A m, n \in DOMAIN picks : m < n =>
     /\ picks[m] # picks[n]
     /\ (IF Time(picks[m]) > Time(picks[n]) THEN Time(picks[m]) - Time(picks[n])
         ELSE Time(picks[n]) - Time(picks[m])) >= Separation
     /\ way # "ranked" => Distance(picks[m], picks[n]) >= Duplicate

\* Where a part of the route was taken from twice, nothing is free in a part
\* nothing was taken from; and so it stays, for nothing becomes free.
NothingSpread ==
  way = "balanced" /\ Cardinality(Buckets) < Len(picks) =>
     \A i \in Free : Bucket(i) \in Buckets

\* Picking ends when nothing is free or the number is full, and begins with
\* windows enough.
EndsFull ==
  stage \in {"picked", "refused"} =>
     \/ Free = {} \/ Len(picks) >= TopK
     \/ admitted = {} \/ Cardinality(admitted) < TopK

PickInv == PickType /\ StandApart /\ NothingSpread /\ EndsFull /\ BestIsFirst

-----------------------------------------------------------------------------
(* What the operators give.                                                *)

\* The windows of a footage are finitely many, and their times and scores numbers.
LEMMA FilmIs ==
    ASSUME PickType
    PROVE  /\ Len(film) \in Nat /\ DOMAIN film = 1 .. Len(film)
           /\ \A i \in admitted : film[i] \in Measurement
           /\ \A i \in admitted : Time(i) \in Nat /\ film[i].rel \in Nat /\ film[i].bal \in Nat
           /\ IsFiniteSet(admitted)
           /\ \A i, j \in admitted : i # j => Distance(i, j) \in Nat
           /\ Picked \in SUBSET admitted
  <1>1. film \in Seq(Measurement)
    BY FootageAssumption DEF PickType, Gates
  <1>2. Len(film) \in Nat /\ DOMAIN film = 1 .. Len(film) /\ \A i \in DOMAIN film : film[i] \in Measurement
    BY <1>1
  <1>3. admitted \in SUBSET DOMAIN film /\ picks \in Seq(admitted)
    BY DEF PickType
  <1>4. IsFiniteSet(admitted)
    <2>1. IsFiniteSet(1 .. Len(film))
      BY <1>2, FS_Interval
    <2> QED BY <1>2, <1>3, <2>1, FS_Subset
  <1>5. \A i, j \in admitted : i # j => Distance(i, j) \in Nat
    BY <1>3, FootageAssumption DEF PickType, Gates, Distance
  <1>6. Picked \in SUBSET admitted
    BY <1>3 DEF Picked, Range
  <1> QED
    BY <1>2, <1>3, <1>4, <1>5, <1>6 DEF Measurement, Time

\* A part of the route is one of five.
LEMMA BucketIs ==
    ASSUME PickType, NEW i \in admitted
    PROVE  Bucket(i) \in 0 .. 4
  <1> DEFINE f == [j \in admitted |-> Time(j)]
             times == {Time(j) : j \in admitted}
             first == Min(times)
             last  == Max(times)
  <1>1. times = {f[x] : x \in admitted} /\ f = [x \in admitted |-> f[x]]
    OBVIOUS
  <1>2. IsFiniteSet(times)
    <2> HIDE DEF times, f
    <2> QED BY <1>1, FilmIs, ImageIsFinite
  <1>3. times \in SUBSET Nat /\ Time(i) \in times
    BY FilmIs
  <1> HIDE DEF times
  <1>4. /\ first \in Nat /\ last \in Nat /\ Time(i) \in Nat
        /\ first <= Time(i) /\ Time(i) <= last
    BY <1>2, <1>3, LeastOf, GreatestOf
  <1> DEFINE q == ((Time(i) - first) * 5) \div (last - first)
  <1>5. Bucket(i) = IF first = last THEN 0 ELSE Min({4, q})
    BY DEF Bucket, times
  <1> HIDE DEF first, last
  <1>6. CASE first # last
    <2>1. q \in Nat
      <3>1. (Time(i) - first) * 5 \in Nat /\ last - first \in Nat /\ last - first > 0
        BY <1>4, <1>6
      <3> QED BY <3>1
    <2> HIDE DEF q
    <2>2. Min({4, q}) = IF 4 <= q THEN 4 ELSE q
      BY <2>1, OfTwo
    <2> QED BY <1>5, <1>6, <2>1, <2>2
  <1> QED BY <1>5, <1>6

\* How different a window looks from what is picked is a number.
LEMMA DiversityIs ==
    ASSUME PickType, NEW i \in admitted \ Picked
    PROVE  Diversity(i) \in Int
  <1> DEFINE pairs == {q \in admitted \X admitted : q[1] # q[2]}
             f == [p \in pairs |-> Distance(p[1], p[2])]
             all == {Distance(p[1], p[2]) : p \in pairs}
  <1>1. DistanceHigh \in Nat
    <2>1. all = {f[x] : x \in pairs} /\ f = [x \in pairs |-> f[x]]
      OBVIOUS
    <2>2. IsFiniteSet(pairs)
      <3>1. IsFiniteSet(admitted \X admitted)
        BY FilmIs, FS_Product
      <3> QED BY <3>1, FS_Subset
    <2>3. IsFiniteSet(all)
      <3> HIDE DEF all, f, pairs
      <3> QED BY <2>1, <2>2, ImageIsFinite
    <2>4. all \in SUBSET Nat
      <3> SUFFICES ASSUME NEW p \in pairs PROVE Distance(p[1], p[2]) \in Nat
        OBVIOUS
      <3>1. p[1] \in admitted /\ p[2] \in admitted /\ p[1] # p[2]
        OBVIOUS
      <3> QED BY <3>1, FilmIs
    <2>5. DistanceHigh = IF all = {} THEN 10 ELSE Max(all)
      BY DEF DistanceHigh
    <2> HIDE DEF all
    <2>6. all # {} => Max(all) \in all
      BY <2>3, <2>4, GreatestOf
    <2> QED BY <2>4, <2>5, <2>6
  <1> DEFINE d == IF picks = <<>> THEN DistanceHigh ELSE Min(Distances(i))
             q == (10 * d) \div DistanceHigh
  <1>2. d \in Nat
    <2>1. CASE picks # <<>>
      <3>1. Distances(i) \in SUBSET Nat
        BY FilmIs DEF Distances
      <3>2. Distances(i) # {}
        <4>1. picks[1] \in Picked
          BY <2>1 DEF PickType, Picked, Range
        <4> QED BY <4>1 DEF Distances
      <3> QED BY <2>1, <3>1, <3>2, LeastOf
    <2> QED BY <1>1, <2>1
  <1>3. Diversity(i) = IF DistanceHigh = 0 THEN 0 ELSE Min({10, q})
    BY DEF Diversity
  <1> HIDE DEF d
  <1>4. CASE DistanceHigh # 0
    <2>1. q \in Int
      BY <1>1, <1>2, <1>4
    <2> HIDE DEF q
    <2>2. Min({10, q}) \in Int
      BY <2>1, OfTwo
    <2> QED BY <1>3, <1>4, <2>2
  <1> QED BY <1>3, <1>4

\* Of the windows offered one is before the others, whichever order it is.
LEMMA BestIs ==
    ASSUME PickType, NEW S \in SUBSET (admitted \ Picked), S # {}
    PROVE  Best(S) \in S /\ \A j \in S \ {Best(S)} : Before(Best(S), j)
  <1> DEFINE R == {p \in S \X S : Before(p[1], p[2])}
  <1>1. ASSUME NEW x \in S, NEW y \in S PROVE <<x, y>> \in R <=> Before(x, y)
    <2>1. <<x, y>>[1] = x /\ <<x, y>>[2] = y /\ <<x, y>> \in S \X S
      OBVIOUS
    <2> QED BY <2>1
  <1> HIDE DEF R
  <1>2. S \in SUBSET (1 .. Len(film)) /\ S \in SUBSET admitted /\ Len(film) \in Nat
    BY FilmIs DEF PickType
  <1>3. \A x \in S : /\ x \in Nat /\ film[x].rel \in Int /\ film[x].bal \in Int
                     /\ Time(x) \in Int /\ Diversity(x) \in Int
    BY <1>2, FilmIs, DiversityIs
  <1>4. \A x \in S : Gain(x) \in Int
    <2> SUFFICES ASSUME NEW x \in S PROVE Gain(x) \in Int
      OBVIOUS
    <2>1. Weight \in Int
      BY DEF Weight
    <2> QED BY <1>3, <2>1 DEF Gain
  <1>5. \A x, y \in S : x # y => <<x, y>> \in R \/ <<y, x>> \in R
    <2> SUFFICES ASSUME NEW x \in S, NEW y \in S, x # y
                 PROVE  Before(x, y) \/ Before(y, x)
      BY <1>1
    <2> QED BY <1>3, <1>4 DEF Before
  <1>6. \A x, y, z \in S : <<x, y>> \in R /\ <<y, z>> \in R => <<x, z>> \in R
    <2> SUFFICES ASSUME NEW x \in S, NEW y \in S, NEW z \in S, Before(x, y), Before(y, z)
                 PROVE  Before(x, z)
      BY <1>1
    <2> QED BY <1>3, <1>4 DEF Before
  <1>7. \E b \in S : \A x \in S \ {b} : <<b, x>> \in R
    <2> DEFINE n == Len(film)
    <2>1. n \in Nat /\ S \in SUBSET (1 .. n)
      BY <1>2
    <2> HIDE DEF n
    <2> QED BY <1>5, <1>6, <2>1, FirstOfOrder
  <1>8. \E b \in S : \A x \in S \ {b} : Before(b, x)
    BY <1>1, <1>7
  <1> QED
    BY <1>8 DEF Best

-----------------------------------------------------------------------------
(* The invariant, action by action.                                        *)

\* What is picked next is free, and it is the best of what is offered.
LEMMA NextIsFree ==
    ASSUME PickType, PickNext
    PROVE  /\ Best(Offered) \in Offered /\ Best(Offered) \in Free
           /\ \A j \in Offered \ {Best(Offered)} : Before(Best(Offered), j)
           /\ picks' = Append(picks, Best(Offered))
  <1>1. Offered # {} /\ Offered \in SUBSET Free /\ Free \in SUBSET (admitted \ Picked)
    BY DEF PickNext, Offered, Free
  <1> QED
    BY <1>1, BestIs DEF PickNext

\* After a pick: the picks before it, and it.
LEMMA PickedNext ==
    ASSUME PickType, PickNext
    PROVE  /\ picks' \in Seq(admitted) /\ Len(picks') = Len(picks) + 1
           /\ Len(picks) \in Nat
           /\ DOMAIN picks' = (DOMAIN picks) \cup {Len(picks) + 1}
           /\ \A m \in DOMAIN picks : picks'[m] = picks[m] /\ m < Len(picks) + 1 /\ m \in Nat
           /\ picks'[Len(picks) + 1] = Best(Offered)
           /\ Picked' = Picked \cup {Best(Offered)}
  <1>1. picks \in Seq(admitted) /\ Best(Offered) \in admitted
    BY NextIsFree DEF PickType, Free
  <1> DEFINE b == Best(Offered)
  <1>2. picks' = Append(picks, b)
    BY NextIsFree
  <1> HIDE DEF b
  <1>3. /\ picks' \in Seq(admitted) /\ Len(picks') = Len(picks) + 1
        /\ Len(picks) \in Nat
        /\ DOMAIN picks = 1 .. Len(picks) /\ DOMAIN picks' = 1 .. (Len(picks) + 1)
        /\ \A m \in DOMAIN picks : picks'[m] = picks[m]
        /\ picks'[Len(picks) + 1] = b
    BY <1>1, <1>2 DEF b
  <1>4. DOMAIN picks' = (DOMAIN picks) \cup {Len(picks) + 1}
    BY <1>3
  <1>5. Picked' = Picked \cup {b}
    BY <1>3, <1>4 DEF Picked, Range
  <1> QED
    BY <1>3, <1>4, <1>5 DEF b

\* A pick is one of the admitted, and none is picked twice.
LEMMA PickTypeStep ==
    ASSUME PickType, [PickStep]_pickVars
    PROVE  PickType'
  <1>1. CASE Gate
    <2>1. admitted' \in SUBSET DOMAIN film' /\ picks' = picks /\ stage = "gating"
      BY <1>1 DEF Gate, Admitted
    <2>2. picks' \in Seq(admitted')
      <3>1. picks = <<>>
        BY <2>1 DEF PickType
      <3> QED BY <2>1, <3>1
    <2>3. stage' \in {"refused", "picking"}
      BY <1>1 DEF Gate
    <2> QED BY <1>1, <2>1, <2>2, <2>3 DEF Gate, PickType, Gates
  <1>2. CASE PickNext
    <2>1. picks' \in Seq(admitted)
      BY <1>2, PickedNext
    <2> QED BY <1>2, <2>1 DEF PickNext, PickType, Gates
  <1>3. CASE PickingEnds
    BY <1>3 DEF PickingEnds, PickType, Gates
  <1>4. CASE UNCHANGED pickVars
    BY <1>4 DEF pickVars, PickType, Gates
  <1> QED BY <1>1, <1>2, <1>3, <1>4 DEF PickStep

\* Where the picks stay, what is said of them does.
LEMMA PicksStay ==
    ASSUME PickInv, UNCHANGED <<way, film, look, picks>>
    PROVE  StandApart'
  <1> QED BY DEF PickInv, StandApart, Time, Distance

\* What is picked next stands apart from all picked before.
LEMMA StandApartStep ==
    ASSUME PickInv, [PickStep]_pickVars
    PROVE  StandApart'
  <1>1. CASE PickNext
    <2> DEFINE b == Best(Offered)
               last == Len(picks) + 1
    <2>1. b \in Free
      BY <1>1, NextIsFree DEF PickInv
    <2>2. b \notin Picked /\ Apart(b) /\ Distinct(b)
      BY <2>1 DEF Free
    <2>3. /\ DOMAIN picks' = (DOMAIN picks) \cup {last}
          /\ \A m \in DOMAIN picks : picks'[m] = picks[m] /\ m < last /\ m \in Nat
          /\ picks'[last] = b /\ last \in Nat
      <3>1. Len(picks) \in Nat => last \in Nat
        OBVIOUS
      <3> QED BY <1>1, <3>1, PickedNext DEF PickInv
    <2>4. way' = way /\ film' = film /\ look' = look
      BY <1>1 DEF PickNext
    <2>5. \A i : Time(i)' = Time(i)
      BY <2>4 DEF Time
    <2>6. \A m \in DOMAIN picks : picks[m] \in Picked
      BY DEF Picked, Range
    <2> HIDE DEF b, last
    <2>7. SUFFICES ASSUME NEW m \in DOMAIN picks', NEW n \in DOMAIN picks', m < n
                   PROVE  LET p == picks'[m]
                              q == picks'[n]
                          IN  /\ p # q
                              /\ (IF Time(p) > Time(q) THEN Time(p) - Time(q) ELSE Time(q) - Time(p)) >= Separation
                              /\ way # "ranked" => Distance(p, q) >= Duplicate
      <3>1. \A i, j : Distance(i, j)' = Distance(i, j)
        BY <2>4 DEF Distance
      <3> QED BY <2>4, <2>5, <3>1 DEF StandApart, Time, Distance
    <2>8. m \in DOMAIN picks
      BY <2>3, <2>7
    <2>9. CASE n \in DOMAIN picks
      BY <2>3, <2>7, <2>8, <2>9 DEF PickInv, StandApart
    <2>10. CASE n = last
      <3> DEFINE p == picks[m]
      <3>1. p \in Picked /\ picks'[m] = p /\ picks'[n] = b
        BY <2>3, <2>6, <2>8, <2>10
      <3>2. Time(p) \in Nat /\ Time(b) \in Nat
        BY <2>1, <3>1, FilmIs DEF PickInv, Free
      <3>3. (IF Time(b) > Time(p) THEN Time(b) - Time(p) ELSE Time(p) - Time(b)) >= Separation
        BY <2>2, <3>1 DEF Apart
      <3>4. (IF Time(p) > Time(b) THEN Time(p) - Time(b) ELSE Time(b) - Time(p)) >= Separation
        BY <3>2, <3>3, PickAssumption
      <3>5. way # "ranked" => Distance(p, b) >= Duplicate
        <4>1. Distance(p, b) = Distance(b, p)
          <5>1. {p, b} = {b, p}
            OBVIOUS
          <5> QED BY <5>1 DEF Distance
        <4>2. Distance(b, p) \in Distances(b)
          BY <3>1 DEF Distances
        <4> QED BY <2>2, <4>1, <4>2 DEF Distinct
      <3>6. p # b
        BY <2>2, <3>1
      <3> QED BY <3>1, <3>4, <3>5, <3>6
    <2> QED BY <2>3, <2>7, <2>9, <2>10
  <1>2. CASE UNCHANGED <<way, film, look, picks>>
    BY <1>2, PicksStay
  <1> QED BY <1>1, <1>2 DEF PickStep, Gate, PickingEnds, pickVars

\* Nothing becomes free by a pick.
LEMMA FreeShrinks ==
    ASSUME PickType, PickNext
    PROVE  Free' \in SUBSET Free
  <1>1. /\ Picked' = Picked \cup {Best(Offered)}
        /\ way' = way /\ film' = film /\ look' = look /\ admitted' = admitted
    BY PickedNext DEF PickNext
  <1>2. \A i, j : Distance(i, j)' = Distance(i, j) /\ Time(i)' = Time(i)
    BY <1>1 DEF Distance, Time
  <1>3. ASSUME NEW i \in Free' PROVE i \in Free
    <2>1. i \in admitted /\ i \notin Picked /\ Apart(i)' /\ Distinct(i)'
      BY <1>1, <1>3 DEF Free
    <2>2. Apart(i)
      BY <1>1, <1>2, <2>1 DEF Apart, Time
    <2>3. Distinct(i)
      BY <1>1, <1>2, <2>1 DEF Distinct, Distances, Distance
    <2> QED BY <2>1, <2>2, <2>3 DEF Free
  <1> QED BY <1>3

\* Nothing was picked, so nothing stands in the way: all that is admitted is
\* offered, and what is before all in it is as relevant as any.
LEMMA FirstIsBest ==
    ASSUME PickType, PickNext, picks = <<>>, NEW i \in admitted
    PROVE  film[i].rel <= film[Best(Offered)].rel
  <1> DEFINE b == Best(Offered)
  <1>1. Picked = {} /\ Buckets = {}
    <2>1. DOMAIN picks = {}
      OBVIOUS
    <2> QED BY <2>1 DEF Picked, Range, Buckets
  <1>2. Free = admitted
    BY <1>1 DEF Free, Apart, Distinct, Distances
  <1>3. Offered = admitted
    BY <1>1, <1>2 DEF Offered
  <1>4. b \in admitted /\ (i # b => Before(b, i))
    BY <1>3, NextIsFree
  <1> HIDE DEF b
  <1>5. /\ film[i].rel \in Nat /\ film[b].rel \in Nat /\ Diversity(b) \in Int
        /\ Diversity(i) = Diversity(b) /\ Bucket(i) \notin Buckets /\ Bucket(b) \notin Buckets
    BY <1>1, <1>4, FilmIs, DiversityIs DEF Diversity
  <1>6. CASE i = b
    BY <1>5, <1>6 DEF b
  <1>7. CASE i # b /\ way = "ranked"
    BY <1>4, <1>5, <1>7 DEF Before, b
  <1>8. CASE i # b /\ way # "ranked"
    <2>1. Gain(b) >= Gain(i)
      <3>1. Gain(b) > Gain(i) \/ Gain(b) = Gain(i)
        BY <1>4, <1>8 DEF Before
      <3>2. Gain(b) \in Int /\ Gain(i) \in Int
        BY <1>5 DEF Gain, Weight
      <3> QED BY <3>1, <3>2
    <2> DEFINE d == Diversity(b)
               x == film[i].rel
               y == film[b].rel
    <2>2. /\ Gain(b) = Weight * y + (100 - Weight) * d + 80
          /\ Gain(i) = Weight * x + (100 - Weight) * d + 80
      BY <1>5 DEF Gain
    <2>3. x \in Nat /\ y \in Nat /\ d \in Int
      BY <1>5
    <2> HIDE DEF d, x, y
    <2>4. Weight = 68 \/ Weight = 82
      BY DEF Weight
    <2>5. x <= y
      BY <2>1, <2>2, <2>3, <2>4
    <2> QED BY <2>5 DEF x, y, b
  <1> QED BY <1>6, <1>7, <1>8

\* The first pick stays the best of all admitted.
LEMMA BestIsFirstStep ==
    ASSUME PickInv, [PickStep]_pickVars
    PROVE  BestIsFirst'
  <1>1. CASE Gate
    <2>1. picks' = <<>>
      BY <1>1 DEF Gate, PickInv, PickType
    <2> QED BY <2>1 DEF BestIsFirst
  <1>2. CASE PickNext /\ picks = <<>>
    <2>1. picks'[1] = Best(Offered)
      <3>1. Len(picks) = 0
        BY <1>2
      <3>2. picks'[Len(picks) + 1] = Best(Offered)
        BY <1>2, PickedNext DEF PickInv
      <3> QED BY <3>1, <3>2
    <2> QED BY <1>2, <2>1, FirstIsBest DEF PickInv, BestIsFirst, PickNext
  <1>3. CASE PickNext /\ picks # <<>>
    <2>1. 1 \in DOMAIN picks
      BY <1>3 DEF PickInv, PickType
    <2>2. picks'[1] = picks[1]
      BY <1>3, <2>1, PickedNext DEF PickInv
    <2> QED BY <1>3, <2>2 DEF PickInv, BestIsFirst, PickNext
  <1>4. CASE PickingEnds \/ UNCHANGED pickVars
    BY <1>4 DEF PickingEnds, pickVars, PickInv, BestIsFirst
  <1> QED BY <1>1, <1>2, <1>3, <1>4 DEF PickStep

\* A part of the route stays where it is once the windows are admitted.
LEMMA BucketStays ==
    ASSUME UNCHANGED <<film, admitted>>, NEW i
    PROVE  Bucket(i)' = Bucket(i)
  <1> QED BY DEF Bucket, Time

\* The parts of the route that were picked from are five at the most, all of them
\* when five.
LEMMA BucketsAre ==
    ASSUME PickType
    PROVE  /\ Buckets \in SUBSET (0 .. 4) /\ IsFiniteSet(Buckets) /\ Cardinality(Buckets) \in Nat
           /\ Cardinality(Buckets) >= 5 => Buckets = 0 .. 4
  <1>1. Buckets \in SUBSET (0 .. 4)
    BY FilmIs, BucketIs DEF Buckets
  <1>2. IsFiniteSet(0 .. 4) /\ Cardinality(0 .. 4) = 5
    <2>1. 0 \in Int /\ 4 \in Int /\ ~(0 > 4) /\ 4 - 0 + 1 = 5
      OBVIOUS
    <2> QED BY <2>1, FS_Interval
  <1>3. /\ IsFiniteSet(Buckets) /\ Cardinality(Buckets) <= 5
        /\ 5 = Cardinality(Buckets) => 0 .. 4 = Buckets
    BY <1>1, <1>2, FS_Subset
  <1>4. Cardinality(Buckets) \in Nat
    BY <1>3, FS_CardinalityType
  <1> QED BY <1>1, <1>3, <1>4

\* Once a part was taken from twice, no part left out has anything free.
LEMMA NothingSpreadStep ==
    ASSUME PickInv, [PickStep]_pickVars
    PROVE  NothingSpread'
  <1> USE DEF PickInv
  <1>1. CASE Gate
    <2>1. picks' = <<>>
      BY <1>1 DEF Gate, PickType
    <2>2. Buckets' = {} /\ Len(picks') = 0
      <3>1. DOMAIN picks' = {} /\ Len(picks') = 0
        BY <2>1
      <3> QED BY <3>1 DEF Buckets, Picked, Range
    <2>3. Cardinality(Buckets') = 0
      BY <2>2, FS_EmptySet
    <2>4. ~(Cardinality(Buckets') < Len(picks'))
      BY <2>2, <2>3
    <2> QED BY <2>4 DEF NothingSpread
  <1>2. CASE PickNext
    <2> DEFINE b == Best(Offered)
    <2> SUFFICES ASSUME way = "balanced", Cardinality(Buckets') < Len(picks'),
                        NEW i \in Free'
                 PROVE  Bucket(i) \in Buckets'
      BY <1>2, BucketStays DEF NothingSpread, PickNext
    <2>1. /\ Len(picks') = Len(picks) + 1 /\ Len(picks) \in Nat
          /\ Picked' = Picked \cup {b}
      BY <1>2, PickedNext
    <2>2. Buckets' = Buckets \cup {Bucket(b)}
      <3>1. \A j : Bucket(j)' = Bucket(j)
        BY <1>2, BucketStays DEF PickNext
      <3> QED BY <2>1, <3>1 DEF Buckets
    <2>3. i \in Free /\ i \in admitted
      BY <1>2, FreeShrinks DEF Free
    <2>4. b \in Offered
      BY <1>2, NextIsFree
    <2>5. IsFiniteSet(Buckets) /\ Cardinality(Buckets) \in Nat
      BY BucketsAre
    <2>6. CASE Bucket(b) \notin Buckets
      <3>1. Cardinality(Buckets') = Cardinality(Buckets) + 1
        BY <2>2, <2>5, <2>6, FS_AddElement
      <3>2. Cardinality(Buckets) < Len(picks)
        BY <2>1, <2>5, <3>1
      <3>3. Bucket(i) \in Buckets
        BY <2>3, <3>2 DEF NothingSpread
      <3> QED BY <2>2, <3>3
    <2>7. CASE Bucket(b) \in Buckets /\ Bucket(i) \notin Buckets
      <3>1. Cardinality(Buckets) < 5
        <4>1. Bucket(i) \in 0 .. 4
          BY <2>3, BucketIs
        <4> QED BY <2>5, <2>7, <4>1, BucketsAre
      <3>2. Bucket(b) \notin Buckets
        BY <2>3, <2>4, <2>7, <3>1 DEF Offered
      <3> QED BY <2>7, <3>2
    <2>8. CASE Bucket(i) \in Buckets
      BY <2>2, <2>8
    <2> QED BY <2>6, <2>7, <2>8
  <1>3. CASE PickingEnds \/ UNCHANGED pickVars
    <2>1. UNCHANGED <<way, film, look, admitted, picks>>
      BY <1>3 DEF PickingEnds, pickVars
    <2>2. Free' = Free /\ Buckets' = Buckets
      BY <2>1 DEF Free, Buckets, Picked, Apart, Distinct, Distances, Distance, Time, Bucket
    <2>3. \A i : Bucket(i)' = Bucket(i)
      BY <2>1, BucketStays
    <2> QED BY <2>1, <2>2, <2>3 DEF NothingSpread
  <1> QED BY <1>1, <1>2, <1>3 DEF PickStep

\* Picking ends when enough are picked or none is left that may be.
LEMMA EndsFullStep ==
    ASSUME PickInv, [PickStep]_pickVars
    PROVE  EndsFull'
  <1> USE DEF PickInv
  <1>1. CASE Gate
    <2>0. PickType'
      BY PickTypeStep
    <2>1. IsFiniteSet(Admitted) /\ admitted' = Admitted
      <3>1. film \in Seq(Measurement)
        BY FootageAssumption DEF PickType, Gates
      <3>2. Len(film) \in Nat /\ DOMAIN film = 1 .. Len(film)
        BY <3>1
      <3>3. IsFiniteSet(1 .. Len(film))
        BY <3>2, FS_Interval
      <3> QED BY <1>1, <3>2, <3>3, FS_Subset DEF Gate, Admitted
    <2>2. Cardinality(Admitted) \in Nat
      BY <2>1, FS_CardinalityType
    <2>3. CASE stage' = "refused"
      <3>1. Cardinality(Admitted) < 1 \/ Cardinality(Admitted) < TopK
        BY <1>1, <2>3 DEF Gate
      <3>2. Cardinality(Admitted) < TopK
        BY <2>2, <3>1, PickAssumption
      <3> QED BY <2>1, <3>2 DEF EndsFull
    <2>4. CASE stage' # "refused"
      BY <1>1, <2>4 DEF Gate, EndsFull
    <2> QED BY <2>3, <2>4
  <1>2. CASE PickNext
    BY <1>2 DEF PickNext, EndsFull
  <1>3. CASE PickingEnds
    <2>1. Free' = Free
      BY <1>3 DEF PickingEnds, Free, Picked, Apart, Distinct, Distances, Distance, Time
    <2>2. Len(picks) = TopK \/ Free = {}
      BY <1>3 DEF PickingEnds
    <2>3. TopK >= TopK
      BY PickAssumption
    <2> QED BY <1>3, <2>1, <2>2, <2>3 DEF PickingEnds, EndsFull
  <1>4. CASE UNCHANGED pickVars
    <2>1. Free' = Free
      BY <1>4 DEF pickVars, Free, Picked, Apart, Distinct, Distances, Distance, Time
    <2> QED BY <1>4, <2>1 DEF pickVars, EndsFull
  <1> QED BY <1>1, <1>2, <1>3, <1>4 DEF PickStep

\* What a picking keeps holds from the first pick to the last,
LEMMA PickInvariant == PickSpec => []PickInv
  <1>1. PickInit => PickInv
    <2> SUFFICES ASSUME PickInit PROVE PickInv
      OBVIOUS
    <2>1. PickType
      <3>1. <<>> \in Seq({})
        OBVIOUS
      <3> QED BY <3>1 DEF PickInit, PickType, Gates
    <2>2. DOMAIN picks = {} /\ Len(picks) = 0
      BY DEF PickInit
    <2>3. Cardinality(Buckets) \in Nat
      BY <2>1, BucketsAre
    <2>4. NothingSpread
      BY <2>2, <2>3 DEF NothingSpread
    <2> QED BY <2>1, <2>2, <2>4 DEF PickInit, PickInv, StandApart, EndsFull, BestIsFirst
  <1>2. PickInv /\ [PickStep]_pickVars => PickInv'
    <2> SUFFICES ASSUME PickInv, [PickStep]_pickVars PROVE PickInv'
      OBVIOUS
    <2>1. PickType'
      BY PickTypeStep DEF PickInv
    <2> QED
      BY <2>1, StandApartStep, NothingSpreadStep, EndsFullStep, BestIsFirstStep DEF PickInv
  <1> QED
    BY <1>1, <1>2, PTL DEF PickSpec

\* A window that is not free and was not picked has a pick that keeps it out.
LEMMA KeptOut ==
    ASSUME PickType, NEW i \in admitted \ Picked, i \notin Free
    PROVE  \E j \in Picked : \/ Time(i) - Time(j) \in -(Separation - 1) .. Separation - 1
                             \/ way # "ranked" /\ Distance(i, j) < Duplicate
  <1>1. ~Apart(i) \/ ~Distinct(i)
    BY DEF Free
  <1>2. CASE ~Apart(i)
    <2>1. PICK j \in Picked : ~((IF Time(i) > Time(j) THEN Time(i) - Time(j) ELSE Time(j) - Time(i)) >= Separation)
      BY <1>2 DEF Apart
    <2>2. Time(i) \in Nat /\ Time(j) \in Nat /\ Separation \in Nat
      BY FilmIs, PickAssumption
    <2>3. Time(i) - Time(j) \in -(Separation - 1) .. Separation - 1
      BY <2>1, <2>2
    <2> QED BY <2>3
  <1>3. CASE ~Distinct(i)
    <2>1. PICK d \in Distances(i) : way # "ranked" /\ ~(d >= Duplicate)
      BY <1>3 DEF Distinct
    <2>2. PICK j \in Picked : d = Distance(i, j)
      BY <2>1 DEF Distances
    <2>3. Distance(i, j) \in Nat /\ Duplicate \in Nat
      BY FilmIs, PickAssumption
    <2> QED BY <2>1, <2>2, <2>3
  <1> QED BY <1>1, <1>2, <1>3

\* and what it says is what is promised of the picks.
LEMMA PickInvSays == PickInv => PicksAreSound
  <1> SUFFICES ASSUME PickInv PROVE PicksAreSound
    OBVIOUS
  <1> USE DEF PickInv
  <1>1. PicksStandApart
    <2> SUFFICES ASSUME NEW m \in DOMAIN picks, NEW n \in DOMAIN picks, m < n
                 PROVE  /\ picks[m] # picks[n]
                        /\ Max({Time(picks[m]), Time(picks[n])}) - Min({Time(picks[m]), Time(picks[n])}) >= Separation
                        /\ way # "ranked" => Distance(picks[m], picks[n]) >= Duplicate
      BY DEF PicksStandApart
    <2> DEFINE s == Time(picks[m])
               t == Time(picks[n])
    <2>1. s \in Nat /\ t \in Nat
      BY FilmIs DEF PickType
    <2>2. /\ picks[m] # picks[n]
          /\ (IF s > t THEN s - t ELSE t - s) >= Separation
          /\ way # "ranked" => Distance(picks[m], picks[n]) >= Duplicate
      BY DEF StandApart
    <2> HIDE DEF s, t
    <2>3. /\ Min({s, t}) = IF s <= t THEN s ELSE t
          /\ Max({s, t}) = IF s >= t THEN s ELSE t
      BY <2>1, OfTwo
    <2>4. Max({s, t}) - Min({s, t}) >= Separation
      BY <2>1, <2>2, <2>3, PickAssumption
    <2> QED BY <2>2, <2>4 DEF s, t
  <1>2. ShortIsFull
    <2> SUFFICES ASSUME stage \in {"picked", "refused"}, admitted # {}, Len(picks) < TopK,
                        Cardinality(admitted) >= TopK, NEW i \in admitted \ Picked
                 PROVE  \E j \in Picked :
                          \/ Time(i) - Time(j) \in -(Separation - 1) .. Separation - 1
                          \/ way # "ranked" /\ Distance(i, j) < Duplicate
      BY DEF ShortIsFull
    <2>1. Cardinality(admitted) \in Nat /\ Len(picks) \in Nat /\ TopK \in Nat
      BY FilmIs, FS_CardinalityType, PickAssumption DEF PickType
    <2>2. Free = {}
      BY <2>1 DEF EndsFull
    <2> QED BY <2>2, KeptOut
  <1>3. RouteIsSpread
    <2> SUFFICES ASSUME way = "balanced", Cardinality(Buckets) < Len(picks),
                        NEW i \in admitted \ Picked, Bucket(i) \notin Buckets
                 PROVE  \E j \in Picked :
                          \/ Time(i) - Time(j) \in -(Separation - 1) .. Separation - 1
                          \/ Distance(i, j) < Duplicate
      BY DEF RouteIsSpread
    <2>1. i \notin Free
      BY DEF NothingSpread
    <2> QED BY <2>1, KeptOut
  <1> QED
    BY <1>1, <1>2, <1>3 DEF PicksAreSound

\* Whatever the footage and however its windows look, what is picked stands
\* apart, fills its number where it can, spreads over the route and begins with
\* the best window admitted.
THEOREM PicksStandAndSpread == PickSpec => []PicksAreSound
  <1> QED BY PickInvariant, PickInvSays, PTL

-----------------------------------------------------------------------------
(***************************************************************************)
(* Judging is planned: JudgementPlan.                                      *)
(***************************************************************************)

Recording == [start : Int, duration : Nat]

Packaged  == [end : Nat, recordings : Seq(Recording), turns : Seq(Int),
              moments : Seq(Int), stride : Nat \ {0}]

\* Windows drawn on a ride: whole, inside a recording and the ride, and no two
\* that begin together.
Pool(r) == [start : 0 .. r.end, recording : DOMAIN r.recordings]

Drawn(r, found) ==
    /\ found \in SUBSET Pool(r)
    /\ \A w \in found : /\ Earliest(r, w.recording) <= w.start
                        /\ w.start <= Latest(r, w.recording)
    /\ \A v, w \in found : v.start = w.start => v = w

\* A multiple of twice a stride is one of the stride.
LEMMA TwiceTheStride ==
    ASSUME NEW a \in Int, NEW s \in Nat \ {0}, a % (2 * s) = 0
    PROVE  a % s = 0
  <1> DEFINE q == a \div (2 * s)
  <1>1. q \in Int /\ a = (2 * s) * q + 0
    BY DivisionIs
  <1>2. a = s * (2 * q) + 0 /\ 2 * q \in Int
    BY <1>1
  <1> HIDE DEF q
  <1> QED BY <1>2, DivisionIsOne

\* Places spread evenly over n are different and all of the n.
LEMMA SpreadIsStrict ==
    ASSUME NEW n \in Nat, NEW k \in Nat \ {0}, NEW i \in Nat, NEW j \in Nat, i < j, k <= n
    PROVE  (i * n) \div k < (j * n) \div k
  OBVIOUS

\* None of them is beyond.
LEMMA SpreadIsInside ==
    ASSUME NEW n \in Nat, NEW k \in Nat \ {0}, NEW i \in Nat, i < k, n # 0
    PROVE  (i * n) \div k < n /\ (i * n) \div k \in Nat
  <1>1. (i * n) \div k < n
    OBVIOUS
  <1>2. i * n \in Nat
    OBVIOUS
  <1>3. (i * n) \div k \in Nat
    BY <1>2
  <1> QED BY <1>1, <1>3

\* A part of n, in parts of u, is no more than n.
LEMMA PartOf ==
    ASSUME NEW n \in Nat, NEW u \in Nat \ {0}, NEW keep \in Nat, keep <= u
    PROVE  /\ (n * keep) \div u \in Nat /\ (n * keep) \div u <= n
           /\ (n * keep) \div u = n => (n * keep) % u = 0
  <1>1. /\ (n * keep) \div u <= n
        /\ (n * keep) \div u = n => (n * keep) % u = 0
    OBVIOUS
  <1>2. n * keep \in Nat
    OBVIOUS
  <1>3. (n * keep) \div u \in Nat
    BY <1>2
  <1> QED BY <1>1, <1>3

-----------------------------------------------------------------------------
(* The windows.                                                            *)

\* A ride is what a package holds.
LEMMA RideIs == Rides \subseteq Packaged
  <1> QED BY RideAssumption DEF Packaged, Recording

\* Where a window of a recording may begin.
LEMMA RoomIs ==
    ASSUME NEW r \in Packaged, NEW i \in DOMAIN r.recordings
    PROVE  /\ StartOf(r, i) \in Int /\ EndOf(r, i) \in Int /\ i \in Nat \ {0}
           /\ Earliest(r, i) \in Nat /\ StartOf(r, i) <= Earliest(r, i)
           /\ Latest(r, i) \in Int
           /\ Latest(r, i) + WindowS <= EndOf(r, i) /\ Latest(r, i) + WindowS <= r.end
           /\ \A s \in Int : StartOf(r, i) <= s /\ 0 <= s => Earliest(r, i) <= s
           /\ \A s \in Int : s + WindowS <= EndOf(r, i) /\ s + WindowS <= r.end => s <= Latest(r, i)
  <1>1. /\ r.recordings \in Seq(Recording) /\ r.end \in Nat /\ WindowS \in Nat
    BY NumbersAssumption DEF Packaged
  <1>2. r.recordings[i].start \in Int /\ r.recordings[i].duration \in Nat /\ i \in Nat \ {0}
    <2>1. r.recordings[i] \in Recording /\ i \in 1 .. Len(r.recordings) /\ Len(r.recordings) \in Nat
      BY <1>1
    <2> QED BY <2>1 DEF Recording
  <1> DEFINE from == StartOf(r, i)
             to   == EndOf(r, i)
  <1>3. from \in Int /\ to \in Int
    BY <1>2 DEF StartOf, EndOf
  <1> HIDE DEF from, to
  <1>4. Max({from, 0}) = IF from >= 0 THEN from ELSE 0
    BY <1>3, OfTwo
  <1>5. Min({to, r.end}) = IF to <= r.end THEN to ELSE r.end
    BY <1>1, <1>3, OfTwo
  <1>6. Earliest(r, i) = Max({from, 0}) /\ Latest(r, i) = Min({to, r.end}) - WindowS
    BY DEF Earliest, Latest, from, to
  <1> DEFINE low  == Earliest(r, i)
             high == Latest(r, i)
  <1>7. low = IF from >= 0 THEN from ELSE 0
    BY <1>4, <1>6
  <1>8. high = (IF to <= r.end THEN to ELSE r.end) - WindowS
    BY <1>5, <1>6
  <1> HIDE DEF low, high
  <1>9. low \in Nat /\ from <= low /\ high \in Int /\ high + WindowS <= to /\ high + WindowS <= r.end
    BY <1>1, <1>3, <1>7, <1>8
  <1>10. \A s \in Int : from <= s /\ 0 <= s => low <= s
    BY <1>3, <1>7
  <1>11. \A s \in Int : s + WindowS <= to /\ s + WindowS <= r.end => s <= high
    BY <1>1, <1>3, <1>8
  <1> QED
    BY <1>2, <1>3, <1>9, <1>10, <1>11 DEF from, to, low, high

\* The windows there could be are finitely many.
LEMMA PoolIsFinite ==
    ASSUME NEW r \in Packaged
    PROVE  IsFiniteSet(Pool(r)) /\ \A T \in SUBSET Pool(r) : IsFiniteSet(T)
  <1> DEFINE A == 0 .. r.end
             B == DOMAIN r.recordings
             f == [p \in A \X B |-> [start |-> p[1], recording |-> p[2]]]
  <1>1. r.end \in Nat /\ r.recordings \in Seq(Recording)
    BY DEF Packaged
  <1>2. IsFiniteSet(A)
    BY <1>1, FS_Interval
  <1>3. IsFiniteSet(B)
    <2>1. B = 1 .. Len(r.recordings) /\ Len(r.recordings) \in Int /\ 1 \in Int
      BY <1>1
    <2> QED BY <2>1, FS_Interval
  <1> HIDE DEF A, B
  <1>4. IsFiniteSet(A \X B)
    BY <1>2, <1>3, FS_Product
  <1>5. f \in Surjection(A \X B, Pool(r))
    <2>1. f \in [A \X B -> Pool(r)]
      BY DEF Pool, A, B
    <2>2. ASSUME NEW w \in Pool(r) PROVE \E p \in A \X B : f[p] = w
      <3>1. w.start \in A /\ w.recording \in B /\ w = [start |-> w.start, recording |-> w.recording]
        BY DEF Pool, A, B
      <3>2. <<w.start, w.recording>> \in A \X B
        BY <3>1
      <3>3. f[<<w.start, w.recording>>] = w
        BY <3>1, <3>2
      <3> QED BY <3>2, <3>3
    <2> QED BY <2>1, <2>2 DEF Surjection
  <1>6. IsFiniteSet(Pool(r))
    BY <1>4, <1>5, FS_Surjection
  <1> QED BY <1>6, FS_Subset

\* The stride's windows are whole, inside the ride, and a span two recordings
\* filmed is the first one's.
LEMMA StrideDrawn ==
    ASSUME NEW r \in Packaged
    PROVE  Drawn(r, StrideWindows(r))
  <1> DEFINE slots(i) == StrideSlots(r, i) \ UNION {StrideSlots(r, j) : j \in 1 .. i - 1}
  <1>1. \A w \in StrideWindows(r) : \E i \in DOMAIN r.recordings : \E s \in slots(i) :
            w = [start |-> s, recording |-> i]
    BY DEF StrideWindows
  <1>2. ASSUME NEW w \in StrideWindows(r)
        PROVE  /\ w \in Pool(r) /\ w.start \in slots(w.recording)
               /\ w = [start |-> w.start, recording |-> w.recording]
               /\ Earliest(r, w.recording) <= w.start
               /\ w.start <= Latest(r, w.recording)
    <2>1. PICK i \in DOMAIN r.recordings : \E s \in slots(i) : w = [start |-> s, recording |-> i]
      BY <1>1
    <2>2. PICK s \in slots(i) : w = [start |-> s, recording |-> i]
      BY <2>1
    <2>3. s \in StrideSlots(r, i)
      OBVIOUS
    <2> HIDE DEF slots
    <2>4. w.start = s /\ w.recording = i
      BY <2>2
    <2>5. s \in StartOf(r, i) .. (EndOf(r, i) - WindowS) /\ s >= 0 /\ s + WindowS <= r.end
      BY <2>3 DEF StrideSlots
    <2>6. r.end \in Nat /\ WindowS \in Nat
      BY NumbersAssumption DEF Packaged
    <2>7. s \in Int /\ StartOf(r, i) <= s /\ s + WindowS <= EndOf(r, i) /\ s \in 0 .. r.end
      BY <2>5, <2>6, RoomIs
    <2>8. Earliest(r, i) <= s /\ s <= Latest(r, i)
      BY <2>5, <2>7, RoomIs
    <2> QED BY <2>2, <2>4, <2>7, <2>8 DEF Pool
  <1>3. ASSUME NEW v \in StrideWindows(r), NEW w \in StrideWindows(r), v.start = w.start
        PROVE  v = w
    <2> DEFINE i == v.recording
               j == w.recording
               s == v.start
    <2>1. s \in slots(i) /\ s \in slots(j) /\ i \in DOMAIN r.recordings /\ j \in DOMAIN r.recordings
      BY <1>2, <1>3 DEF Pool
    <2>2. i \in Nat \ {0} /\ j \in Nat \ {0}
      BY <2>1, RoomIs
    <2> HIDE DEF i, j, s
    <2>3. \A k, l \in Nat \ {0} : k < l /\ s \in StrideSlots(r, k) => s \notin slots(l)
      <3> SUFFICES ASSUME NEW k \in Nat \ {0}, NEW l \in Nat \ {0}, k < l, s \in StrideSlots(r, k)
                   PROVE  s \notin slots(l)
        OBVIOUS
      <3>1. k \in 1 .. l - 1
        OBVIOUS
      <3> QED BY <3>1
    <2>4. i = j
      BY <2>1, <2>2, <2>3
    <2> QED BY <1>2, <1>3, <2>4 DEF i, j, s
  <1> QED BY <1>2, <1>3 DEF Drawn

\* The window wanted is one, or none.
LEMMA PlacedIs ==
    ASSUME NEW r \in Packaged, NEW t \in Int, NEW wanted \in Int
    PROVE  \/ Placed(r, t, wanted) = {}
           \/ \E w \in Pool(r) : /\ Placed(r, t, wanted) = {w}
                                 /\ Earliest(r, w.recording) <= w.start
                                 /\ w.start <= Latest(r, w.recording)
  <1> DEFINE running == {i \in DOMAIN r.recordings : StartOf(r, i) <= t /\ t <= EndOf(r, i)}
             i == Filming(r, t)
  <1>1. CASE i = 0 \/ Latest(r, i) < Earliest(r, i)
    BY <1>1 DEF Placed
  <1>2. CASE ~(i = 0 \/ Latest(r, i) < Earliest(r, i))
    <2>1. i \in DOMAIN r.recordings
      <3>1. running # {} /\ i = Min(running)
        BY <1>2 DEF Filming
      <3>2. running \in SUBSET Nat
        BY RoomIs
      <3> HIDE DEF running
      <3>3. i \in running
        BY <3>1, <3>2, LeastOf
      <3> QED BY <3>3 DEF running
    <2> DEFINE low == Earliest(r, i)
               high == Latest(r, i)
               m == Max({wanted, low})
               s == Min({m, high})
    <2>2. low \in Nat /\ high \in Int /\ low <= high /\ high <= r.end /\ r.end \in Nat
      <3>1. WindowS \in Nat /\ r.end \in Nat
        BY NumbersAssumption DEF Packaged
      <3> QED BY <1>2, <2>1, <3>1, RoomIs
    <2>3. Placed(r, t, wanted) = {[start |-> s, recording |-> i]}
      BY <1>2 DEF Placed
    <2> HIDE DEF low, high, i
    <2>4. m \in Int /\ low <= m
      <3>0. low \in Int
        BY <2>2
      <3>1. m = IF wanted >= low THEN wanted ELSE low
        BY <3>0, OfTwo
      <3> QED BY <2>2, <3>1
    <2> HIDE DEF m
    <2>5. s \in 0 .. r.end /\ low <= s /\ s <= high
      <3>1. s = IF m <= high THEN m ELSE high
        BY <2>2, <2>4, OfTwo
      <3> QED BY <2>2, <2>4, <3>1
    <2> HIDE DEF s
    <2> DEFINE w == [start |-> s, recording |-> i]
    <2>6. w \in Pool(r) /\ w.start = s /\ w.recording = i
      BY <2>1, <2>5 DEF Pool
    <2> QED BY <2>3, <2>5, <2>6 DEF low, high
  <1> QED BY <1>1, <1>2

\* One more window, where none begins yet.
LEMMA OneMoreDrawn ==
    ASSUME NEW r \in Packaged, NEW t \in Int, NEW wanted \in Int, NEW found, Drawn(r, found)
    PROVE  /\ Drawn(r, found \cup Unknown(Placed(r, t, wanted), found))
           /\ Unknown(Placed(r, t, wanted), found) \in SUBSET Pool(r)
           /\ Starts(Placed(r, t, wanted))
                \subseteq Starts(found \cup Unknown(Placed(r, t, wanted), found))
  <1> DEFINE new == Placed(r, t, wanted)
             more == Unknown(new, found)
  <1>1. CASE new = {}
    <2>1. more = {} /\ Starts(new) = {}
      BY <1>1 DEF Unknown, Starts
    <2> HIDE DEF new, more
    <2>2. found \cup more = found /\ more \in SUBSET Pool(r)
      BY <2>1
    <2> QED BY <2>1, <2>2 DEF more, new
  <1>2. CASE new # {}
    <2>1. PICK w \in Pool(r) : /\ new = {w}
                               /\ Earliest(r, w.recording) <= w.start
                               /\ w.start <= Latest(r, w.recording)
      BY <1>2, PlacedIs
    <2> HIDE DEF new
    <2>2. more = IF w.start \in Starts(found) THEN {} ELSE {w}
      BY <2>1 DEF Unknown
    <2> HIDE DEF more
    <2>3. CASE w.start \in Starts(found)
      <3>1. more = {} /\ found \cup more = found /\ Starts(new) \subseteq Starts(found)
        BY <2>1, <2>2, <2>3 DEF Starts
      <3> QED BY <3>1 DEF more, new
    <2>4. CASE w.start \notin Starts(found)
      <3>1. more = {w} /\ \A v \in found : v.start # w.start
        BY <2>2, <2>4 DEF Starts
      <3>2. Drawn(r, found \cup more)
        BY <2>1, <3>1 DEF Drawn
      <3>3. Starts(new) \subseteq Starts(found \cup more)
        BY <2>1, <3>1 DEF Starts
      <3> QED BY <3>1, <3>2, <3>3 DEF more, new
    <2> QED BY <2>3, <2>4
  <1> QED BY <1>1, <1>2

\* A turn's window, or none, leaves the windows drawn.
LEMMA WithTurnDrawn ==
    ASSUME NEW r \in Packaged, NEW existing, NEW added \in SUBSET Pool(r),
           Drawn(r, existing \cup added), NEW t \in Int
    PROVE  /\ WithTurn(r, existing, added, t) \in SUBSET Pool(r)
           /\ Drawn(r, existing \cup WithTurn(r, existing, added, t))
  <1> DEFINE wanted == t - WindowS \div 2
             more == Unknown(Placed(r, t, wanted), existing \cup added)
             new == WithTurn(r, existing, added, t)
  <1>1. wanted \in Int
    BY NumbersAssumption
  <1>2. new = added \/ new = added \cup more
    BY DEF WithTurn
  <1> HIDE DEF wanted, new
  <1>3. more \in SUBSET Pool(r) /\ Drawn(r, (existing \cup added) \cup more)
    BY <1>1, OneMoreDrawn
  <1> HIDE DEF more
  <1>4. (existing \cup added) \cup more = existing \cup (added \cup more)
    OBVIOUS
  <1>5. CASE new = added
    BY <1>5 DEF new
  <1>6. CASE new = added \cup more
    BY <1>3, <1>4, <1>6 DEF new
  <1> QED BY <1>2, <1>5, <1>6

\* The turns' windows, turn by turn.
LEMMA TurnsAre ==
    ASSUME NEW r \in Packaged, NEW existing, Drawn(r, existing)
    PROVE  \E f : /\ f[0] = {} /\ TurnWindows(r, existing) = f[Len(r.turns)]
                  /\ \A k \in 1 .. Len(r.turns) : f[k] = WithTurn(r, existing, f[k - 1], r.turns[k])
  <1> DEFINE n == Len(r.turns)
             D == {S \in SUBSET Pool(r) : Drawn(r, existing \cup S)}
             g == [k \in 1 .. n |-> [S \in D |-> WithTurn(r, existing, S, r.turns[k])]]
             added[k \in 0 .. n] == IF k = 0 THEN {} ELSE WithTurn(r, existing, added[k - 1], r.turns[k])
  <1>1. n \in Nat /\ \A k \in 1 .. n : r.turns[k] \in Int
    BY DEF Packaged
  <1>2. TurnWindows(r, existing) = added[n]
    BY DEF TurnWindows
  <1>3. {} \in D
    <2>1. existing \cup {} = existing
      OBVIOUS
    <2> QED BY <2>1
  <1>4. g \in [1 .. n -> [D -> D]]
    <2> SUFFICES ASSUME NEW k \in 1 .. n, NEW S \in D PROVE WithTurn(r, existing, S, r.turns[k]) \in D
      OBVIOUS
    <2> QED BY <1>1, WithTurnDrawn
  <1> HIDE DEF D
  <1>5. PICK f : Built(n, D, {}, g, f)
    <2> HIDE DEF g, n
    <2> QED BY <1>1, <1>3, <1>4, StepByStep
  <1>6. ASSUME NEW k \in 1 .. n PROVE f[k] = WithTurn(r, existing, f[k - 1], r.turns[k])
    <2>1. f[k - 1] \in D
      <3>1. k - 1 \in 0 .. n
        BY <1>1
      <3> QED BY <1>5, <3>1 DEF Built
    <2>2. f[k] = g[k][f[k - 1]]
      BY <1>5 DEF Built
    <2> QED BY <2>1, <2>2
  <1>7. f = [k \in 0 .. n |-> IF k = 0 THEN {} ELSE WithTurn(r, existing, f[k - 1], r.turns[k])]
    <2>1. \A k \in 0 .. n : k = 0 \/ k \in 1 .. n
      BY <1>1
    <2>2. f[0] = {} /\ f = [k \in 0 .. n |-> f[k]]
      BY <1>5 DEF Built
    <2> HIDE DEF g
    <2> QED BY <1>6, <2>1, <2>2
  <1>8. added = [k \in 0 .. n |-> IF k = 0 THEN {} ELSE WithTurn(r, existing, added[k - 1], r.turns[k])]
    BY <1>7 DEF added
  <1> HIDE DEF added
  <1>9. added[0] = {} /\ \A k \in 1 .. n : added[k] = WithTurn(r, existing, added[k - 1], r.turns[k])
    <2>1. 0 \in 0 .. n /\ \A k \in 1 .. n : k \in 0 .. n /\ k # 0
      BY <1>1
    <2>2. \A k \in 0 .. n : added[k] = IF k = 0 THEN {} ELSE WithTurn(r, existing, added[k - 1], r.turns[k])
      BY <1>8, Zenon
    <2> QED BY <2>1, <2>2
  <1> QED
    BY <1>2, <1>9

\* So do the windows of all turns.
LEMMA TurnsDrawn ==
    ASSUME NEW r \in Packaged, NEW existing, Drawn(r, existing)
    PROVE  Drawn(r, existing \cup TurnWindows(r, existing))
  <1> DEFINE n == Len(r.turns)
             D == {S \in SUBSET Pool(r) : Drawn(r, existing \cup S)}
  <1>1. n \in Nat /\ \A k \in 1 .. n : r.turns[k] \in Int
    BY DEF Packaged
  <1>2. PICK f : /\ f[0] = {} /\ TurnWindows(r, existing) = f[n]
                 /\ \A k \in 1 .. n : f[k] = WithTurn(r, existing, f[k - 1], r.turns[k])
    BY TurnsAre
  <1>3. f[0] \in D
    <2>1. existing \cup {} = existing
      OBVIOUS
    <2> QED BY <1>2, <2>1
  <1>4. ASSUME NEW k \in 1 .. n, f[k - 1] \in D PROVE f[k] \in D
    <2>1. r.turns[k] \in Int /\ f[k] = WithTurn(r, existing, f[k - 1], r.turns[k])
      BY <1>1, <1>2
    <2>2. f[k - 1] \in SUBSET Pool(r) /\ Drawn(r, existing \cup f[k - 1])
      BY <1>4
    <2>3. /\ WithTurn(r, existing, f[k - 1], r.turns[k]) \in SUBSET Pool(r)
          /\ Drawn(r, existing \cup WithTurn(r, existing, f[k - 1], r.turns[k]))
      BY <2>1, <2>2, WithTurnDrawn
    <2> QED BY <2>1, <2>3
  <1>5. \A k \in 0 .. n : f[k] \in D
    <2> HIDE DEF D, n
    <2> QED BY <1>1, <1>3, <1>4, StaysIn
  <1>6. n \in 0 .. n
    BY <1>1
  <1>7. f[n] \in D
    BY <1>5, <1>6
  <1> QED
    BY <1>2, <1>7

\* A moment's window, or none: the windows stay drawn, and the moment can be
\* shown as well as its recording allows.
LEMMA WithMomentDrawn ==
    ASSUME NEW r \in Packaged, NEW existing, NEW added \in SUBSET Pool(r),
           Drawn(r, existing \cup added), NEW t \in Int
    PROVE  /\ WithMoment(r, existing, added, t) \in SUBSET Pool(r)
           /\ Drawn(r, existing \cup WithMoment(r, existing, added, t))
           /\ added \subseteq WithMoment(r, existing, added, t)
           /\ \/ ShotThere(existing, t)
              \/ Starts(Placed(r, t, t))
                   \subseteq Starts(existing \cup WithMoment(r, existing, added, t))
  <1> DEFINE more == Unknown(Placed(r, t, t), existing \cup added)
             new == WithMoment(r, existing, added, t)
  <1>1. new = IF ShotThere(existing, t) THEN added ELSE added \cup more
    BY DEF WithMoment
  <1> HIDE DEF new
  <1>2. /\ more \in SUBSET Pool(r) /\ Drawn(r, (existing \cup added) \cup more)
        /\ Starts(Placed(r, t, t)) \subseteq Starts((existing \cup added) \cup more)
    BY OneMoreDrawn
  <1> HIDE DEF more
  <1>3. (existing \cup added) \cup more = existing \cup (added \cup more)
    OBVIOUS
  <1>4. CASE ShotThere(existing, t)
    BY <1>1, <1>4 DEF new
  <1>5. CASE ~ShotThere(existing, t)
    <2>1. new = added \cup more
      BY <1>1, <1>5
    <2> QED BY <1>2, <1>3, <2>1 DEF new
  <1> QED BY <1>4, <1>5

\* The moments' windows, moment by moment.
LEMMA MomentsAre ==
    ASSUME NEW r \in Packaged, NEW existing, Drawn(r, existing)
    PROVE  \E f : /\ f[0] = {} /\ MomentWindows(r, existing) = f[Len(r.moments)]
                  /\ \A k \in 1 .. Len(r.moments) : f[k] = WithMoment(r, existing, f[k - 1], r.moments[k])
  <1> DEFINE n == Len(r.moments)
             D == {S \in SUBSET Pool(r) : Drawn(r, existing \cup S)}
             g == [k \in 1 .. n |-> [S \in D |-> WithMoment(r, existing, S, r.moments[k])]]
             added[k \in 0 .. n] == IF k = 0 THEN {} ELSE WithMoment(r, existing, added[k - 1], r.moments[k])
  <1>1. n \in Nat /\ \A k \in 1 .. n : r.moments[k] \in Int
    BY DEF Packaged
  <1>2. MomentWindows(r, existing) = added[n]
    BY DEF MomentWindows
  <1>3. {} \in D
    <2>1. existing \cup {} = existing
      OBVIOUS
    <2> QED BY <2>1
  <1>4. g \in [1 .. n -> [D -> D]]
    <2> SUFFICES ASSUME NEW k \in 1 .. n, NEW S \in D PROVE WithMoment(r, existing, S, r.moments[k]) \in D
      OBVIOUS
    <2> QED BY <1>1, WithMomentDrawn
  <1> HIDE DEF D
  <1>5. PICK f : Built(n, D, {}, g, f)
    <2> HIDE DEF g, n
    <2> QED BY <1>1, <1>3, <1>4, StepByStep
  <1>6. ASSUME NEW k \in 1 .. n PROVE f[k] = WithMoment(r, existing, f[k - 1], r.moments[k])
    <2>1. f[k - 1] \in D
      <3>1. k - 1 \in 0 .. n
        BY <1>1
      <3> QED BY <1>5, <3>1 DEF Built
    <2>2. f[k] = g[k][f[k - 1]]
      BY <1>5 DEF Built
    <2> QED BY <2>1, <2>2
  <1>7. f = [k \in 0 .. n |-> IF k = 0 THEN {} ELSE WithMoment(r, existing, f[k - 1], r.moments[k])]
    <2>1. \A k \in 0 .. n : k = 0 \/ k \in 1 .. n
      BY <1>1
    <2>2. f[0] = {} /\ f = [k \in 0 .. n |-> f[k]]
      BY <1>5 DEF Built
    <2> HIDE DEF g
    <2> QED BY <1>6, <2>1, <2>2
  <1>8. added = [k \in 0 .. n |-> IF k = 0 THEN {} ELSE WithMoment(r, existing, added[k - 1], r.moments[k])]
    BY <1>7 DEF added
  <1> HIDE DEF added
  <1>9. added[0] = {} /\ \A k \in 1 .. n : added[k] = WithMoment(r, existing, added[k - 1], r.moments[k])
    <2>1. 0 \in 0 .. n /\ \A k \in 1 .. n : k \in 0 .. n /\ k # 0
      BY <1>1
    <2>2. \A k \in 0 .. n : added[k] = IF k = 0 THEN {} ELSE WithMoment(r, existing, added[k - 1], r.moments[k])
      BY <1>8, Zenon
    <2> QED BY <2>1, <2>2
  <1> QED
    BY <1>2, <1>9

\* The windows of all moments are drawn, and every moment has been looked at.
LEMMA MomentsDrawn ==
    ASSUME NEW r \in Packaged, NEW existing, Drawn(r, existing)
    PROVE  /\ Drawn(r, existing \cup MomentWindows(r, existing))
           /\ \A k \in DOMAIN r.moments :
                 \/ ShotThere(existing, r.moments[k])
                 \/ Starts(Placed(r, r.moments[k], r.moments[k]))
                      \subseteq Starts(existing \cup MomentWindows(r, existing))
  <1> DEFINE n == Len(r.moments)
             D == {S \in SUBSET Pool(r) : Drawn(r, existing \cup S)}
             Shown(k, S) == \/ ShotThere(existing, r.moments[k])
                            \/ Starts(Placed(r, r.moments[k], r.moments[k])) \subseteq Starts(existing \cup S)
  <1>1. n \in Nat /\ DOMAIN r.moments = 1 .. n /\ \A k \in 1 .. n : r.moments[k] \in Int
    BY DEF Packaged
  <1>2. PICK f : /\ f[0] = {} /\ MomentWindows(r, existing) = f[n]
                 /\ \A k \in 1 .. n : f[k] = WithMoment(r, existing, f[k - 1], r.moments[k])
    BY MomentsAre
  <1>3. f[0] \in D
    <2>1. existing \cup {} = existing
      OBVIOUS
    <2> QED BY <1>2, <2>1
  <1>4. ASSUME NEW k \in 1 .. n, f[k - 1] \in D
        PROVE  f[k] \in D /\ f[k - 1] \subseteq f[k] /\ Shown(k, f[k])
    <2>1. r.moments[k] \in Int /\ f[k] = WithMoment(r, existing, f[k - 1], r.moments[k])
      BY <1>1, <1>2
    <2>2. f[k - 1] \in SUBSET Pool(r) /\ Drawn(r, existing \cup f[k - 1])
      BY <1>4
    <2> DEFINE next == WithMoment(r, existing, f[k - 1], r.moments[k])
    <2>3. /\ next \in SUBSET Pool(r) /\ Drawn(r, existing \cup next) /\ f[k - 1] \subseteq next
          /\ Shown(k, next)
      BY <2>1, <2>2, WithMomentDrawn
    <2> HIDE DEF next
    <2>4. f[k] = next
      BY <2>1 DEF next
    <2> QED BY <2>3, <2>4
  <1>5. \A k \in 0 .. n : f[k] \in D
    <2> HIDE DEF D, n, Shown
    <2> QED BY <1>1, <1>3, <1>4, StaysIn
  <1>6. n \in 0 .. n /\ \A k \in 1 .. n : k \in 0 .. n /\ k - 1 \in 0 .. n
    BY <1>1
  <1>7. f[n] \in D
    BY <1>5, <1>6
  <1>8. ASSUME NEW k \in 1 .. n PROVE Shown(k, f[n])
    <2>1. Shown(k, f[k])
      <3> HIDE DEF D, Shown
      <3> QED BY <1>4, <1>5, <1>6
    <2>2. f[k] \subseteq f[n]
      <3>1. \A i \in 1 .. n : f[i - 1] \subseteq f[i]
        <4> HIDE DEF D, Shown
        <4> QED BY <1>4, <1>5, <1>6
      <3> HIDE DEF n
      <3> QED BY <1>1, <1>6, <3>1, GrowsOn
    <2>3. Starts(existing \cup f[k]) \subseteq Starts(existing \cup f[n])
      BY <2>2 DEF Starts
    <2> QED BY <2>1, <2>3
  <1> QED
    BY <1>1, <1>2, <1>7, <1>8

\* Where no recording is laid over another, none films what another did.
LEMMA ApartFilmsOnce ==
    ASSUME NEW r \in Packaged, LaidApart(r), NEW i \in DOMAIN r.recordings
    PROVE  StrideSlots(r, i) \ UNION {StrideSlots(r, j) : j \in 1 .. i - 1} = StrideSlots(r, i)
  <1>1. i \in Nat \ {0} /\ WindowS \in Nat /\ DOMAIN r.recordings = 1 .. Len(r.recordings)
        /\ Len(r.recordings) \in Nat
    BY RoomIs, NumbersAssumption DEF Packaged
  <1>2. SUFFICES ASSUME NEW j \in 1 .. i - 1, NEW s \in StrideSlots(r, i), s \in StrideSlots(r, j)
                 PROVE  FALSE
    OBVIOUS
  <1>3. j \in DOMAIN r.recordings /\ j < i
    BY <1>1
  <1>4. /\ StartOf(r, i) \in Int /\ EndOf(r, i) \in Int
        /\ StartOf(r, j) \in Int /\ EndOf(r, j) \in Int
    BY <1>3, RoomIs
  <1>5. EndOf(r, j) < StartOf(r, i)
    BY <1>3 DEF LaidApart
  <1>6. s \in StartOf(r, i) .. (EndOf(r, i) - WindowS) /\ s \in StartOf(r, j) .. (EndOf(r, j) - WindowS)
    BY <1>2 DEF StrideSlots
  <1> QED BY <1>1, <1>4, <1>5, <1>6

\* So what a stride draws there is each recording's slots.
LEMMA StrideOfApart ==
    ASSUME NEW r \in Packaged, LaidApart(r)
    PROVE  \A w : w \in StrideWindows(r) <=>
              \E i \in DOMAIN r.recordings : \E s \in StrideSlots(r, i) : w = [start |-> s, recording |-> i]
  <1> DEFINE slots(i) == StrideSlots(r, i) \ UNION {StrideSlots(r, j) : j \in 1 .. i - 1}
  <1>1. \A w : w \in StrideWindows(r) <=>
           \E i \in DOMAIN r.recordings : \E s \in slots(i) : w = [start |-> s, recording |-> i]
    BY DEF StrideWindows
  <1>2. \A i \in DOMAIN r.recordings : slots(i) = StrideSlots(r, i)
    BY ApartFilmsOnce
  <1> HIDE DEF slots
  <1> QED BY <1>1, <1>2

\* The preview of twice the stride is what twice the stride draws.
LEMMA PreviewIs ==
    ASSUME NEW r \in Packaged, LaidApart(r)
    PROVE  Previewed(r, StrideWindows(r), 2 * r.stride) = StrideWindows([r EXCEPT !.stride = 2 * @])
  <1> DEFINE c == [r EXCEPT !.stride = 2 * @]
  <1>1. r.stride \in Nat \ {0} /\ 2 * r.stride \in Nat \ {0}
    BY DEF Packaged
  <1>2. /\ c \in Packaged /\ c.recordings = r.recordings /\ c.end = r.end
        /\ c.stride = 2 * r.stride
    BY <1>1 DEF Packaged
  <1> HIDE DEF c
  <1>3. \A i : StartOf(c, i) = StartOf(r, i) /\ EndOf(c, i) = EndOf(r, i)
    BY <1>2 DEF StartOf, EndOf
  <1>4. LaidApart(c)
    BY <1>2, <1>3 DEF LaidApart
  <1>5. ASSUME NEW i \in DOMAIN r.recordings, NEW s \in Int
        PROVE  s \in StrideSlots(c, i) <=>
                 s \in StrideSlots(r, i) /\ (s - StartOf(r, i)) % (2 * r.stride) = 0
    <2> DEFINE a == s - StartOf(r, i)
    <2>1. a \in Int
      BY RoomIs
    <2> HIDE DEF a
    <2>2. a % (2 * r.stride) = 0 => a % r.stride = 0
      BY <1>1, <2>1, TwiceTheStride
    <2> QED BY <1>2, <1>3, <2>2 DEF StrideSlots, a
  <1>6. ASSUME NEW w
        PROVE  w \in Previewed(r, StrideWindows(r), 2 * r.stride) <=> w \in StrideWindows(c)
    <2>1. w \in StrideWindows(c) <=>
            \E i \in DOMAIN r.recordings : \E s \in StrideSlots(c, i) : w = [start |-> s, recording |-> i]
      BY <1>2, <1>4, StrideOfApart
    <2>2. w \in StrideWindows(r) <=>
            \E i \in DOMAIN r.recordings : \E s \in StrideSlots(r, i) : w = [start |-> s, recording |-> i]
      BY StrideOfApart
    <2>3. \A i \in DOMAIN r.recordings :
             /\ \A s \in StrideSlots(r, i) : s \in Int /\ (s - StartOf(r, i)) % r.stride = 0
             /\ \A s \in StrideSlots(c, i) : s \in Int
      <3> SUFFICES ASSUME NEW i \in DOMAIN r.recordings
                   PROVE  /\ \A s \in StrideSlots(r, i) : s \in Int /\ (s - StartOf(r, i)) % r.stride = 0
                          /\ \A s \in StrideSlots(c, i) : s \in Int
        OBVIOUS
      <3>1. StartOf(r, i) \in Int /\ StartOf(c, i) \in Int
        BY <1>3, RoomIs
      <3>2. WindowS \in Int /\ EndOf(r, i) \in Int /\ EndOf(c, i) \in Int
        BY <1>3, RoomIs, NumbersAssumption
      <3> QED BY <3>1, <3>2 DEF StrideSlots
    <2>4. w \in Previewed(r, StrideWindows(r), 2 * r.stride) <=>
            /\ w \in StrideWindows(r)
            /\ (w.start - StartOf(r, w.recording)) % r.stride = 0
                  => (w.start - StartOf(r, w.recording)) % (2 * r.stride) = 0
      BY DEF Previewed
    <2>5. ASSUME w \in StrideWindows(c)
          PROVE  w \in Previewed(r, StrideWindows(r), 2 * r.stride)
      <3>1. PICK i \in DOMAIN r.recordings : \E s \in StrideSlots(c, i) : w = [start |-> s, recording |-> i]
        BY <2>1, <2>5
      <3>2. PICK s \in StrideSlots(c, i) : w = [start |-> s, recording |-> i]
        BY <3>1
      <3>3. s \in StrideSlots(r, i) /\ (s - StartOf(r, i)) % (2 * r.stride) = 0
        BY <1>5, <2>3
      <3>4. w.start = s /\ w.recording = i
        BY <3>2
      <3> QED BY <2>2, <2>4, <3>2, <3>3, <3>4
    <2>6. ASSUME w \in Previewed(r, StrideWindows(r), 2 * r.stride)
          PROVE  w \in StrideWindows(c)
      <3>1. PICK i \in DOMAIN r.recordings : \E s \in StrideSlots(r, i) : w = [start |-> s, recording |-> i]
        BY <2>2, <2>4, <2>6
      <3>2. PICK s \in StrideSlots(r, i) : w = [start |-> s, recording |-> i]
        BY <3>1
      <3>3. w.start = s /\ w.recording = i
        BY <3>2
      <3>4. (s - StartOf(r, i)) % (2 * r.stride) = 0
        BY <2>3, <2>4, <2>6, <3>3
      <3>5. s \in StrideSlots(c, i)
        BY <1>5, <2>3, <3>4
      <3> QED BY <2>1, <3>2, <3>5
    <2> QED BY <2>5, <2>6
  <1> QED BY <1>6 DEF c

-----------------------------------------------------------------------------
(* The cascade.                                                            *)

\* A cascade: its ratios between the floor and the whole, and a watching level
\* at its end that passes on all.
Cascade(c) ==
    /\ c \in Seq([keep : MinKeep .. Unit, cost : Nat])
    /\ Len(c) > 1
    /\ c[Len(c)] = [keep |-> Unit, cost |-> WatchCost]

\* A level passes on no more than reach it, and one of any.
LEMMA SurvivorsAre ==
    ASSUME NEW n \in Nat, NEW keep \in Nat, keep <= Unit
    PROVE  /\ Survivors(n, keep) \in 0 .. n
           /\ n # 0 => Survivors(n, keep) # 0
  <1> DEFINE whole == n * keep
             q == whole \div Unit
             rest == whole % Unit
             rounded == Rounded(whole, Unit)
  <1>1. Unit \in Nat \ {0}
    BY NumbersAssumption
  <1>2. /\ q \in Nat /\ q <= n /\ (q = n => rest = 0)
    BY <1>1, PartOf
  <1>3. rest \in Int
    <2>1. whole \in Int
      OBVIOUS
    <2> HIDE DEF whole
    <2> QED BY <1>1, <2>1, DivisionIs
  <1>4. rounded = IF 2 * rest > Unit \/ (2 * rest = Unit /\ q % 2 = 1) THEN q + 1 ELSE q
    BY DEF Rounded
  <1> HIDE DEF q, rest, whole
  <1>5. rounded \in 0 .. n
    BY <1>1, <1>2, <1>3, <1>4
  <1> HIDE DEF rounded
  <1>6. CASE n = 0
    BY <1>6 DEF Survivors
  <1>7. CASE n # 0
    <2>1. Survivors(n, keep) = Max({1, rounded})
      BY <1>7 DEF Survivors, rounded, whole
    <2>2. rounded \in Int /\ 1 \in Int
      BY <1>5
    <2>3. Survivors(n, keep) = IF 1 >= rounded THEN 1 ELSE rounded
      BY <2>1, <2>2, OfTwo
    <2> QED BY <1>5, <1>7, <2>3
  <1> QED BY <1>6, <1>7

\* Every level is reached by no more than there are, and by one of any.
LEMMA ReachingIs ==
    ASSUME NEW c, Cascade(c), NEW n \in Nat
    PROVE  /\ Reaching(c, n) \in [1 .. Len(c) -> 0 .. n]
           /\ n # 0 => \A k \in 1 .. Len(c) : Reaching(c, n)[k] # 0
  <1> DEFINE L == Len(c)
             m == L - 1
             D == {x \in 0 .. n : n # 0 => x # 0}
             g == [k \in 1 .. m |-> [x \in D |-> Survivors(x, c[k].keep)]]
             reach[k \in 1 .. L] == IF k = 1 THEN n ELSE Survivors(reach[k - 1], c[k - 1].keep)
  <1>1. L \in Nat /\ m \in Nat /\ \A k \in 1 .. L : c[k].keep \in MinKeep .. Unit
    <2>1. L \in Nat /\ m \in Nat
      BY DEF Cascade
    <2> DEFINE level == [keep : MinKeep .. Unit, cost : Nat]
    <2>2. c \in Seq(level)
      BY DEF Cascade
    <2> HIDE DEF level
    <2>3. \A k \in 1 .. L : c[k] \in level
      BY <2>2
    <2> QED BY <2>1, <2>3 DEF level
  <1>2. \A k \in 1 .. m : c[k].keep \in Nat /\ c[k].keep <= Unit
    BY <1>1, NumbersAssumption
  <1>3. Reaching(c, n) = reach
    BY DEF Reaching
  <1>4. n \in D
    OBVIOUS
  <1>5. g \in [1 .. m -> [D -> D]]
    <2> SUFFICES ASSUME NEW k \in 1 .. m, NEW x \in D PROVE Survivors(x, c[k].keep) \in D
      OBVIOUS
    <2>1. x \in Nat /\ x <= n /\ (n # 0 => x # 0)
      OBVIOUS
    <2>2. Survivors(x, c[k].keep) \in 0 .. x /\ (x # 0 => Survivors(x, c[k].keep) # 0)
      BY <1>2, <2>1, SurvivorsAre
    <2> QED BY <2>1, <2>2
  <1> HIDE DEF D
  <1>6. PICK f : Built(m, D, n, g, f)
    <2> HIDE DEF g, m
    <2> QED BY <1>1, <1>4, <1>5, StepByStep
  <1>7. f \in [0 .. m -> D] /\ f[0] = n
    BY <1>6 DEF Built
  <1>8. ASSUME NEW k \in 1 .. m PROVE f[k] = Survivors(f[k - 1], c[k].keep)
    <2>1. f[k - 1] \in D
      <3>1. k - 1 \in 0 .. m
        BY <1>1
      <3> QED BY <1>7, <3>1
    <2>2. f[k] = g[k][f[k - 1]]
      BY <1>6 DEF Built
    <2> QED BY <2>1, <2>2
  <1> DEFINE h == [k \in 1 .. L |-> f[k - 1]]
  <1>9. h = [k \in 1 .. L |-> IF k = 1 THEN n ELSE Survivors(h[k - 1], c[k - 1].keep)]
    <2> SUFFICES ASSUME NEW k \in 1 .. L
                 PROVE  f[k - 1] = IF k = 1 THEN n ELSE Survivors(h[k - 1], c[k - 1].keep)
      OBVIOUS
    <2>1. CASE k = 1
      BY <1>7, <2>1
    <2>2. CASE k # 1
      <3>1. k - 1 \in 1 .. m /\ k - 1 \in 1 .. L
        BY <1>1, <2>2
      <3>2. h[k - 1] = f[(k - 1) - 1]
        BY <3>1
      <3>3. f[k - 1] = Survivors(f[(k - 1) - 1], c[k - 1].keep)
        BY <1>8, <3>1
      <3> QED BY <2>2, <3>2, <3>3
    <2> QED BY <2>1, <2>2
  <1> HIDE DEF h
  <1>10. reach = [k \in 1 .. L |-> IF k = 1 THEN n ELSE Survivors(reach[k - 1], c[k - 1].keep)]
    BY <1>9 DEF reach
  <1> HIDE DEF reach
  <1>11. /\ DOMAIN reach = 1 .. L /\ reach = [k \in 1 .. L |-> reach[k]] /\ reach[1] = n
         /\ \A k \in 1 .. L : k # 1 => reach[k] = Survivors(reach[k - 1], c[k - 1].keep)
    <2>1. \A k \in 1 .. L : reach[k] = IF k = 1 THEN n ELSE Survivors(reach[k - 1], c[k - 1].keep)
      BY <1>10, Zenon
    <2>2. 1 \in 1 .. L
      BY <1>1 DEF Cascade
    <2>3. DOMAIN reach = 1 .. L /\ reach = [k \in 1 .. L |-> reach[k]]
      BY <1>10
    <2> QED BY <2>1, <2>2, <2>3
  <1> DEFINE e == [k \in 0 .. m |-> reach[k + 1]]
  <1>12. \A k \in 0 .. m : e[k] \in D
    <2>1. e[0] \in D
      BY <1>1, <1>4, <1>11
    <2>2. ASSUME NEW k \in 1 .. m, e[k - 1] \in D PROVE e[k] \in D
      <3>1. k \in 0 .. m /\ k - 1 \in 0 .. m /\ k + 1 \in 1 .. L /\ k + 1 # 1 /\ (k + 1) - 1 = k
            /\ (k - 1) + 1 = k
        BY <1>1
      <3>2. e[k] = reach[k + 1] /\ e[k - 1] = reach[k]
        BY <3>1
      <3>3. e[k] = Survivors(e[k - 1], c[k].keep)
        BY <1>11, <3>1, <3>2
      <3> DEFINE x == e[k - 1]
      <3>4. x \in D
        BY <2>2
      <3> HIDE DEF x
      <3>5. x \in Nat /\ x <= n /\ (n # 0 => x # 0)
        BY <3>4 DEF D
      <3>6. Survivors(x, c[k].keep) \in 0 .. x /\ (x # 0 => Survivors(x, c[k].keep) # 0)
        BY <1>2, <3>5, SurvivorsAre
      <3>7. Survivors(x, c[k].keep) \in D
        BY <3>5, <3>6 DEF D
      <3> QED BY <3>3, <3>7 DEF x
    <2> HIDE DEF e, m
    <2> QED BY <1>1, <2>1, <2>2, StaysIn
  <1>13. ASSUME NEW k \in 1 .. L PROVE reach[k] \in D
    <2>1. k - 1 \in 0 .. m /\ (k - 1) + 1 = k
      BY <1>1
    <2> QED BY <1>12, <2>1
  <1> QED BY <1>3, <1>11, <1>13 DEF D

\* An estimate is a sum of money, and no less than watching what reaches the
\* last level costs.
LEMMA EstimateIs ==
    ASSUME NEW c, Cascade(c), NEW n \in Nat
    PROVE  /\ Estimate(c, n) \in Nat
           /\ Reaching(c, n)[Len(c)] * WatchCost <= Estimate(c, n)
  <1> DEFINE L == Len(c)
             reach == Reaching(c, n)
             price(k) == reach[k] * c[k].cost
             g == [k \in 1 .. L |-> [x \in Nat |-> x + price(k)]]
             cost[k \in 0 .. L] == IF k = 0 THEN 0 ELSE cost[k - 1] + price(k)
  <1>1. L \in Nat /\ L > 1 /\ \A k \in 1 .. L : c[k].cost \in Nat
    <2>1. L \in Nat /\ L > 1
      BY DEF Cascade
    <2> DEFINE level == [keep : MinKeep .. Unit, cost : Nat]
    <2>2. c \in Seq(level)
      BY DEF Cascade
    <2> HIDE DEF level
    <2>3. \A k \in 1 .. L : c[k] \in level
      BY <2>2
    <2> QED BY <2>1, <2>3 DEF level
  <1>2. \A k \in 1 .. L : reach[k] \in Nat
    BY ReachingIs
  <1>3. c[L].cost = WatchCost /\ WatchCost \in Nat
    BY NumbersAssumption DEF Cascade
  <1>4. Estimate(c, n) = cost[L]
    BY DEF Estimate
  <1> HIDE DEF reach
  <1>5. \A k \in 1 .. L : price(k) \in Nat
    <2> SUFFICES ASSUME NEW k \in 1 .. L PROVE reach[k] * c[k].cost \in Nat
      OBVIOUS
    <2> DEFINE a == reach[k]
               b == c[k].cost
    <2>1. a \in Nat /\ b \in Nat
      BY <1>1, <1>2
    <2> HIDE DEF a, b
    <2>2. a * b \in Nat
      BY <2>1
    <2> QED BY <2>2 DEF a, b
  <1>6. price(L) = reach[L] * WatchCost
    BY <1>3
  <1> HIDE DEF price
  <1>7. g \in [1 .. L -> [Nat -> Nat]]
    BY <1>5
  <1>8. PICK f : Built(L, Nat, 0, g, f)
    <2> HIDE DEF g, L
    <2> QED BY <1>1, <1>7, StepByStep
  <1>9. f \in [0 .. L -> Nat] /\ f[0] = 0
    BY <1>8 DEF Built
  <1>10. ASSUME NEW k \in 1 .. L PROVE f[k] = f[k - 1] + price(k)
    <2>1. f[k - 1] \in Nat
      <3>1. k - 1 \in 0 .. L
        BY <1>1
      <3> QED BY <1>9, <3>1
    <2>2. f[k] = g[k][f[k - 1]]
      BY <1>8 DEF Built
    <2> QED BY <2>1, <2>2
  <1>11. f = [k \in 0 .. L |-> IF k = 0 THEN 0 ELSE f[k - 1] + price(k)]
    <2>1. \A k \in 0 .. L : k = 0 \/ k \in 1 .. L
      BY <1>1
    <2>2. f = [k \in 0 .. L |-> f[k]]
      BY <1>9
    <2> HIDE DEF g
    <2> QED BY <1>9, <1>10, <2>1, <2>2
  <1>12. cost = [k \in 0 .. L |-> IF k = 0 THEN 0 ELSE cost[k - 1] + price(k)]
    BY <1>11 DEF cost
  <1> HIDE DEF cost
  <1>13. cost[0] = 0 /\ \A k \in 1 .. L : cost[k] = cost[k - 1] + price(k)
    <2>1. \A k \in 0 .. L : cost[k] = IF k = 0 THEN 0 ELSE cost[k - 1] + price(k)
      BY <1>12, Zenon
    <2>2. 0 \in 0 .. L /\ \A k \in 1 .. L : k \in 0 .. L /\ k # 0
      BY <1>1
    <2> QED BY <2>1, <2>2
  <1>14. \A k \in 0 .. L : cost[k] \in Nat
    <2>1. ASSUME NEW k \in 1 .. L, cost[k - 1] \in Nat PROVE cost[k] \in Nat
      BY <1>5, <1>13, <2>1
    <2>2. cost[0] \in Nat /\ L \in Nat
      BY <1>1, <1>13
    <2> HIDE DEF L
    <2> QED BY <2>1, <2>2, StaysIn
  <1>15. L \in 1 .. L /\ L \in 0 .. L /\ L - 1 \in 0 .. L
    BY <1>1
  <1>16. cost[L] = cost[L - 1] + price(L) /\ cost[L] \in Nat /\ cost[L - 1] \in Nat /\ price(L) \in Nat
    BY <1>5, <1>13, <1>14, <1>15
  <1>17. price(L) <= cost[L]
    BY <1>16
  <1> QED BY <1>4, <1>6, <1>16, <1>17 DEF reach

-----------------------------------------------------------------------------
(* What is judged.                                                         *)

\* The windows have a place each, from 0 on.
LEMMA PlacesAre ==
    ASSUME NEW r \in Packaged, Drawn(r, windows)
    PROVE  /\ IsFiniteSet(windows) /\ Cardinality(windows) \in Nat
           /\ \A w \in windows : Place(w) \in 0 .. Cardinality(windows) - 1
           /\ \A v, w \in windows : Place(v) = Place(w) => v = w
           /\ \A p \in 0 .. Cardinality(windows) - 1 : \E w \in windows : Place(w) = p
  <1> DEFINE N == Cardinality(windows)
             before(w) == {v \in windows : v.start < w.start}
             place == [w \in windows |-> Place(w)]
  <1>1. windows \in SUBSET Pool(r) /\ \A v, w \in windows : v.start = w.start => v = w
    BY DEF Drawn
  <1>2. IsFiniteSet(windows) /\ N \in Nat
    BY <1>1, PoolIsFinite, FS_CardinalityType
  <1>3. \A w \in windows : w.start \in Nat
    <2>1. r.end \in Nat
      BY DEF Packaged
    <2> QED BY <1>1, <2>1 DEF Pool
  <1>4. ASSUME NEW w \in windows
        PROVE  /\ IsFiniteSet(before(w)) /\ Cardinality(before(w)) \in 0 .. N - 1
               /\ Cardinality(before(w)) \in Int
    <2>1. before(w) \in SUBSET windows /\ w \notin before(w)
      BY <1>3
    <2> HIDE DEF before
    <2>2. before(w) # windows
      BY <2>1
    <2>3. IsFiniteSet(before(w)) /\ Cardinality(before(w)) <= N /\ Cardinality(before(w)) # N
      BY <1>2, <2>1, <2>2, FS_Subset
    <2>4. Cardinality(before(w)) \in Nat
      BY <2>3, FS_CardinalityType
    <2> QED BY <1>2, <2>3, <2>4
  <1>5. ASSUME NEW v \in windows, NEW w \in windows, v.start < w.start
        PROVE  Cardinality(before(v)) < Cardinality(before(w))
    <2>1. before(v) \in SUBSET before(w)
      BY <1>3, <1>5
    <2>2. v \in before(w) /\ v \notin before(v)
      BY <1>3, <1>5
    <2>3. IsFiniteSet(before(w)) /\ Cardinality(before(w)) \in Int /\ Cardinality(before(v)) \in Int
      BY <1>4
    <2> HIDE DEF before
    <2>4. Cardinality(before(v)) <= Cardinality(before(w)) /\ Cardinality(before(v)) # Cardinality(before(w))
      BY <2>1, <2>2, <2>3, FS_Subset
    <2> QED BY <2>3, <2>4
  <1>6. \A w \in windows : Place(w) = Cardinality(before(w))
    BY DEF Place
  <1> HIDE DEF before
  <1>7. \A w \in windows : Place(w) \in 0 .. N - 1
    BY <1>4, <1>6
  <1>8. ASSUME NEW v \in windows, NEW w \in windows, Place(v) = Place(w) PROVE v = w
    <2> DEFINE a == Cardinality(before(v))
               b == Cardinality(before(w))
    <2>1. a = b /\ a \in Int /\ b \in Int
      BY <1>2, <1>4, <1>6, <1>8
    <2>2. (v.start < w.start => a < b) /\ (w.start < v.start => b < a)
      BY <1>5
    <2> HIDE DEF a, b
    <2>3. v.start = w.start
      BY <1>3, <2>1, <2>2
    <2> QED BY <1>1, <2>3
  <1>9. place \in Injection(windows, 0 .. N - 1)
    BY <1>7, <1>8 DEF Injection, IsInjective
  <1>10. IsFiniteSet(0 .. N - 1) /\ Cardinality(0 .. N - 1) = N
    <2>1. 0 \in Int /\ N - 1 \in Int
      BY <1>2
    <2> HIDE DEF N
    <2>2. IsFiniteSet(0 .. N - 1) /\ Cardinality(0 .. N - 1) = IF 0 > N - 1 THEN 0 ELSE (N - 1) - 0 + 1
      BY <2>1, FS_Interval
    <2> QED BY <1>2, <2>2 DEF N
  <1>11. place \in Surjection(windows, 0 .. N - 1)
    <2> HIDE DEF place
    <2> QED BY <1>9, <1>10, FS_Injection
  <1> QED BY <1>2, <1>7, <1>8, <1>11 DEF Surjection

\* The places judged are as many as may be, all of them places.
LEMMA PlacesJudged ==
    ASSUME NEW n \in Nat \ {0}, NEW keep \in 1 .. n
    PROVE  /\ WatchedPlaces(n, keep) \in SUBSET (0 .. n - 1)
           /\ IsFiniteSet(WatchedPlaces(n, keep)) /\ Cardinality(WatchedPlaces(n, keep)) = keep
  <1>1. IsFiniteSet(0 .. keep - 1) /\ Cardinality(0 .. keep - 1) = keep
    <2>1. 0 \in Int /\ keep - 1 \in Int
      OBVIOUS
    <2>2. IsFiniteSet(0 .. keep - 1) /\ Cardinality(0 .. keep - 1) = IF 0 > keep - 1 THEN 0 ELSE (keep - 1) - 0 + 1
      BY <2>1, FS_Interval
    <2> QED BY <2>2
  <1>2. CASE keep = n
    BY <1>1, <1>2 DEF WatchedPlaces
  <1>3. CASE keep # n
    <2> DEFINE T == WatchedPlaces(n, keep)
               at == [i \in 0 .. keep - 1 |-> (i * n) \div keep]
    <2>1. T = {(i * n) \div keep : i \in 0 .. keep - 1}
      <3>1. ~(keep >= n)
        BY <1>3
      <3> QED BY <3>1, Zenon DEF WatchedPlaces
    <2> HIDE DEF T
    <2>2. ASSUME NEW i \in 0 .. keep - 1 PROVE (i * n) \div keep \in 0 .. n - 1
      <3>1. (i * n) \div keep < n /\ (i * n) \div keep \in Nat
        BY SpreadIsInside
      <3> QED BY <3>1
    <2>3. \A i, j \in 0 .. keep - 1 : i < j => at[i] < at[j]
      BY SpreadIsStrict
    <2>4. at \in [0 .. keep - 1 -> T] /\ \A p \in T : \E i \in 0 .. keep - 1 : at[i] = p
      BY <2>1
    <2>5. \A i \in 0 .. keep - 1 : at[i] \in Int
      BY <2>2
    <2> HIDE DEF at
    <2>6. \A i, j \in 0 .. keep - 1 : at[i] = at[j] => i = j
      BY <2>3, <2>5
    <2>7. at \in Surjection(0 .. keep - 1, T) /\ at \in Injection(0 .. keep - 1, T)
      BY <2>4, <2>6 DEF Surjection, Injection, IsInjective
    <2>8. IsFiniteSet(T) /\ Cardinality(T) = keep
      BY <1>1, <2>7, FS_Surjection
    <2> QED BY <2>1, <2>2, <2>8 DEF T
  <1> QED BY <1>2, <1>3

\* So the windows judged are as many as the last level is reached by.
LEMMA JudgedAre ==
    ASSUME NEW r \in Packaged, Drawn(r, windows), windows # {}, Cascade(stages)
    PROVE  Cardinality(Watched) = WatchedCount /\ Watched # {}
  <1> DEFINE N == Cardinality(windows)
             keep == WatchedCount
             T == WatchedPlaces(N, keep)
             place == [w \in Watched |-> Place(w)]
  <1>1. /\ IsFiniteSet(windows) /\ N \in Nat
        /\ \A v, w \in windows : Place(v) = Place(w) => v = w
        /\ \A p \in 0 .. N - 1 : \E w \in windows : Place(w) = p
    BY PlacesAre
  <1>2. N # 0
    BY <1>1, FS_EmptySet
  <1>3. keep \in 1 .. N
    <2>1. Len(stages) \in 1 .. Len(stages)
      BY DEF Cascade
    <2>2. keep \in 0 .. N /\ keep # 0
      <3> HIDE DEF N
      <3>1. keep = Reaching(stages, N)[Len(stages)]
        BY DEF WatchedCount, N
      <3> QED BY <1>1, <1>2, <2>1, <3>1, ReachingIs
    <2> QED BY <1>1, <2>2
  <1> HIDE DEF N, keep
  <1>4. T \in SUBSET (0 .. N - 1) /\ IsFiniteSet(T) /\ Cardinality(T) = keep
    BY <1>1, <1>2, <1>3, PlacesJudged
  <1>5. Watched = {w \in windows : Place(w) \in T}
    BY DEF Watched, N, keep
  <1> HIDE DEF T
  <1>6. Watched \in SUBSET windows /\ IsFiniteSet(Watched)
    BY <1>1, <1>5, FS_Subset
  <1>7. place \in Surjection(Watched, T) /\ place \in Injection(Watched, T)
    BY <1>1, <1>4, <1>5 DEF Surjection, Injection, IsInjective
  <1> HIDE DEF place
  <1>8. Cardinality(T) = Cardinality(Watched)
    BY <1>6, <1>7, FS_Surjection
  <1>9. Watched # {}
    BY <1>3, <1>4, <1>8, FS_EmptySet
  <1> QED BY <1>4, <1>8, <1>9 DEF keep

\* No moment is offered twice.
LEMMA StartsAreAsMany ==
    ASSUME NEW r \in Packaged, Drawn(r, windows)
    PROVE  Cardinality(Starts(windows)) = Cardinality(windows)
  <1> DEFINE from == [w \in windows |-> w.start]
             T == Starts(windows)
  <1>1. IsFiniteSet(windows) /\ \A v, w \in windows : v.start = w.start => v = w
    BY PoolIsFinite DEF Drawn
  <1>2. from \in Surjection(windows, T) /\ from \in Injection(windows, T)
    BY <1>1 DEF Surjection, Injection, IsInjective, Starts
  <1> HIDE DEF from, T
  <1>3. Cardinality(T) = Cardinality(windows)
    BY <1>1, <1>2, FS_Surjection
  <1> QED BY <1>3 DEF T

-----------------------------------------------------------------------------
(* The invariant of planning.                                              *)

PlanType ==
    /\ ride \in Rides
    /\ budget \in Nat
    /\ Cascade(stages)
    /\ tightened \in BOOLEAN
    /\ step \in {"stride", "turns", "moments", "nofootage", "fit", "planned", "refused"}

\* What each step has reached: the stride's windows, then a window for every
\* moment, and at the end what the estimate said.
StepIs ==
    /\ step = "turns" => windows = StrideWindows(ride)
    /\ step \in {"fit", "planned", "refused"} =>
          /\ windows # {}
          /\ \A k \in DOMAIN ride.moments :
                LET t == ride.moments[k]
                IN  ShotThere(windows, t) \/ Starts(Placed(ride, t, t)) \subseteq Starts(windows)
    /\ step = "planned" => Fits
    /\ step = "refused" => ~Fits /\ Feeders(stages) = {}

PlanInv == PlanType /\ Drawn(ride, windows) /\ StepIs

\* The two cascades a plan starts from.
LEMMA CascadesBegun == Cascade(DirectCascade) /\ Cascade(ScreenedCascade)
  <1> DEFINE level == [keep : MinKeep .. Unit, cost : Nat]
             first == [keep |-> Unit, cost |-> 0]
             still == [keep |-> Unit, cost |-> StillCost]
             watch == [keep |-> Unit, cost |-> WatchCost]
  <1>1. Unit \in MinKeep .. Unit
    BY NumbersAssumption
  <1>2. first \in level /\ still \in level /\ watch \in level
    BY <1>1, NumbersAssumption
  <1>3. DirectCascade = <<first, watch>> /\ ScreenedCascade = <<first, still, watch>>
    BY DEF DirectCascade, ScreenedCascade
  <1> HIDE DEF level, first, still, watch
  <1>4. /\ DirectCascade \in Seq(level) /\ Len(DirectCascade) = 2 /\ DirectCascade[2] = watch
        /\ ScreenedCascade \in Seq(level) /\ Len(ScreenedCascade) = 3 /\ ScreenedCascade[3] = watch
    BY <1>2, <1>3
  <1> QED BY <1>4 DEF Cascade, level, watch

\* The latest level that may feed less, and a narrower one in its place.
LEMMA NarrowedIs ==
    ASSUME Cascade(stages), Feeders(stages) # {}
    PROVE  Cascade([stages EXCEPT ![Max(Feeders(stages))].keep = Halved(@)])
  <1> DEFINE level == [keep : MinKeep .. Unit, cost : Nat]
             L == Len(stages)
             F == Feeders(stages)
             m == Max(F)
  <1>1. stages \in Seq(level) /\ L \in Nat /\ L > 1 /\ stages[L] = [keep |-> Unit, cost |-> WatchCost]
    BY DEF Cascade
  <1>2. /\ MinKeep \in Nat /\ Unit \in Nat /\ MinKeep <= Unit
    BY NumbersAssumption
  <1>3. m \in F
    <2>1. F \in SUBSET (1 .. L - 1) /\ F # {}
      BY DEF Feeders
    <2> HIDE DEF F, L
    <2> DEFINE G == {x \in Nat : x <= L /\ \E y \in F : y = L - x}
    <2>2. PICK y \in F : TRUE
      BY <2>1
    <2>3. L - y \in G
      BY <1>1, <2>1, <2>2
    <2>4. PICK x \in G : \A z \in G : ~(z < x)
      <3>1. G \in SUBSET Nat /\ G # {}
        BY <2>3
      <3> HIDE DEF G
      <3> QED BY <3>1, LeastNatural
    <2>5. L - x \in F
      BY <1>1, <2>1, <2>4
    <2>6. ASSUME NEW z \in F PROVE z <= L - x
      <3>0. z \in 1 .. L - 1
        BY <2>1
      <3>1. z \in Int /\ L - z \in Nat /\ L - z <= L /\ z = L - (L - z)
        <4>1. L \in Int
          BY <1>1
        <4>2. z \in Int /\ 1 <= z /\ z <= L - 1
          BY <3>0, <4>1
        <4> QED BY <4>1, <4>2
      <3>2. L - z \in G
        BY <3>1
      <3>3. ~(L - z < x)
        BY <2>4, <3>2
      <3> QED BY <1>1, <2>4, <3>1, <3>3
    <2>7. \A z \in F : L - x >= z
      BY <1>1, <2>1, <2>4, <2>6
    <2> QED BY <2>5, <2>7 DEF Max
  <1>4. m \in 1 .. L - 1 /\ m \in 1 .. L /\ m # L
    BY <1>1, <1>3 DEF Feeders
  <1> HIDE DEF m, F
  <1> DEFINE c == [stages EXCEPT ![m].keep = Halved(@)]
             old == stages[m]
             new == [old EXCEPT !.keep = Halved(@)]
  <1>5. old \in level
    <2> HIDE DEF level
    <2> QED BY <1>1, <1>4
  <1>6. Halved(old.keep) \in MinKeep .. Unit
    <2> DEFINE k == old.keep
               h == k \div 2
    <2>1. k \in MinKeep .. Unit
      BY <1>5
    <2> HIDE DEF k
    <2>2. h \in Int /\ h <= k
      BY <1>2, <2>1
    <2> HIDE DEF h
    <2>3. Max({MinKeep, h}) = IF MinKeep >= h THEN MinKeep ELSE h
      BY <1>2, <2>2, OfTwo
    <2>4. Halved(k) = Max({MinKeep, h})
      BY DEF Halved, h
    <2>5. Halved(k) \in MinKeep .. Unit
      BY <1>2, <2>1, <2>2, <2>3, <2>4
    <2> QED BY <2>5 DEF k
  <1>7. new \in level
    BY <1>5, <1>6
  <1>8. c = [stages EXCEPT ![m] = new]
    OBVIOUS
  <1> HIDE DEF c, new, old, level
  <1>9. c \in Seq(level) /\ Len(c) = L /\ c[L] = stages[L]
    BY <1>1, <1>4, <1>7, <1>8
  <1>10. Cascade(c)
    BY <1>1, <1>9 DEF Cascade, level
  <1> QED BY <1>10 DEF c, m, F

\* Planning begins with nothing drawn.
LEMMA PlanBegins == PlanInit => PlanInv
  <1> SUFFICES ASSUME PlanInit PROVE PlanInv
    OBVIOUS
  <1>1. PlanType
    BY RideAssumption, CascadesBegun DEF PlanInit, PlanType
  <1>2. Drawn(ride, windows)
    BY DEF PlanInit, Drawn
  <1>3. StepIs
    BY DEF PlanInit, StepIs
  <1> QED BY <1>1, <1>2, <1>3 DEF PlanInv

\* Every step keeps what planning has reached.
LEMMA PlanGoesOn == PlanInv /\ [PlanNext]_planVars => PlanInv'
  <1> SUFFICES ASSUME PlanInv, [PlanNext]_planVars PROVE PlanInv'
    OBVIOUS
  <1>1. PlanType /\ Drawn(ride, windows) /\ StepIs
    BY DEF PlanInv
  <1>2. ride \in Packaged
    BY <1>1, RideIs DEF PlanType
  <1>3. CASE EnumerateStride
    <2>1. /\ ride' = ride /\ budget' = budget /\ stages' = stages /\ tightened' = tightened
          /\ windows' = StrideWindows(ride) /\ step' = "turns"
      BY <1>3 DEF EnumerateStride
    <2>2. PlanType'
      BY <1>1, <2>1 DEF PlanType
    <2>3. Drawn(ride, windows)'
      <3>1. Drawn(ride, windows)' <=> Drawn(ride', windows')
        BY DEF Drawn, Pool, Earliest, Latest, StartOf, EndOf
      <3> QED BY <1>2, <2>1, <3>1, StrideDrawn
    <2>4. StepIs'
      BY <2>1 DEF StepIs
    <2> QED BY <2>2, <2>3, <2>4 DEF PlanInv
  <1>4. CASE AddTurns
    <2>1. /\ ride' = ride /\ budget' = budget /\ stages' = stages /\ tightened' = tightened
          /\ windows' = windows \cup TurnWindows(ride, windows) /\ step' = "moments"
      BY <1>4 DEF AddTurns
    <2>2. PlanType'
      BY <1>1, <2>1 DEF PlanType
    <2>3. Drawn(ride, windows)'
      <3>1. Drawn(ride, windows \cup TurnWindows(ride, windows))
        BY <1>1, <1>2, TurnsDrawn
      <3> QED BY <2>1, <3>1
    <2>4. StepIs'
      BY <2>1 DEF StepIs
    <2> QED BY <2>2, <2>3, <2>4 DEF PlanInv
  <1>5. CASE AddMoments
    <2> DEFINE next == windows \cup MomentWindows(ride, windows)
    <2>1. /\ ride' = ride /\ budget' = budget /\ stages' = stages /\ tightened' = tightened
          /\ windows' = next
          /\ step' = IF windows' = {} THEN "nofootage" ELSE "fit"
      BY <1>5 DEF AddMoments
    <2>2. /\ Drawn(ride, next)
          /\ \A k \in DOMAIN ride.moments :
                 \/ ShotThere(windows, ride.moments[k])
                 \/ Starts(Placed(ride, ride.moments[k], ride.moments[k])) \subseteq Starts(next)
      BY <1>1, <1>2, MomentsDrawn
    <2>3. \A t : ShotThere(windows, t) => ShotThere(next, t)
      BY DEF ShotThere
    <2> HIDE DEF next
    <2>4. PlanType'
      BY <1>1, <2>1 DEF PlanType
    <2>5. Drawn(ride, windows)'
      BY <2>1, <2>2
    <2>6. \A k \in DOMAIN ride.moments :
             LET t == ride.moments[k]
             IN  ShotThere(next, t) \/ Starts(Placed(ride, t, t)) \subseteq Starts(next)
      BY <2>2, <2>3
    <2>7. StepIs'
      <3>1. CASE next = {}
        BY <2>1, <3>1 DEF StepIs
      <3>2. CASE next # {}
        <4>1. step' = "fit" /\ ride' = ride /\ windows' = next
          BY <2>1, <3>2
        <4>2. (\A k \in DOMAIN ride.moments :
                  LET t == ride.moments[k]
                  IN  ShotThere(windows, t) \/ Starts(Placed(ride, t, t)) \subseteq Starts(windows))'
          BY <2>6, <4>1
        <4> QED BY <3>2, <4>1, <4>2 DEF StepIs
      <3> QED BY <3>1, <3>2
    <2> QED BY <2>4, <2>5, <2>7 DEF PlanInv
  <1>6. CASE Accept
    <2>1. /\ ride' = ride /\ budget' = budget /\ windows' = windows /\ step = "fit" /\ Fits
          /\ \/ stages' = ScreenedCascade /\ tightened' = FALSE /\ step' = step
             \/ step' = "planned" /\ stages' = stages /\ tightened' = tightened
      BY <1>6 DEF Accept
    <2>2. PlanType'
      <3>1. Cascade(stages')
        BY <1>1, <2>1, CascadesBegun DEF PlanType
      <3>2. Cascade(stages)' <=> Cascade(stages')
        BY DEF Cascade
      <3> QED BY <1>1, <2>1, <3>1, <3>2 DEF PlanType
    <2>3. Drawn(ride, windows)'
      BY <1>1, <2>1
    <2>4. StepIs'
      <3>1. /\ windows # {}
            /\ \A k \in DOMAIN ride.moments :
                  LET t == ride.moments[k]
                  IN  ShotThere(windows, t) \/ Starts(Placed(ride, t, t)) \subseteq Starts(windows)
        BY <1>1, <2>1 DEF StepIs
      <3>2. /\ windows' # {}
            /\ (\A k \in DOMAIN ride.moments :
                  LET t == ride.moments[k]
                  IN  ShotThere(windows, t) \/ Starts(Placed(ride, t, t)) \subseteq Starts(windows))'
        BY <2>1, <3>1
      <3>3. step' = "planned" => Fits'
        BY <2>1 DEF Fits
      <3> QED BY <2>1, <3>2, <3>3 DEF StepIs
    <2> QED BY <2>2, <2>3, <2>4 DEF PlanInv
  <1>7. CASE Narrow
    <2>1. /\ ride' = ride /\ budget' = budget /\ windows' = windows /\ step = "fit" /\ step' = step
          /\ Feeders(stages) # {} /\ tightened' = TRUE
          /\ stages' = [stages EXCEPT ![Max(Feeders(stages))].keep = Halved(@)]
      BY <1>7 DEF Narrow
    <2>2. PlanType'
      <3>1. Cascade(stages')
        BY <1>1, <2>1, NarrowedIs DEF PlanType
      <3>2. Cascade(stages)' <=> Cascade(stages')
        BY DEF Cascade
      <3> QED BY <1>1, <2>1, <3>1, <3>2 DEF PlanType
    <2>3. Drawn(ride, windows)'
      BY <1>1, <2>1
    <2>4. StepIs'
      <3>1. /\ windows # {}
            /\ \A k \in DOMAIN ride.moments :
                  LET t == ride.moments[k]
                  IN  ShotThere(windows, t) \/ Starts(Placed(ride, t, t)) \subseteq Starts(windows)
        BY <1>1, <2>1 DEF StepIs
      <3>2. /\ windows' # {}
            /\ (\A k \in DOMAIN ride.moments :
                  LET t == ride.moments[k]
                  IN  ShotThere(windows, t) \/ Starts(Placed(ride, t, t)) \subseteq Starts(windows))'
        BY <2>1, <3>1
      <3> QED BY <2>1, <3>2 DEF StepIs
    <2> QED BY <2>2, <2>3, <2>4 DEF PlanInv
  <1>8. CASE Refuse
    <2>1. /\ ride' = ride /\ budget' = budget /\ windows' = windows /\ step = "fit" /\ step' = "refused"
          /\ ~Fits /\ Feeders(stages) = {} /\ stages' = stages /\ tightened' = tightened
      BY <1>8 DEF Refuse
    <2>2. PlanType'
      BY <1>1, <2>1 DEF PlanType
    <2>3. Drawn(ride, windows)'
      BY <1>1, <2>1
    <2>4. StepIs'
      <3>1. /\ windows # {}
            /\ \A k \in DOMAIN ride.moments :
                  LET t == ride.moments[k]
                  IN  ShotThere(windows, t) \/ Starts(Placed(ride, t, t)) \subseteq Starts(windows)
        BY <1>1, <2>1 DEF StepIs
      <3>2. /\ windows' # {}
            /\ (\A k \in DOMAIN ride.moments :
                  LET t == ride.moments[k]
                  IN  ShotThere(windows, t) \/ Starts(Placed(ride, t, t)) \subseteq Starts(windows))'
        BY <2>1, <3>1
      <3>3. ~Fits' /\ Feeders(stages)' = {}
        BY <2>1 DEF Fits
      <3> QED BY <2>1, <3>2, <3>3 DEF StepIs
    <2> QED BY <2>2, <2>3, <2>4 DEF PlanInv
  <1>9. CASE UNCHANGED planVars
    <2>1. /\ ride' = ride /\ budget' = budget /\ windows' = windows /\ stages' = stages
          /\ tightened' = tightened /\ step' = step
      BY <1>9 DEF planVars
    <2>2. PlanType' /\ Drawn(ride, windows)'
      BY <1>1, <2>1 DEF PlanType
    <2>3. StepIs'
      BY <1>1, <2>1 DEF StepIs, Fits
    <2> QED BY <2>2, <2>3 DEF PlanInv
  <1> QED
    BY <1>3, <1>4, <1>5, <1>6, <1>7, <1>8, <1>9 DEF PlanNext

\* What planning has reached makes the plan sound.
LEMMA PlanInvSays == PlanInv => PlanIsSound
  <1> SUFFICES ASSUME PlanInv PROVE PlanIsSound
    OBVIOUS
  <1>1. PlanType /\ Drawn(ride, windows) /\ StepIs
    BY DEF PlanInv
  <1>2. ride \in Packaged /\ budget \in Nat /\ Cascade(stages)
    BY <1>1, RideIs DEF PlanType
  <1> DEFINE N == Cardinality(windows)
  <1>3. N \in Nat
    BY <1>1, <1>2, PlacesAre
  <1>4. WindowsAreFilmedRide
    BY <1>1, <1>2, StartsAreAsMany DEF WindowsAreFilmedRide, Drawn
  <1>5. MomentsCanBeShown
    BY <1>1 DEF MomentsCanBeShown, StepIs
  <1>6. PreviewIsThatPlan
    BY <1>1, <1>2, PreviewIs DEF PreviewIsThatPlan, StepIs
  <1>7. JudgedIsPriced
    <2> SUFFICES ASSUME step = "planned"
                 PROVE  /\ Cardinality(Watched) = WatchedCount
                        /\ Cardinality(Watched) * WatchCost <= budget
                        /\ Watched # {}
      BY DEF JudgedIsPriced
    <2>1. windows # {} /\ Fits
      BY <1>1 DEF StepIs
    <2>2. Cardinality(Watched) = WatchedCount /\ Watched # {}
      BY <1>1, <1>2, <2>1, JudgedAre
    <2> DEFINE price == WatchedCount * WatchCost
               estimate == Estimate(stages, N)
    <2>3. estimate \in Nat /\ price <= estimate
      <3>1. WatchedCount = Reaching(stages, N)[Len(stages)]
        BY DEF WatchedCount
      <3> HIDE DEF N
      <3> QED BY <1>2, <1>3, <3>1, EstimateIs
    <2>4. estimate <= budget
      BY <2>1 DEF Fits
    <2>5. price \in Int
      <3>1. WatchedCount \in Nat /\ WatchCost \in Nat
        <4>1. Cardinality(Watched) \in Nat
          <5>1. Watched \in SUBSET windows /\ IsFiniteSet(windows)
            BY <1>1, <1>2, PlacesAre DEF Watched
          <5> QED BY <5>1, FS_Subset, FS_CardinalityType
        <4> QED BY <2>2, <4>1, NumbersAssumption
      <3> QED BY <3>1
    <2>6. price <= budget
      <3> HIDE DEF price, estimate
      <3> QED BY <1>2, <2>3, <2>4, <2>5
    <2> QED BY <2>2, <2>6
  <1>8. RefusedAtTightest
    <2> DEFINE last == Len(stages)
               tightest == [k \in 1 .. last |->
                               IF k = last THEN stages[k] ELSE [stages[k] EXCEPT !.keep = MinKeep]]
               level == [keep : MinKeep .. Unit, cost : Nat]
    <2> SUFFICES ASSUME step = "refused"
                 PROVE  Estimate(tightest, N) > budget /\ stages[last].keep = Unit
      BY DEF RefusedAtTightest
    <2>1. ~Fits /\ Feeders(stages) = {}
      BY <1>1 DEF StepIs
    <2>2. stages \in Seq(level) /\ last \in Nat
      BY <1>2 DEF Cascade
    <2>3. stages[last].keep = Unit
      BY <1>2 DEF Cascade
    <2>4. ASSUME NEW k \in 1 .. last, k # last
          PROVE  [stages[k] EXCEPT !.keep = MinKeep] = stages[k]
      <3>1. stages[k] \in level
        <4> HIDE DEF level
        <4> QED BY <2>2
      <3>2. k \in 1 .. last - 1
        BY <2>2, <2>4
      <3>3. ~(stages[k].keep > MinKeep)
        BY <2>1, <3>2 DEF Feeders
      <3>4. stages[k].keep = MinKeep
        BY <3>1, <3>3, NumbersAssumption
      <3> QED BY <3>1, <3>4
    <2>5. stages = [k \in 1 .. last |-> stages[k]]
      <3> HIDE DEF level
      <3> QED BY <2>2
    <2>6. tightest = stages
      <3> HIDE DEF last
      <3> QED BY <2>4, <2>5
    <2> DEFINE estimate == Estimate(stages, N)
    <2>7. estimate \in Nat
      <3> HIDE DEF N
      <3> QED BY <1>2, <1>3, EstimateIs
    <2>8. ~(estimate <= budget)
      BY <2>1 DEF Fits
    <2>9. estimate > budget
      <3> HIDE DEF estimate
      <3> QED BY <1>2, <2>7, <2>8
    <2> QED BY <2>3, <2>6, <2>9
  <1> QED
    BY <1>4, <1>5, <1>6, <1>7, <1>8 DEF PlanIsSound, WindowsAreTheRides

\* What judging a ride would send is the ride's, what is judged of it is what
\* was approved, and nothing that could have been made to fit is refused, for
\* any rides, budgets, lengths, prices and ratios.
THEOREM PlansAreSound == PlanSpec => []PlanIsSound
  <1>1. PlanInit => PlanInv
    BY PlanBegins
  <1>2. PlanInv /\ [PlanNext]_planVars => PlanInv'
    BY PlanGoesOn
  <1>3. PlanInv => PlanIsSound
    BY PlanInvSays
  <1> QED
    BY <1>1, <1>2, <1>3, PTL DEF PlanSpec

-----------------------------------------------------------------------------
(***************************************************************************)
(* A story is planned: LocalStory.                                         *)
(***************************************************************************)

-----------------------------------------------------------------------------
(* Events and their order.                                                 *)

EventTypes == Types \cup {"departure", "arrival_candidate", "long_ride", "visual_highlight"}

Event == [type : EventTypes, point : Nat, start : Int, end : Int, importance : Nat,
          requested : Nat, from : {0}]

\* Events whose identifiers differ.
Identified(these) == \A a, b \in these : Alphabet(a) = Alphabet(b) => a = b

\* A point's digits are a number of their own.
LEMMA DigitsAre ==
    ASSUME NEW p \in Nat
    PROVE  Digits(p) \in Nat /\ (p < MostPoints => Digits(p) < 121000)
  <1> DEFINE t == p \div 10
             h == p \div 100
             u == p % 10
             v == t % 10
  <1>1. t \in Nat /\ h \in Nat /\ u \in 0 .. 9 /\ v \in 0 .. 9
    OBVIOUS
  <1>2. p < MostPoints => h <= 999
    BY DEF MostPoints
  <1>3. p < 10000 => t <= 999
    OBVIOUS
  <1> HIDE DEF t, h, u, v
  <1>4. CASE p < 1000
    <2>1. Digits(p) = p * 121 + 120
      BY <1>4 DEF Digits
    <2> QED BY <1>4, <2>1
  <1>5. CASE p >= 1000 /\ p < 10000
    <2>1. Digits(p) = t * 121 + u * 11 + 10
      BY <1>5 DEF Digits, t, u
    <2> QED BY <1>1, <1>3, <1>5, <2>1
  <1>6. CASE p >= 10000
    <2>1. Digits(p) = h * 121 + v * 11 + u
      BY <1>6 DEF Digits, t, u, h, v
    <2> QED BY <1>1, <1>2, <1>6, <2>1
  <1> QED BY <1>4, <1>5, <1>6

\* No two points have the same.
LEMMA DigitsDiffer ==
    ASSUME NEW p \in Nat, NEW q \in Nat, p < MostPoints, q < MostPoints, Digits(p) = Digits(q)
    PROVE  p = q
  <1> DEFINE third(x) == IF x < 1000 THEN x ELSE IF x < 10000 THEN x \div 10 ELSE x \div 100
             fourth(x) == IF x < 1000 THEN 10 ELSE IF x < 10000 THEN x % 10 ELSE (x \div 10) % 10
             fifth(x) == IF x < 10000 THEN 10 ELSE x % 10
  <1>1. ASSUME NEW x \in Nat, x < MostPoints
        PROVE  /\ third(x) \in Nat /\ fourth(x) \in 0 .. 10 /\ fifth(x) \in 0 .. 10
               /\ Digits(x) = third(x) * 121 + fourth(x) * 11 + fifth(x)
               /\ fourth(x) = 10 => x < 1000 /\ third(x) = x
               /\ fifth(x) = 10 /\ fourth(x) # 10 => x = third(x) * 10 + fourth(x)
               /\ fifth(x) # 10 => fourth(x) # 10 /\ x = third(x) * 100 + fourth(x) * 10 + fifth(x)
    <2> DEFINE t == x \div 10
               h == x \div 100
               u == x % 10
               v == t % 10
    <2>1. /\ t \in Nat /\ h \in Nat /\ u \in 0 .. 9 /\ v \in 0 .. 9
          /\ x = t * 10 + u /\ x = h * 100 + v * 10 + u
      OBVIOUS
    <2>2. CASE x < 1000
      BY <2>2 DEF Digits
    <2>3. CASE x >= 1000 /\ x < 10000
      <3>1. third(x) = t /\ fourth(x) = u /\ fifth(x) = 10 /\ Digits(x) = t * 121 + u * 11 + 10
        BY <2>3 DEF Digits
      <3> HIDE DEF t, h, u, v, third, fourth, fifth
      <3> QED BY <2>1, <3>1
    <2>4. CASE x >= 10000
      <3>1. third(x) = h /\ fourth(x) = v /\ fifth(x) = u /\ Digits(x) = h * 121 + v * 11 + u
        BY <2>4 DEF Digits
      <3> HIDE DEF t, h, u, v, third, fourth, fifth
      <3>2. v # 10 /\ u # 10 /\ v \in 0 .. 10 /\ u \in 0 .. 10
        BY <2>1
      <3> QED BY <2>1, <3>1, <3>2, Zenon
    <2> QED BY <2>2, <2>3, <2>4
  <1> DEFINE a == third(p)
             b == fourth(p)
             c == fifth(p)
             d == third(q)
             e == fourth(q)
             f == fifth(q)
  <1>2. /\ a \in Nat /\ b \in 0 .. 10 /\ c \in 0 .. 10 /\ d \in Nat /\ e \in 0 .. 10 /\ f \in 0 .. 10
        /\ a * 121 + b * 11 + c = d * 121 + e * 11 + f
    BY <1>1
  <1>3. /\ b = 10 => a = p
        /\ c = 10 /\ b # 10 => p = a * 10 + b
        /\ c # 10 => b # 10 /\ p = a * 100 + b * 10 + c
        /\ e = 10 => d = q
        /\ f = 10 /\ e # 10 => q = d * 10 + e
        /\ f # 10 => e # 10 /\ q = d * 100 + e * 10 + f
    BY <1>1
  <1> HIDE DEF a, b, c, d, e, f, third, fourth, fifth
  <1>4. c = f
    BY <1>2
  <1>5. b = e
    BY <1>2, <1>4
  <1>6. a = d
    BY <1>2, <1>4, <1>5
  <1> QED BY <1>3, <1>4, <1>5, <1>6

\* Identifiers have places, of a route's events before those of highlights.
LEMMA AlphabetIs ==
    ASSUME NEW e \in Event
    PROVE  /\ Alphabet(e) \in Nat
           /\ e.type = "visual_highlight" => Alphabet(e) = 1000002 + e.point
           /\ e.type # "visual_highlight" /\ e.point < MostPoints => Alphabet(e) < 1000002
  <1> DEFINE letter == CASE e.type = "direction_change" -> 1 [] e.type = "elevation_change" -> 2
                         [] e.type = "speed_change" -> 3 [] e.type = "stop" -> 4 [] OTHER -> 0
             d == Digits(e.point)
  <1>1. letter \in 0 .. 4
    OBVIOUS
  <1>2. e.type \in EventTypes /\ e.point \in Nat
    BY DEF Event
  <1>3. Alphabet(e) = CASE e.type = "arrival_candidate" -> 1000000
                        [] e.type = "long_ride" -> 1000001
                        [] e.type = "visual_highlight" -> 1000002 + e.point
                        [] OTHER -> d * 5 + letter
    BY DEF Alphabet
  <1>4. d \in Nat /\ (e.point < MostPoints => d < 121000)
    BY <1>2, DigitsAre
  <1> HIDE DEF d, letter
  <1>5. CASE e.type \notin {"arrival_candidate", "long_ride", "visual_highlight"}
    <2>1. Alphabet(e) = d * 5 + letter
      BY <1>3, <1>5
    <2> QED BY <1>1, <1>4, <1>5, <2>1
  <1>6. CASE e.type \in {"arrival_candidate", "long_ride", "visual_highlight"}
    BY <1>2, <1>3, <1>6
  <1> QED BY <1>5, <1>6

\* The orders of events whose identifiers differ.
EarlierOf(these)  == {p \in these \X these : Earlier(p[1], p[2])}

StrongerOf(these) == {p \in these \X these : Stronger(p[1], p[2])}

\* By time and by strength any two of them have an order.
LEMMA EventsAreOrdered ==
    ASSUME NEW these \in SUBSET Event, Identified(these)
    PROVE  /\ Orders(EarlierOf(these), these)
           /\ Orders(StrongerOf(these), these)
           /\ \A a, b \in these : /\ <<a, b>> \in EarlierOf(these) <=> Earlier(a, b)
                                  /\ <<a, b>> \in StrongerOf(these) <=> Stronger(a, b)
  <1>1. \A a \in these : a.start \in Int /\ a.importance \in Int /\ Alphabet(a) \in Int
    BY AlphabetIs DEF Event
  <1>2. \A a, b \in these : a # b => Alphabet(a) < Alphabet(b) \/ Alphabet(b) < Alphabet(a)
    BY <1>1 DEF Identified
  <1>3. \A a, b \in these : a # b => Earlier(a, b) \/ Earlier(b, a)
    BY <1>1, <1>2 DEF Earlier
  <1>4. \A a, b, c \in these : Earlier(a, b) /\ Earlier(b, c) => Earlier(a, c)
    BY <1>1 DEF Earlier
  <1>5. \A a \in these : ~Earlier(a, a)
    BY <1>1 DEF Earlier
  <1>6. \A a, b \in these : a # b => Stronger(a, b) \/ Stronger(b, a)
    BY <1>1, <1>3 DEF Stronger
  <1>7. \A a, b, c \in these : Stronger(a, b) /\ Stronger(b, c) => Stronger(a, c)
    BY <1>1, <1>4 DEF Stronger
  <1>8. \A a \in these : ~Stronger(a, a)
    BY <1>1, <1>5 DEF Stronger
  <1>9. \A a, b \in these : /\ <<a, b>> \in EarlierOf(these) <=> Earlier(a, b)
                            /\ <<a, b>> \in StrongerOf(these) <=> Stronger(a, b)
    BY DEF EarlierOf, StrongerOf
  <1>10. Orders(EarlierOf(these), these)
    BY <1>3, <1>4, <1>5, <1>9 DEF Orders
  <1>11. Orders(StrongerOf(these), these)
    BY <1>6, <1>7, <1>8, <1>9 DEF Orders
  <1> QED BY <1>9, <1>10, <1>11

\* Of a route's events the identifier tells the type and, but of the two there
\* is one of each, the point.
LEMMA AlphabetTells ==
    ASSUME NEW a \in Event, NEW b \in Event, a.type # "visual_highlight", b.type # "visual_highlight",
           a.point < MostPoints, b.point < MostPoints, Alphabet(a) = Alphabet(b)
    PROVE  /\ a.type = b.type
           /\ a.type \notin {"arrival_candidate", "long_ride"} => a.point = b.point
  <1> DEFINE letter(e) == CASE e.type = "direction_change" -> 1 [] e.type = "elevation_change" -> 2
                            [] e.type = "speed_change" -> 3 [] e.type = "stop" -> 4 [] OTHER -> 0
             i == letter(a)
             j == letter(b)
             c == Digits(a.point)
             d == Digits(b.point)
             common == {"arrival_candidate", "long_ride"}
  <1>1. /\ a.type \in EventTypes \ {"visual_highlight"} /\ b.type \in EventTypes \ {"visual_highlight"}
        /\ a.point \in Nat /\ b.point \in Nat
    BY DEF Event
  <1>2. c \in Nat /\ d \in Nat /\ c < 121000 /\ d < 121000 /\ (c = d => a.point = b.point)
    BY <1>1, DigitsAre, DigitsDiffer
  <1>3. i \in 0 .. 4 /\ j \in 0 .. 4
    OBVIOUS
  <1>4. a.type \notin common /\ b.type \notin common /\ i = j => a.type = b.type
    BY <1>1 DEF EventTypes, Types
  <1>5. /\ a.type \notin common => Alphabet(a) = c * 5 + i
        /\ b.type \notin common => Alphabet(b) = d * 5 + j
        /\ a.type = "arrival_candidate" => Alphabet(a) = 1000000
        /\ b.type = "arrival_candidate" => Alphabet(b) = 1000000
        /\ a.type = "long_ride" => Alphabet(a) = 1000001
        /\ b.type = "long_ride" => Alphabet(b) = 1000001
    BY <1>1 DEF Alphabet
  <1> HIDE DEF i, j, c, d, letter
  <1>6. CASE a.type \notin common /\ b.type \notin common
    <2>1. c * 5 + i = d * 5 + j
      BY <1>5, <1>6
    <2>2. i = j /\ c = d
      BY <1>2, <1>3, <2>1
    <2> QED BY <1>2, <1>4, <1>6, <2>2
  <1>7. CASE a.type \in common \/ b.type \in common
    BY <1>2, <1>3, <1>5, <1>7
  <1> QED BY <1>6, <1>7

\* The events of a route are finitely many, and their identifiers differ.
LEMMA ExtractedIs ==
    ASSUME route \in Routes
    PROVE  /\ IsFiniteSet(Extracted) /\ Extracted \in SUBSET Event /\ Identified(Extracted)
           /\ \A e \in Extracted : e.type # "visual_highlight" /\ e.point < MostPoints
  <1> DEFINE from == PointTime[0][2]
             to   == PointTime[route.last][2]
             marks == {m \in (DOMAIN route.marks) \X Types : m[2] \in route.marks[m[1]]}
             made(t, p) == GpsEvent(t, p, IF t \in Types THEN PointTime[p][1]
                                          ELSE IF t = "arrival_candidate" THEN to ELSE from,
                                    IF t \in Types THEN PointTime[p][2]
                                    ELSE IF t = "departure" THEN from ELSE to)
             ends  == {made("departure", 0), made("arrival_candidate", route.last)}
             long  == IF route.long THEN {made("long_ride", route.last)} ELSE {}
             named == {made(mark[2], mark[1]) : mark \in marks}
  <1>1. /\ route.last \in 0 .. MostPoints - 1 /\ DOMAIN route.marks \subseteq 0 .. route.last
        /\ {0, route.last} \cup DOMAIN route.marks \subseteq DOMAIN PointTime
        /\ \A p \in DOMAIN PointTime : PointTime[p] \in Int \X Int
    BY RideAndFootageAssumption
  <1>2. /\ route.last \in Nat /\ route.last < MostPoints /\ 0 < MostPoints
        /\ \A p \in DOMAIN route.marks : p \in Nat /\ p < MostPoints
    <2>1. MostPoints \in Nat /\ 0 < MostPoints
      BY DEF MostPoints
    <2>4. route.last \in 0 .. (MostPoints - 1)
      BY <1>1
    <2> DEFINE last == route.last
    <2>5. last \in 0 .. (MostPoints - 1)
      BY <2>4
    <2> HIDE DEF last
    <2>6. last \in Nat /\ last < MostPoints
      BY <2>1, <2>5
    <2>2. route.last \in Nat /\ route.last < MostPoints /\ 0 < MostPoints /\ MostPoints \in Nat
      BY <2>1, <2>6 DEF last
    <2>3. ASSUME NEW p \in DOMAIN route.marks PROVE p \in Nat /\ p < MostPoints
      <3>1. p \in 0 .. route.last
        BY <1>1
      <3> QED BY <2>2, <3>1
    <2> QED BY <2>2, <2>3
  <1>3. from \in Int /\ to \in Int /\ \A p \in DOMAIN route.marks : PointTime[p][1] \in Int /\ PointTime[p][2] \in Int
    BY <1>1
  <1>4. Extracted = ends \cup long \cup named
    BY DEF Extracted, Types
  <1>5. \A t \in EventTypes : Importance(t) \in Nat
    BY DEF Importance
  <1>6. Requested \in Nat
    BY LocalStoryAssumption
  <1>7. ASSUME NEW t \in EventTypes, NEW p \in Nat, t \in Types => p \in DOMAIN route.marks
        PROVE  made(t, p) \in Event /\ made(t, p).type = t /\ made(t, p).point = p
    <2>1. /\ (IF t \in Types THEN PointTime[p][1] ELSE IF t = "arrival_candidate" THEN to ELSE from) \in Int
          /\ (IF t \in Types THEN PointTime[p][2] ELSE IF t = "departure" THEN from ELSE to) \in Int
      BY <1>3, <1>7
    <2> QED BY <1>5, <1>6, <2>1 DEF GpsEvent, Event
  <1> HIDE DEF made, from, to
  <1>8. ASSUME NEW e \in Extracted
        PROVE  /\ e \in Event /\ e.type # "visual_highlight" /\ e.point < MostPoints
               /\ e = made(e.type, e.point)
               /\ e.type \in {"arrival_candidate", "long_ride"} => e.point = route.last
    <2>1. CASE e \in ends
      <3>1. "departure" \in EventTypes \ Types /\ "arrival_candidate" \in EventTypes \ Types
        BY DEF EventTypes, Types
      <3> QED BY <1>2, <1>7, <2>1, <3>1
    <2>2. CASE e \in long
      <3>1. "long_ride" \in EventTypes \ Types /\ e = made("long_ride", route.last)
        BY <2>2 DEF EventTypes, Types
      <3> QED BY <1>2, <1>7, <3>1
    <2>3. CASE e \in named
      <3>1. PICK mark \in marks : e = made(mark[2], mark[1])
        BY <2>3
      <3>2. mark[2] \in Types /\ mark[1] \in DOMAIN route.marks
        OBVIOUS
      <3>3. mark[2] \in EventTypes
              /\ mark[2] \notin {"arrival_candidate", "long_ride", "visual_highlight"}
        BY <3>2 DEF EventTypes, Types
      <3> QED BY <1>2, <1>7, <3>1, <3>2, <3>3
    <2> QED BY <1>4, <2>1, <2>2, <2>3
  <1>9. Identified(Extracted)
    <2> SUFFICES ASSUME NEW a \in Extracted, NEW b \in Extracted, Alphabet(a) = Alphabet(b)
                 PROVE  a = b
      BY DEF Identified
    <2>1. a.type = b.type /\ (a.type \notin {"arrival_candidate", "long_ride"} => a.point = b.point)
      BY <1>8, AlphabetTells
    <2>2. a.point = b.point
      BY <1>8, <2>1
    <2>3. a = made(a.type, a.point) /\ b = made(b.type, b.point)
      BY <1>8
    <2> QED BY <2>1, <2>2, <2>3
  <1>10. IsFiniteSet(Extracted)
    <2>1. IsFiniteSet(DOMAIN route.marks)
      <3>1. 0 \in Int /\ route.last \in Int
        BY <1>2
      <3>2. IsFiniteSet(0 .. route.last)
        BY <3>1, FS_Interval
      <3> QED BY <1>1, <3>2, FS_Subset
    <2>2. IsFiniteSet(Types)
      <3>1. Types = (({} \cup {"stop"}) \cup {"elevation_change"}) \cup {"speed_change"} \cup {"direction_change"}
        BY DEF Types
      <3> QED BY <3>1, FS_EmptySet, FS_AddElement
    <2>3. IsFiniteSet(marks)
      <3>1. IsFiniteSet((DOMAIN route.marks) \X Types)
        BY <2>1, <2>2, FS_Product
      <3> QED BY <3>1, FS_Subset
    <2>4. IsFiniteSet(named)
      <3> DEFINE f == [mark \in marks |-> made(mark[2], mark[1])]
      <3>1. f \in Surjection(marks, named)
        BY DEF Surjection
      <3> HIDE DEF f, marks, named
      <3> QED BY <2>3, <3>1, FS_Surjection
    <2>5. IsFiniteSet(ends) /\ IsFiniteSet(long)
      <3>1. ends = ({} \cup {made("departure", 0)}) \cup {made("arrival_candidate", route.last)}
        OBVIOUS
      <3>2. long = {} \/ long = {} \cup {made("long_ride", route.last)}
        OBVIOUS
      <3> HIDE DEF ends, long
      <3>3. IsFiniteSet({} \cup {made("departure", 0)})
        BY FS_EmptySet, FS_AddElement
      <3>4. IsFiniteSet(ends)
        BY <3>1, <3>3, FS_AddElement
      <3>5. IsFiniteSet({} \cup {made("long_ride", route.last)})
        BY FS_EmptySet, FS_AddElement
      <3> QED BY <3>2, <3>4, <3>5, FS_EmptySet
    <2> HIDE DEF ends, long, named
    <2>6. IsFiniteSet(ends \cup long)
      BY <2>5, FS_Union
    <2> QED BY <1>4, <2>4, <2>6, FS_Union
  <1> QED BY <1>8, <1>9, <1>10

\* A cluster begins with one of the events there are.
LEMMA HeadsAre ==
    ASSUME NEW these, IsFiniteSet(these)
    PROVE  ClusterHeads(these) \in SUBSET these
  <1> DEFINE n == Cardinality(these)
             D == SUBSET these
             first(before) ==
                LET after == {e \in these : \A h \in before : e.start - h.start >= Window}
                IN  before \cup {e \in after : \A o \in after : o = e \/ Earlier(e, o)}
             g == [k \in 1 .. n |-> [H \in D |-> first(H)]]
             heads[k \in 0 .. n] == IF k = 0 THEN {} ELSE first(heads[k - 1])
  <1>1. n \in Nat
    BY FS_CardinalityType
  <1>2. ClusterHeads(these) = heads[n]
    BY DEF ClusterHeads
  <1>3. \A H \in D : first(H) \in D
    OBVIOUS
  <1>4. {} \in D /\ g \in [1 .. n -> [D -> D]]
    BY <1>3
  <1> HIDE DEF D, first
  <1>5. PICK f : Built(n, D, {}, g, f)
    <2> HIDE DEF g, n
    <2> QED BY <1>1, <1>4, StepByStep
  <1>6. ASSUME NEW k \in 1 .. n PROVE f[k] = first(f[k - 1])
    <2>1. f[k - 1] \in D
      <3>1. k - 1 \in 0 .. n
        BY <1>1
      <3> QED BY <1>5, <3>1 DEF Built
    <2>2. f[k] = g[k][f[k - 1]]
      BY <1>5 DEF Built
    <2> QED BY <2>1, <2>2
  <1>7. f = [k \in 0 .. n |-> IF k = 0 THEN {} ELSE first(f[k - 1])]
    <2>1. \A k \in 0 .. n : k = 0 \/ k \in 1 .. n
      BY <1>1
    <2>2. f[0] = {} /\ f = [k \in 0 .. n |-> f[k]]
      BY <1>5 DEF Built
    <2> HIDE DEF g
    <2> QED BY <1>6, <2>1, <2>2
  <1>8. heads = [k \in 0 .. n |-> IF k = 0 THEN {} ELSE first(heads[k - 1])]
    BY <1>7 DEF heads
  <1> HIDE DEF heads
  <1>9. heads[0] = {} /\ \A k \in 1 .. n : heads[k] = first(heads[k - 1])
    <2>1. 0 \in 0 .. n /\ \A k \in 1 .. n : k \in 0 .. n /\ k # 0
      BY <1>1
    <2>2. \A k \in 0 .. n : heads[k] = IF k = 0 THEN {} ELSE first(heads[k - 1])
      BY <1>8, Zenon
    <2> QED BY <2>1, <2>2
  <1>10. \A k \in 0 .. n : heads[k] \in D
    <2>1. ASSUME NEW k \in 1 .. n, heads[k - 1] \in D PROVE heads[k] \in D
      BY <1>3, <1>9, <2>1
    <2>2. heads[0] \in D
      BY <1>4, <1>9
    <2> HIDE DEF n
    <2> QED BY <1>1, <2>1, <2>2, StaysIn
  <1>11. n \in 0 .. n
    BY <1>1
  <1> QED BY <1>2, <1>10, <1>11 DEF D

\* A cluster is told by one of its own.
LEMMA RepresentativeIs ==
    ASSUME NEW cluster \in SUBSET Event, IsFiniteSet(cluster), cluster # {}, Identified(cluster)
    PROVE  Representative(cluster) \in cluster
  <1> DEFINE R == StrongerOf(cluster)
  <1>1. Orders(R, cluster) /\ \A a, b \in cluster : <<a, b>> \in R <=> Stronger(a, b)
    BY EventsAreOrdered
  <1> HIDE DEF R
  <1>2. PICK e \in cluster : \A o \in cluster \ {e} : <<e, o>> \in R
    BY <1>1, FirstOfFinite
  <1>3. \A o \in cluster : o = e \/ Stronger(e, o)
    BY <1>1, <1>2
  <1> QED BY <1>3 DEF Representative

\* So consolidating only leaves events out.
LEMMA ConsolidatedIs ==
    ASSUME NEW these \in SUBSET Event, IsFiniteSet(these), Identified(these)
    PROVE  Consolidated(these) \in SUBSET these
  <1> SUFFICES ASSUME NEW x \in Consolidated(these) PROVE x \in these
    OBVIOUS
  <1> DEFINE ofType(type) == {e \in these : e.type = type}
             heads(type) == ClusterHeads(ofType(type))
             cluster(type, h) == {e \in ofType(type) : /\ ~Earlier(e, h)
                                                     /\ \A g \in heads(type) : Earlier(h, g) => Earlier(e, g)}
  <1>1. \/ x \in these
        \/ \E type \in Volatile : \E h \in heads(type) : x = Representative(cluster(type, h))
    BY DEF Consolidated
  <1>2. ASSUME NEW type \in Volatile, NEW h \in heads(type)
        PROVE  Representative(cluster(type, h)) \in these
    <2> DEFINE T == ofType(type)
               H == heads(type)
               C == cluster(type, h)
    <2>1. T \in SUBSET these /\ T \in SUBSET Event /\ IsFiniteSet(T)
      <3>1. T \in SUBSET these
        OBVIOUS
      <3> HIDE DEF T
      <3> QED BY <3>1, FS_Subset
    <2>2. H \in SUBSET T
      <3>1. H = ClusterHeads(T)
        OBVIOUS
      <3> HIDE DEF T, H, ofType, heads
      <3> QED BY <2>1, <3>1, HeadsAre
    <2>3. C = {e \in T : ~Earlier(e, h) /\ \A g \in H : Earlier(h, g) => Earlier(e, g)} /\ h \in H
      OBVIOUS
    <2> HIDE DEF T, H, C, ofType, heads, cluster
    <2>4. h \in T /\ ~Earlier(h, h)
      <3>1. h.start \in Int /\ Alphabet(h) \in Int
        BY <2>1, <2>2, <2>3, AlphabetIs DEF Event
      <3> QED BY <2>2, <2>3, <3>1 DEF Earlier
    <2>5. h \in C
      BY <2>3, <2>4
    <2>6. C \in SUBSET T
      BY <2>3
    <2>7. C \in SUBSET Event /\ IsFiniteSet(C) /\ Identified(C) /\ C # {}
      BY <2>1, <2>5, <2>6, FS_Subset DEF Identified
    <2>8. Representative(C) \in C
      BY <2>7, RepresentativeIs
    <2> QED BY <2>1, <2>6, <2>8 DEF C
  <1> QED BY <1>1, <1>2

-----------------------------------------------------------------------------
(* What holds of a story all along.                                        *)

Clip == [event : Event, asset : Nat, from : Int, to : Int]

\* A highlight has an identifier of its own, and a window.
HighlightsAreTold == /\ IsFiniteSet(offered) /\ offered \in SUBSET Highlight
                     /\ \A c, d \in offered : c.id = d.id => c = d

EventsAreTold == IsFiniteSet(events) /\ events \in SUBSET Event /\ Identified(events)

\* A plan has one clip of an event, in one of the recordings.
ClipsAreTold ==
    phase \notin {"route", "plan"} =>
        /\ IsFiniteSet(clips) /\ clips \in SUBSET Clip
        /\ \A x \in clips : x.event \in events /\ x.asset \in DOMAIN catalog
        /\ \A x, y \in clips : x.event = y.event => x = y

StoryInv ==
    /\ phase \in {"route", "plan", "refused", "choose", "review", "direct",
                  "directed", "undirected", "composed"}
    /\ route \in Routes /\ catalog \in Catalogs
    /\ HighlightsAreTold /\ EventsAreTold /\ ClipsAreTold
    /\ PlanFollowsFootage /\ ScriptIsSound

\* What an owner is handed of the recordings joins the events of the route, and
\* is told from them.
LEMMA PromotedIs ==
    ASSUME HighlightsAreTold, NEW these \in SUBSET Event, IsFiniteSet(these), Identified(these),
           \A e \in these : e.type # "visual_highlight" /\ e.point < MostPoints
    PROVE  LET all == these \cup Promoted(these)
           IN  IsFiniteSet(all) /\ all \in SUBSET Event /\ Identified(all)
  <1> DEFINE free == {c \in offered : \A e \in these :
                        ~Overlap(c.start, c.start + c.length, e.start, e.end)}
             once == {c \in free : \A o \in free :
                        (o.start = c.start /\ o.length = c.length) => c.id <= o.id}
             made(c) == [type |-> "visual_highlight", point |-> c.id, start |-> c.start,
                         end |-> c.start + c.length, importance |-> c.score,
                         requested |-> c.length, from |-> 0]
             all == these \cup Promoted(these)
  <1>1. Promoted(these) = {made(c) : c \in once}
    BY DEF Promoted
  <1>2. once \in SUBSET offered
    OBVIOUS
  <1>3. offered \in SUBSET Highlight /\ IsFiniteSet(offered)
        /\ \A c, d \in offered : c.id = d.id => c = d
    BY DEF HighlightsAreTold
  <1>4. ASSUME NEW c \in offered
        PROVE  /\ made(c) \in Event
               /\ made(c).type = "visual_highlight" /\ made(c).point = c.id /\ c.id \in Nat
    <2>1. c.id \in Nat /\ c.start \in Int /\ c.length \in Nat /\ c.score \in Nat
      BY <1>3 DEF Highlight
    <2>2. c.start + c.length \in Int
      BY <2>1
    <2>3. "visual_highlight" \in EventTypes
      BY DEF EventTypes
    <2> QED BY <2>1, <2>2, <2>3 DEF Event
  <1> HIDE DEF made, once
  <1>5. all \in SUBSET Event
    BY <1>1, <1>2, <1>4
  <1>6. IsFiniteSet(all)
    <2> DEFINE f == [c \in once |-> made(c)]
               P == {made(c) : c \in once}
    <2>1. IsFiniteSet(once)
      BY <1>2, <1>3, FS_Subset
    <2>2. f \in Surjection(once, P)
      BY DEF Surjection
    <2> HIDE DEF f, P
    <2>3. IsFiniteSet(P)
      BY <2>1, <2>2, FS_Surjection
    <2> QED BY <1>1, <2>3, FS_Union DEF P
  <1>7. Identified(all)
    <2> SUFFICES ASSUME NEW a \in all, NEW b \in all, Alphabet(a) = Alphabet(b)
                 PROVE  a = b
      BY DEF Identified
    <2>1. ASSUME NEW e \in these PROVE Alphabet(e) \in Int /\ Alphabet(e) < 1000002
      BY AlphabetIs
    <2>2. ASSUME NEW c \in offered PROVE Alphabet(made(c)) = 1000002 + c.id /\ c.id \in Nat
      <3>1. made(c) \in Event /\ made(c).type = "visual_highlight" /\ made(c).point = c.id /\ c.id \in Nat
        BY <1>4
      <3>2. Alphabet(made(c)) = 1000002 + made(c).point
        BY <3>1, AlphabetIs
      <3> QED BY <3>1, <3>2
    <2>3. CASE a \in these /\ b \in these
      BY <2>3 DEF Identified
    <2>4. CASE a \in Promoted(these) /\ b \in Promoted(these)
      <3>1. PICK c \in once : a = made(c)
        BY <1>1, <2>4
      <3>2. PICK d \in once : b = made(d)
        BY <1>1, <2>4
      <3>3. c \in offered /\ d \in offered
        BY <1>2
      <3>4. 1000002 + c.id = 1000002 + d.id /\ c.id \in Nat /\ d.id \in Nat
        BY <2>2, <3>1, <3>2, <3>3
      <3>5. c.id = d.id
        BY <3>4
      <3> QED BY <1>3, <3>1, <3>2, <3>3, <3>5
    <2>5. ASSUME NEW e \in these, NEW p \in Promoted(these) PROVE Alphabet(e) # Alphabet(p)
      <3>1. PICK c \in once : p = made(c)
        BY <1>1
      <3>2. Alphabet(p) = 1000002 + c.id /\ c.id \in Nat
        BY <1>2, <2>2, <3>1
      <3> QED BY <2>1, <3>2
    <2> QED BY <2>3, <2>4, <2>5
  <1> QED BY <1>5, <1>6, <1>7

\* The events of the story pool are told apart by their identifiers.
LEMMA FindEventsStep ==
    ASSUME StoryInv, FindEvents
    PROVE  EventsAreTold'
  <1> DEFINE found == Consolidated(Extracted)
  <1>1. route \in Routes /\ HighlightsAreTold
    BY DEF StoryInv
  <1>2. /\ IsFiniteSet(Extracted) /\ Extracted \in SUBSET Event /\ Identified(Extracted)
        /\ \A e \in Extracted : e.type # "visual_highlight" /\ e.point < MostPoints
    BY <1>1, ExtractedIs
  <1>3. found \in SUBSET Extracted
    BY <1>2, ConsolidatedIs
  <1>4. events' = found \cup Promoted(found)
    BY DEF FindEvents
  <1> HIDE DEF found
  <1>5. IsFiniteSet(found) /\ found \in SUBSET Event /\ Identified(found)
    BY <1>2, <1>3, FS_Subset DEF Identified
  <1>6. LET all == found \cup Promoted(found)
        IN  IsFiniteSet(all) /\ all \in SUBSET Event /\ Identified(all)
    BY <1>1, <1>2, <1>3, <1>5, PromotedIs
  <1>7. Identified(events')
    BY <1>4, <1>6
  <1>8. Identified(events') <=> Identified(events)'
    BY DEF Identified, Alphabet, Digits
  <1> QED BY <1>4, <1>6, <1>7, <1>8 DEF EventsAreTold

-----------------------------------------------------------------------------
(* The plan.                                                               *)

\* More events ask for no less.
LEMMA MoreAskForMore ==
    ASSUME NEW B \in SUBSET Event, IsFiniteSet(B), NEW A \in SUBSET B
    PROVE  /\ SumOf(A) \in Nat /\ SumOf(B) \in Nat
           /\ SumOf(A) <= SumOf(B)
  <1> DEFINE seconds(e) == {e} \X (1 .. e.requested)
             parts(S) == {seconds(e) : e \in S}
             all(S) == UNION parts(S)
  <1>1. ASSUME NEW e \in B PROVE IsFiniteSet(seconds(e))
    <2>1. 1 \in Int /\ e.requested \in Int
      BY DEF Event
    <2>2. IsFiniteSet({e}) /\ IsFiniteSet(1 .. e.requested)
      BY <2>1, FS_Singleton, FS_Interval
    <2> QED BY <2>2, FS_Product
  <1>2. SumOf(A) = Cardinality(all(A)) /\ SumOf(B) = Cardinality(all(B))
    BY DEF SumOf
  <1> HIDE DEF seconds
  <1>3. IsFiniteSet(parts(B))
    <2> DEFINE f == [e \in B |-> seconds(e)]
    <2>1. f \in Surjection(B, parts(B))
      BY DEF Surjection
    <2> HIDE DEF f, parts
    <2> QED BY <2>1, FS_Surjection
  <1>4. \A T \in parts(B) : IsFiniteSet(T)
    BY <1>1
  <1>5. all(A) \in SUBSET all(B)
    OBVIOUS
  <1>6. IsFiniteSet(all(B))
    <2> HIDE DEF parts
    <2> QED BY <1>3, <1>4, FS_UNION
  <1> HIDE DEF all
  <1>7. IsFiniteSet(all(A)) /\ Cardinality(all(A)) <= Cardinality(all(B))
    BY <1>5, <1>6, FS_Subset
  <1> QED BY <1>2, <1>6, <1>7, FS_CardinalityType

\* The strongest of some events is there to be taken.
LEMMA StrongestIs ==
    ASSUME EventsAreTold, NEW S \in SUBSET events, S # {}
    PROVE  /\ \E e \in S : \A o \in S \ {e} : Stronger(e, o)
           /\ \A e, o \in S : Stronger(e, o) => ~Stronger(o, e) /\ e # o
  <1> DEFINE R == StrongerOf(S)
  <1>1. S \in SUBSET Event /\ IsFiniteSet(S) /\ Identified(S)
    BY FS_Subset DEF EventsAreTold, Identified
  <1>2. Orders(R, S) /\ \A a, b \in S : <<a, b>> \in R <=> Stronger(a, b)
    BY <1>1, EventsAreOrdered
  <1> HIDE DEF R
  <1>3. PICK e \in S : \A o \in S \ {e} : <<e, o>> \in R
    BY <1>1, <1>2, FirstOfFinite
  <1>4. \A o \in S \ {e} : Stronger(e, o)
    BY <1>2, <1>3
  <1>5. \A x, o \in S : Stronger(x, o) => ~Stronger(o, x) /\ x # o
    BY <1>2 DEF Orders
  <1> QED BY <1>4, <1>5

\* What is selected is filmed, has an event of each type that is, and is as
\* long as the film or is all.
LEMMA SelectedIs ==
    ASSUME EventsAreTold
    PROVE  LET filmed == {e \in events : e.requested > 0 /\ Filmed(e)}
           IN  /\ Selected \in SUBSET filmed
               /\ {e.type : e \in Selected} = {e.type : e \in filmed}
               /\ Selected = filmed \/ SumOf(Selected) >= Target
  <1> DEFINE covered == {e \in events : e.requested > 0 /\ Filmed(e)}
             firsts == {e \in covered : \A o \in covered :
                          (o.type = e.type /\ o # e) => Stronger(e, o)}
             stronger(e) == {o \in covered \ firsts : Stronger(o, e)}
             left == covered \ Selected
  <1>1. Selected = firsts \cup {e \in covered \ firsts : SumOf(firsts \cup stronger(e)) < Target}
    BY DEF Selected
  <1>2. covered \in SUBSET events
    OBVIOUS
  <1>3. firsts \in SUBSET covered
    OBVIOUS
  <1>4. \A t \in {e.type : e \in covered} : \E e \in firsts : e.type = t
    <2> SUFFICES ASSUME NEW d \in covered PROVE \E e \in firsts : e.type = d.type
      OBVIOUS
    <2> DEFINE S == {e \in covered : e.type = d.type}
    <2>1. S \in SUBSET events /\ S # {}
      BY <1>2
    <2>2. \A o : o \in S <=> o \in covered /\ o.type = d.type
      OBVIOUS
    <2> HIDE DEF S
    <2>3. PICK e \in S : \A o \in S \ {e} : Stronger(e, o)
      BY <2>1, StrongestIs
    <2>4. e \in firsts
      BY <2>2, <2>3
    <2> QED BY <2>2, <2>3, <2>4
  <1> HIDE DEF covered, firsts
  <1>5. Selected \in SUBSET covered
    BY <1>1, <1>3
  <1>6. {e.type : e \in Selected} = {e.type : e \in covered}
    <2>1. firsts \in SUBSET Selected
      BY <1>1
    <2> QED BY <1>4, <1>5, <2>1
  <1>7. Selected = covered \/ SumOf(Selected) >= Target
    <2>1. SUFFICES ASSUME left # {} PROVE SumOf(Selected) >= Target
      BY <1>5
    <2>2. left \in SUBSET events /\ left \in SUBSET covered
      BY <1>2
    <2>3. PICK e \in left : \A o \in left \ {e} : Stronger(e, o)
      <3> HIDE DEF left
      <3> QED BY <2>1, <2>2, StrongestIs
    <2>4. \A o \in covered : Stronger(o, e) => ~Stronger(e, o) /\ o # e
      <3> HIDE DEF left
      <3>1. \A x, o \in covered : Stronger(x, o) => ~Stronger(o, x) /\ x # o
        BY <1>2, <2>2, <2>3, StrongestIs
      <3> QED BY <2>2, <2>3, <3>1
    <2>5. firsts \cup stronger(e) \in SUBSET Selected
      <3>1. firsts \in SUBSET Selected
        BY <1>1
      <3>2. ASSUME NEW o \in stronger(e) PROVE o \in Selected
        <4>1. o \in covered /\ Stronger(o, e)
          OBVIOUS
        <4> QED BY <2>3, <2>4, <4>1
      <3> QED BY <3>1, <3>2
    <2>6. ~(SumOf(firsts \cup stronger(e)) < Target)
      <3>1. e \in covered \ firsts /\ e \notin Selected
        BY <1>1, <2>3
      <3> QED BY <1>1, <3>1
    <2> DEFINE F == firsts \cup stronger(e)
    <2> HIDE DEF F, left
    <2>7. Selected \in SUBSET Event /\ IsFiniteSet(Selected)
      BY <1>2, <1>5, FS_Subset DEF EventsAreTold
    <2>8. SumOf(F) \in Nat /\ SumOf(Selected) \in Nat /\ SumOf(F) <= SumOf(Selected)
      BY <2>5, <2>7, MoreAskForMore DEF F
    <2>9. Target \in Nat /\ ~(SumOf(F) < Target)
      BY <2>6, LocalStoryAssumption DEF F
    <2> QED BY <2>8, <2>9
  <1> QED BY <1>5, <1>6, <1>7 DEF covered

\* A clip lies in its recording and shows the moment the event begins.
LEMMA ResolvedIs ==
    ASSUME catalog \in Catalogs, NEW e \in Event, e.requested > 0, Filmed(e)
    PROVE  LET clip == Resolved(e)
               start == catalog[clip.asset].start
           IN  /\ clip \in Clip /\ clip.event = e /\ clip.asset \in DOMAIN catalog
               /\ 0 <= clip.from /\ clip.from < clip.to
               /\ clip.to <= catalog[clip.asset].length
               /\ start + clip.from <= e.start
               /\ e.start <= start + clip.to
  <1> DEFINE asset == CHOOSE i \in DOMAIN catalog :
                        /\ Covers(catalog[i], e.start)
                        /\ \A j \in 1 .. i - 1 : ~Covers(catalog[j], e.start)
             start == catalog[asset].start
             length == catalog[asset].length
             offset == e.start - start
             low(x) == IF x < 0 THEN 0 ELSE x
             high(x) == IF x > length THEN length ELSE x
             asked == e.requested
             half == asked \div 2
             begins == low(offset - half)
             end == high(begins + asked)
             from == low(end - asked)
  <1>1. Resolved(e) = [event |-> e, asset |-> asset, from |-> from, to |-> end]
    BY DEF Resolved
  <1>2. catalog \in Seq([start : Int, length : Nat])
    BY RideAndFootageAssumption
  <1>3. DOMAIN catalog = 1 .. Len(catalog) /\ Len(catalog) \in Nat
        /\ \A i \in DOMAIN catalog : catalog[i].start \in Int /\ catalog[i].length \in Nat
    <2> DEFINE recording == [start : Int, length : Nat]
    <2>1. catalog \in Seq(recording)
      BY <1>2
    <2>2. \A x \in recording : x.start \in Int /\ x.length \in Nat
      OBVIOUS
    <2> HIDE DEF recording
    <2>3. DOMAIN catalog = 1 .. Len(catalog) /\ Len(catalog) \in Nat
          /\ \A i \in DOMAIN catalog : catalog[i] \in recording
      BY <2>1
    <2> QED BY <2>2, <2>3
  <1>4. asset \in DOMAIN catalog /\ Covers(catalog[asset], e.start)
    <2> DEFINE T == {i \in DOMAIN catalog : Covers(catalog[i], e.start)}
    <2>1. T \in SUBSET Nat /\ T # {}
      BY <1>3 DEF Filmed
    <2>2. PICK i \in T : \A j \in T : ~(j < i)
      <3> HIDE DEF T
      <3> QED BY <2>1, LeastNatural
    <2>3. \A j \in 1 .. i - 1 : j \in DOMAIN catalog /\ j < i
      BY <1>3
    <2>4. \A j \in 1 .. i - 1 : ~Covers(catalog[j], e.start)
      BY <2>2, <2>3
    <2> QED BY <2>2, <2>4
  <1> HIDE DEF asset
  <1>5. start \in Int /\ length \in Nat /\ e.start \in Int /\ start <= e.start /\ e.start < start + length
    BY <1>3, <1>4 DEF Covers, Event
  <1>6. asked \in Nat /\ asked > 0
    BY DEF Event
  <1>7. half \in Nat /\ half <= asked
    BY <1>6
  <1> HIDE DEF half
  <1>8. offset \in Nat /\ offset < length
    BY <1>5
  <1>9. start + offset = e.start
    BY <1>5
  <1> HIDE DEF offset, asked, length, start
  <1>10. begins \in Nat /\ begins <= offset /\ offset - half <= begins
    BY <1>6, <1>7, <1>8
  <1> HIDE DEF begins
  <1>11. end \in Nat /\ end > 0 /\ end <= length /\ end - asked <= begins /\ offset <= end
    <2> DEFINE total == begins + asked
    <2>1. /\ total \in Nat /\ total > 0 /\ total - asked <= begins /\ offset <= total
          /\ length \in Nat /\ length > 0
          /\ (length <= total) => (length - asked <= begins)
      BY <1>5, <1>6, <1>7, <1>8, <1>10
    <2>2. end = IF total > length THEN length ELSE total
      OBVIOUS
    <2> HIDE DEF end, total
    <2> QED BY <1>6, <1>8, <1>10, <2>1, <2>2
  <1> HIDE DEF end
  <1>12. from \in Nat /\ from < end /\ from <= offset
    BY <1>6, <1>8, <1>10, <1>11
  <1> HIDE DEF from
  <1>13. start + from <= e.start /\ e.start <= start + end
    BY <1>5, <1>8, <1>9, <1>11, <1>12 DEF start
  <1> DEFINE clip == Resolved(e)
  <1>14. clip.event = e /\ clip.asset = asset /\ clip.from = from /\ clip.to = end
    BY <1>1
  <1>15. clip \in Clip
    BY <1>1, <1>3, <1>4, <1>11, <1>12 DEF Clip
  <1> HIDE DEF clip
  <1> QED BY <1>4, <1>11, <1>12, <1>13, <1>14, <1>15 DEF clip, length, start

\* The clips planned are told, and follow the footage.
LEMMA PlanClipsStep ==
    ASSUME StoryInv, PlanClips
    PROVE  ClipsAreTold' /\ PlanFollowsFootage'
  <1> DEFINE filmed == {e \in events : e.requested > 0 /\ Filmed(e)}
             planned == {Resolved(e) : e \in Selected}
  <1>1. catalog \in Catalogs /\ EventsAreTold
    BY DEF StoryInv
  <1>2. clips' = planned /\ UNCHANGED <<catalog, events>>
    BY DEF PlanClips
  <1>3. /\ Selected \in SUBSET filmed
        /\ {e.type : e \in Selected} = {e.type : e \in filmed}
        /\ Selected = filmed \/ SumOf(Selected) >= Target
    BY <1>1, SelectedIs
  <1>4. ASSUME NEW e \in Selected
        PROVE  LET clip == Resolved(e)
                   start == catalog[clip.asset].start
               IN  /\ clip \in Clip /\ clip.event = e /\ clip.asset \in DOMAIN catalog
                   /\ 0 <= clip.from /\ clip.from < clip.to
                   /\ clip.to <= catalog[clip.asset].length
                   /\ start + clip.from <= e.start
                   /\ e.start <= start + clip.to
    <2>1. e \in Event /\ e.requested > 0 /\ Filmed(e)
      BY <1>1, <1>3 DEF EventsAreTold
    <2> QED BY <1>1, <2>1, ResolvedIs
  <1>5. \A x \in planned : x.event \in Selected /\ x = Resolved(x.event)
    BY <1>4
  <1>6. {x.event : x \in planned} = Selected
    BY <1>4
  <1>7. IsFiniteSet(planned)
    <2> DEFINE f == [e \in Selected |-> Resolved(e)]
    <2>1. IsFiniteSet(Selected)
      <3>1. Selected \in SUBSET events
        BY <1>3
      <3> QED BY <1>1, <3>1, FS_Subset DEF EventsAreTold
    <2>2. f \in Surjection(Selected, planned)
      BY DEF Surjection
    <2> HIDE DEF f, planned
    <2> QED BY <2>1, <2>2, FS_Surjection
  <1>8. ClipsAreTold'
    <2>1. planned \in SUBSET Clip /\ \A x \in planned : x.event \in events /\ x.asset \in DOMAIN catalog
      BY <1>3, <1>4
    <2>2. \A x, y \in planned : x.event = y.event => x = y
      BY <1>5, Zenon
    <2> HIDE DEF planned
    <2> QED BY <1>2, <1>7, <2>1, <2>2 DEF ClipsAreTold
  <1>9. \A x \in planned :
            LET start == catalog[x.asset].start
            IN  /\ 0 <= x.from /\ x.from < x.to
                /\ x.to <= catalog[x.asset].length
                /\ start + x.from <= x.event.start
                /\ x.event.start <= start + x.to
    BY <1>4
  <1>10. PlanFollowsFootage'
    <2>1. filmed' = filmed
      BY <1>2 DEF Filmed
    <2> HIDE DEF planned, filmed
    <2>2. {x.event : x \in clips'} = Selected
      BY <1>2, <1>6
    <2>3. {e.type : e \in {x.event : x \in clips'}} = {e.type : e \in filmed}
      BY <1>3, <2>2
    <2>4. SumOf({x.event : x \in clips'}) = SumOf(Selected)
      BY <2>2
    <2> QED BY <1>2, <1>3, <1>9, <2>1, <2>2, <2>3, <2>4 DEF PlanFollowsFootage, filmed, SumOf
  <1> QED BY <1>8, <1>10

-----------------------------------------------------------------------------
(* Highlights over a clip.                                                 *)

\* Of candidates at most one is unambiguous.
LEMMA OneUnambiguous ==
    ASSUME HighlightsAreTold, NEW S \in SUBSET offered, NEW c \in Unambiguous(S), NEW d \in Unambiguous(S)
    PROVE  c = d /\ c \in S
  <1> SUFFICES ASSUME c # d PROVE FALSE
    BY DEF Unambiguous
  <1>1. c \in offered /\ d \in offered /\ c.rank < d.rank /\ d.rank < c.rank
    BY DEF Unambiguous
  <1>2. c.rank \in Int /\ d.rank \in Int
    BY <1>1 DEF HighlightsAreTold, Highlight
  <1> QED BY <1>1, <1>2

\* A clip is narrowed to one highlight, and that one is over it.
LEMMA OneNarrowed ==
    ASSUME HighlightsAreTold, NEW clip, NEW c \in Narrowed(clip), NEW d \in Narrowed(clip)
    PROVE  c = d /\ c \in Over(clip)
  <1>1. Over(clip) \in SUBSET offered
    BY DEF Over
  <1>2. CASE clip.event \in DOMAIN preferred
    <2>1. c \in Over(clip) /\ d \in Over(clip) /\ c.id = d.id
      BY <1>2 DEF Narrowed
    <2> QED BY <1>1, <2>1 DEF HighlightsAreTold
  <1>3. CASE clip.event \notin DOMAIN preferred
    <2>1. c \in Unambiguous(Over(clip)) /\ d \in Unambiguous(Over(clip))
      BY <1>3 DEF Narrowed
    <2> HIDE DEF Over
    <2> QED BY <1>1, <2>1, OneUnambiguous
  <1> QED BY <1>2, <1>3

\* A highlight put to the owner is taken when it is picked.
LEMMA OfferedIsTakenHolds ==
    ASSUME HighlightsAreTold
    PROVE  OfferedIsTaken
  <1> SUFFICES ASSUME NEW clip \in clips, NEW c \in Conflicts(clip),
                      clip.event \in DOMAIN preferred, preferred[clip.event] = c.id
               PROVE  Narrower(Reinforced(clip), clip)
    BY DEF OfferedIsTaken
  <1>1. c \in Over(clip) /\ Narrower(Cut(clip, c), clip)
    BY DEF Conflicts, Narrowing
  <1>2. c \in Narrowed(clip)
    BY <1>1 DEF Narrowed
  <1>3. (CHOOSE d \in Narrowed(clip) : TRUE) = c
    BY <1>2, OneNarrowed
  <1>4. Reinforced(clip) = Cut(clip, c)
    BY <1>1, <1>2, <1>3 DEF Reinforced
  <1> QED BY <1>1, <1>4

\* What a clip is cut to is part of it and of the highlight.
LEMMA ReinforcedIs ==
    ASSUME StoryInv, phase = "choose", NEW old \in clips
    PROVE  LET new == Reinforced(old)
               start == catalog[new.asset].start
           IN  /\ new \in Clip /\ new.event = old.event /\ new.asset = old.asset
               /\ old.from <= new.from /\ new.from < new.to /\ new.to <= old.to
               /\ new # old => \E c \in offered :
                     /\ c.start <= start + new.from
                     /\ start + new.to <= c.start + c.length
                     /\ start <= c.start
                     /\ c.start + c.length <= start + catalog[new.asset].length
  <1>1. /\ old \in Clip /\ old.asset \in DOMAIN catalog
        /\ old.from < old.to
        /\ HighlightsAreTold /\ catalog \in Catalogs
    BY DEF StoryInv, ClipsAreTold, PlanFollowsFootage
  <1>2. old.from \in Int /\ old.to \in Int
    BY <1>1 DEF Clip
  <1>3. CASE Reinforced(old) = old
    BY <1>1, <1>2, <1>3
  <1>4. CASE Reinforced(old) # old
    <2> DEFINE c == CHOOSE d \in Narrowed(old) : TRUE
               start == catalog[old.asset].start
               offset == c.start - start
               new == Cut(old, c)
               begins == IF old.from < offset THEN offset ELSE old.from
               end == IF old.to > offset + c.length THEN offset + c.length ELSE old.to
    <2>1. /\ Reinforced(old) = new
          /\ \E d \in Narrowed(old) : Narrower(Cut(old, d), old)
      BY <1>4 DEF Reinforced
    <2>2. PICK d \in Narrowed(old) : Narrower(Cut(old, d), old)
      BY <2>1
    <2>3. c \in Narrowed(old)
      BY <2>2
    <2>4. c = d /\ c \in Over(old)
      BY <1>1, <2>2, <2>3, OneNarrowed
    <2> HIDE DEF c
    <2>5. Narrower(new, old)
      BY <2>2, <2>4
    <2>6. c \in offered /\ start <= c.start /\ c.start + c.length <= start + catalog[old.asset].length
      BY <2>4 DEF Over
    <2>7. c.start \in Int /\ c.length \in Nat
      BY <1>1, <2>6 DEF HighlightsAreTold, Highlight
    <2>8. start \in Int
      <3> DEFINE recording == [start : Int, length : Nat]
      <3>1. catalog \in Seq(recording)
        BY <1>1, RideAndFootageAssumption
      <3>2. \A x \in recording : x.start \in Int
        OBVIOUS
      <3> HIDE DEF recording
      <3>3. catalog[old.asset] \in recording
        BY <1>1, <3>1
      <3> QED BY <3>2, <3>3
    <2>9. offset \in Int /\ begins \in Int /\ end \in Int
      BY <1>2, <2>7, <2>8
    <2>10. /\ new \in Clip /\ new.event = old.event /\ new.asset = old.asset
           /\ new.from = begins /\ new.to = end
      <3>1. /\ old = [event |-> old.event, asset |-> old.asset, from |-> old.from, to |-> old.to]
            /\ old.event \in Event /\ old.asset \in Nat
        BY <1>1 DEF Clip
      <3>2. new = [event |-> old.event, asset |-> old.asset, from |-> begins, to |-> end]
        <4>1. new = [old EXCEPT !.from = begins, !.to = end]
          BY DEF Cut
        <4>2. PICK x, y, u, v : old = [event |-> x, asset |-> y, from |-> u, to |-> v]
          BY <3>1
        <4> HIDE DEF new, begins, end
        <4>3. new = [event |-> x, asset |-> y, from |-> begins, to |-> end]
          BY <4>1, <4>2
        <4> QED BY <4>2, <4>3
      <3> HIDE DEF new, begins, end
      <3> QED BY <2>9, <3>1, <3>2 DEF Clip
    <2>11. begins < end
      BY <2>5, <2>10 DEF Narrower
    <2>12. old.from <= begins /\ offset <= begins /\ end <= old.to /\ end <= offset + c.length
      BY <1>2, <2>7, <2>8
    <2>13. start + offset = c.start
      BY <2>7, <2>8
    <2> HIDE DEF begins, end, new, offset, start
    <2>14. c.start <= start + begins /\ start + end <= c.start + c.length
      BY <2>7, <2>8, <2>9, <2>12, <2>13
    <2> QED BY <2>1, <2>6, <2>10, <2>11, <2>12, <2>14 DEF start
  <1> QED BY <1>3, <1>4

\* Narrowing keeps the clips told.
LEMMA ReinforceStep ==
    ASSUME StoryInv, Reinforce
    PROVE  ClipsAreTold'
  <1> DEFINE cut == {Reinforced(x) : x \in clips}
  <1>1. phase = "choose" /\ clips' = cut /\ UNCHANGED <<catalog, events>>
    BY DEF Reinforce
  <1>2. /\ IsFiniteSet(clips)
        /\ \A x \in clips : x.event \in events /\ x.asset \in DOMAIN catalog
        /\ \A x, y \in clips : x.event = y.event => x = y
    BY <1>1 DEF StoryInv, ClipsAreTold
  <1>3. \A x \in clips : /\ Reinforced(x) \in Clip /\ Reinforced(x).event = x.event
                         /\ Reinforced(x).asset = x.asset
    BY <1>1, ReinforcedIs
  <1>4. IsFiniteSet(cut)
    <2> DEFINE f == [x \in clips |-> Reinforced(x)]
    <2>1. f \in Surjection(clips, cut)
      BY DEF Surjection
    <2> HIDE DEF f, cut
    <2> QED BY <1>2, <2>1, FS_Surjection
  <1>5. cut \in SUBSET Clip /\ \A x \in cut : x.event \in events /\ x.asset \in DOMAIN catalog
    BY <1>2, <1>3
  <1>6. \A x, y \in cut : x.event = y.event => x = y
    BY <1>2, <1>3
  <1> HIDE DEF cut
  <1> QED BY <1>1, <1>4, <1>5, <1>6 DEF ClipsAreTold

-----------------------------------------------------------------------------
(* The script.                                                             *)

\* A sequence of a finite set shows all of it.
LEMMA SequenceShowsAll ==
    ASSUME NEW S, IsFiniteSet(S)
    PROVE  Range(SetToSeq(S)) = S
  <1> DEFINE n == Cardinality(S)
             f == SetToSeq(S)
  <1>1. n \in Nat /\ ExistsBijection(1 .. n, S)
    BY FS_CardinalityType
  <1>2. \E g \in [1 .. n -> S] : IsInjective(g)
    BY <1>1, Zenon DEF ExistsBijection, Bijection, Injection
  <1>3. f \in [1 .. n -> S] /\ IsInjective(f)
    BY <1>2 DEF SetToSeq
  <1>4. IsFiniteSet(1 .. n) /\ Cardinality(1 .. n) = n
    BY <1>1, FS_Interval
  <1> HIDE DEF f
  <1>5. f \in Injection(1 .. n, S)
    BY <1>3, Zenon DEF Injection
  <1>6. f \in Surjection(1 .. n, S)
    BY <1>4, <1>5, FS_Injection
  <1>7. \A x \in S : \E i \in 1 .. n : f[i] = x
    BY <1>6, Zenon DEF Surjection
  <1>8. Range(f) = S
    BY <1>3, <1>7 DEF Range
  <1> QED BY <1>8 DEF f

\* So do scenes put in the director's order.
LEMMA SortedShowsAll ==
    ASSUME StoryInv, phase \notin {"route", "plan"}, NEW S \in SUBSET clips
    PROVE  Range(Sorted(S)) = S
  <1> DEFINE R == {p \in S \X S : DirectedEarlier(p[1], p[2])}
             n == Cardinality(S)
             place(c) == Cardinality({o \in S : DirectedEarlier(o, c)})
  <1>1. /\ IsFiniteSet(S) /\ EventsAreTold
        /\ \A x \in S : x.event \in events
        /\ \A x, y \in S : x.event = y.event => x = y
    BY FS_Subset DEF StoryInv, ClipsAreTold
  <1>2. \A x \in S : x.event.from = 0 /\ Alphabet(x.event) \in Int
    <2> SUFFICES ASSUME NEW x \in S PROVE x.event.from = 0 /\ Alphabet(x.event) \in Int
      OBVIOUS
    <2>1. x.event \in Event
      BY <1>1 DEF EventsAreTold
    <2>2. x.event.from = 0
      BY <2>1 DEF Event
    <2> QED BY <2>1, <2>2, AlphabetIs
  <1>3. \A x, y \in S : x # y => Alphabet(x.event) # Alphabet(y.event)
    BY <1>1 DEF EventsAreTold, Identified
  <1>4. \A x, y \in S : DirectedEarlier(x, y) <=> Alphabet(x.event) < Alphabet(y.event)
    BY <1>2 DEF DirectedEarlier
  <1>5. \A x, y \in S : <<x, y>> \in R <=> DirectedEarlier(x, y)
    OBVIOUS
  <1> HIDE DEF R
  <1>6. Orders(R, S)
    <2>1. \A x, y \in S : x # y => <<x, y>> \in R \/ <<y, x>> \in R
      BY <1>2, <1>3, <1>4, <1>5
    <2>2. \A x, y, z \in S : <<x, y>> \in R /\ <<y, z>> \in R => <<x, z>> \in R
      BY <1>2, <1>4, <1>5
    <2>3. \A x \in S : <<x, x>> \notin R
      BY <1>2, <1>4, <1>5
    <2> QED BY <2>1, <2>2, <2>3 DEF Orders
  <1>7. \A x \in S : PlaceIn(S, R, x) = place(x)
    <2> SUFFICES ASSUME NEW x \in S PROVE {y \in S : <<y, x>> \in R} = {o \in S : DirectedEarlier(o, x)}
      BY DEF PlaceIn
    <2> QED BY <1>5
  <1>8. /\ n \in Nat
        /\ \A x \in S : PlaceIn(S, R, x) \in 0 .. n - 1
        /\ \A k \in 0 .. n - 1 : \E x \in S :
              /\ PlaceIn(S, R, x) = k
              /\ \A z \in S : PlaceIn(S, R, z) = k => z = x
    <2>1. n = Cardinality(S)
      OBVIOUS
    <2> HIDE DEF n
    <2>2. IsFiniteSet(S)
      BY <1>1
    <2> QED BY <1>6, <2>1, <2>2, PlacesInOrder
  <1>9. /\ \A x \in S : place(x) \in 0 .. n - 1
        /\ \A k \in 0 .. n - 1 : \E x \in S : place(x) = k /\ \A z \in S : place(z) = k => z = x
    <2> HIDE DEF place, n
    <2> QED BY <1>7, <1>8
  <1> DEFINE f == Sorted(S)
  <1>10. f = [k \in 1 .. n |-> CHOOSE c \in S : place(c) = k - 1]
    BY DEF Sorted
  <1> HIDE DEF place, n, f
  <1>11. ASSUME NEW k \in 1 .. n
         PROVE  f[k] \in S /\ place(f[k]) = k - 1
    <2>1. k - 1 \in 0 .. n - 1
      BY <1>8
    <2> QED BY <1>9, <1>10, <2>1
  <1>12. ASSUME NEW x \in S PROVE \E k \in 1 .. n : f[k] = x
    <2>1. place(x) \in 0 .. n - 1
      BY <1>9
    <2>2. place(x) + 1 \in 1 .. n /\ (place(x) + 1) - 1 = place(x)
      BY <1>8, <2>1
    <2>3. f[place(x) + 1] \in S /\ place(f[place(x) + 1]) = place(x)
      BY <1>11, <2>2
    <2>4. f[place(x) + 1] = x
      BY <1>9, <2>1, <2>3
    <2> QED BY <2>2, <2>4
  <1>13. DOMAIN f = 1 .. n
    BY <1>10
  <1>14. Range(f) = S
    BY <1>11, <1>12, <1>13 DEF Range
  <1> QED BY <1>14 DEF f

\* The roles share the clips out.
LEMMA CastSharesOut ==
    ASSUME NEW these
    PROVE  /\ UNION {Cast(these)[role] : role \in Roles} = these
           /\ \A a, b \in Roles : a # b => Cast(these)[a] \cap Cast(these)[b] = {}
  <1> DEFINE resolution == Closing(these)
             climax == BestOf(these \ resolution, TRUE)
             left == these \ (resolution \cup climax)
             hook == IF BestOf(left, TRUE) # {} THEN BestOf(left, TRUE) ELSE BestOf(left, FALSE)
             cast == Cast(these)
  <1>1. cast = [resolution |-> resolution, climax |-> climax, hook |-> hook, build_up |-> left \ hook]
    BY DEF Cast
  <1>2. \A S, nonDeparture : BestOf(S, nonDeparture) \in SUBSET S
    BY DEF BestOf
  <1>3. resolution \in SUBSET these
    BY DEF Closing
  <1>4. climax \in SUBSET (these \ resolution)
    BY <1>2
  <1>5. hook \in SUBSET left
    BY <1>2
  <1>6. left = these \ (resolution \cup climax)
    OBVIOUS
  <1> HIDE DEF resolution, climax, left, hook, cast
  <1>7. /\ cast["resolution"] = resolution /\ cast["climax"] = climax
        /\ cast["hook"] = hook /\ cast["build_up"] = left \ hook
    BY <1>1
  <1>8. UNION {cast[role] : role \in Roles} = these
    <2>1. \A x : x \in UNION {cast[role] : role \in Roles}
                    <=> x \in resolution \/ x \in climax \/ x \in hook \/ x \in left \ hook
      BY <1>7 DEF Roles
    <2> QED BY <1>3, <1>4, <1>5, <1>6, <2>1
  <1>9. \A a, b \in Roles : a # b => cast[a] \cap cast[b] = {}
    BY <1>3, <1>4, <1>5, <1>6, <1>7 DEF Roles
  <1> QED BY <1>8, <1>9 DEF cast

\* Scenes that share out confirmed clips are a sound script.
LEMMA SharedScenesAreSound ==
    ASSUME UNCHANGED <<clips, decided>>, NEW shares, DOMAIN script' = Roles,
           \A role \in Roles : Range(script'[role]) = shares[role],
           UNION {shares[role] : role \in Roles} \in SUBSET Confirmed,
           UNION {shares[role] : role \in Roles} # {},
           \A a, b \in Roles : a # b => shares[a] \cap shares[b] = {}
    PROVE  ScriptIsSound'
  <1> DEFINE shown == UNION {Range(script'[role]) : role \in Roles}
  <1>1. shown = UNION {shares[role] : role \in Roles}
    OBVIOUS
  <1>2. Confirmed' = Confirmed /\ Confirmed \in SUBSET clips
    BY DEF Confirmed
  <1>3. \A role \in Roles : \A i \in DOMAIN script'[role] : script'[role][i] \in clips'
    <2> SUFFICES ASSUME NEW role \in Roles, NEW i \in DOMAIN script'[role]
                 PROVE  script'[role][i] \in clips'
      OBVIOUS
    <2>1. script'[role][i] \in Range(script'[role])
      BY DEF Range
    <2> QED BY <1>2, <2>1
  <1>4. \A a, b \in Roles : a # b => Range(script'[a]) \cap Range(script'[b]) = {}
    OBVIOUS
  <1>5. shown # {} /\ shown \in SUBSET Confirmed'
    BY <1>1, <1>2
  <1> QED BY <1>3, <1>4, <1>5 DEF ScriptIsSound, Executable

\* The director's script is sound.
LEMMA DirectStep ==
    ASSUME StoryInv, Direct
    PROVE  ScriptIsSound'
  <1>1. phase = "direct" /\ UNCHANGED <<clips, decided>>
    BY DEF Direct
  <1>2. CASE Confirmed = {}
    BY <1>2 DEF Direct, ScriptIsSound
  <1>3. CASE Confirmed # {}
    <2> DEFINE cast == Cast(Confirmed)
               shares == [role \in Roles |-> cast[role]]
    <2>1. script' = [role \in Roles |-> Sorted(cast[role])]
      BY <1>3 DEF Direct
    <2>2. /\ UNION {cast[role] : role \in Roles} = Confirmed
          /\ \A a, b \in Roles : a # b => cast[a] \cap cast[b] = {}
      BY CastSharesOut
    <2> HIDE DEF cast
    <2>3. Confirmed \in SUBSET clips
      BY DEF Confirmed
    <2>4. \A role \in Roles : Range(Sorted(cast[role])) = cast[role]
      <3> SUFFICES ASSUME NEW role \in Roles PROVE Range(Sorted(cast[role])) = cast[role]
        OBVIOUS
      <3>1. cast[role] \in SUBSET clips
        BY <2>2, <2>3
      <3> QED BY <1>1, <3>1, SortedShowsAll
    <2>5. /\ DOMAIN script' = Roles
          /\ \A role \in Roles : Range(script'[role]) = shares[role]
      BY <2>1, <2>4
    <2>6. /\ UNION {shares[role] : role \in Roles} = Confirmed
          /\ \A a, b \in Roles : a # b => shares[a] \cap shares[b] = {}
      BY <2>2
    <2> HIDE DEF shares
    <2> QED BY <1>1, <1>3, <2>5, <2>6, SharedScenesAreSound
  <1> QED BY <1>2, <1>3

\* So is a script a model composes.
LEMMA ComposeStep ==
    ASSUME StoryInv, Compose
    PROVE  ScriptIsSound'
  <1>1. phase = "direct" /\ UNCHANGED <<clips, decided>> /\ script' \in Composed(Confirmed)
    BY DEF Compose
  <1>2. PICK roles \in [Confirmed -> Roles \cup {"unused"}] :
            /\ \E c \in Confirmed : roles[c] # "unused"
            /\ script' = [role \in Roles |-> SetToSeq({c \in Confirmed : roles[c] = role})]
    BY <1>1 DEF Composed
  <1> DEFINE shares == [role \in Roles |-> {c \in Confirmed : roles[c] = role}]
  <1>3. IsFiniteSet(clips) /\ Confirmed \in SUBSET clips
    BY <1>1 DEF StoryInv, ClipsAreTold, Confirmed
  <1>4. \A role \in Roles : Range(script'[role]) = shares[role]
    <2> SUFFICES ASSUME NEW role \in Roles PROVE Range(script'[role]) = shares[role]
      OBVIOUS
    <2> DEFINE S == {c \in Confirmed : roles[c] = role}
    <2>1. script'[role] = SetToSeq(S) /\ shares[role] = S
      BY <1>2
    <2>2. S \in SUBSET clips
      BY <1>3
    <2> HIDE DEF S, shares
    <2>3. IsFiniteSet(S)
      BY <1>3, <2>2, FS_Subset
    <2>4. Range(SetToSeq(S)) = S
      BY <2>3, SequenceShowsAll
    <2> QED BY <2>1, <2>4
  <1>5. DOMAIN script' = Roles
    BY <1>2
  <1>6. UNION {shares[role] : role \in Roles} \in SUBSET Confirmed
    OBVIOUS
  <1>7. UNION {shares[role] : role \in Roles} # {}
    BY <1>2
  <1>8. \A a, b \in Roles : a # b => shares[a] \cap shares[b] = {}
    OBVIOUS
  <1> HIDE DEF shares
  <1> QED BY <1>1, <1>4, <1>5, <1>6, <1>7, <1>8, SharedScenesAreSound

-----------------------------------------------------------------------------
(* The theorems.                                                           *)

\* What holds all along holds at first,
LEMMA StoryInvFirst == StoryInit => StoryInv
  <1> SUFFICES ASSUME StoryInit PROVE StoryInv
    OBVIOUS
  <1>1. HighlightsAreTold
    BY RideAndFootageAssumption DEF StoryInit, HighlightsAreTold
  <1>2. EventsAreTold
    BY FS_EmptySet DEF StoryInit, EventsAreTold, Identified
  <1> QED BY <1>1, <1>2 DEF StoryInit, StoryInv, ClipsAreTold, PlanFollowsFootage, ScriptIsSound

\* and every step keeps it.
LEMMA StoryInvKept == StoryInv /\ [StoryNext]_storyVars => StoryInv'
  <1> SUFFICES ASSUME StoryInv, [StoryNext]_storyVars PROVE StoryInv'
    OBVIOUS
  <1> USE DEF StoryInv
  <1>1. CASE FindEvents
    <2>1. EventsAreTold'
      BY <1>1, FindEventsStep
    <2>2. HighlightsAreTold'
      BY <1>1 DEF FindEvents, HighlightsAreTold
    <2> QED BY <1>1, <2>1, <2>2 DEF FindEvents, ClipsAreTold, PlanFollowsFootage, ScriptIsSound
  <1>2. CASE PlanClips
    <2>1. ClipsAreTold' /\ PlanFollowsFootage'
      BY <1>2, PlanClipsStep
    <2>2. HighlightsAreTold'
      BY <1>2 DEF PlanClips, HighlightsAreTold
    <2>3. EventsAreTold'
      BY <1>2 DEF PlanClips, EventsAreTold, Identified
    <2>4. /\ phase' \in {"refused", "choose"} /\ route' \in Routes /\ catalog' \in Catalogs
      BY <1>2 DEF PlanClips
    <2> QED BY <2>1, <2>2, <2>3, <2>4 DEF ScriptIsSound
  <1>3. CASE Choose
    <2>1. UNCHANGED <<phase, route, catalog, offered, events, clips, decided, script>> /\ phase = "choose"
      BY <1>3 DEF Choose
    <2>2. HighlightsAreTold' /\ EventsAreTold' /\ ClipsAreTold'
      BY <2>1 DEF HighlightsAreTold, EventsAreTold, Identified, ClipsAreTold
    <2>3. PlanFollowsFootage' /\ ScriptIsSound'
      BY <2>1 DEF PlanFollowsFootage, Filmed, ScriptIsSound
    <2>4. phase' \in {"choose"} /\ route' \in Routes /\ catalog' \in Catalogs
      BY <2>1
    <2> QED BY <2>2, <2>3, <2>4
  <1>4. CASE Remake
    <2>1. /\ phase' = "route" /\ UNCHANGED <<route, events>>
          /\ catalog' \in Catalogs /\ offered' \in SUBSET offered
      BY <1>4 DEF Remake
    <2>2. HighlightsAreTold'
      BY <2>1, FS_Subset DEF HighlightsAreTold
    <2> QED BY <2>1, <2>2 DEF EventsAreTold, Identified, ClipsAreTold, PlanFollowsFootage, ScriptIsSound
  <1>5. CASE Reinforce
    <2>1. ClipsAreTold'
      BY <1>5, ReinforceStep
    <2>2. phase' = "review" /\ UNCHANGED <<route, catalog, offered, events>>
      BY <1>5 DEF Reinforce
    <2> QED BY <2>1, <2>2 DEF HighlightsAreTold, EventsAreTold, Identified, PlanFollowsFootage, ScriptIsSound
  <1>6. CASE Review
    <2>1. /\ phase = "review" /\ phase' = "direct"
          /\ UNCHANGED <<route, catalog, offered, events, clips>>
      BY <1>6 DEF Review
    <2> QED BY <2>1 DEF HighlightsAreTold, EventsAreTold, Identified, ClipsAreTold,
                        PlanFollowsFootage, ScriptIsSound
  <1>7. CASE Direct
    <2>1. ScriptIsSound'
      BY <1>7, DirectStep
    <2>2. /\ phase = "direct" /\ phase' \in {"directed", "undirected"}
          /\ UNCHANGED <<route, catalog, offered, events, clips>>
      BY <1>7 DEF Direct
    <2> QED BY <2>1, <2>2 DEF HighlightsAreTold, EventsAreTold, Identified, ClipsAreTold, PlanFollowsFootage
  <1>8. CASE Compose
    <2>1. ScriptIsSound'
      BY <1>8, ComposeStep
    <2>2. /\ phase = "direct" /\ phase' = "composed"
          /\ UNCHANGED <<route, catalog, offered, events, clips>>
      BY <1>8 DEF Compose
    <2> QED BY <2>1, <2>2 DEF HighlightsAreTold, EventsAreTold, Identified, ClipsAreTold, PlanFollowsFootage
  <1>9. CASE UNCHANGED storyVars
    <2>1. UNCHANGED <<phase, route, catalog, offered, events, clips, decided, script>>
      BY <1>9 DEF storyVars
    <2>2. HighlightsAreTold' /\ EventsAreTold' /\ ClipsAreTold'
      BY <2>1 DEF HighlightsAreTold, EventsAreTold, Identified, ClipsAreTold
    <2>3. PlanFollowsFootage'
      BY <2>1 DEF PlanFollowsFootage, Filmed
    <2>4. ScriptIsSound'
      <3>1. Confirmed' = Confirmed /\ Executable(script)' = Executable(script)
        BY <2>1 DEF Confirmed, Executable
      <3> QED BY <2>1, <3>1 DEF ScriptIsSound
    <2> QED BY <2>1, <2>2, <2>3, <2>4
  <1> QED BY <1>1, <1>2, <1>3, <1>4, <1>5, <1>6, <1>7, <1>8, <1>9 DEF StoryNext

\* A script shows confirmed clips, each once, and only those that can be cut.
THEOREM ScriptsAreSound == StorySpec => []ScriptIsSound
  <1>1. StoryInv => ScriptIsSound
    BY DEF StoryInv
  <1> QED BY <1>1, StoryInvFirst, StoryInvKept, PTL DEF StorySpec

\* The plan follows the footage, and each highlight put to the owner is one
\* that narrows the clip when it is picked.
THEOREM PlansCanBeCut == StorySpec => []PlanCanBeCut
  <1>1. StoryInv => PlanCanBeCut
    BY OfferedIsTakenHolds DEF StoryInv, PlanCanBeCut
  <1> QED BY <1>1, StoryInvFirst, StoryInvKept, PTL DEF StorySpec

\* Reinforcing cuts a clip down to a highlight of its recording, and loses none.
THEOREM ReinforcingOnlyNarrows == StorySpec => OnlyNarrowed
  <1> DEFINE narrowed ==
        (phase = "choose" /\ phase' = "review") =>
        /\ {clip.event : clip \in clips'} = {clip.event : clip \in clips}
        /\ \A new \in clips' : \E old \in clips :
              /\ new.event = old.event /\ new.asset = old.asset
              /\ old.from <= new.from /\ new.from < new.to /\ new.to <= old.to
              /\ new # old => \E c \in offered :
                    /\ c.start <= catalog[new.asset].start + new.from
                    /\ catalog[new.asset].start + new.to <= c.start + c.length
                    /\ catalog[new.asset].start <= c.start
                    /\ c.start + c.length
                         <= catalog[new.asset].start + catalog[new.asset].length
  <1>1. StoryInv /\ [StoryNext]_storyVars => [narrowed]_storyVars
    <2> SUFFICES ASSUME StoryInv, StoryNext, phase = "choose", phase' = "review"
                 PROVE  narrowed
      BY DEF storyVars
    <2>1. Reinforce
      BY DEF StoryNext, FindEvents, PlanClips, Choose, Remake, Reinforce, Review, Direct, Compose
    <2>2. clips' = {Reinforced(x) : x \in clips}
      BY <2>1 DEF Reinforce
    <2>3. \A old \in clips :
              LET new == Reinforced(old)
                  start == catalog[new.asset].start
              IN  /\ new \in Clip /\ new.event = old.event /\ new.asset = old.asset
                  /\ old.from <= new.from /\ new.from < new.to /\ new.to <= old.to
                  /\ new # old => \E c \in offered :
                        /\ c.start <= start + new.from
                        /\ start + new.to <= c.start + c.length
                        /\ start <= c.start
                        /\ c.start + c.length <= start + catalog[new.asset].length
      BY ReinforcedIs
    <2>4. {x.event : x \in clips'} = {x.event : x \in clips}
      BY <2>2, <2>3
    <2> QED BY <2>2, <2>3, <2>4
  <1>2. [][narrowed]_storyVars <=> OnlyNarrowed
    BY DEF OnlyNarrowed
  <1> QED BY <1>1, <1>2, StoryInvFirst, StoryInvKept, PTL DEF StorySpec
-----------------------------------------------------------------------------
(***************************************************************************)
(* A day is placed on the clock: CameraClock.                              *)
(***************************************************************************)

\* Of finitely many integers one is the least and one is the greatest.
LEMMA EndsOf ==
    ASSUME NEW T \in SUBSET Int, T # {}, IsFiniteSet(T)
    PROVE  /\ Min(T) \in T /\ \A y \in T : Min(T) <= y
           /\ Max(T) \in T /\ \A y \in T : y <= Max(T)
  <1> DEFINE up == {p \in T \X T : p[1] < p[2]}
             down == {p \in T \X T : p[1] > p[2]}
  <1>1. \A x, y \in T : (<<x, y>> \in up <=> x < y) /\ (<<x, y>> \in down <=> x > y)
    OBVIOUS
  <1> HIDE DEF up, down
  <1>2. Orders(up, T)
    BY <1>1 DEF Orders
  <1>3. Orders(down, T)
    BY <1>1 DEF Orders
  <1>4. \E a \in T : \A x \in T \ {a} : <<a, x>> \in up
    BY <1>2, FirstOfFinite
  <1>5. \E a \in T : \A x \in T \ {a} : <<a, x>> \in down
    BY <1>3, FirstOfFinite
  <1>6. PICK a \in T : \A y \in T : a <= y
    <2>1. PICK a \in T : \A x \in T \ {a} : <<a, x>> \in up
      BY <1>4
    <2>2. ASSUME NEW y \in T PROVE a <= y
      <3>1. a \in Int /\ y \in Int
        OBVIOUS
      <3>2. y # a => <<a, y>> \in up
        BY <2>1
      <3>3. <<a, y>> \in up <=> a < y
        BY <1>1
      <3> QED BY <3>1, <3>2, <3>3
    <2> QED BY <2>2
  <1>10. PICK b \in T : \A y \in T : b >= y
    <2>1. PICK b \in T : \A x \in T \ {b} : <<b, x>> \in down
      BY <1>5
    <2>2. ASSUME NEW y \in T PROVE b >= y
      <3>1. b \in Int /\ y \in Int
        OBVIOUS
      <3>2. y # b => <<b, y>> \in down
        BY <2>1
      <3>3. <<b, y>> \in down <=> b > y
        BY <1>1
      <3> QED BY <3>1, <3>2, <3>3
    <2> QED BY <2>2
  <1>7. Min(T) \in T /\ \A y \in T : Min(T) <= y
    BY <1>6 DEF Min
  <1>8. Max(T) \in T /\ \A y \in T : Max(T) >= y
    BY <1>10 DEF Max
  <1>9. \A y \in T : y <= Max(T)
    BY <1>8
  <1> QED BY <1>7, <1>8, <1>9

-----------------------------------------------------------------------------
(* The median.                                                             *)

\* In the values of something there is a k-th, and it is one of them.
LEMMA ValueIs ==
    ASSUME NEW S, IsFiniteSet(S), NEW values \in [S -> Int],
           NEW k \in 1 .. Cardinality(S)
    PROVE  \E i \in S : Value(values, k) = values[i]
  <1> DEFINE upto(v) == {i \in S : values[i] <= v}
             under(v) == {i \in S : values[i] < v}
  <1>1. Cardinality(S) \in Nat /\ k \in Nat /\ k # 0 /\ k <= Cardinality(S)
    <2>1. Cardinality(S) \in Nat
      BY FS_CardinalityType
    <2> QED BY <2>1
  <1>2. \A v : /\ IsFiniteSet(upto(v)) /\ Cardinality(upto(v)) \in Nat
               /\ IsFiniteSet(under(v)) /\ Cardinality(under(v)) \in Nat
    <2> SUFFICES ASSUME NEW v PROVE /\ IsFiniteSet(upto(v)) /\ Cardinality(upto(v)) \in Nat
                                    /\ IsFiniteSet(under(v)) /\ Cardinality(under(v)) \in Nat
      OBVIOUS
    <2>1. upto(v) \in SUBSET S /\ under(v) \in SUBSET S
      OBVIOUS
    <2> HIDE DEF upto, under
    <2>2. IsFiniteSet(upto(v)) /\ IsFiniteSet(under(v))
      BY <2>1, FS_Subset
    <2> QED BY <2>2, FS_CardinalityType
  <1> DEFINE reached == {v \in {values[i] : i \in S} : k <= Cardinality(upto(v))}
  <1>3. IsFiniteSet({values[i] : i \in S})
    BY ImageIsFinite
  <1>4. S # {}
    BY <1>1, FS_EmptySet
  <1>5. {values[i] : i \in S} \in SUBSET Int /\ {values[i] : i \in S} # {}
    BY <1>4
  <1>6. reached # {}
    <2> DEFINE top == Max({values[i] : i \in S})
    <2>1. top \in {values[i] : i \in S} /\ \A y \in {values[i] : i \in S} : y <= top
      BY <1>3, <1>5, EndsOf
    <2> HIDE DEF top
    <2>2. upto(top) = S
      BY <2>1
    <2> HIDE DEF upto
    <2> QED BY <1>1, <2>1, <2>2
  <1>7. IsFiniteSet(reached) /\ reached \in SUBSET Int
    <2>1. reached \in SUBSET {values[i] : i \in S}
      OBVIOUS
    <2> HIDE DEF reached
    <2> QED BY <1>3, <1>5, <2>1, FS_Subset
  <1> DEFINE v == Min(reached)
  <1>8. v \in reached /\ \A y \in reached : v <= y
    <2> HIDE DEF reached
    <2> QED BY <1>6, <1>7, EndsOf
  <1> HIDE DEF v
  <1>9. v \in {values[i] : i \in S} /\ v \in Int /\ k <= Cardinality(upto(v))
    BY <1>8
  <1>10. Cardinality(under(v)) < k
    <2>1. CASE under(v) = {}
      BY <1>1, <2>1, FS_EmptySet
    <2>2. CASE under(v) # {}
      <3> DEFINE less == {values[i] : i \in under(v)}
      <3>1. less # {} /\ less \in SUBSET Int /\ less \in SUBSET {values[i] : i \in S}
        BY <2>2
      <3>2. IsFiniteSet(less)
        <4> HIDE DEF less
        <4> QED BY <1>3, <3>1, FS_Subset
      <3> DEFINE u == Max(less)
      <3>3. u \in less /\ \A y \in less : y <= u
        <4> HIDE DEF less
        <4> QED BY <3>1, <3>2, EndsOf
      <3> HIDE DEF u
      <3>4. u \in {values[i] : i \in S} /\ u < v /\ u \in Int
        BY <1>9, <3>3
      <3>5. \A i \in S : values[i] < v <=> values[i] <= u
        <4> SUFFICES ASSUME NEW i \in S PROVE values[i] < v <=> values[i] <= u
          OBVIOUS
        <4>1. values[i] < v => values[i] \in less
          OBVIOUS
        <4>2. values[i] \in Int
          OBVIOUS
        <4> HIDE DEF less
        <4> QED BY <1>9, <3>3, <3>4, <4>1, <4>2
      <3>6. under(v) = upto(u)
        BY <3>5
      <3>7. u \notin reached
        <4> HIDE DEF reached
        <4> QED BY <1>8, <1>9, <3>4
      <3>8. ~(k <= Cardinality(upto(u)))
        BY <3>4, <3>7
      <3>9. Cardinality(upto(u)) \in Nat
        BY <1>2
      <3> HIDE DEF upto, under
      <3> QED BY <1>1, <3>6, <3>8, <3>9
    <2> QED BY <2>1, <2>2
  <1>11. \E w \in Range(values) : /\ Cardinality({i \in DOMAIN values : values[i] < w}) < k
                                  /\ k <= Cardinality({i \in DOMAIN values : values[i] <= w})
    <2>1. DOMAIN values = S /\ v \in Range(values)
      BY <1>9 DEF Range
    <2> QED BY <1>9, <1>10, <2>1
  <1>12. Value(values, k) \in Range(values)
    BY <1>11 DEF Value
  <1> QED BY <1>12 DEF Range

\* A median is between what its values are between.
LEMMA MedianIsBetween ==
    ASSUME NEW S, IsFiniteSet(S), S # {}, NEW values \in [S -> Int], NEW lo \in Int, NEW hi \in Int,
           \A i \in S : lo <= values[i] /\ values[i] <= hi
    PROVE  Median(values) \in Int /\ lo <= Median(values) /\ Median(values) <= hi
  <1> DEFINE n == Cardinality(S)
             a == Value(values, (n + 1) \div 2)
             b == Value(values, (n \div 2) + 1)
  <1>1. n \in Nat /\ n # 0
    BY FS_CardinalityType, FS_EmptySet
  <1>2. Median(values) = (a + b) \div 2
    <2>1. DOMAIN values = S
      OBVIOUS
    <2> QED BY <2>1 DEF Median
  <1>3. (n + 1) \div 2 \in 1 .. n /\ (n \div 2) + 1 \in 1 .. n
    <2> HIDE DEF n
    <2> QED BY <1>1
  <1>4. \E i \in S : a = values[i]
    BY <1>3, ValueIs
  <1>5. \E i \in S : b = values[i]
    BY <1>3, ValueIs
  <1> HIDE DEF a, b
  <1>6. a \in Int /\ b \in Int /\ lo <= a /\ a <= hi /\ lo <= b /\ b <= hi
    BY <1>4, <1>5
  <1>7. (a + b) \div 2 \in Int /\ lo <= (a + b) \div 2 /\ (a + b) \div 2 <= hi
    <2>1. a + b \in Int /\ 2 * lo <= a + b /\ a + b <= 2 * hi
      BY <1>6
    <2> QED BY <2>1
  <1> QED BY <1>2, <1>7

-----------------------------------------------------------------------------
(* The catalog.                                                            *)

\* What a day's files are, one by one and two by two.
LEMMA DayIs ==
    ASSUME day \in Days
    PROVE  /\ IsFiniteSet(day)
           /\ \A f \in day : /\ f.at \in Int /\ f.began \in Int
                             /\ f.length \in Nat /\ f.length # 0 /\ f.off \in Int
                             /\ f.chapter \in Nat
                             /\ f.fixes \in Seq([trusted : BOOLEAN, by : Int])
           /\ \A f, g \in day : f.recording = g.recording =>
                 /\ f.chapter = 0 => f = g
                 /\ g.began = f.began
                 /\ g.chapter = f.chapter + 1 => g.at = f.at + f.length
           /\ \A f \in day : f.began <= f.at /\ (f.chapter \in {0, 1} => f.began = f.at)
           /\ \A f \in day : \A t \in DOMAIN f.fixes :
                 f.fixes[t].trusted => f.fixes[t].by \in -Noise .. Noise
  <1>1. IsFiniteSet(day) /\ day \subseteq DayFile
    BY DayAssumption
  <1>2. ASSUME NEW f \in day
        PROVE  /\ f.at \in Int /\ f.began \in Int
               /\ f.length \in Nat /\ f.length # 0 /\ f.off \in Int
               /\ f.chapter \in Nat
               /\ f.fixes \in Seq([trusted : BOOLEAN, by : Int])
    BY <1>1 DEF DayFile
  <1>3. \A f, g \in day : f.recording = g.recording =>
                 /\ f.chapter = 0 => f = g
                 /\ g.began = f.began
                 /\ g.chapter = f.chapter + 1 => g.at = f.at + f.length
    BY DayAssumption
  <1>4. \A f \in day : \A t \in DOMAIN f.fixes :
                 f.fixes[t].trusted => f.fixes[t].by \in -Noise .. Noise
    BY DayAssumption
  <1>5. \A f \in day : f.began <= f.at /\ (f.chapter \in {0, 1} => f.began = f.at)
    BY DayAssumption
  <1> QED BY <1>1, <1>2, <1>3, <1>4, <1>5

\* The container says when the recording of a file began.
LEMMA BeganIs ==
    ASSUME day \in Days, NEW f \in day
    PROVE  /\ Began(f) \in Int
           /\ Began(f) + f.off = f.began
           /\ f.began \in Int /\ f.began <= f.at
           /\ f.chapter \in {0, 1} => f.began = f.at
  <1>1. f.began \in Int /\ f.off \in Int
    BY DayIs
  <1>2. f.began <= f.at /\ (f.chapter \in {0, 1} => f.began = f.at)
    BY DayIs
  <1> QED BY <1>1, <1>2 DEF Began

\* The chapters of a recording that is whole are numbered from one, and no
\* number is of two of them.
LEMMA ChaptersAre ==
    ASSUME day \in Days, NEW f \in day, WholeRecording(f)
    PROVE  LET n == Cardinality(ChaptersOf(f))
           IN  /\ n \in Nat
               /\ \A g \in ChaptersOf(f) : g.chapter \in 1 .. n
               /\ \A k \in 1 .. n : \E g \in ChaptersOf(f) : g.chapter = k
               /\ \A g, h \in ChaptersOf(f) : g.chapter = h.chapter => g = h
  <1> DEFINE C == ChaptersOf(f)
             n == Cardinality(C)
             number == [g \in C |-> g.chapter]
  <1>1. IsFiniteSet(C)
    <2>1. C \in SUBSET day
      BY DEF ChaptersOf
    <2> QED BY <2>1, DayIs, FS_Subset
  <1>2. {g.chapter : g \in C} = 1 .. n
    BY DEF WholeRecording
  <1> HIDE DEF C
  <1>3. n \in Nat
    BY <1>1, FS_CardinalityType
  <1>4. IsFiniteSet(1 .. n) /\ Cardinality(1 .. n) = n
    <2> HIDE DEF n
    <2>1. Cardinality(1 .. n) = IF 1 > n THEN 0 ELSE n - 1 + 1
      BY <1>3, FS_Interval
    <2>2. IsFiniteSet(1 .. n)
      BY <1>3, FS_Interval
    <2> QED BY <1>3, <2>1, <2>2
  <1>5. number \in Surjection(C, 1 .. n)
    <2>1. \A g \in C : g.chapter \in 1 .. n
      BY <1>2
    <2>2. \A k \in 1 .. n : \E g \in C : g.chapter = k
      BY <1>2
    <2> HIDE DEF n
    <2> QED BY <2>1, <2>2 DEF Surjection
  <1>6. number \in Injection(C, 1 .. n)
    <2> HIDE DEF number
    <2> QED BY <1>1, <1>4, <1>5, FS_SurjSameCardinalityImpliesInj
  <1>7. \A g, h \in C : number[g] = number[h] => g = h
    <2> HIDE DEF number, n
    <2> QED BY <1>6, Zenon DEF Injection, IsInjective
  <1>8. \A g, h \in C : g.chapter = h.chapter => g = h
    BY <1>7
  <1> QED BY <1>2, <1>3, <1>8 DEF C

\* The chapters before one take as long as it was begun after the first.
LEMMA EarlierChaptersAre ==
    ASSUME day \in Days, NEW f \in day, WholeRecording(f)
    PROVE  /\ EarlierChapters(f) \in Int
           /\ Began(f) + EarlierChapters(f) + f.off = f.at
  <1> DEFINE C == ChaptersOf(f)
             n == Cardinality(C)
             L == f.chapter
             c(k) == CHOOSE g \in C : g.chapter = k
             cumulative[k \in 1 .. L] == IF k = 1 THEN 0 ELSE cumulative[k - 1] + c(k - 1).length
  <1>1. C \in SUBSET day /\ f \in C
    BY DEF ChaptersOf
  <1>2. EarlierChapters(f) = cumulative[L]
    BY DEF EarlierChapters
  <1>3. n \in Nat /\ \A g \in C : g.chapter \in 1 .. n
    BY ChaptersAre
  <1>4. \A k \in 1 .. n : c(k) \in C /\ c(k).chapter = k
    BY ChaptersAre
  <1>5. \A g, h \in C : g.chapter = h.chapter => g = h
    BY ChaptersAre
  <1>6. \A g, h \in C : h.chapter = g.chapter + 1 => h.at = g.at + g.length
    <2>1. \A g, h \in C : g.recording = h.recording
      BY DEF ChaptersOf
    <2> QED BY <1>1, <2>1, DayIs
  <1>7. L \in 1 .. n /\ 1 \in 1 .. n
    BY <1>1, <1>3
  <1>8. c(L) = f
    BY <1>1, <1>4, <1>5, <1>7
  <1> HIDE DEF C, n, c
  <1>9. \A k \in 1 .. n : c(k).at \in Int /\ c(k).length \in Nat
    BY <1>1, <1>4, DayIs
  <1>10. ASSUME NEW k \in 1 .. n, k # 1 PROVE c(k).at = c(k - 1).at + c(k - 1).length
    <2>1. k - 1 \in 1 .. n /\ k = (k - 1) + 1
      BY <1>3, <1>10
    <2>2. c(k) \in C /\ c(k - 1) \in C /\ c(k).chapter = k /\ c(k - 1).chapter = k - 1
      BY <1>4, <2>1
    <2>3. c(k).chapter = c(k - 1).chapter + 1
      BY <2>1, <2>2
    <2> QED BY <1>6, <2>2, <2>3
  <1> DEFINE h == [k \in 1 .. L |-> c(k).at - c(1).at]
  <1>11. h = [k \in 1 .. L |-> IF k = 1 THEN 0 ELSE h[k - 1] + c(k - 1).length]
    <2> SUFFICES ASSUME NEW k \in 1 .. L
                 PROVE  c(k).at - c(1).at = IF k = 1 THEN 0 ELSE h[k - 1] + c(k - 1).length
      OBVIOUS
    <2>0. k \in 1 .. n /\ L \in Nat
      BY <1>3, <1>7
    <2>1. CASE k = 1
      BY <1>7, <1>9, <2>1
    <2>2. CASE k # 1
      <3>1. k - 1 \in 1 .. L /\ k - 1 \in 1 .. n
        BY <1>3, <1>7, <2>0, <2>2
      <3>2. h[k - 1] = c(k - 1).at - c(1).at
        BY <3>1
      <3>3. c(k).at = c(k - 1).at + c(k - 1).length
        BY <1>10, <2>0, <2>2
      <3>4. c(1).at \in Int /\ c(k - 1).at \in Int /\ c(k - 1).length \in Int
        BY <1>7, <1>9, <3>1
      <3> QED BY <2>2, <3>2, <3>3, <3>4
    <2> QED BY <2>1, <2>2
  <1> HIDE DEF h
  <1>12. cumulative = [k \in 1 .. L |-> IF k = 1 THEN 0 ELSE cumulative[k - 1] + c(k - 1).length]
    BY <1>11 DEF cumulative
  <1> HIDE DEF cumulative
  <1>13. /\ cumulative[1] = 0
         /\ \A k \in 1 .. L : k # 1 => cumulative[k] = cumulative[k - 1] + c(k - 1).length
    <2>1. \A k \in 1 .. L : cumulative[k] = IF k = 1 THEN 0 ELSE cumulative[k - 1] + c(k - 1).length
      BY <1>12, Zenon
    <2>2. 1 \in 1 .. L
      BY <1>7
    <2> QED BY <2>1, <2>2
  <1> DEFINE bad == {k \in 1 .. L : cumulative[k] # c(k).at - c(1).at}
  <1>14. bad = {}
    <2> SUFFICES ASSUME bad # {} PROVE FALSE
      OBVIOUS
    <2>1. PICK k \in bad : \A j \in bad : ~(j < k)
      <3>1. bad \in SUBSET Nat
        OBVIOUS
      <3> HIDE DEF bad
      <3> QED BY <3>1, LeastNatural
    <2>2. k \in 1 .. L /\ cumulative[k] # c(k).at - c(1).at
      BY <2>1
    <2>3. k # 1
      BY <1>7, <1>9, <1>13, <2>2
    <2>4. k - 1 \in 1 .. L /\ k - 1 < k /\ k \in 1 .. n /\ k - 1 \in 1 .. n
      BY <1>3, <1>7, <2>2, <2>3
    <2>5. cumulative[k - 1] = c(k - 1).at - c(1).at
      BY <2>1, <2>4
    <2>6. cumulative[k] = cumulative[k - 1] + c(k - 1).length
      BY <1>13, <2>2, <2>3
    <2>7. c(k).at = c(k - 1).at + c(k - 1).length
      BY <1>10, <2>3, <2>4
    <2>8. c(1).at \in Int /\ c(k - 1).at \in Int /\ c(k - 1).length \in Int /\ c(k).at \in Int
      BY <1>7, <1>9, <2>4
    <2> QED BY <2>2, <2>5, <2>6, <2>7, <2>8
  <1>15. Began(f) \in Int /\ Began(f) + f.off = c(1).at
    <2>1. c(1) \in C /\ c(1).chapter = 1
      BY <1>4, <1>7
    <2>2. c(1) \in day /\ c(1).recording = f.recording
      BY <2>1 DEF C, ChaptersOf
    <2>3. c(1).began = f.began /\ c(1).began = c(1).at
      BY <2>1, <2>2, DayIs
    <2> QED BY <2>3, BeganIs
  <1>16. cumulative[L] = f.at - c(1).at
    <2>1. L \in 1 .. L
      BY <1>7
    <2>2. cumulative[L] = c(L).at - c(1).at
      BY <1>14, <2>1
    <2> QED BY <1>8, <2>2
  <1>17. f.at \in Int /\ f.off \in Int /\ c(1).at \in Int
    BY <1>7, <1>9, DayIs
  <1> QED BY <1>2, <1>15, <1>16, <1>17

\* An entry of the catalog stands where its file was shot.
LEMMA EntryIs ==
    ASSUME day \in Days, NEW f \in day, f.chapter = 0 \/ WholeRecording(f)
    PROVE  /\ CatalogEntry(f).file = f
           /\ CatalogEntry(f).start \in Int
           /\ CatalogEntry(f).start + f.off = f.at
  <1>1. f.at \in Int /\ f.off \in Int /\ f.chapter \in Nat /\ Began(f) \in Int
    BY DayIs, BeganIs
  <1>2. CASE f.chapter = 0
    <2>1. Began(f) + f.off = f.at
      BY <1>2, BeganIs
    <2>2. CatalogEntry(f).file = f /\ CatalogEntry(f).start = Began(f) + 0
      BY <1>2 DEF CatalogEntry
    <2> QED BY <1>1, <2>1, <2>2
  <1>3. CASE f.chapter # 0
    <2>1. EarlierChapters(f) \in Int /\ Began(f) + EarlierChapters(f) + f.off = f.at
      BY <1>3, EarlierChaptersAre
    <2>2. CatalogEntry(f).file = f /\ CatalogEntry(f).start = Began(f) + EarlierChapters(f)
      BY <1>3 DEF CatalogEntry
    <2> QED BY <1>1, <2>1, <2>2
  <1> QED BY <1>2, <1>3

-----------------------------------------------------------------------------
(* The shift proposed.                                                     *)

\* How well a shift does is told in numbers.
LEMMA ScoreIs ==
    ASSUME day \in Days, NEW offset \in Int
    PROVE  /\ Score(offset).offset = offset
           /\ Score(offset).inside \in Nat
           /\ Score(offset).inside <= Cardinality(Recordings)
           /\ Score(offset).clipped \in Nat /\ Score(offset).covered \in Nat
  <1> DEFINE inside == {f \in Recordings : Meets(f, offset) /\ Inside(f, offset)}
             met    == {f \in Recordings : Meets(f, offset)}
             seconds == {t \in RideFrom .. (RideTo - 1) :
                            \E f \in met : From(f, offset) <= t /\ t < To1(f, offset)}
  <1>1. /\ Score(offset).offset = offset /\ Score(offset).inside = Cardinality(inside)
        /\ Score(offset).clipped = Cardinality(met \ inside)
        /\ Score(offset).covered = Cardinality(seconds)
    BY DEF Score
  <1>2. IsFiniteSet(Recordings)
    <2>1. Recordings \in SUBSET day
      BY DEF Recordings
    <2> QED BY <2>1, DayIs, FS_Subset
  <1>3. inside \in SUBSET Recordings /\ met \ inside \in SUBSET Recordings
    OBVIOUS
  <1>4. IsFiniteSet(RideFrom .. (RideTo - 1))
    <2>1. RideFrom \in Int /\ RideTo - 1 \in Int
      BY ClockAssumption
    <2> QED BY <2>1, FS_Interval
  <1>5. seconds \in SUBSET (RideFrom .. (RideTo - 1))
    OBVIOUS
  <1> HIDE DEF inside, met, seconds
  <1>6. IsFiniteSet(inside) /\ Cardinality(inside) <= Cardinality(Recordings)
    BY <1>2, <1>3, FS_Subset
  <1>7. IsFiniteSet(met \ inside) /\ IsFiniteSet(seconds)
    BY <1>2, <1>3, <1>4, <1>5, FS_Subset
  <1>8. Cardinality(inside) \in Nat /\ Cardinality(met \ inside) \in Nat /\ Cardinality(seconds) \in Nat
    BY <1>6, <1>7, FS_CardinalityType
  <1> QED BY <1>1, <1>6, <1>8

\* How far a shift goes.
LEMMA DistanceOf ==
    ASSUME NEW x \in Int
    PROVE  Max({x, -x}) = IF x >= 0 THEN x ELSE -x
  <1>1. -x \in Int
    OBVIOUS
  <1>2. Max({x, -x}) = IF x >= -x THEN x ELSE -x
    BY <1>1, OfTwo
  <1> QED BY <1>2

\* Of two shifts one is better.
BetterOf(scored) == {p \in scored \X scored : p[1] # p[2] /\ Better(p[1], p[2])}

LEMMA ScoresAreOrdered ==
    ASSUME day \in Days, NEW scored, scored = {Score(offset) : offset \in Steps}
    PROVE  /\ Orders(BetterOf(scored), scored)
           /\ \A a, b \in scored : <<a, b>> \in BetterOf(scored) <=> a # b /\ Better(a, b)
  <1> DEFINE R == BetterOf(scored)
             far(a) == IF a.offset >= 0 THEN a.offset ELSE -a.offset
  <1>1. \A a, b \in scored : <<a, b>> \in R <=> a # b /\ Better(a, b)
    BY DEF BetterOf
  <1>2. ASSUME NEW a \in scored
        PROVE  /\ a.offset \in Int /\ a.inside \in Int /\ a.clipped \in Int /\ a.covered \in Int
               /\ a = Score(a.offset)
               /\ Max({a.offset, -a.offset}) = far(a)
    <2>1. PICK offset \in Steps : a = Score(offset)
      OBVIOUS
    <2>2. offset \in Int
      BY ClockAssumption
    <2>3. a.offset = offset /\ a.inside \in Int /\ a.clipped \in Int /\ a.covered \in Int
      BY <2>1, <2>2, ScoreIs
    <2>4. Max({a.offset, -a.offset}) = far(a)
      BY <2>2, <2>3, DistanceOf
    <2> QED BY <2>1, <2>2, <2>3, <2>4
  <1>3. ASSUME NEW a \in scored, NEW b \in scored
        PROVE  Better(a, b) <=>
                 \/ a.inside > b.inside
                 \/ a.inside = b.inside /\ a.clipped < b.clipped
                 \/ a.inside = b.inside /\ a.clipped = b.clipped /\ a.covered > b.covered
                 \/ /\ a.inside = b.inside /\ a.clipped = b.clipped /\ a.covered = b.covered
                    /\ \/ far(a) < far(b)
                       \/ a.offset = -b.offset /\ a.offset <= b.offset
    BY <1>2 DEF Better
  <1>4. ASSUME NEW a \in scored, NEW b \in scored, a # b PROVE a.offset # b.offset
    <2>1. a = Score(a.offset) /\ b = Score(b.offset)
      BY <1>2
    <2> QED BY <1>4, <2>1
  <1>5. ASSUME NEW a \in scored, NEW b \in scored, a # b PROVE Better(a, b) \/ Better(b, a)
    <2>1. a.offset \in Int /\ a.inside \in Int /\ a.clipped \in Int /\ a.covered \in Int
      BY <1>2
    <2>2. b.offset \in Int /\ b.inside \in Int /\ b.clipped \in Int /\ b.covered \in Int
      BY <1>2
    <2>3. a.offset # b.offset
      BY <1>4, <1>5
    <2> QED BY <1>3, <2>1, <2>2, <2>3
  <1>6. ASSUME NEW a \in scored, NEW b \in scored, NEW c \in scored,
               a # b, b # c, Better(a, b), Better(b, c)
        PROVE  a # c /\ Better(a, c)
    <2>1. a.offset \in Int /\ a.inside \in Int /\ a.clipped \in Int /\ a.covered \in Int
      BY <1>2
    <2>2. b.offset \in Int /\ b.inside \in Int /\ b.clipped \in Int /\ b.covered \in Int
      BY <1>2
    <2>3. c.offset \in Int /\ c.inside \in Int /\ c.clipped \in Int /\ c.covered \in Int
      BY <1>2
    <2>4. a.offset # b.offset /\ b.offset # c.offset
      BY <1>4, <1>6
    <2>5. a # c
      <3> SUFFICES ASSUME a = c PROVE FALSE
        OBVIOUS
      <3>1. Better(b, a)
        BY <1>6
      <3> QED BY <1>3, <1>6, <2>1, <2>2, <2>4, <3>1
    <2>6. Better(a, c)
      BY <1>3, <1>6, <2>1, <2>2, <2>3, <2>4
    <2> QED BY <2>5, <2>6
  <1> HIDE DEF R
  <1>7. Orders(R, scored)
    BY <1>1, <1>5, <1>6 DEF Orders
  <1> QED BY <1>1, <1>7 DEF R

\* Shot on one clock during the ride, every recording is put inside it by the
\* shift that is right.
LEMMA RightShiftFits ==
    ASSUME day \in Days, NEW o \in Int, \A f \in Recordings : f.off = o,
           \A f \in day : RideFrom <= f.began /\ f.at + f.length <= RideTo
    PROVE  Score(o).inside = Cardinality(Recordings)
  <1> DEFINE inside == {f \in Recordings : Meets(f, o) /\ Inside(f, o)}
  <1>1. ASSUME NEW f \in Recordings PROVE Meets(f, o) /\ Inside(f, o)
    <2>1. f \in day /\ f.off = o
      BY DEF Recordings
    <2>2. Began(f) \in Int /\ f.at \in Int /\ f.length \in Nat /\ f.length # 0
          /\ RideFrom \in Int /\ RideTo \in Int
      BY <2>1, DayIs, BeganIs, ClockAssumption
    <2>3. Began(f) + f.off = f.began /\ f.began <= f.at
      BY <2>1, BeganIs
    <2>4. RideFrom <= Began(f) + f.off
      BY <2>1, <2>3
    <2>5. Began(f) + f.off <= f.at
      BY <2>3
    <2>6. f.at + f.length <= RideTo
      BY <2>1
    <2>7. From(f, o) = Began(f) + f.off /\ To1(f, o) = Began(f) + f.off + f.length
      BY <2>1 DEF From, To1
    <2>8. PICK u \in Int : u = Began(f) + f.off
      BY <2>1, <2>2
    <2>9. From(f, o) = u /\ To1(f, o) = u + f.length /\ RideFrom <= u /\ u <= f.at
      BY <2>4, <2>5, <2>7, <2>8
    <2> QED BY <2>2, <2>6, <2>9 DEF Meets, Inside
  <1>2. inside = Recordings
    BY <1>1
  <1>3. Score(o).inside = Cardinality(inside)
    BY DEF Score
  <1> QED BY <1>2, <1>3

\* The shift that is proposed is the right one for a day that is as it should
\* be, or not the only one.
ProposalIsRight ==
    LET off == {f.off : f \in Recordings}
    IN  (Recordings # {} /\ Cardinality(off) = 1 /\ off \subseteq Steps
           /\ \A f \in day : RideFrom <= f.began /\ f.at + f.length <= RideTo)
        => proposal.found /\ (proposal.sure => proposal.offset \in off)

LEMMA ProposeStep ==
    ASSUME day \in Days, ProposeClockOffset
    PROVE  ProposalIsRight'
  <1> DEFINE off == {f.off : f \in Recordings}
             scored == {Score(offset) : offset \in Steps}
             best == CHOOSE s \in scored : \A other \in scored : s = other \/ Better(s, other)
             R == BetterOf(scored)
  <1>1. day' = day
    BY DEF ProposeClockOffset
  <1>2. Recordings' = Recordings
    BY <1>1 DEF Recordings
  <1>3. proposal' = IF Recordings = {} \/ best.inside = 0 THEN Nowhere
                    ELSE [offset |-> best.offset, found |-> TRUE,
                          sure |-> \A s \in scored \ {best} : s.inside < best.inside]
    BY DEF ProposeClockOffset
  <1>4. SUFFICES ASSUME Recordings # {}, Cardinality(off) = 1, off \subseteq Steps,
                        \A f \in day : RideFrom <= f.began /\ f.at + f.length <= RideTo
                 PROVE  proposal'.found /\ (proposal'.sure => proposal'.offset \in off)
    BY <1>1, <1>2 DEF ProposalIsRight
  <1>5. IsFiniteSet(Recordings)
    <2>1. Recordings \in SUBSET day
      BY DEF Recordings
    <2> QED BY <2>1, DayIs, FS_Subset
  <1>6. IsFiniteSet(off)
    <2> DEFINE shift == [f \in Recordings |-> f.off]
    <2>1. shift = [f \in Recordings |-> shift[f]] /\ off = {shift[f] : f \in Recordings}
      OBVIOUS
    <2> HIDE DEF shift, off
    <2>2. IsFiniteSet({shift[f] : f \in Recordings})
      BY <1>5, <2>1, ImageIsFinite
    <2> QED BY <2>1, <2>2
  <1>7. PICK o : off = {o}
    <2> HIDE DEF off
    <2> QED BY <1>4, <1>6, FS_Singleton
  <1>8. o \in Steps /\ o \in Int /\ \A f \in Recordings : f.off = o
    <2>1. o \in Steps
      BY <1>4, <1>7
    <2> QED BY <1>7, <2>1, ClockAssumption
  <1>9. Score(o).inside = Cardinality(Recordings)
    BY <1>4, <1>8, RightShiftFits
  <1>10. Cardinality(Recordings) \in Nat /\ Cardinality(Recordings) # 0
    BY <1>4, <1>5, FS_CardinalityType, FS_EmptySet
  <1>11. IsFiniteSet(scored) /\ Score(o) \in scored
    <2> DEFINE tried == [offset \in Steps |-> Score(offset)]
    <2>1. tried = [offset \in Steps |-> tried[offset]] /\ scored = {tried[offset] : offset \in Steps}
      OBVIOUS
    <2>2. IsFiniteSet(Steps)
      BY ClockAssumption
    <2>3. Score(o) \in scored
      BY <1>8
    <2> HIDE DEF tried, scored
    <2>4. IsFiniteSet({tried[offset] : offset \in Steps})
      BY <2>1, <2>2, ImageIsFinite
    <2> QED BY <2>1, <2>3, <2>4
  <1>12. Orders(R, scored) /\ \A a, b \in scored : <<a, b>> \in R <=> a # b /\ Better(a, b)
    BY ScoresAreOrdered
  <1>13. \A s \in scored : /\ s.inside \in Nat /\ s.inside <= Cardinality(Recordings)
    <2> SUFFICES ASSUME NEW offset \in Steps
                 PROVE  /\ Score(offset).inside \in Nat
                        /\ Score(offset).inside <= Cardinality(Recordings)
      OBVIOUS
    <2>1. offset \in Int
      BY ClockAssumption
    <2> QED BY <2>1, ScoreIs
  <1> HIDE DEF scored, R, off
  <1>14. best \in scored /\ \A other \in scored : best = other \/ Better(best, other)
    <2>1. PICK b \in scored : \A x \in scored \ {b} : <<b, x>> \in R
      BY <1>11, <1>12, FirstOfFinite
    <2>2. \A other \in scored : b = other \/ Better(b, other)
      BY <1>12, <2>1
    <2> QED BY <2>2
  <1> HIDE DEF best
  <1>15. best.inside = Cardinality(Recordings)
    <2>1. best.inside \in Nat /\ best.inside <= Cardinality(Recordings)
      BY <1>13, <1>14
    <2>2. best = Score(o) \/ Better(best, Score(o))
      BY <1>11, <1>14
    <2>3. Better(best, Score(o)) => best.inside >= Score(o).inside
      <3>1. Score(o).inside \in Nat
        BY <1>9, <1>10
      <3> QED BY <2>1, <3>1 DEF Better
    <2> QED BY <1>9, <1>10, <2>1, <2>2, <2>3
  <1>16. proposal' = [offset |-> best.offset, found |-> TRUE,
                      sure |-> \A s \in scored \ {best} : s.inside < best.inside]
    BY <1>3, <1>4, <1>10, <1>15
  <1>17. ASSUME proposal'.sure PROVE proposal'.offset \in off
    <2>1. \A s \in scored \ {best} : s.inside < best.inside
      BY <1>16, <1>17
    <2>2. Score(o) = best
      BY <1>9, <1>10, <1>11, <1>15, <2>1
    <2>3. Score(o).offset = o
      BY <1>8, ScoreIs
    <2> QED BY <1>7, <1>16, <2>2, <2>3
  <1> QED BY <1>16, <1>17

-----------------------------------------------------------------------------
(* The clock of the camera's own GPS.                                      *)

\* The catalog lists files of the day, finitely many, where they were shot.
EntriesAre ==
    /\ IsFiniteSet(entries)
    /\ \A e \in entries : e.file \in day /\ e.start \in Int /\ e.start + e.file.off = e.file.at

\* What a recording's own fixes say is right to within their noise.
LEMMA RecordingClockIs ==
    ASSUME day \in Days, EntriesAre, NEW e \in entries, RecordingClock(e).found
    PROVE  /\ RecordingClock(e).offset \in Int
           /\ e.file.off - Noise <= RecordingClock(e).offset
           /\ RecordingClock(e).offset <= e.file.off + Noise
  <1> DEFINE seconds == {t \in DOMAIN e.file.fixes : Trusted(e.file.fixes[t])}
             values == [t \in seconds |-> (e.file.at + e.file.fixes[t].by) - e.start]
  <1>1. e.file \in day /\ e.start \in Int /\ e.start + e.file.off = e.file.at
    BY DEF EntriesAre
  <1>2. e.file.at \in Int /\ e.file.off \in Int
        /\ e.file.fixes \in Seq([trusted : BOOLEAN, by : Int])
    BY <1>1, DayIs
  <1>3. ~(Cardinality(seconds) < MinFixes) /\ RecordingClock(e).offset = Median(values)
    <2>1. RecordingClock(e) = IF Cardinality(seconds) < MinFixes THEN Nowhere
                              ELSE [offset |-> Median(values), found |-> TRUE, sure |-> TRUE]
      BY DEF RecordingClock
    <2>2. ~Nowhere.found
      BY DEF Nowhere
    <2> HIDE DEF seconds, values
    <2> QED BY <2>1, <2>2
  <1>4. IsFiniteSet(seconds)
    <2>1. Len(e.file.fixes) \in Nat /\ DOMAIN e.file.fixes = 1 .. Len(e.file.fixes)
      BY <1>2
    <2>2. IsFiniteSet(1 .. Len(e.file.fixes))
      BY <2>1, FS_Interval
    <2>3. seconds \in SUBSET (1 .. Len(e.file.fixes))
      BY <2>1
    <2> HIDE DEF seconds
    <2> QED BY <2>2, <2>3, FS_Subset
  <1>5. seconds # {}
    <2> HIDE DEF seconds, values
    <2>1. MinFixes \in Nat /\ MinFixes # 0
      BY ClockAssumption
    <2>2. SUFFICES ASSUME seconds = {} PROVE FALSE
      OBVIOUS
    <2>3. Cardinality(seconds) = 0
      BY <2>2, FS_EmptySet
    <2> QED BY <1>3, <2>1, <2>3
  <1>6. Noise \in Int
    BY ClockAssumption
  <1>7. ASSUME NEW t \in seconds
        PROVE  /\ values[t] \in Int
               /\ e.file.off - Noise <= values[t] /\ values[t] <= e.file.off + Noise
    <2>1. t \in DOMAIN e.file.fixes /\ e.file.fixes[t].trusted
      BY DEF Trusted
    <2>2. e.file.fixes[t].by \in -Noise .. Noise
      BY <1>1, <2>1, DayIs
    <2>3. values[t] = (e.file.at + e.file.fixes[t].by) - e.start
      OBVIOUS
    <2>4. PICK b \in -Noise .. Noise : b = e.file.fixes[t].by
      BY <2>2
    <2> HIDE DEF values
    <2>5. values[t] = (e.file.at + b) - e.start
      BY <2>3, <2>4
    <2> QED BY <1>1, <1>2, <1>6, <2>5
  <1>8. values \in [seconds -> Int]
    BY <1>7
  <1> DEFINE lo == e.file.off - Noise
             hi == e.file.off + Noise
  <1> HIDE DEF seconds, values
  <1>9. lo \in Int /\ hi \in Int
    BY <1>2, <1>6
  <1>11. \A t \in seconds : lo <= values[t] /\ values[t] <= hi
    BY <1>7
  <1> HIDE DEF lo, hi
  <1>10. Median(values) \in Int /\ lo <= Median(values) /\ Median(values) <= hi
    BY <1>4, <1>5, <1>8, <1>9, <1>11, MedianIsBetween
  <1> QED BY <1>3, <1>10 DEF lo, hi

\* What the GPS is sure of is right for each recording it placed, to within
\* what their fixes and they may differ by.
GpsIsRight ==
    gps.sure => \A e \in PlacedInRide :
        gps.offset - e.file.off \in (-(Agreement + Noise)) .. (Agreement + Noise)

LEMMA DayClockStep ==
    ASSUME day \in Days, EntriesAre, DayClock
    PROVE  GpsIsRight'
  <1> DEFINE offsets == [e \in PlacedInRide |-> RecordingClock(e).offset]
             told == Range(offsets)
  <1>1. day' = day /\ entries' = entries
    BY DEF DayClock
  <1>2. PlacedInRide' = PlacedInRide
    BY <1>1 DEF PlacedInRide, RecordingClock, Median, Value, Trusted, Nowhere
  <1>3. gps' = IF PlacedInRide = {} THEN Nowhere
               ELSE [offset |-> Median(offsets), found |-> TRUE,
                     sure |-> Max(told) - Min(told) <= Agreement]
    BY DEF DayClock
  <1>4. SUFFICES ASSUME gps'.sure, NEW e \in PlacedInRide
                 PROVE  gps'.offset - e.file.off \in (-(Agreement + Noise)) .. (Agreement + Noise)
    BY <1>2 DEF GpsIsRight
  <1>5. gps'.offset = Median(offsets) /\ Max(told) - Min(told) <= Agreement
    <2>1. PlacedInRide # {}
      BY <1>4
    <2> HIDE DEF offsets, told
    <2> QED BY <1>3, <1>4, <2>1
  <1>6. \A x \in PlacedInRide : x \in entries /\ RecordingClock(x).found
    BY DEF PlacedInRide
  <1>7. IsFiniteSet(PlacedInRide)
    <2>1. PlacedInRide \in SUBSET entries
      BY <1>6
    <2> QED BY <2>1, FS_Subset DEF EntriesAre
  <1>8. \A x \in PlacedInRide : offsets[x] = RecordingClock(x).offset /\ offsets[x] \in Int
    BY <1>6, RecordingClockIs
  <1>9. offsets \in [PlacedInRide -> Int]
    BY <1>8
  <1>10. told = {offsets[x] : x \in PlacedInRide}
    BY DEF Range
  <1>11. IsFiniteSet(told) /\ told \in SUBSET Int /\ told # {}
    <2>1. offsets = [x \in PlacedInRide |-> offsets[x]]
      OBVIOUS
    <2> HIDE DEF offsets, told
    <2>2. IsFiniteSet({offsets[x] : x \in PlacedInRide})
      BY <1>7, <2>1, ImageIsFinite
    <2> QED BY <1>4, <1>9, <1>10, <2>2
  <1> DEFINE lo == Min(told)
             hi == Max(told)
  <1>12. lo \in told /\ hi \in told /\ \A y \in told : lo <= y /\ y <= hi
    <2> HIDE DEF told
    <2> QED BY <1>11, EndsOf
  <1> HIDE DEF offsets, told, lo, hi
  <1>13. lo \in Int /\ hi \in Int
    BY <1>11, <1>12
  <1>14. hi - lo <= Agreement
    BY <1>5 DEF lo, hi
  <1>15. \A x \in PlacedInRide : lo <= offsets[x] /\ offsets[x] <= hi
    BY <1>10, <1>12
  <1>16. Median(offsets) \in Int /\ lo <= Median(offsets) /\ Median(offsets) <= hi
    BY <1>4, <1>7, <1>9, <1>13, <1>15, MedianIsBetween
  <1>17. offsets[e] \in Int /\ e.file.off - Noise <= offsets[e] /\ offsets[e] <= e.file.off + Noise
    BY <1>4, <1>6, <1>8, RecordingClockIs
  <1>18. e.file.off \in Int /\ Noise \in Nat /\ Agreement \in Nat
    <2>1. e.file \in day
      BY <1>4, <1>6 DEF EntriesAre
    <2> QED BY <2>1, DayIs, ClockAssumption
  <1>19. lo <= offsets[e] /\ offsets[e] <= hi
    BY <1>4, <1>15
  <1> QED BY <1>5, <1>13, <1>14, <1>16, <1>17, <1>18, <1>19

-----------------------------------------------------------------------------
(* The invariant of the clock.                                             *)

ClockInv ==
    /\ day \in Days
    /\ clockStep \in {"catalog", "proposal", "gps", "done"}
    /\ EntriesAre
    /\ clockStep \in {"gps", "done"} => ProposalIsRight
    /\ clockStep # "done" => gps = Nowhere
    /\ GpsIsRight

LEMMA ClockBegins == ClockInit => ClockInv
  <1> SUFFICES ASSUME ClockInit PROVE ClockInv
    OBVIOUS
  <1>1. day \in Days /\ clockStep = "catalog" /\ entries = {} /\ gps = Nowhere
    BY DEF ClockInit
  <1>2. EntriesAre
    BY <1>1, FS_EmptySet DEF EntriesAre
  <1>3. GpsIsRight
    BY <1>1 DEF GpsIsRight, Nowhere
  <1> QED BY <1>1, <1>2, <1>3 DEF ClockInv

LEMMA CatalogStep ==
    ASSUME day \in Days, BuildCatalog
    PROVE  EntriesAre'
  <1> DEFINE read == {x \in day : x.probed /\ (x.chapter = 0 \/ WholeRecording(x))}
             made == [f \in read |-> CatalogEntry(f)]
  <1>1. day' = day /\ entries' = {CatalogEntry(f) : f \in read}
    BY DEF BuildCatalog
  <1>2. IsFiniteSet(read)
    <2>1. read \in SUBSET day
      OBVIOUS
    <2> HIDE DEF read
    <2> QED BY <2>1, DayIs, FS_Subset
  <1>3. IsFiniteSet(entries')
    <2>1. made = [f \in read |-> made[f]] /\ entries' = {made[f] : f \in read}
      BY <1>1
    <2> HIDE DEF made, read
    <2>2. IsFiniteSet({made[f] : f \in read})
      BY <1>2, <2>1, ImageIsFinite
    <2> QED BY <2>1, <2>2
  <1>4. ASSUME NEW e \in entries'
        PROVE  e.file \in day /\ e.start \in Int /\ e.start + e.file.off = e.file.at
    <2>1. PICK f \in read : e = CatalogEntry(f)
      BY <1>1
    <2>2. f \in day /\ (f.chapter = 0 \/ WholeRecording(f))
      OBVIOUS
    <2> QED BY <2>1, <2>2, EntryIs
  <1> QED BY <1>1, <1>3, <1>4 DEF EntriesAre

LEMMA ClockGoesOn == ClockInv /\ [ClockNext]_clockVars => ClockInv'
  <1> SUFFICES ASSUME ClockInv, [ClockNext]_clockVars PROVE ClockInv'
    OBVIOUS
  <1> USE DEF ClockInv
  <1>1. CASE BuildCatalog
    <2>1. day' = day /\ clockStep = "catalog" /\ clockStep' = "proposal" /\ gps' = gps
      BY <1>1 DEF BuildCatalog
    <2>2. EntriesAre'
      BY <1>1, CatalogStep
    <2>3. gps' = Nowhere /\ GpsIsRight'
      BY <2>1 DEF GpsIsRight, Nowhere
    <2>4. Nowhere' = Nowhere
      BY DEF Nowhere
    <2> QED BY <2>1, <2>2, <2>3, <2>4
  <1>2. CASE ProposeClockOffset
    <2>1. day' = day /\ entries' = entries /\ clockStep = "proposal" /\ clockStep' = "gps" /\ gps' = gps
      BY <1>2 DEF ProposeClockOffset
    <2>2. EntriesAre'
      BY <2>1 DEF EntriesAre
    <2>3. ProposalIsRight'
      BY <1>2, ProposeStep
    <2>4. gps' = Nowhere /\ GpsIsRight'
      BY <2>1 DEF GpsIsRight, Nowhere
    <2>5. Nowhere' = Nowhere
      BY DEF Nowhere
    <2> QED BY <2>1, <2>2, <2>3, <2>4, <2>5
  <1>3. CASE DayClock
    <2>1. day' = day /\ entries' = entries /\ proposal' = proposal
          /\ clockStep = "gps" /\ clockStep' = "done"
      BY <1>3 DEF DayClock
    <2>2. EntriesAre'
      BY <2>1 DEF EntriesAre
    <2>3. ProposalIsRight'
      BY <2>1 DEF ProposalIsRight, Recordings
    <2>4. GpsIsRight'
      BY <1>3, DayClockStep
    <2> QED BY <2>1, <2>2, <2>3, <2>4
  <1>4. CASE UNCHANGED clockVars
    <2>1. day' = day /\ entries' = entries /\ proposal' = proposal /\ gps' = gps
          /\ clockStep' = clockStep
      BY <1>4 DEF clockVars
    <2>2. EntriesAre' = EntriesAre
      BY <2>1 DEF EntriesAre
    <2>3. ProposalIsRight' = ProposalIsRight
      BY <2>1 DEF ProposalIsRight, Recordings
    <2>4. PlacedInRide' = PlacedInRide
      BY <2>1 DEF PlacedInRide, RecordingClock, Median, Value, Trusted, Nowhere
    <2>5. GpsIsRight' = GpsIsRight
      BY <2>1, <2>4 DEF GpsIsRight
    <2>6. Nowhere' = Nowhere
      BY DEF Nowhere
    <2> QED BY <2>1, <2>2, <2>3, <2>5, <2>6
  <1> QED BY <1>1, <1>2, <1>3, <1>4 DEF ClockNext

LEMMA ClockInvSays == ClockInv => DayIsPlaced
  <1> SUFFICES ASSUME ClockInv PROVE DayIsPlaced
    OBVIOUS
  <1>1. CatalogIsTrue
    BY DEF CatalogIsTrue, ClockInv, EntriesAre
  <1>2. clockStep = "done" => ProposalIsRight
    BY DEF ClockInv
  <1>3. GpsIsRight
    BY DEF ClockInv
  <1>4. ClockIsTrue
    BY <1>2, <1>3 DEF ClockIsTrue, ProposalIsRight, GpsIsRight
  <1> QED BY <1>1, <1>4 DEF DayIsPlaced

\* A day's recordings are placed where they were shot, by the catalog for
\* every number of chapters, and by the shift and the GPS or it is said that
\* they may not be.
THEOREM DaysArePlaced == ClockSpec => []DayIsPlaced
  <1> QED BY ClockBegins, ClockGoesOn, ClockInvSays, PTL DEF ClockSpec

-----------------------------------------------------------------------------
(***************************************************************************)
(* An order is bought: WindowOrder.                                        *)
(***************************************************************************)

\* One is before another in a sequence; a sequence keeps to an order.
Puts(s, v, w)   == \E i, j \in DOMAIN s : i < j /\ s[i] = v /\ s[j] = w
Keeps(s, order) == \A i, j \in DOMAIN order : i < j => Puts(s, order[i], order[j])

\* Sequences that share out what is in them.
Shared(S, ss) ==
    /\ ss \in Seq(Seq(S))
    /\ \A k \in DOMAIN ss : IsInjective(ss[k])
    /\ \A k, l \in DOMAIN ss : \A i \in DOMAIN ss[k], j \in DOMAIN ss[l] :
          ss[k][i] = ss[l][j] => k = l

\* One sequence after another: what either says of an order it says.
LEMMA CatIs ==
    ASSUME NEW S, NEW a \in Seq(S), NEW b \in Seq(S), IsInjective(a), IsInjective(b),
           \A i \in DOMAIN a, j \in DOMAIN b : a[i] # b[j]
    PROVE  /\ a \o b \in Seq(S) /\ IsInjective(a \o b)
           /\ \A x : x \in Range(a \o b) <=> x \in Range(a) \/ x \in Range(b)
           /\ \A v, w : Puts(a, v, w) => Puts(a \o b, v, w)
           /\ \A v, w : Puts(b, v, w) => Puts(a \o b, v, w)
           /\ \A v, w : v \in Range(a) /\ w \in Range(b) => Puts(a \o b, v, w)
           /\ a # <<>> => (a \o b)[1] = a[1]
  <1> DEFINE c == a \o b
             m == Len(a)
             n == Len(b)
  <1>1. /\ c \in Seq(S) /\ m \in Nat /\ n \in Nat /\ DOMAIN a = 1 .. m /\ DOMAIN b = 1 .. n
        /\ DOMAIN c = 1 .. (m + n)
    OBVIOUS
  <1>2. \A i \in 1 .. m : i \in DOMAIN c /\ c[i] = a[i]
    OBVIOUS
  <1>3. \A j \in 1 .. n : m + j \in DOMAIN c /\ c[m + j] = b[j]
    OBVIOUS
  <1>4. \A p \in DOMAIN c : p \in 1 .. m \/ \E j \in 1 .. n : p = m + j
    <2> SUFFICES ASSUME NEW p \in DOMAIN c, p \notin 1 .. m PROVE \E j \in 1 .. n : p = m + j
      OBVIOUS
    <2>1. p \in 1 .. (m + n) /\ p - m \in 1 .. n /\ p = m + (p - m)
      BY <1>1
    <2> QED BY <2>1
  <1> HIDE DEF c, m, n
  <1>5. IsInjective(c)
    <2> SUFFICES ASSUME NEW p \in DOMAIN c, NEW q \in DOMAIN c, c[p] = c[q] PROVE p = q
      BY DEF IsInjective
    <2>1. CASE p \in 1 .. m /\ q \in 1 .. m
      BY <1>1, <1>2, <2>1 DEF IsInjective
    <2>2. CASE p \in 1 .. m /\ q \notin 1 .. m
      <3>1. PICK j \in 1 .. n : q = m + j
        BY <1>4, <2>2
      <3>2. c[p] = a[p] /\ c[q] = b[j] /\ p \in DOMAIN a /\ j \in DOMAIN b
        BY <1>1, <1>2, <1>3, <2>2, <3>1
      <3> QED BY <3>2
    <2>3. CASE p \notin 1 .. m /\ q \in 1 .. m
      <3>1. PICK j \in 1 .. n : p = m + j
        BY <1>4, <2>3
      <3>2. c[q] = a[q] /\ c[p] = b[j] /\ q \in DOMAIN a /\ j \in DOMAIN b
        BY <1>1, <1>2, <1>3, <2>3, <3>1
      <3> QED BY <3>2
    <2>4. CASE p \notin 1 .. m /\ q \notin 1 .. m
      <3>1. PICK i \in 1 .. n : p = m + i
        BY <1>4, <2>4
      <3>2. PICK j \in 1 .. n : q = m + j
        BY <1>4, <2>4
      <3>3. b[i] = b[j]
        BY <1>3, <3>1, <3>2
      <3> QED BY <1>1, <3>1, <3>2, <3>3 DEF IsInjective
    <2> QED BY <2>1, <2>2, <2>3, <2>4
  <1>6. \A x : x \in Range(c) <=> x \in Range(a) \/ x \in Range(b)
    <2>1. ASSUME NEW p \in DOMAIN c PROVE c[p] \in Range(a) \/ c[p] \in Range(b)
      <3>1. CASE p \in 1 .. m
        BY <1>1, <1>2, <3>1 DEF Range
      <3>2. CASE p \notin 1 .. m
        <4>1. PICK j \in 1 .. n : p = m + j
          BY <1>4, <3>2
        <4> QED BY <1>1, <1>3, <4>1 DEF Range
      <3> QED BY <3>1, <3>2
    <2>2. \A i \in DOMAIN a : a[i] \in Range(c)
      BY <1>1, <1>2 DEF Range
    <2>3. \A j \in DOMAIN b : b[j] \in Range(c)
      BY <1>1, <1>3 DEF Range
    <2> QED BY <2>1, <2>2, <2>3 DEF Range
  <1>7. ASSUME NEW v, NEW w, Puts(a, v, w) PROVE Puts(c, v, w)
    BY <1>1, <1>2, <1>7 DEF Puts
  <1>8. ASSUME NEW v, NEW w, Puts(b, v, w) PROVE Puts(c, v, w)
    <2>1. PICK i, j \in 1 .. n : i < j /\ b[i] = v /\ b[j] = w
      BY <1>1, <1>8 DEF Puts
    <2>2. m + i < m + j
      BY <1>1, <2>1
    <2> QED BY <1>3, <2>1, <2>2 DEF Puts
  <1>9. ASSUME NEW v, NEW w, v \in Range(a), w \in Range(b) PROVE Puts(c, v, w)
    <2>1. PICK i \in 1 .. m : a[i] = v
      BY <1>1, <1>9 DEF Range
    <2>2. PICK j \in 1 .. n : b[j] = w
      BY <1>1, <1>9 DEF Range
    <2>3. i < m + j
      BY <1>1
    <2> QED BY <1>2, <1>3, <2>1, <2>2, <2>3 DEF Puts
  <1>10. a # <<>> => c[1] = a[1]
    <2>1. a # <<>> => 1 \in 1 .. m
      BY <1>1 DEF m
    <2> QED BY <1>2, <2>1
  <1> QED BY <1>1, <1>5, <1>6, <1>7, <1>8, <1>9, <1>10 DEF c

\* The first k of some sequences, one after another.
FlatTo(S, ss, k, f) ==
    /\ f \in Seq(S) /\ IsInjective(f)
    /\ \A x : x \in Range(f) <=> \E l \in 1 .. k : x \in Range(ss[l])
    /\ \A l \in 1 .. k : Keeps(f, ss[l])
    /\ \A l, m \in 1 .. k : \A v, w :
          l < m /\ v \in Range(ss[l]) /\ w \in Range(ss[m]) => Puts(f, v, w)
    /\ k # 0 /\ ss[1] # <<>> => f # <<>> /\ f[1] = ss[1][1]

\* A sequence keeps to its own order.
LEMMA KeepsItself ==
    ASSUME NEW s
    PROVE  Keeps(s, s)
  BY DEF Keeps, Puts

LEMMA FlatBegins ==
    ASSUME NEW S, NEW ss, Shared(S, ss), ss # <<>>
    PROVE  FlatTo(S, ss, 1, ss[1])
  <1>1. 1 \in DOMAIN ss /\ ss[1] \in Seq(S) /\ IsInjective(ss[1])
    BY DEF Shared
  <1>2. \A l \in 1 .. 1 : l = 1
    OBVIOUS
  <1>3. Keeps(ss[1], ss[1])
    BY KeepsItself
  <1>4. \A x : x \in Range(ss[1]) <=> \E l \in 1 .. 1 : x \in Range(ss[l])
    BY <1>2
  <1> QED BY <1>1, <1>2, <1>3, <1>4 DEF FlatTo

LEMMA FlatGoesOn ==
    ASSUME NEW S, NEW ss, Shared(S, ss), NEW k \in Nat, k # 0, k + 1 \in DOMAIN ss,
           NEW f, FlatTo(S, ss, k, f)
    PROVE  FlatTo(S, ss, k + 1, f \o ss[k + 1])
  <1> DEFINE b == ss[k + 1]
             g == f \o b
  <1>1. f \in Seq(S) /\ b \in Seq(S) /\ IsInjective(f) /\ IsInjective(b)
    BY DEF Shared, FlatTo
  <1>2. \A l \in 1 .. (k + 1) : l \in 1 .. k \/ l = k + 1
    OBVIOUS
  <1>3. \A l \in 1 .. k : l \in DOMAIN ss /\ l # k + 1
    BY DEF Shared
  <1>4. ASSUME NEW i \in DOMAIN f, NEW j \in DOMAIN b PROVE f[i] # b[j]
    <2>1. f[i] \in Range(f)
      BY DEF Range
    <2>2. PICK l \in 1 .. k : f[i] \in Range(ss[l])
      BY <2>1 DEF FlatTo
    <2>3. PICK p \in DOMAIN ss[l] : ss[l][p] = f[i]
      BY <2>2 DEF Range
    <2>4. l \in DOMAIN ss /\ l # k + 1
      BY <1>3
    <2> QED BY <2>3, <2>4 DEF Shared
  <1>5. /\ g \in Seq(S) /\ IsInjective(g)
        /\ \A x : x \in Range(g) <=> x \in Range(f) \/ x \in Range(b)
        /\ \A v, w : Puts(f, v, w) => Puts(g, v, w)
        /\ \A v, w : Puts(b, v, w) => Puts(g, v, w)
        /\ \A v, w : v \in Range(f) /\ w \in Range(b) => Puts(g, v, w)
        /\ f # <<>> => g[1] = f[1]
    BY <1>1, <1>4, CatIs
  <1>6. g # <<>> \/ f = <<>>
    BY <1>1
  <1> HIDE DEF g
  <1>7. \A x : x \in Range(g) <=> \E l \in 1 .. (k + 1) : x \in Range(ss[l])
    <2>1. \A x : x \in Range(f) <=> \E l \in 1 .. k : x \in Range(ss[l])
      BY DEF FlatTo
    <2>2. 1 .. (k + 1) = (1 .. k) \cup {k + 1}
      BY <1>2
    <2> QED BY <1>5, <2>1, <2>2
  <1>8. \A l \in 1 .. (k + 1) : Keeps(g, ss[l])
    <2>1. \A l \in 1 .. k : Keeps(g, ss[l])
      BY <1>5 DEF FlatTo, Keeps
    <2>2. Keeps(g, b)
      BY <1>5, KeepsItself DEF Keeps
    <2> QED BY <1>2, <2>1, <2>2
  <1>9. ASSUME NEW l \in 1 .. (k + 1), NEW m \in 1 .. (k + 1), NEW v, NEW w,
               l < m, v \in Range(ss[l]), w \in Range(ss[m])
        PROVE  Puts(g, v, w)
    <2>1. l \in 1 .. k
      BY <1>2, <1>9
    <2>2. CASE m \in 1 .. k
      <3>1. Puts(f, v, w)
        BY <1>9, <2>1, <2>2 DEF FlatTo
      <3> QED BY <1>5, <3>1
    <2>3. CASE m = k + 1
      <3>1. v \in Range(f)
        BY <1>9, <2>1 DEF FlatTo
      <3> QED BY <1>5, <1>9, <2>3, <3>1
    <2> QED BY <1>2, <2>2, <2>3
  <1>10. ss[1] # <<>> => g # <<>> /\ g[1] = ss[1][1]
    <2>1. ss[1] # <<>> => f # <<>> /\ f[1] = ss[1][1]
      BY DEF FlatTo
    <2> QED BY <1>5, <1>6, <2>1
  <1> QED BY <1>5, <1>7, <1>8, <1>9, <1>10 DEF FlatTo, g

\* Put one after another, sequences that share out what is in them keep to
\* each of them, and to the order they are put in.
LEMMA FlattenIs ==
    ASSUME NEW S, NEW ss, Shared(S, ss)
    PROVE  FlatTo(S, ss, Len(ss), FlattenSeq(ss))
  <1> DEFINE n == Len(ss)
             flatten[i \in 1 .. n] == IF i = 1 THEN ss[i] ELSE flatten[i - 1] \o ss[i]
  <1>1. n \in Nat /\ DOMAIN ss = 1 .. n /\ \A k \in 1 .. n : ss[k] \in Seq(S)
    BY DEF Shared
  <1>2. CASE n = 0
    <2>1. ss = <<>> /\ FlattenSeq(ss) = <<>>
      BY <1>1, <1>2 DEF FlattenSeq, Shared
    <2>2. <<>> \in Seq(S) /\ IsInjective(<<>>) /\ Range(<<>>) = {} /\ 1 .. 0 = {}
      BY DEF IsInjective, Range
    <2> QED BY <1>2, <2>1, <2>2 DEF FlatTo
  <1>3. CASE n # 0
    <2> DEFINE m == n - 1
               g == [k \in 1 .. m |-> [x \in Seq(S) |-> x \o ss[k + 1]]]
    <2>1. m \in Nat /\ 1 \in 1 .. n
      BY <1>1, <1>3
    <2>2. g \in [1 .. m -> [Seq(S) -> Seq(S)]]
      <3> SUFFICES ASSUME NEW k \in 1 .. m, NEW x \in Seq(S) PROVE x \o ss[k + 1] \in Seq(S)
        OBVIOUS
      <3>1. ss[k + 1] \in Seq(S)
        BY <1>1
      <3> QED BY <3>1
    <2>3. PICK f : Built(m, Seq(S), ss[1], g, f)
      <3>1. ss[1] \in Seq(S)
        BY <1>1, <2>1
      <3> HIDE DEF m, g, n
      <3> QED BY <2>1, <2>2, <3>1, StepByStep
    <2>4. f \in [0 .. m -> Seq(S)] /\ f[0] = ss[1]
      BY <2>3 DEF Built
    <2>5. ASSUME NEW k \in 1 .. m PROVE f[k] = f[k - 1] \o ss[k + 1]
      <3>1. k - 1 \in 0 .. m
        BY <2>1
      <3>2. f[k - 1] \in Seq(S)
        BY <2>4, <3>1
      <3>3. f[k] = g[k][f[k - 1]]
        BY <2>3 DEF Built
      <3> QED BY <3>2, <3>3
    <2> DEFINE h == [i \in 1 .. n |-> f[i - 1]]
    <2>6. h = [i \in 1 .. n |-> IF i = 1 THEN ss[i] ELSE h[i - 1] \o ss[i]]
      <3> SUFFICES ASSUME NEW i \in 1 .. n
                   PROVE  f[i - 1] = IF i = 1 THEN ss[i] ELSE h[i - 1] \o ss[i]
        OBVIOUS
      <3>1. CASE i = 1
        BY <2>4, <3>1
      <3>2. CASE i # 1
        <4>1. i - 1 \in 1 .. m /\ i - 1 \in 1 .. n /\ (i - 1) + 1 = i
          BY <1>1, <3>2
        <4>2. h[i - 1] = f[(i - 1) - 1]
          BY <4>1
        <4>3. f[i - 1] = f[(i - 1) - 1] \o ss[i]
          BY <2>5, <4>1
        <4> QED BY <3>2, <4>2, <4>3
      <3> QED BY <3>1, <3>2
    <2> HIDE DEF h
    <2>7. flatten = [i \in 1 .. n |-> IF i = 1 THEN ss[i] ELSE flatten[i - 1] \o ss[i]]
      BY <2>6 DEF flatten
    <2>8. FlattenSeq(ss) = flatten[n]
      BY <1>3 DEF FlattenSeq
    <2> HIDE DEF flatten
    <2>9. /\ flatten[1] = ss[1]
          /\ \A i \in 1 .. n : i # 1 => flatten[i] = flatten[i - 1] \o ss[i]
      <3>1. \A i \in 1 .. n : flatten[i] = IF i = 1 THEN ss[i] ELSE flatten[i - 1] \o ss[i]
        BY <2>7, Zenon
      <3> QED BY <2>1, <3>1
    <2> DEFINE bad == {i \in 1 .. n : ~FlatTo(S, ss, i, flatten[i])}
    <2>10. bad = {}
      <3> SUFFICES ASSUME bad # {} PROVE FALSE
        OBVIOUS
      <3>1. PICK i \in bad : \A j \in bad : ~(j < i)
        <4>1. bad \in SUBSET Nat
          OBVIOUS
        <4> HIDE DEF bad
        <4> QED BY <4>1, LeastNatural
      <3>2. i \in 1 .. n /\ ~FlatTo(S, ss, i, flatten[i])
        BY <3>1
      <3>3. i # 1
        <4>1. ss # <<>>
          BY <1>1, <1>3
        <4>2. FlatTo(S, ss, 1, ss[1])
          BY <4>1, FlatBegins
        <4> QED BY <2>9, <3>2, <4>2
      <3>4. i - 1 \in 1 .. n /\ i - 1 < i /\ i - 1 \in Nat /\ i - 1 # 0 /\ (i - 1) + 1 = i
        BY <1>1, <3>2, <3>3
      <3>5. FlatTo(S, ss, i - 1, flatten[i - 1])
        BY <3>1, <3>4
      <3>6. flatten[i] = flatten[i - 1] \o ss[i]
        BY <2>9, <3>2, <3>3
      <3>7. FlatTo(S, ss, (i - 1) + 1, flatten[i - 1] \o ss[(i - 1) + 1])
        <4>1. (i - 1) + 1 \in DOMAIN ss
          BY <1>1, <3>2, <3>4
        <4> HIDE DEF n
        <4> QED BY <3>4, <3>5, <4>1, FlatGoesOn
      <3> QED BY <3>2, <3>4, <3>6, <3>7
    <2>11. n \in 1 .. n
      BY <1>1, <1>3
    <2> QED BY <2>8, <2>10, <2>11
  <1> QED BY <1>2, <1>3

-----------------------------------------------------------------------------
(* Reading rounds out.                                                     *)

\* A sequence that has each of S once.
Lists(s, S) == s \in Seq(S) /\ IsInjective(s) /\ \A x \in S : x \in Range(s)

\* The groups of a round have each of S in one of them, and none is empty.
SharesOut(S, round) ==
    /\ Shared(S, round)
    /\ \A k \in DOMAIN round : round[k] # <<>>
    /\ \A x \in S : \E k \in DOMAIN round : x \in Range(round[k])

Firsts(round) == {Head(round[k]) : k \in DOMAIN round}

\* Read out in the order of its winners a round keeps to its groups and to
\* the winners.
LEMMA ReadOutIs ==
    ASSUME NEW S, NEW round, SharesOut(S, round), NEW winners, Lists(winners, Firsts(round))
    PROVE  /\ Lists(ReadOut(winners, round), S)
           /\ \A k \in DOMAIN round : Keeps(ReadOut(winners, round), round[k])
           /\ \A v, w : Puts(winners, v, w) => Puts(ReadOut(winners, round), v, w)
           /\ winners # <<>> => /\ ReadOut(winners, round) # <<>>
                                /\ ReadOut(winners, round)[1] = winners[1]
  <1> DEFINE n == Len(winners)
             of(i) == CHOOSE order \in Range(round) : Head(order) = winners[i]
             ss == [i \in DOMAIN winners |-> of(i)]
             s == ReadOut(winners, round)
  <1>1. n \in Nat /\ DOMAIN winners = 1 .. n /\ \A i \in 1 .. n : winners[i] \in Firsts(round)
    BY DEF Lists
  <1>2. \A k \in DOMAIN round : /\ round[k] \in Seq(S) /\ IsInjective(round[k])
                                /\ 1 \in DOMAIN round[k] /\ Head(round[k]) = round[k][1]
    BY DEF SharesOut, Shared
  <1>3. \A k, l \in DOMAIN round : \A i \in DOMAIN round[k], j \in DOMAIN round[l] :
           round[k][i] = round[l][j] => k = l
    BY DEF SharesOut, Shared
  <1>4. ASSUME NEW i \in 1 .. n
        PROVE  \E k \in DOMAIN round : ss[i] = round[k] /\ Head(round[k]) = winners[i]
    <2>1. \E order \in Range(round) : Head(order) = winners[i]
      BY <1>1 DEF Firsts, Range
    <2>2. of(i) \in Range(round) /\ Head(of(i)) = winners[i]
      BY <2>1
    <2>3. ss[i] = of(i)
      BY <1>1
    <2> HIDE DEF of, ss
    <2> QED BY <2>2, <2>3 DEF Range
  <1>5. s = FlattenSeq(ss)
    BY DEF ReadOut
  <1>6. DOMAIN ss = 1 .. n
    BY <1>1
  <1>7. ss \in [1 .. n -> Seq(S)]
    <2>1. \A i \in 1 .. n : ss[i] \in Seq(S)
      BY <1>2, <1>4
    <2>2. ss = [i \in 1 .. n |-> ss[i]]
      BY <1>1
    <2> HIDE DEF ss
    <2> QED BY <2>1, <2>2
  <1> HIDE DEF ss
  <1>8. ss \in Seq(Seq(S)) /\ Len(ss) = n
    BY <1>1, <1>7
  <1>9. \A k \in DOMAIN round, i \in 1 .. n : Head(round[k]) = winners[i] => ss[i] = round[k]
    <2> SUFFICES ASSUME NEW k \in DOMAIN round, NEW i \in 1 .. n, Head(round[k]) = winners[i]
                 PROVE  ss[i] = round[k]
      OBVIOUS
    <2>1. PICK l \in DOMAIN round : ss[i] = round[l] /\ Head(round[l]) = winners[i]
      BY <1>4
    <2>2. round[k][1] = round[l][1] /\ 1 \in DOMAIN round[k] /\ 1 \in DOMAIN round[l]
      BY <1>2, <2>1
    <2>3. k = l
      BY <1>3, <2>2
    <2> QED BY <2>1, <2>3
  <1>10. Shared(S, ss)
    <2>1. \A i \in 1 .. n : IsInjective(ss[i])
      BY <1>2, <1>4
    <2>2. ASSUME NEW i \in 1 .. n, NEW j \in 1 .. n, NEW p \in DOMAIN ss[i], NEW q \in DOMAIN ss[j],
                 ss[i][p] = ss[j][q]
          PROVE  i = j
      <3>1. PICK k \in DOMAIN round : ss[i] = round[k] /\ Head(round[k]) = winners[i]
        BY <1>4
      <3>2. PICK l \in DOMAIN round : ss[j] = round[l] /\ Head(round[l]) = winners[j]
        BY <1>4
      <3>3. k = l
        BY <1>3, <2>2, <3>1, <3>2
      <3>4. winners[i] = winners[j]
        BY <3>1, <3>2, <3>3
      <3> QED BY <1>1, <3>4 DEF Lists, IsInjective
    <2> QED BY <1>6, <1>8, <2>1, <2>2 DEF Shared
  <1>11. FlatTo(S, ss, n, s)
    BY <1>5, <1>8, <1>10, FlattenIs
  <1> HIDE DEF s, n
  <1>12. \A k \in DOMAIN round : \E i \in 1 .. n : ss[i] = round[k] /\ winners[i] = Head(round[k])
    <2> SUFFICES ASSUME NEW k \in DOMAIN round
                 PROVE  \E i \in 1 .. n : ss[i] = round[k] /\ winners[i] = Head(round[k])
      OBVIOUS
    <2>1. Head(round[k]) \in Firsts(round)
      BY DEF Firsts
    <2>2. PICK i \in 1 .. n : winners[i] = Head(round[k])
      BY <1>1, <2>1 DEF Lists, Range
    <2> QED BY <1>9, <2>2
  <1>13. Lists(s, S)
    <2>1. s \in Seq(S) /\ IsInjective(s)
      BY <1>11 DEF FlatTo
    <2>2. ASSUME NEW x \in S PROVE x \in Range(s)
      <3>1. PICK k \in DOMAIN round : x \in Range(round[k])
        BY DEF SharesOut
      <3>2. PICK i \in 1 .. n : ss[i] = round[k]
        BY <1>12
      <3> QED BY <1>11, <3>1, <3>2 DEF FlatTo
    <2> QED BY <2>1, <2>2 DEF Lists
  <1>14. ASSUME NEW k \in DOMAIN round PROVE Keeps(s, round[k])
    <2>1. PICK i \in 1 .. n : ss[i] = round[k]
      BY <1>12
    <2> QED BY <1>11, <2>1 DEF FlatTo
  <1>15. \A i \in 1 .. n : winners[i] \in Range(ss[i]) /\ ss[i] # <<>> /\ ss[i][1] = winners[i]
    <2> SUFFICES ASSUME NEW i \in 1 .. n
                 PROVE  winners[i] \in Range(ss[i]) /\ ss[i] # <<>> /\ ss[i][1] = winners[i]
      OBVIOUS
    <2>1. PICK k \in DOMAIN round : ss[i] = round[k] /\ Head(round[k]) = winners[i]
      BY <1>4
    <2>2. 1 \in DOMAIN ss[i] /\ ss[i][1] = winners[i] /\ ss[i] \in Seq(S)
      BY <1>2, <2>1
    <2> QED BY <2>2 DEF Range
  <1>16. ASSUME NEW v, NEW w, Puts(winners, v, w) PROVE Puts(s, v, w)
    <2>1. PICK i \in 1 .. n, j \in 1 .. n : i < j /\ winners[i] = v /\ winners[j] = w
      BY <1>1, <1>16 DEF Puts
    <2>2. v \in Range(ss[i]) /\ w \in Range(ss[j])
      BY <1>15, <2>1
    <2> QED BY <1>11, <2>1, <2>2 DEF FlatTo
  <1>17. ASSUME winners # <<>> PROVE s # <<>> /\ s[1] = winners[1]
    <2>1. n # 0 /\ 1 \in 1 .. n
      BY <1>1, <1>17 DEF n, Lists
    <2>2. ss[1] # <<>> /\ ss[1][1] = winners[1]
      BY <1>15, <2>1
    <2> QED BY <1>11, <2>1, <2>2 DEF FlatTo
  <1> QED BY <1>13, <1>14, <1>16, <1>17 DEF s

-----------------------------------------------------------------------------
(* Back through the rounds.                                                *)

\* Who enters a round: all of W, or the winners of the round before.
Entering(W, these, r) == IF r = 1 THEN W ELSE Firsts(these[r - 1])

\* Every round shares out who enters it.
RoundsAre(W, these) ==
    /\ these \in Seq(Seq(Seq(W)))
    /\ \A r \in DOMAIN these : SharesOut(Entering(W, these, r), these[r])

\* The orders made in a round and after it, those of the last in O.
SaidFrom(these, O, r) == O \cup UNION {Range(these[q]) : q \in r .. Len(these)}

\* A sequence says of who entered a round what was said in it and after it.
SaysOf(S, said, s) ==
    /\ Lists(s, S) /\ s # <<>>
    /\ \A o \in said : Range(o) \subseteq S /\ Keeps(s, o)
    /\ \A w \in S : w # s[1] <=> \E o \in said : w \in Range(o) /\ o[1] # w

\* One round back.
LEMMA RoundBack ==
    ASSUME NEW S, NEW round, SharesOut(S, round), NEW said, NEW s,
           SaysOf(Firsts(round), said, s)
    PROVE  SaysOf(S, said \cup Range(round), ReadOut(s, round))
  <1> DEFINE t == ReadOut(s, round)
             all == said \cup Range(round)
  <1>1. Lists(s, Firsts(round)) /\ s # <<>>
    BY DEF SaysOf
  <1>2. /\ Lists(t, S)
        /\ \A k \in DOMAIN round : Keeps(t, round[k])
        /\ \A v, w : Puts(s, v, w) => Puts(t, v, w)
        /\ t # <<>> /\ t[1] = s[1]
    BY <1>1, ReadOutIs
  <1> HIDE DEF t
  <1>3. \A k \in DOMAIN round : /\ round[k] \in Seq(S)
                                /\ 1 \in DOMAIN round[k] /\ Head(round[k]) = round[k][1]
    BY DEF SharesOut, Shared
  <1>4. \A k, l \in DOMAIN round : \A i \in DOMAIN round[k], j \in DOMAIN round[l] :
           round[k][i] = round[l][j] => k = l
    BY DEF SharesOut, Shared
  <1>5. Firsts(round) \subseteq S
    BY <1>3 DEF Firsts
  <1>6. \A o \in all : o \in said \/ \E k \in DOMAIN round : o = round[k]
    BY DEF Range
  <1>7. \A k \in DOMAIN round : round[k] \in all
    BY DEF Range
  <1>8. ASSUME NEW o \in all PROVE Range(o) \subseteq S /\ Keeps(t, o)
    <2>1. CASE o \in said
      <3>1. Range(o) \subseteq Firsts(round) /\ Keeps(s, o)
        BY <2>1 DEF SaysOf
      <3>2. Keeps(t, o)
        BY <1>2, <3>1 DEF Keeps
      <3> QED BY <1>5, <3>1, <3>2
    <2>2. CASE \E k \in DOMAIN round : o = round[k]
      <3>1. PICK k \in DOMAIN round : o = round[k]
        BY <2>2
      <3>2. Range(o) \subseteq S
        BY <1>3, <3>1 DEF Range
      <3> QED BY <1>2, <3>1, <3>2
    <2> QED BY <1>6, <2>1, <2>2
  <1>9. \A w \in Firsts(round) : w # s[1] <=> \E o \in said : w \in Range(o) /\ o[1] # w
    BY DEF SaysOf
  <1>10. ASSUME NEW w \in S, w # t[1] PROVE \E o \in all : w \in Range(o) /\ o[1] # w
    <2>1. PICK k \in DOMAIN round : w \in Range(round[k])
      BY DEF SharesOut
    <2>2. CASE w = round[k][1]
      <3>1. w \in Firsts(round)
        BY <1>3, <2>2 DEF Firsts
      <3>2. w # s[1]
        BY <1>2, <1>10
      <3>3. \E o \in said : w \in Range(o) /\ o[1] # w
        BY <1>9, <3>1, <3>2
      <3> QED BY <3>3
    <2>3. CASE w # round[k][1]
      BY <1>7, <2>1, <2>3
    <2> QED BY <2>2, <2>3
  <1>11. ASSUME NEW w \in S, NEW o \in all, w \in Range(o), o[1] # w PROVE w # t[1]
    <2>1. CASE o \in said
      <3>1. w \in Firsts(round)
        BY <1>11, <2>1 DEF SaysOf
      <3>2. w # s[1]
        BY <1>9, <1>11, <2>1, <3>1
      <3> QED BY <1>2, <3>2
    <2>2. CASE \E k \in DOMAIN round : o = round[k]
      <3>1. PICK k \in DOMAIN round : o = round[k]
        BY <2>2
      <3>2. SUFFICES ASSUME w = s[1] PROVE FALSE
        BY <1>2
      <3>3. w \in Firsts(round)
        <4>1. 1 \in DOMAIN s /\ s \in Seq(Firsts(round))
          BY <1>1 DEF Lists
        <4> QED BY <3>2, <4>1
      <3>4. PICK l \in DOMAIN round : w = round[l][1]
        BY <1>3, <3>3 DEF Firsts
      <3>5. PICK i \in DOMAIN round[k] : round[k][i] = w
        BY <1>11, <3>1 DEF Range
      <3>6. k = l
        BY <1>3, <1>4, <3>4, <3>5
      <3> QED BY <1>11, <3>1, <3>4, <3>6
    <2> QED BY <1>6, <2>1, <2>2
  <1> QED BY <1>2, <1>8, <1>10, <1>11 DEF SaysOf, t

\* Back to the first round, everything is said of all.
LEMMA ReadBackIs ==
    ASSUME NEW W, NEW these, RoundsAre(W, these), NEW O, NEW last,
           SaysOf(Entering(W, these, Len(these) + 1), O, last)
    PROVE  SaysOf(W, SaidFrom(these, O, 1), ReadBack(last, these))
  <1> DEFINE R == Len(these)
             D == Seq(W)
             level(k) == R + 1 - k
             so(k, s) == SaysOf(Entering(W, these, level(k)), SaidFrom(these, O, level(k)), s)
             out(k, s) == ReadOut(s, these[level(k)])
             back[k \in 0 .. R] == IF k = 0 THEN last ELSE out(k, back[k - 1])
  <1>1. R \in Nat /\ DOMAIN these = 1 .. R
    BY DEF RoundsAre
  <1>2. ReadBack(last, these) = back[R]
    BY DEF ReadBack
  <1>3. so(0, last)
    <2>1. level(0) = R + 1 /\ (R + 1) .. R = {}
      BY <1>1
    <2>2. SaidFrom(these, O, level(0)) = O
      BY <2>1 DEF SaidFrom
    <2> QED BY <2>1, <2>2
  <1>4. ASSUME NEW k \in 1 .. R, NEW s, so(k - 1, s) PROVE so(k, out(k, s))
    <2>1. level(k) \in 1 .. R /\ level(k - 1) = level(k) + 1
      BY <1>1
    <2>2. Entering(W, these, level(k - 1)) = Firsts(these[level(k)])
      BY <2>1 DEF Entering
    <2>3. SharesOut(Entering(W, these, level(k)), these[level(k)])
      BY <1>1, <2>1 DEF RoundsAre
    <2>4. SaidFrom(these, O, level(k - 1)) \cup Range(these[level(k)]) = SaidFrom(these, O, level(k))
      <3> DEFINE r == level(k)
      <3>1. r \in 1 .. R /\ r .. R = ((r + 1) .. R) \cup {r}
        BY <1>1, <2>1
      <3> HIDE DEF r
      <3>2. SaidFrom(these, O, r + 1) \cup Range(these[r]) = SaidFrom(these, O, r)
        BY <3>1 DEF SaidFrom
      <3> QED BY <2>1, <3>2 DEF r
    <2>5. SaysOf(Firsts(these[level(k)]), SaidFrom(these, O, level(k - 1)), s)
      BY <1>4, <2>2
    <2>6. SaysOf(Entering(W, these, level(k)),
                 SaidFrom(these, O, level(k - 1)) \cup Range(these[level(k)]), out(k, s))
      <3> HIDE DEF level
      <3> QED BY <2>3, <2>5, RoundBack
    <2> QED BY <2>4, <2>6
  <1>5. \A r \in 1 .. R + 1 : Entering(W, these, r) \subseteq W
    <2> DEFINE bad == {r \in 1 .. R + 1 : ~(Entering(W, these, r) \subseteq W)}
    <2> SUFFICES ASSUME bad # {} PROVE FALSE
      OBVIOUS
    <2>1. PICK r \in bad : \A q \in bad : ~(q < r)
      <3>1. bad \in SUBSET Nat
        OBVIOUS
      <3> HIDE DEF bad
      <3> QED BY <3>1, LeastNatural
    <2>2. r \in 1 .. R + 1 /\ ~(Entering(W, these, r) \subseteq W)
      BY <2>1
    <2>3. r # 1
      BY <2>2 DEF Entering
    <2>4. r - 1 \in 1 .. R /\ r - 1 \in 1 .. R + 1 /\ r - 1 < r
      BY <1>1, <2>2, <2>3
    <2>5. Entering(W, these, r - 1) \subseteq W
      BY <2>1, <2>4
    <2>6. SharesOut(Entering(W, these, r - 1), these[r - 1])
      BY <1>1, <2>4 DEF RoundsAre
    <2>7. \A k \in DOMAIN these[r - 1] : Head(these[r - 1][k]) \in Entering(W, these, r - 1)
      BY <2>6 DEF SharesOut, Shared
    <2>8. Entering(W, these, r) = Firsts(these[r - 1])
      BY <2>3 DEF Entering
    <2> QED BY <2>2, <2>5, <2>7, <2>8 DEF Firsts
  <1>6. ASSUME NEW k \in 0 .. R, NEW s, so(k, s) PROVE s \in D
    <2>1. level(k) \in 1 .. R + 1
      BY <1>1
    <2>2. Entering(W, these, level(k)) \subseteq W
      BY <1>5, <2>1
    <2>3. s \in Seq(Entering(W, these, level(k)))
      BY <1>6 DEF SaysOf, Lists
    <2> HIDE DEF level
    <2> QED BY <2>2, <2>3
  <1> HIDE DEF so, out
  <1> DEFINE g == [k \in 1 .. R |-> [x \in D |-> IF out(k, x) \in D THEN out(k, x) ELSE <<>>]]
  <1>7. PICK f : Built(R, D, last, g, f)
    <2>1. 0 \in 0 .. R
      BY <1>1
    <2>2. last \in D
      BY <1>3, <1>6, <2>1
    <2>3. g \in [1 .. R -> [D -> D]]
      <3>1. <<>> \in D
        OBVIOUS
      <3> QED BY <3>1
    <2> HIDE DEF g, R, D
    <2> QED BY <1>1, <2>2, <2>3, StepByStep
  <1>8. f \in [0 .. R -> D] /\ f[0] = last
    BY <1>7 DEF Built
  <1>9. ASSUME NEW k \in 1 .. R, so(k - 1, f[k - 1]) PROVE so(k, f[k]) /\ f[k] = out(k, f[k - 1])
    <2>1. k - 1 \in 0 .. R /\ k \in 0 .. R
      BY <1>1
    <2>2. f[k - 1] \in D
      BY <1>8, <2>1
    <2>3. f[k] = IF out(k, f[k - 1]) \in D THEN out(k, f[k - 1]) ELSE <<>>
      <3>1. f[k] = g[k][f[k - 1]]
        BY <1>7 DEF Built
      <3> QED BY <2>2, <3>1
    <2>4. so(k, out(k, f[k - 1]))
      BY <1>4, <1>9
    <2>5. out(k, f[k - 1]) \in D
      BY <1>6, <2>1, <2>4
    <2> HIDE DEF D
    <2> QED BY <2>3, <2>4, <2>5
  <1>10. \A k \in 0 .. R : so(k, f[k])
    <2> DEFINE bad == {k \in 0 .. R : ~so(k, f[k])}
    <2> SUFFICES ASSUME bad # {} PROVE FALSE
      OBVIOUS
    <2>1. PICK k \in bad : \A j \in bad : ~(j < k)
      <3>1. bad \in SUBSET Nat
        OBVIOUS
      <3> HIDE DEF bad
      <3> QED BY <3>1, LeastNatural
    <2>2. k \in 0 .. R /\ ~so(k, f[k])
      BY <2>1
    <2>3. k # 0
      BY <1>3, <1>8, <2>2
    <2>4. k \in 1 .. R /\ k - 1 \in 0 .. R /\ k - 1 < k
      BY <1>1, <2>2, <2>3
    <2>5. so(k - 1, f[k - 1])
      BY <2>1, <2>4
    <2> QED BY <1>9, <2>2, <2>4, <2>5
  <1>11. f = [k \in 0 .. R |-> IF k = 0 THEN last ELSE out(k, f[k - 1])]
    <2>1. ASSUME NEW k \in 0 .. R PROVE f[k] = IF k = 0 THEN last ELSE out(k, f[k - 1])
      <3>1. CASE k = 0
        BY <1>8, <3>1
      <3>2. CASE k # 0
        <4>1. k \in 1 .. R /\ k - 1 \in 0 .. R
          BY <1>1, <3>2
        <4>2. so(k - 1, f[k - 1])
          BY <1>10, <4>1
        <4>3. f[k] = out(k, f[k - 1])
          BY <1>9, <4>1, <4>2
        <4> QED BY <3>2, <4>3
      <3> QED BY <3>1, <3>2
    <2>2. f = [k \in 0 .. R |-> f[k]]
      BY <1>8
    <2> QED BY <2>1, <2>2
  <1>12. back = [k \in 0 .. R |-> IF k = 0 THEN last ELSE out(k, back[k - 1])]
    BY <1>11 DEF back
  <1> HIDE DEF back
  <1>13. \A k \in 0 .. R : back[k] = IF k = 0 THEN last ELSE out(k, back[k - 1])
    BY <1>12, Zenon
  <1>14. \A k \in 0 .. R : so(k, back[k])
    <2> DEFINE bad == {k \in 0 .. R : ~so(k, back[k])}
    <2> SUFFICES ASSUME bad # {} PROVE FALSE
      OBVIOUS
    <2>1. PICK k \in bad : \A j \in bad : ~(j < k)
      <3>1. bad \in SUBSET Nat
        OBVIOUS
      <3> HIDE DEF bad
      <3> QED BY <3>1, LeastNatural
    <2>2. k \in 0 .. R /\ ~so(k, back[k])
      BY <2>1
    <2>3. k # 0
      BY <1>3, <1>13, <2>2
    <2>4. k \in 1 .. R /\ k - 1 \in 0 .. R /\ k - 1 < k
      BY <1>1, <2>2, <2>3
    <2>5. so(k - 1, back[k - 1])
      BY <2>1, <2>4
    <2>6. back[k] = out(k, back[k - 1])
      BY <1>13, <2>2, <2>3
    <2> QED BY <1>4, <2>2, <2>4, <2>5, <2>6
  <1>15. so(R, back[R]) /\ level(R) = 1
    <2>1. R \in 0 .. R
      BY <1>1
    <2>2. level(R) = 1
      BY <1>1
    <2> QED BY <1>14, <2>1, <2>2
  <1>16. Entering(W, these, 1) = W
    BY DEF Entering
  <1> HIDE DEF R
  <1>17. SaysOf(Entering(W, these, level(R)), SaidFrom(these, O, level(R)), back[R])
    BY <1>15 DEF so
  <1> HIDE DEF level
  <1>18. SaysOf(W, SaidFrom(these, O, 1), back[R])
    BY <1>15, <1>16, <1>17
  <1> QED BY <1>2, <1>18

-----------------------------------------------------------------------------
(* The groups of a list.                                                   *)

\* Where the k-th group of so many begins.
LEMMA StepsOf ==
    ASSUME NEW g \in Nat, NEW a \in Int, NEW b \in Int
    PROVE  /\ a * g \in Int /\ (a + 1) * g = a * g + g /\ (a - 1) * g = a * g - g
           /\ a <= b => a * g <= b * g
  <1>1. a * g \in Int /\ (a + 1) * g = a * g + g /\ (a - 1) * g = a * g - g
    OBVIOUS
  <1>2. ASSUME a <= b PROVE a * g <= b * g
    <2>1. b - a \in Nat
      BY <1>2
    <2>2. (b - a) * g \in Nat
      BY <2>1
    <2>3. b * g = a * g + (b - a) * g
      OBVIOUS
    <2>4. a * g \in Int /\ b * g \in Int
      OBVIOUS
    <2> QED BY <2>2, <2>3, <2>4
  <1> QED BY <1>1, <1>2

\* How long the k-th group of n is, and how many there are.
GroupLen(n, k) == IF k <= n \div GroupSize THEN GroupSize ELSE n % GroupSize
GroupsOf(n)    == (n \div GroupSize) + (IF n % GroupSize > 0 THEN 1 ELSE 0)

LEMMA GroupNumbers ==
    ASSUME NEW n \in Nat
    PROVE  /\ GroupsOf(n) \in Nat
           /\ (n + GroupSize - 1) \div GroupSize = GroupsOf(n)
           /\ \A k \in 1 .. GroupsOf(n) :
                 /\ GroupLen(n, k) \in 1 .. GroupSize
                 /\ (k - 1) * GroupSize \in Nat
                 /\ (k - 1) * GroupSize + GroupLen(n, k) <= n
                 /\ (IF k * GroupSize <= n THEN k * GroupSize ELSE n)
                       = (k - 1) * GroupSize + GroupLen(n, k)
           /\ \A p \in 1 .. n : \E k \in 1 .. GroupsOf(n) : \E i \in 1 .. GroupLen(n, k) :
                 p = (k - 1) * GroupSize + i
           /\ \A k, l \in 1 .. GroupsOf(n) : \A i \in 1 .. GroupLen(n, k), j \in 1 .. GroupLen(n, l) :
                 (k - 1) * GroupSize + i = (l - 1) * GroupSize + j => k = l
  <1> DEFINE g == GroupSize
             q == n \div g
             r == n % g
             m == GroupsOf(n)
  <1>1. g \in Nat /\ g > 1
    BY OrderAssumption
  <1>2. q \in Int /\ r \in Int /\ n = g * q + r /\ 0 <= r /\ r < g
    <2>1. g \in Nat \ {0}
      BY <1>1
    <2>2. n \in Int
      OBVIOUS
    <2> QED BY <2>1, <2>2, DivisionIs
  <1>3. q * g \in Int /\ n = q * g + r
    BY <1>1, <1>2
  <1>4. m = q + (IF r > 0 THEN 1 ELSE 0)
    BY DEF GroupsOf
  <1>5. \A k : GroupLen(n, k) = IF k <= q THEN g ELSE r
    BY DEF GroupLen
  <1>6. (n + g - 1) \div g = (n + (g - 1)) \div g
    <2>1. n + g - 1 = n + (g - 1)
      BY <1>1
    <2> QED BY <2>1
  <1> HIDE DEF q, r, m
  <1>7. (n + g - 1) \div g = m
    <2>0. n + (g - 1) \in Int /\ g \in Nat \ {0}
      BY <1>1
    <2>1. CASE r > 0
      <3>1. (q + 1) * g = q * g + g
        BY <1>1, <1>2, StepsOf
      <3>2. n + (g - 1) = g * (q + 1) + (r - 1)
        BY <1>1, <1>2, <1>3, <3>1
      <3>3. q + 1 \in Int /\ r - 1 \in Int /\ 0 <= r - 1 /\ r - 1 < g
        BY <1>1, <1>2, <2>1
      <3>4. (n + (g - 1)) \div g = q + 1
        <4> HIDE DEF g
        <4> QED BY <2>0, <3>2, <3>3, DivisionIsOne
      <3> QED BY <1>4, <1>6, <2>1, <3>4
    <2>2. CASE ~(r > 0)
      <3>1. n + (g - 1) = g * q + (g - 1)
        BY <1>1, <1>2, <1>3, <2>2
      <3>2. g - 1 \in Int /\ 0 <= g - 1 /\ g - 1 < g
        BY <1>1
      <3>3. (n + (g - 1)) \div g = q
        <4> HIDE DEF g
        <4> QED BY <1>2, <2>0, <3>1, <3>2, DivisionIsOne
      <3> QED BY <1>2, <1>4, <1>6, <2>2, <3>3
    <2> QED BY <2>1, <2>2
  <1> HIDE DEF g
  <1>8. q \in Nat
    <2> SUFFICES ASSUME q <= -1 PROVE FALSE
      BY <1>2
    <2>1. q * g <= (-1) * g
      BY <1>1, <1>2, StepsOf
    <2>2. (-1) * g = -g
      BY <1>1
    <2> QED BY <1>1, <1>2, <1>3, <2>1, <2>2
  <1>9. m \in Nat
    BY <1>4, <1>8
  <1>10. ASSUME NEW k \in 1 .. m
         PROVE  /\ GroupLen(n, k) \in 1 .. g
                /\ (k - 1) * g \in Nat
                /\ (k - 1) * g + GroupLen(n, k) <= n
                /\ (IF k * g <= n THEN k * g ELSE n) = (k - 1) * g + GroupLen(n, k)
    <2>1. k * g \in Int /\ (k - 1) * g = k * g - g
      BY <1>1, StepsOf
    <2>2. (k - 1) * g \in Nat
      <3>1. k - 1 \in Nat
        OBVIOUS
      <3> QED BY <1>1, <3>1
    <2>3. CASE k <= q
      <3>1. k * g <= q * g
        BY <1>1, <1>2, <2>3, StepsOf
      <3>2. GroupLen(n, k) = g
        BY <1>5, <2>3
      <3>3. k * g <= n
        BY <1>2, <1>3, <2>1, <3>1
      <3> QED BY <1>1, <2>1, <2>2, <3>2, <3>3
    <2>4. CASE ~(k <= q)
      <3>1. k = q + 1 /\ r > 0
        BY <1>4, <1>8, <2>4
      <3>2. GroupLen(n, k) = r
        BY <1>5, <2>4
      <3>3. (k - 1) * g = q * g
        <4>1. k - 1 = q
          BY <1>2, <3>1
        <4> QED BY <4>1
      <3>4. ~(k * g <= n)
        BY <1>1, <1>2, <1>3, <2>1, <3>3
      <3> QED BY <1>1, <1>2, <1>3, <2>1, <2>2, <3>1, <3>2, <3>3, <3>4
    <2> QED BY <2>3, <2>4
  <1>11. ASSUME NEW p \in 1 .. n
         PROVE  \E k \in 1 .. m : \E i \in 1 .. GroupLen(n, k) : p = (k - 1) * g + i
    <2> DEFINE a == (p - 1) \div g
               b == (p - 1) % g
    <2>1. a \in Int /\ b \in Int /\ p - 1 = g * a + b /\ 0 <= b /\ b < g
      <3>1. p - 1 \in Int /\ g \in Nat \ {0}
        BY <1>1
      <3> QED BY <3>1, DivisionIs
    <2> HIDE DEF a, b
    <2>2. a * g \in Int /\ p = a * g + (b + 1)
      BY <1>1, <2>1
    <2>3. a \in Nat
      <3> SUFFICES ASSUME a <= -1 PROVE FALSE
        BY <2>1
      <3>1. a * g <= (-1) * g
        BY <1>1, <2>1, StepsOf
      <3>2. (-1) * g = -g
        BY <1>1
      <3> QED BY <1>1, <2>1, <2>2, <3>1, <3>2
    <2>4. a <= q
      <3> SUFFICES ASSUME q + 1 <= a PROVE FALSE
        BY <1>2, <2>1
      <3>1. (q + 1) * g <= a * g
        BY <1>1, <1>2, <2>1, StepsOf
      <3>2. (q + 1) * g = q * g + g
        BY <1>1, <1>2, StepsOf
      <3> QED BY <1>1, <1>2, <1>3, <2>1, <2>2, <3>1, <3>2
    <2>5. a = q => b + 1 <= r
      BY <1>2, <1>3, <2>1, <2>2
    <2>6. a + 1 \in 1 .. m /\ (a + 1) - 1 = a
      BY <1>2, <1>4, <1>8, <2>1, <2>3, <2>4, <2>5
    <2>7. b + 1 \in 1 .. GroupLen(n, a + 1)
      <3>1. GroupLen(n, a + 1) = IF a + 1 <= q THEN g ELSE r
        BY <1>5
      <3>2. b + 1 <= GroupLen(n, a + 1) /\ GroupLen(n, a + 1) \in Int
        BY <1>1, <1>2, <2>1, <2>3, <2>4, <2>5, <3>1
      <3> QED BY <2>1, <3>2
    <2>8. p = ((a + 1) - 1) * g + (b + 1)
      BY <2>2, <2>6
    <2> QED BY <2>6, <2>7, <2>8
  <1>12. ASSUME NEW k \in 1 .. m, NEW l \in 1 .. m, k + 1 <= l,
                NEW i \in 1 .. GroupLen(n, k), NEW j \in 1 .. GroupLen(n, l)
         PROVE  (k - 1) * g + i # (l - 1) * g + j
    <2>1. k * g <= (l - 1) * g
      <3>1. k \in Int /\ l - 1 \in Int /\ k <= l - 1
        BY <1>12
      <3> QED BY <1>1, <3>1, StepsOf
    <2>2. (k - 1) * g = k * g - g /\ k * g \in Int /\ (l - 1) * g \in Int
      BY <1>1, StepsOf
    <2>3. i \in Int /\ i <= g /\ j \in Int /\ j >= 1
      BY <1>1, <1>10
    <2> QED BY <1>1, <2>1, <2>2, <2>3
  <1>13. ASSUME NEW k \in 1 .. m, NEW l \in 1 .. m,
                NEW i \in 1 .. GroupLen(n, k), NEW j \in 1 .. GroupLen(n, l),
                (k - 1) * g + i = (l - 1) * g + j
         PROVE  k = l
    <2>1. ~(k + 1 <= l) /\ ~(l + 1 <= k)
      BY <1>12, <1>13
    <2> QED BY <2>1
  <1> QED BY <1>7, <1>9, <1>10, <1>11, <1>13 DEF g, m

\* The groups of a list share it out, and none is empty.
LEMMA GroupsAre ==
    ASSUME NEW S, NEW list \in Seq(S), IsInjective(list)
    PROVE  /\ Groups(list) = GroupsOf(Len(list)) /\ Groups(list) \in Nat
           /\ \A k \in 1 .. Groups(list) :
                 /\ Group(list, k) \in Seq(Range(list)) /\ IsInjective(Group(list, k))
                 /\ Len(Group(list, k)) = GroupLen(Len(list), k)
                 /\ Len(Group(list, k)) \in 1 .. GroupSize
           /\ \A k, l \in 1 .. Groups(list) :
                 \A i \in DOMAIN Group(list, k), j \in DOMAIN Group(list, l) :
                    Group(list, k)[i] = Group(list, l)[j] => k = l
           /\ \A x \in Range(list) : \E k \in 1 .. Groups(list) : x \in Range(Group(list, k))
  <1> DEFINE n == Len(list)
             g == GroupSize
             at(k) == (k - 1) * g
  <1>0. n \in Nat /\ g \in Nat /\ DOMAIN list = 1 .. n
    BY OrderAssumption
  <1>1. Groups(list) = GroupsOf(n) /\ Groups(list) \in Nat
    BY <1>0, GroupNumbers DEF Groups
  <1>2. ASSUME NEW k \in 1 .. Groups(list)
        PROVE  /\ GroupLen(n, k) \in 1 .. g /\ at(k) \in Nat /\ at(k) + GroupLen(n, k) <= n
               /\ Group(list, k) = [i \in 1 .. GroupLen(n, k) |-> list[at(k) + i]]
               /\ Len(Group(list, k)) = GroupLen(n, k)
               /\ DOMAIN Group(list, k) = 1 .. GroupLen(n, k)
    <2> DEFINE z == GroupLen(n, k)
               a == at(k)
    <2>1. /\ z \in 1 .. g /\ a \in Nat /\ a + z <= n
          /\ (IF k * g <= n THEN k * g ELSE n) = a + z
      <3>1. k \in 1 .. GroupsOf(n)
        BY <1>1
      <3> QED BY <1>0, <3>1, GroupNumbers
    <2>2. Min({k * g, n}) = a + z
      <3>1. k * g \in Int /\ n \in Int
        BY <1>0
      <3> HIDE DEF g, n, a, z
      <3>2. Min({k * g, n}) = IF k * g <= n THEN k * g ELSE n
        BY <3>1, OfTwo
      <3> QED BY <2>1, <3>2
    <2>3. Group(list, k) = SubSeq(list, a + 1, a + z)
      BY <2>2 DEF Group
    <2> HIDE DEF a, z, n, g
    <2>4. SubSeq(list, a + 1, a + z) = [i \in 1 .. z |-> list[a + i]]
      <3> DEFINE u == SubSeq(list, a + 1, a + z)
      <3>1. \A i \in (a + 1) .. (a + z) : list[i] \in S
        <4>1. (a + 1) .. (a + z) \subseteq 1 .. n
          BY <1>0, <2>1
        <4> QED BY <1>0, <4>1
      <3>2. a + 1 \in Int /\ a + z \in Int /\ a + 1 <= a + z /\ (a + z) - (a + 1) + 1 = z
        BY <2>1
      <3>3. /\ u \in Seq(S) /\ Len(u) = z
            /\ \A i \in 1 .. z : u[i] = list[(a + 1) + i - 1]
        BY <3>1, <3>2
      <3>4. \A i \in 1 .. z : (a + 1) + i - 1 = a + i
        BY <2>1
      <3> HIDE DEF u
      <3>5. u = [i \in 1 .. z |-> u[i]]
        BY <3>3
      <3>6. \A i \in 1 .. z : u[i] = list[a + i]
        BY <3>3, <3>4
      <3>7. u = [i \in 1 .. z |-> list[a + i]]
        BY <3>5, <3>6
      <3> QED BY <3>7 DEF u
    <2>5. Len([i \in 1 .. z |-> list[a + i]]) = z
      BY <2>1
    <2> QED BY <2>1, <2>3, <2>4, <2>5 DEF a, z
  <1> HIDE DEF at
  <1>3. ASSUME NEW k \in 1 .. Groups(list), NEW i \in 1 .. GroupLen(n, k)
        PROVE  at(k) + i \in 1 .. n /\ Group(list, k)[i] = list[at(k) + i]
    <2>1. Group(list, k)[i] = list[at(k) + i]
      BY <1>2
    <2>2. GroupLen(n, k) \in Nat /\ at(k) \in Nat /\ at(k) + GroupLen(n, k) <= n
      <3>1. GroupLen(n, k) \in 1 .. g /\ at(k) \in Nat /\ at(k) + GroupLen(n, k) <= n
        BY <1>2
      <3> QED BY <3>1
    <2> QED BY <1>0, <2>1, <2>2
  <1> HIDE DEF n, g
  <1>4. ASSUME NEW k \in 1 .. Groups(list)
        PROVE  /\ Group(list, k) \in Seq(Range(list)) /\ IsInjective(Group(list, k))
               /\ Len(Group(list, k)) \in 1 .. g
    <2>1. GroupLen(n, k) \in Nat /\ at(k) \in Nat
      BY <1>0, <1>2
    <2>2. \A i \in 1 .. GroupLen(n, k) : Group(list, k)[i] \in Range(list)
      BY <1>0, <1>3 DEF Range
    <2>3. Group(list, k) \in [1 .. GroupLen(n, k) -> Range(list)]
      BY <1>2, <2>2
    <2>4. ASSUME NEW i \in DOMAIN Group(list, k), NEW j \in DOMAIN Group(list, k),
                 Group(list, k)[i] = Group(list, k)[j]
          PROVE  i = j
      <3>1. i \in 1 .. GroupLen(n, k) /\ j \in 1 .. GroupLen(n, k)
        BY <1>2
      <3>2. list[at(k) + i] = list[at(k) + j] /\ at(k) + i \in 1 .. n /\ at(k) + j \in 1 .. n
        BY <1>3, <2>4, <3>1
      <3>3. at(k) + i = at(k) + j
        BY <1>0, <3>2 DEF IsInjective
      <3> QED BY <2>1, <3>1, <3>3
    <2> QED BY <1>2, <2>1, <2>3, <2>4 DEF IsInjective
  <1>5. ASSUME NEW k \in 1 .. Groups(list), NEW l \in 1 .. Groups(list),
               NEW i \in DOMAIN Group(list, k), NEW j \in DOMAIN Group(list, l),
               Group(list, k)[i] = Group(list, l)[j]
        PROVE  k = l
    <2>1. i \in 1 .. GroupLen(n, k) /\ j \in 1 .. GroupLen(n, l)
      BY <1>2
    <2>2. list[at(k) + i] = list[at(l) + j] /\ at(k) + i \in 1 .. n /\ at(l) + j \in 1 .. n
      BY <1>3, <1>5, <2>1
    <2>3. at(k) + i = at(l) + j
      BY <1>0, <2>2 DEF IsInjective
    <2>4. k \in 1 .. GroupsOf(n) /\ l \in 1 .. GroupsOf(n)
      BY <1>1
    <2> QED BY <1>0, <2>1, <2>3, <2>4, GroupNumbers DEF at, g
  <1>6. ASSUME NEW x \in Range(list) PROVE \E k \in 1 .. Groups(list) : x \in Range(Group(list, k))
    <2>1. PICK p \in 1 .. n : list[p] = x
      BY <1>0 DEF Range
    <2>2. PICK k \in 1 .. GroupsOf(n) : \E i \in 1 .. GroupLen(n, k) : p = at(k) + i
      <3>1. \A q \in 1 .. n : \E k \in 1 .. GroupsOf(n) : \E i \in 1 .. GroupLen(n, k) :
               q = (k - 1) * GroupSize + i
        BY <1>0, GroupNumbers
      <3> QED BY <3>1 DEF at, g
    <2>3. PICK i \in 1 .. GroupLen(n, k) : p = at(k) + i
      BY <2>2
    <2>4. k \in 1 .. Groups(list)
      BY <1>1
    <2>5. Group(list, k)[i] = x /\ i \in DOMAIN Group(list, k)
      BY <1>2, <1>3, <2>1, <2>3, <2>4
    <2> QED BY <2>4, <2>5 DEF Range
  <1>7. \A k \in 1 .. Groups(list) : Len(Group(list, k)) = GroupLen(n, k)
    BY <1>2
  <1> QED BY <1>1, <1>4, <1>5, <1>6, <1>7 DEF n, g

-----------------------------------------------------------------------------
(* The orders a model may give, and the list a ranking begins with.        *)

\* What a ranking compares is windows of the ride, each of them once.
LEMMA WorthRankingIs ==
    ASSUME NEW n \in Nat, NEW sc \in [1 .. n -> Nat]
    PROVE  WorthRanking(sc) \in Seq(1 .. n) /\ IsInjective(WorthRanking(sc))
  <1> DEFINE D == 1 .. n
             R == {p \in D \X D : Ahead(sc, p[1], p[2])}
             over(w) == {v \in DOMAIN sc : Ahead(sc, v, w)}
             ranked(k) == CHOOSE w \in DOMAIN sc : Cardinality(over(w)) = k - 1
             cut == sc[ranked(Min({Slots, Len(sc)}))]
             around == {w \in DOMAIN sc : sc[w] >= cut - 1}
             most == Min({MaxWindows, Cardinality(around)})
  <1>1. DOMAIN sc = D /\ \A w \in D : sc[w] \in Nat /\ w \in Nat
    OBVIOUS
  <1>2. \A v, w \in D : <<v, w>> \in R <=> Ahead(sc, v, w)
    <2> SUFFICES ASSUME NEW v \in D, NEW w \in D PROVE <<v, w>> \in R <=> Ahead(sc, v, w)
      OBVIOUS
    <2>1. <<v, w>>[1] = v /\ <<v, w>>[2] = w /\ <<v, w>> \in D \X D
      OBVIOUS
    <2> QED BY <2>1
  <1>3. WorthRanking(sc) = [k \in 1 .. most |-> ranked(k)]
    BY DEF WorthRanking
  <1>4. IsFiniteSet(D) /\ Cardinality(D) = n
    <2>1. 1 \in Int /\ n \in Int
      OBVIOUS
    <2>2. IsFiniteSet(1 .. n) /\ Cardinality(1 .. n) = IF 1 > n THEN 0 ELSE n - 1 + 1
      BY <2>1, FS_Interval
    <2> QED BY <2>2
  <1>5. around \subseteq D
    BY <1>1
  <1>6. \A w \in D : over(w) = {v \in D : <<v, w>> \in R}
    <2> HIDE DEF R
    <2> QED BY <1>1, <1>2
  <1> HIDE DEF R, D, around, over
  <1>7. Orders(R, D)
    <2>1. ASSUME NEW x \in D, NEW y \in D, x # y PROVE <<x, y>> \in R \/ <<y, x>> \in R
      BY <1>1, <1>2, <2>1 DEF Ahead
    <2>2. ASSUME NEW x \in D, NEW y \in D, NEW z \in D, <<x, y>> \in R, <<y, z>> \in R
          PROVE  <<x, z>> \in R
      <3>1. Ahead(sc, x, y) /\ Ahead(sc, y, z)
        BY <1>2, <2>2
      <3>2. Ahead(sc, x, z)
        BY <1>1, <3>1 DEF Ahead
      <3> QED BY <1>2, <3>2
    <2>3. ASSUME NEW x \in D PROVE <<x, x>> \notin R
      BY <1>1, <1>2 DEF Ahead
    <2> QED BY <2>1, <2>2, <2>3 DEF Orders
  <1>8. \A k \in 0 .. n - 1 : \E x \in D : PlaceIn(D, R, x) = k
    BY <1>4, <1>7, PlacesInOrder
  <1>9. ASSUME NEW k \in 1 .. n PROVE ranked(k) \in D /\ Cardinality(over(ranked(k))) = k - 1
    <2>1. k - 1 \in 0 .. n - 1
      OBVIOUS
    <2>2. PICK x \in D : PlaceIn(D, R, x) = k - 1
      BY <1>8, <2>1
    <2>3. Cardinality(over(x)) = k - 1
      BY <1>6, <2>2 DEF PlaceIn
    <2> QED BY <1>1, <2>3
  <1>10. most \in Nat /\ most <= n
    <2>1. IsFiniteSet(around) /\ Cardinality(around) <= n
      BY <1>4, <1>5, FS_Subset
    <2>2. Cardinality(around) \in Nat /\ MaxWindows \in Nat
      BY <2>1, FS_CardinalityType, OrderAssumption
    <2>3. most = IF MaxWindows <= Cardinality(around) THEN MaxWindows ELSE Cardinality(around)
      <3> DEFINE c == Cardinality(around)
      <3>1. c \in Int /\ MaxWindows \in Int
        BY <2>2
      <3> HIDE DEF c
      <3>2. Min({MaxWindows, c}) = IF MaxWindows <= c THEN MaxWindows ELSE c
        BY <3>1, OfTwo
      <3> QED BY <3>2 DEF c
    <2> HIDE DEF most
    <2> QED BY <2>1, <2>2, <2>3
  <1> HIDE DEF most
  <1>11. \A k \in 1 .. most : k \in 1 .. n
    BY <1>10
  <1>12. ASSUME NEW k \in 1 .. most, NEW l \in 1 .. most, ranked(k) = ranked(l) PROVE k = l
    <2>1. Cardinality(over(ranked(k))) = k - 1 /\ Cardinality(over(ranked(l))) = l - 1
      BY <1>9, <1>11
    <2>2. Cardinality(over(ranked(k))) = Cardinality(over(ranked(l)))
      BY <1>12, Zenon
    <2> HIDE DEF ranked
    <2>3. k - 1 = l - 1 /\ k \in Int /\ l \in Int
      BY <2>1, <2>2
    <2> QED BY <2>3
  <1> HIDE DEF ranked
  <1>13. [k \in 1 .. most |-> ranked(k)] \in Seq(D)
    <2>1. \A k \in 1 .. most : ranked(k) \in D
      BY <1>9, <1>11
    <2> QED BY <1>10, <2>1
  <1>14. IsInjective([k \in 1 .. most |-> ranked(k)])
    BY <1>12 DEF IsInjective
  <1> QED BY <1>3, <1>13, <1>14 DEF D

\* What a model may answer of a group has each window of the group once.
LEMMA AnswersAre ==
    ASSUME NEW S, IsFiniteSet(S), NEW order \in SetToSeqs(S)
    PROVE  Lists(order, S) /\ Len(order) = Cardinality(S)
  <1> DEFINE n == Cardinality(S)
             D == 1 .. n
  <1>1. n \in Nat
    BY FS_CardinalityType
  <1>2. order \in [D -> S] /\ \A i, j \in D : i # j => order[i] # order[j]
    BY DEF SetToSeqs
  <1>3. IsFiniteSet(D) /\ Cardinality(D) = n
    <2> HIDE DEF n
    <2>1. 1 \in Int /\ n \in Int
      BY <1>1
    <2>2. IsFiniteSet(1 .. n) /\ Cardinality(1 .. n) = IF 1 > n THEN 0 ELSE n - 1 + 1
      BY <2>1, FS_Interval
    <2> QED BY <1>1, <2>2
  <1>4. order \in Injection(D, S)
    BY <1>2, Zenon DEF Injection, IsInjective
  <1>5. order \in Surjection(D, S)
    <2> HIDE DEF D
    <2> QED BY <1>3, <1>4, FS_Injection
  <1>6. \A x \in S : \E i \in D : order[i] = x
    BY <1>5, Zenon DEF Surjection
  <1> HIDE DEF n
  <1>7. order \in Seq(S) /\ Len(order) = n /\ DOMAIN order = D
    BY <1>1, <1>2
  <1>8. IsInjective(order)
    BY <1>2, <1>7 DEF IsInjective
  <1>9. \A x \in S : x \in Range(order)
    BY <1>6, <1>7 DEF Range
  <1> QED BY <1>7, <1>8, <1>9 DEF Lists, n

\* The range of a list is as many as it is long.
LEMMA RangeIs ==
    ASSUME NEW S, NEW s \in Seq(S), IsInjective(s)
    PROVE  /\ IsFiniteSet(Range(s)) /\ Cardinality(Range(s)) = Len(s)
           /\ Lists(s, Range(s))
  <1> DEFINE D == 1 .. Len(s)
  <1>1. Len(s) \in Nat /\ DOMAIN s = D /\ s \in [D -> Range(s)]
    BY DEF Range
  <1>2. IsFiniteSet(D) /\ Cardinality(D) = Len(s)
    <2>1. 1 \in Int /\ Len(s) \in Int
      BY <1>1
    <2>2. IsFiniteSet(1 .. Len(s)) /\ Cardinality(1 .. Len(s)) = IF 1 > Len(s) THEN 0 ELSE Len(s) - 1 + 1
      BY <2>1, FS_Interval
    <2> QED BY <1>1, <2>2
  <1>3. s \in Surjection(D, Range(s)) /\ s \in Injection(D, Range(s))
    <2>1. \A x \in Range(s) : \E i \in D : s[i] = x
      BY <1>1 DEF Range
    <2>2. \A i, j \in D : s[i] = s[j] => i = j
      BY <1>1 DEF IsInjective
    <2> HIDE DEF D
    <2> QED BY <1>1, <2>1, <2>2, Zenon DEF Surjection, Injection, IsInjective
  <1>4. s \in Bijection(D, Range(s))
    BY <1>3, Zenon DEF Bijection
  <1>5. IsFiniteSet(Range(s)) /\ Cardinality(Range(s)) = Len(s)
    <2>1. ExistsBijection(D, Range(s))
      BY <1>4, Zenon DEF ExistsBijection
    <2> HIDE DEF D
    <2> QED BY <1>2, <2>1, FS_Bijection
  <1>6. Lists(s, Range(s))
    <2>1. s \in Seq(Range(s))
      BY <1>1
    <2> QED BY <2>1 DEF Lists
  <1> QED BY <1>5, <1>6

-----------------------------------------------------------------------------
(* What a tournament costs.                                                *)

\* There are fewer groups than windows.
LEMMA FewerGroups ==
    ASSUME NEW n \in Nat, n > 1
    PROVE  /\ GroupsOf(n) \in Nat /\ 0 < GroupsOf(n) /\ GroupsOf(n) < n
           /\ n \div GroupSize \in Nat /\ n % GroupSize \in Nat /\ n % GroupSize < GroupSize
           /\ n = (n \div GroupSize) * GroupSize + (n % GroupSize)
           /\ (n \div GroupSize) * GroupSize \in Nat
           /\ n <= GroupSize => GroupsOf(n) = 1
  <1> DEFINE g == GroupSize
             q == n \div g
             r == n % g
  <1>1. g \in Nat /\ g > 1
    BY OrderAssumption
  <1>2. q \in Int /\ r \in Int /\ n = g * q + r /\ 0 <= r /\ r < g
    <2>1. g \in Nat \ {0}
      BY <1>1
    <2>2. n \in Int
      OBVIOUS
    <2> QED BY <2>1, <2>2, DivisionIs
  <1>3. GroupsOf(n) = q + (IF r > 0 THEN 1 ELSE 0)
    BY DEF GroupsOf
  <1> HIDE DEF q, r, g
  <1>4. q * g \in Int /\ n = q * g + r
    BY <1>1, <1>2
  <1>5. q \in Nat
    <2> SUFFICES ASSUME q <= -1 PROVE FALSE
      BY <1>2
    <2>1. q * g <= (-1) * g
      BY <1>1, <1>2, StepsOf
    <2>2. (-1) * g = -g
      BY <1>1
    <2> QED BY <1>1, <1>2, <1>4, <2>1, <2>2
  <1>6. 2 * q <= q * g
    <2>1. 2 * q <= g * q
      <3>1. 2 \in Int /\ g \in Int /\ 2 <= g
        BY <1>1
      <3> QED BY <1>5, <3>1, StepsOf
    <2> QED BY <1>1, <1>5, <2>1
  <1>7. GroupsOf(n) \in Nat /\ 0 < GroupsOf(n) /\ GroupsOf(n) < n
    <2>1. q = 0 => q * g = 0
      BY <1>1
    <2> DEFINE x == q * g
    <2>2. x \in Int /\ n = x + r /\ 2 * q <= x /\ (q = 0 => x = 0)
      BY <1>4, <1>6, <2>1
    <2> HIDE DEF x
    <2>3. CASE r > 0
      BY <1>2, <1>3, <1>5, <2>2, <2>3
    <2>4. CASE ~(r > 0)
      BY <1>2, <1>3, <1>5, <2>2, <2>4
    <2> QED BY <2>3, <2>4
  <1>8. n <= g => GroupsOf(n) = 1
    <2>1. CASE q = 0
      <3>1. q * g = 0
        BY <1>1, <2>1
      <3> QED BY <1>2, <1>3, <1>4, <2>1, <3>1
    <2>2. CASE q = 1
      <3>1. q * g = g
        BY <1>1, <2>2
      <3> QED BY <1>1, <1>2, <1>3, <1>4, <2>2, <3>1
    <2>3. CASE q >= 2
      <3>1. 2 * g <= q * g
        <4>1. 2 \in Int /\ q \in Int /\ 2 <= q
          BY <1>5, <2>3
        <4> QED BY <1>1, <4>1, StepsOf
      <3> QED BY <1>1, <1>2, <1>4, <3>1
    <2> QED BY <1>5, <2>1, <2>2, <2>3
  <1>9. q * g \in Nat /\ r \in Nat /\ r < g
    BY <1>1, <1>2, <1>5
  <1> QED BY <1>4, <1>5, <1>7, <1>8, <1>9 DEF q, r, g

\* The cost of n from the costs of fewer.
ShapeBy(f, n) ==
    IF n <= 1 THEN <<0, 0>>
    ELSE IF n <= GroupSize THEN <<n, 1>>
    ELSE LET full == n \div GroupSize
             left == n % GroupSize
             more == f[full + (IF left > 0 THEN 1 ELSE 0)]
         IN  <<full * GroupSize + (IF left > 1 THEN left ELSE 0) + more[1],
               full + (IF left > 1 THEN 1 ELSE 0) + more[2]>>

\* It looks at fewer only.
LEMMA ShapeByFewer ==
    ASSUME NEW n \in Nat, NEW f, NEW h,
           n > 1 => f[GroupsOf(n)] = h[GroupsOf(n)]
    PROVE  ShapeBy(f, n) = ShapeBy(h, n)
  <1>1. CASE n <= 1
    BY <1>1 DEF ShapeBy
  <1>2. CASE n > 1
    <2>1. f[(n \div GroupSize) + (IF n % GroupSize > 0 THEN 1 ELSE 0)]
             = h[(n \div GroupSize) + (IF n % GroupSize > 0 THEN 1 ELSE 0)]
      BY <1>2 DEF GroupsOf
    <2> QED BY <2>1 DEF ShapeBy
  <1> QED BY <1>1, <1>2

\* The costs of up to n.
ShapesTo(n, f) ==
    f \in [0 .. n -> Nat \X Nat] /\ \A k \in 0 .. n : f[k] = ShapeBy(f, k)

\* The cost is two numbers.
LEMMA ShapeByType ==
    ASSUME NEW n \in Nat, NEW f, n > 1 => f[GroupsOf(n)] \in Nat \X Nat
    PROVE  ShapeBy(f, n) \in Nat \X Nat
  <1>1. CASE n <= 1
    BY <1>1 DEF ShapeBy
  <1>2. CASE n > 1 /\ n <= GroupSize
    BY <1>2 DEF ShapeBy
  <1>3. CASE n > 1 /\ ~(n <= GroupSize)
    <2> DEFINE full == n \div GroupSize
               left == n % GroupSize
               most == full * GroupSize
               more == f[GroupsOf(n)]
    <2>1. full \in Nat /\ left \in Nat /\ most \in Nat
      BY <1>3, FewerGroups
    <2>2. more[1] \in Nat /\ more[2] \in Nat
      BY <1>3
    <2>3. ShapeBy(f, n) = <<most + (IF left > 1 THEN left ELSE 0) + more[1],
                            full + (IF left > 1 THEN 1 ELSE 0) + more[2]>>
      BY <1>3 DEF ShapeBy, GroupsOf
    <2> HIDE DEF full, left, most, more
    <2> QED BY <2>1, <2>2, <2>3
  <1>4. n <= 1 \/ n > 1
    OBVIOUS
  <1> QED BY <1>1, <1>2, <1>3, <1>4

\* They can be told, and are told one way.
LEMMA ShapesAre ==
    ASSUME NEW n \in Nat
    PROVE  \E f : ShapesTo(n, f)
  <1> DEFINE bad == {m \in Nat : ~\E f : ShapesTo(m, f)}
  <1> SUFFICES ASSUME bad # {} PROVE FALSE
    OBVIOUS
  <1>1. PICK m \in bad : \A j \in bad : ~(j < m)
    <2>1. bad \in SUBSET Nat
      OBVIOUS
    <2> HIDE DEF bad
    <2> QED BY <2>1, LeastNatural
  <1>2. m \in Nat /\ ~\E f : ShapesTo(m, f)
    BY <1>1
  <1>3. CASE m = 0
    <2> DEFINE f == [k \in 0 .. 0 |-> <<0, 0>>]
    <2>1. f \in [0 .. 0 -> Nat \X Nat] /\ \A k \in 0 .. 0 : k = 0 /\ f[k] = <<0, 0>>
      OBVIOUS
    <2> HIDE DEF f
    <2>2. ShapesTo(0, f)
      BY <2>1 DEF ShapesTo, ShapeBy
    <2> QED BY <1>2, <1>3, <2>2
  <1>4. CASE m # 0
    <2>1. m - 1 \in Nat /\ m - 1 < m
      BY <1>2, <1>4
    <2>2. \E f : ShapesTo(m - 1, f)
      BY <1>1, <2>1
    <2>3. PICK f : ShapesTo(m - 1, f)
      BY <2>2
    <2>4. f \in [0 .. m - 1 -> Nat \X Nat] /\ \A k \in 0 .. m - 1 : f[k] = ShapeBy(f, k)
      BY <2>3 DEF ShapesTo
    <2> DEFINE h == [k \in 0 .. m |-> IF k = m THEN ShapeBy(f, m) ELSE f[k]]
    <2>5. \A k \in 0 .. m : k # m => k \in 0 .. m - 1
      BY <1>2
    <2>6. \A k \in Nat : k > 1 /\ k <= m => GroupsOf(k) \in 0 .. m - 1
      <3> SUFFICES ASSUME NEW k \in Nat, k > 1, k <= m PROVE GroupsOf(k) \in 0 .. m - 1
        OBVIOUS
      <3>1. GroupsOf(k) \in Nat /\ GroupsOf(k) < k
        BY FewerGroups
      <3> QED BY <1>2, <3>1
    <2>7. ShapeBy(f, m) \in Nat \X Nat
      <3>1. m > 1 => f[GroupsOf(m)] \in Nat \X Nat
        BY <1>2, <2>4, <2>6
      <3> QED BY <1>2, <3>1, ShapeByType
    <2>8. h \in [0 .. m -> Nat \X Nat]
      BY <2>4, <2>5, <2>7
    <2>9. \A k \in 0 .. m : h[k] = (IF k = m THEN ShapeBy(f, m) ELSE f[k])
      OBVIOUS
    <2> HIDE DEF h
    <2>10. ASSUME NEW k \in 0 .. m PROVE h[k] = ShapeBy(h, k)
      <3>1. k > 1 => f[GroupsOf(k)] = h[GroupsOf(k)]
        <4>1. k > 1 => GroupsOf(k) \in 0 .. m - 1
          BY <1>2, <2>6
        <4>2. \A j \in 0 .. m - 1 : f[j] = h[j]
          <5>1. \A j \in 0 .. m - 1 : j \in 0 .. m /\ j # m
            BY <1>2
          <5> QED BY <2>9, <5>1
        <4> QED BY <4>1, <4>2
      <3>2. ShapeBy(f, k) = ShapeBy(h, k)
        <4>1. k \in Nat
          OBVIOUS
        <4> QED BY <3>1, <4>1, ShapeByFewer
      <3>3. h[k] = ShapeBy(f, k)
        BY <2>4, <2>5, <2>9
      <3> QED BY <3>2, <3>3
    <2>11. ShapesTo(m, h)
      BY <2>8, <2>10 DEF ShapesTo
    <2> QED BY <1>2, <2>11
  <1> QED BY <1>3, <1>4

LEMMA ShapesAgree ==
    ASSUME NEW m \in Nat, NEW n \in Nat, NEW f, NEW h, ShapesTo(m, f), ShapesTo(n, h),
           NEW k \in Nat, k <= m, k <= n
    PROVE  f[k] = h[k]
  <1> DEFINE bad == {j \in Nat : j <= m /\ j <= n /\ f[j] # h[j]}
  <1> SUFFICES ASSUME bad # {} PROVE FALSE
    OBVIOUS
  <1>1. PICK j \in bad : \A i \in bad : ~(i < j)
    <2>1. bad \in SUBSET Nat
      OBVIOUS
    <2> HIDE DEF bad
    <2> QED BY <2>1, LeastNatural
  <1>2. j \in Nat /\ j <= m /\ j <= n /\ f[j] # h[j]
    BY <1>1
  <1>3. j > 1 => f[GroupsOf(j)] = h[GroupsOf(j)]
    <2> HAVE j > 1
    <2>1. GroupsOf(j) \in Nat /\ GroupsOf(j) < j
      BY <1>2, FewerGroups
    <2>2. GroupsOf(j) <= m /\ GroupsOf(j) <= n
      BY <1>2, <2>1
    <2> QED BY <1>1, <2>1, <2>2
  <1>4. ShapeBy(f, j) = ShapeBy(h, j)
    BY <1>2, <1>3, ShapeByFewer
  <1>5. f[j] = ShapeBy(f, j) /\ h[j] = ShapeBy(h, j)
    <2>1. j \in 0 .. m /\ j \in 0 .. n
      BY <1>2
    <2> QED BY <2>1 DEF ShapesTo
  <1> QED BY <1>2, <1>4, <1>5

\* The cost of any number of windows.
LEMMA ShapeIs == Shape \in [Nat -> Nat \X Nat] /\ \A n \in Nat : Shape[n] = ShapeBy(Shape, n)
  <1> DEFINE table(n) == CHOOSE f : ShapesTo(n, f)
             h == [n \in Nat |-> table(n)[n]]
  <1>1. \A n \in Nat : ShapesTo(n, table(n))
    <2> SUFFICES ASSUME NEW n \in Nat PROVE ShapesTo(n, table(n))
      OBVIOUS
    <2>1. \E f : ShapesTo(n, f)
      BY ShapesAre
    <2> QED BY <2>1
  <1> HIDE DEF table
  <1>2. \A n \in Nat : h[n] = table(n)[n]
    OBVIOUS
  <1>3. h \in [Nat -> Nat \X Nat]
    <2>1. \A n \in Nat : table(n)[n] \in Nat \X Nat
      <3> SUFFICES ASSUME NEW n \in Nat PROVE table(n)[n] \in Nat \X Nat
        OBVIOUS
      <3>1. n \in 0 .. n /\ ShapesTo(n, table(n))
        BY <1>1
      <3> QED BY <3>1 DEF ShapesTo
    <2> QED BY <2>1
  <1>4. h = [n \in Nat |-> h[n]]
    OBVIOUS
  <1> HIDE DEF h
  <1>5. ASSUME NEW n \in Nat PROVE h[n] = ShapeBy(h, n)
    <2>1. n > 1 => table(n)[GroupsOf(n)] = h[GroupsOf(n)]
      <3> HAVE n > 1
      <3>1. GroupsOf(n) \in Nat /\ GroupsOf(n) <= n
        BY FewerGroups
      <3>2. ShapesTo(n, table(n)) /\ ShapesTo(GroupsOf(n), table(GroupsOf(n)))
        BY <1>1, <3>1
      <3>3. GroupsOf(n) <= GroupsOf(n)
        BY <3>1
      <3>4. table(n)[GroupsOf(n)] = table(GroupsOf(n))[GroupsOf(n)]
        BY <3>1, <3>2, <3>3, ShapesAgree
      <3> QED BY <1>2, <3>1, <3>4
    <2>2. ShapeBy(table(n), n) = ShapeBy(h, n)
      BY <2>1, ShapeByFewer
    <2>3. n \in 0 .. n /\ ShapesTo(n, table(n))
      BY <1>1
    <2>4. table(n)[n] = ShapeBy(table(n), n)
      BY <2>3 DEF ShapesTo
    <2> QED BY <1>2, <2>2, <2>4
  <1>6. h = [n \in Nat |-> ShapeBy(h, n)]
    BY <1>4, <1>5
  <1>7. Shape = [n \in Nat |-> ShapeBy(Shape, n)]
    <2>1. h = [n \in Nat |-> IF n <= 1 THEN <<0, 0>>
                             ELSE IF n <= GroupSize THEN <<n, 1>>
                             ELSE LET full == n \div GroupSize
                                      left == n % GroupSize
                                      more == h[full + (IF left > 0 THEN 1 ELSE 0)]
                                  IN  <<full * GroupSize + (IF left > 1 THEN left ELSE 0) + more[1],
                                        full + (IF left > 1 THEN 1 ELSE 0) + more[2]>>]
      BY <1>6 DEF ShapeBy
    <2>2. Shape = [n \in Nat |-> IF n <= 1 THEN <<0, 0>>
                                 ELSE IF n <= GroupSize THEN <<n, 1>>
                                 ELSE LET full == n \div GroupSize
                                          left == n % GroupSize
                                          more == Shape[full + (IF left > 0 THEN 1 ELSE 0)]
                                      IN  <<full * GroupSize + (IF left > 1 THEN left ELSE 0) + more[1],
                                            full + (IF left > 1 THEN 1 ELSE 0) + more[2]>>]
      BY <2>1 DEF Shape
    <2> QED BY <2>2 DEF ShapeBy
  <1>8. \A n \in Nat : Shape[n] = ShapeBy(Shape, n)
    BY <1>7, Zenon
  <1>9. ASSUME NEW n \in Nat PROVE Shape[n] = h[n]
    <2> DEFINE bad == {k \in Nat : Shape[k] # h[k]}
    <2> SUFFICES ASSUME bad # {} PROVE FALSE
      OBVIOUS
    <2>1. PICK k \in bad : \A j \in bad : ~(j < k)
      <3>1. bad \in SUBSET Nat
        OBVIOUS
      <3> HIDE DEF bad
      <3> QED BY <3>1, LeastNatural
    <2>2. k \in Nat /\ Shape[k] # h[k]
      BY <2>1
    <2>3. k > 1 => Shape[GroupsOf(k)] = h[GroupsOf(k)]
      <3> HAVE k > 1
      <3>1. GroupsOf(k) \in Nat /\ GroupsOf(k) < k
        BY <2>2, FewerGroups
      <3> QED BY <2>1, <3>1
    <2>4. ShapeBy(Shape, k) = ShapeBy(h, k)
      BY <2>2, <2>3, ShapeByFewer
    <2> QED BY <1>5, <1>8, <2>2, <2>4
  <1>10. Shape = h
    <2>1. Shape = [n \in Nat |-> Shape[n]]
      <3>1. DOMAIN Shape = Nat /\ Shape = [n \in DOMAIN Shape |-> Shape[n]]
        BY <1>7, Zenon
      <3> QED BY <3>1
    <2> QED BY <1>4, <1>9, <2>1
  <1> QED BY <1>3, <1>5, <1>10

\* The windows sent and the requests made for the groups of n after the k-th.
StillSent(n, k) ==
    IF k <= n \div GroupSize
    THEN (n \div GroupSize - k) * GroupSize + (IF n % GroupSize > 1 THEN n % GroupSize ELSE 0)
    ELSE 0
StillAsked(n, k) ==
    IF k <= n \div GroupSize
    THEN (n \div GroupSize - k) + (IF n % GroupSize > 1 THEN 1 ELSE 0)
    ELSE 0

\* Each group compared takes its own off what is still sent and asked.
LEMMA StillIs ==
    ASSUME NEW n \in Nat, NEW k \in 0 .. GroupsOf(n)
    PROVE  /\ StillSent(n, k) \in Nat /\ StillAsked(n, k) \in Nat
           /\ k = GroupsOf(n) => StillSent(n, k) = 0 /\ StillAsked(n, k) = 0
           /\ k < GroupsOf(n) /\ GroupLen(n, k + 1) > 1 =>
                 /\ StillSent(n, k) = StillSent(n, k + 1) + GroupLen(n, k + 1)
                 /\ StillAsked(n, k) = StillAsked(n, k + 1) + 1
           /\ k < GroupsOf(n) /\ GroupLen(n, k + 1) = 1 =>
                 /\ StillSent(n, k) = StillSent(n, k + 1)
                 /\ StillAsked(n, k) = StillAsked(n, k + 1)
  <1> DEFINE g == GroupSize
             q == n \div g
             r == n % g
             last == IF r > 1 THEN r ELSE 0
             one == IF r > 1 THEN 1 ELSE 0
  <1>1. g \in Nat /\ g > 1
    BY OrderAssumption
  <1>2. q \in Int /\ r \in Int /\ 0 <= r /\ r < g
    <2>1. g \in Nat \ {0}
      BY <1>1
    <2>2. n \in Int
      OBVIOUS
    <2> QED BY <2>1, <2>2, DivisionIs
  <1>3. GroupsOf(n) = q + (IF r > 0 THEN 1 ELSE 0) /\ GroupsOf(n) \in Nat
    BY GroupNumbers DEF GroupsOf
  <1>4. \A j : GroupLen(n, j) = IF j <= q THEN g ELSE r
    BY DEF GroupLen
  <1>5. \A j : /\ StillSent(n, j) = IF j <= q THEN (q - j) * g + last ELSE 0
               /\ StillAsked(n, j) = IF j <= q THEN (q - j) + one ELSE 0
    BY DEF StillSent, StillAsked
  <1>6. last \in Nat /\ one \in Nat
    BY <1>2
  <1>7. k \in Nat /\ k <= GroupsOf(n)
    BY <1>3
  <1> HIDE DEF q, r, g
  <1>8. (r = 0 => last = 0 /\ one = 0) /\ (r = 1 => last = 0 /\ one = 0) /\ (r > 1 => last = r /\ one = 1)
    BY <1>2
  <1> HIDE DEF last, one
  <1>9. StillSent(n, k) \in Nat /\ StillAsked(n, k) \in Nat
    <2>1. k <= q => q - k \in Nat
      BY <1>2, <1>7
    <2>2. k <= q => (q - k) * g \in Nat
      BY <1>1, <2>1
    <2>3. CASE k <= q
      BY <1>5, <1>6, <2>1, <2>2, <2>3
    <2>4. CASE ~(k <= q)
      BY <1>5, <2>4
    <2> QED BY <2>3, <2>4
  <1>10. ASSUME k = GroupsOf(n) PROVE StillSent(n, k) = 0 /\ StillAsked(n, k) = 0
    <2>1. CASE r = 0
      <3>1. k = q /\ q - k = 0 /\ (q - k) * g = 0
        BY <1>1, <1>2, <1>3, <1>10, <2>1
      <3> QED BY <1>5, <1>8, <2>1, <3>1
    <2>2. CASE r > 0
      <3>1. ~(k <= q)
        BY <1>2, <1>3, <1>10, <2>2
      <3> QED BY <1>5, <3>1
    <2> QED BY <1>2, <2>1, <2>2
  <1>11. ASSUME k < GroupsOf(n), k + 1 <= q
         PROVE  /\ GroupLen(n, k + 1) = g /\ g > 1
                /\ StillSent(n, k) = StillSent(n, k + 1) + g
                /\ StillAsked(n, k) = StillAsked(n, k + 1) + 1
    <2>1. k <= q /\ q - (k + 1) \in Int /\ q - k = (q - (k + 1)) + 1
      BY <1>2, <1>7, <1>11
    <2>2. (q - k) * g = (q - (k + 1)) * g + g /\ (q - (k + 1)) * g \in Int
      BY <1>1, <2>1, StepsOf
    <2>3. GroupLen(n, k + 1) = g
      BY <1>4, <1>11
    <2>4. /\ StillSent(n, k) = (q - k) * g + last /\ StillSent(n, k + 1) = (q - (k + 1)) * g + last
          /\ StillAsked(n, k) = (q - k) + one /\ StillAsked(n, k + 1) = (q - (k + 1)) + one
      BY <1>5, <1>11, <2>1
    <2> QED BY <1>1, <1>2, <1>6, <1>7, <2>1, <2>2, <2>3, <2>4
  <1>12. ASSUME k < GroupsOf(n), ~(k + 1 <= q)
         PROVE  /\ GroupLen(n, k + 1) = r /\ r > 0
                /\ StillSent(n, k) = last /\ StillSent(n, k + 1) = 0
                /\ StillAsked(n, k) = one /\ StillAsked(n, k + 1) = 0
    <2>1. k = q /\ r > 0
      BY <1>2, <1>3, <1>7, <1>12
    <2>2. q - k = 0 /\ (q - k) * g = 0
      BY <1>1, <1>2, <2>1
    <2>3. GroupLen(n, k + 1) = r /\ StillSent(n, k + 1) = 0 /\ StillAsked(n, k + 1) = 0
      BY <1>4, <1>5, <1>12
    <2> QED BY <1>2, <1>5, <1>6, <2>1, <2>2, <2>3
  <1>13. ASSUME k < GroupsOf(n)
         PROVE  /\ GroupLen(n, k + 1) > 1 =>
                      /\ StillSent(n, k) = StillSent(n, k + 1) + GroupLen(n, k + 1)
                      /\ StillAsked(n, k) = StillAsked(n, k + 1) + 1
                /\ GroupLen(n, k + 1) = 1 =>
                      /\ StillSent(n, k) = StillSent(n, k + 1)
                      /\ StillAsked(n, k) = StillAsked(n, k + 1)
    <2>1. CASE k + 1 <= q
      BY <1>1, <1>11, <1>13, <2>1
    <2>2. CASE ~(k + 1 <= q)
      BY <1>2, <1>8, <1>12, <1>13, <2>2
    <2> QED BY <2>1, <2>2
  <1> QED BY <1>9, <1>10, <1>13

\* What a tournament costs is its first round and what the winners cost.
LEMMA ShapeOf ==
    ASSUME NEW n \in Nat, n > 0
    PROVE  /\ GroupsOf(n) \in Nat /\ 0 < GroupsOf(n)
           /\ n <= GroupSize => GroupsOf(n) = 1
           /\ Shape[n] \in Nat \X Nat /\ Shape[GroupsOf(n)] \in Nat \X Nat
           /\ Shape[n][1] = StillSent(n, 0) + Shape[GroupsOf(n)][1]
           /\ Shape[n][2] = StillAsked(n, 0) + Shape[GroupsOf(n)][2]
           /\ Shape[1] = <<0, 0>>
  <1> DEFINE g == GroupSize
             q == n \div g
             r == n % g
  <1>0. g \in Nat /\ g > 1
    BY OrderAssumption
  <1>1. Shape \in [Nat -> Nat \X Nat] /\ \A k \in Nat : Shape[k] = ShapeBy(Shape, k)
    BY ShapeIs
  <1>2. Shape[1] = <<0, 0>>
    BY <1>1 DEF ShapeBy
  <1>3. CASE n = 1
    <2>1. q = 0 /\ r = 1
      <3>1. n \in Int /\ g \in Nat \ {0} /\ 0 \in Int /\ 1 \in Int /\ n = g * 0 + 1 /\ 0 <= 1 /\ 1 < g
        BY <1>0, <1>3
      <3> QED BY <3>1, DivisionIsOne
    <2>2. GroupsOf(n) = 1 /\ StillSent(n, 0) = 0 /\ StillAsked(n, 0) = 0
      <3>1. (q - 0) * g = 0 /\ 0 <= q
        BY <1>0, <2>1
      <3> QED BY <2>1, <3>1 DEF GroupsOf, StillSent, StillAsked
    <2> QED BY <1>1, <1>2, <1>3, <2>2
  <1>4. CASE n > 1
    <2>1. /\ GroupsOf(n) \in Nat /\ 0 < GroupsOf(n)
          /\ q \in Nat /\ r \in Nat /\ r < g /\ n = q * g + r /\ q * g \in Nat
          /\ n <= g => GroupsOf(n) = 1
      BY <1>4, FewerGroups
    <2>2. Shape[n] \in Nat \X Nat /\ Shape[GroupsOf(n)] \in Nat \X Nat
      BY <1>1, <2>1
    <2>3. /\ StillSent(n, 0) = q * g + (IF r > 1 THEN r ELSE 0)
          /\ StillAsked(n, 0) = q + (IF r > 1 THEN 1 ELSE 0)
      <3>1. 0 <= q /\ q - 0 = q
        BY <2>1
      <3> QED BY <3>1 DEF StillSent, StillAsked
    <2>4. CASE n <= g
      <3>1. Shape[n] = <<n, 1>>
        BY <1>1, <1>4, <2>4 DEF ShapeBy
      <3>2. GroupsOf(n) = 1 /\ GroupsOf(n) = q + (IF r > 0 THEN 1 ELSE 0)
        BY <2>1, <2>4 DEF GroupsOf
      <3>3. q = 0 \/ q = 1
        BY <2>1, <3>2
      <3>4. (q = 0 => q * g = 0) /\ (q = 1 => q * g = g)
        BY <1>0
      <3> HIDE DEF q, r, g
      <3>5. StillSent(n, 0) = n /\ StillAsked(n, 0) = 1
        <4>1. CASE q = 0
          BY <1>0, <1>4, <2>1, <2>3, <3>2, <3>4, <4>1
        <4>2. CASE q = 1
          <5>1. r = 0
            BY <2>1, <3>2, <4>2
          <5> QED BY <1>0, <2>1, <2>3, <3>4, <4>2, <5>1
        <4> QED BY <3>3, <4>1, <4>2
      <3> QED BY <1>2, <2>1, <2>2, <3>1, <3>2, <3>5 DEF g
    <2>5. CASE ~(n <= g)
      <3> DEFINE more == Shape[GroupsOf(n)]
      <3>1. Shape[n] = <<q * g + (IF r > 1 THEN r ELSE 0) + more[1],
                         q + (IF r > 1 THEN 1 ELSE 0) + more[2]>>
        BY <1>1, <1>4, <2>5 DEF ShapeBy, GroupsOf
      <3> HIDE DEF q, r, more
      <3>2. Shape[n][1] = StillSent(n, 0) + more[1] /\ Shape[n][2] = StillAsked(n, 0) + more[2]
        BY <2>3, <3>1
      <3> QED BY <1>2, <2>1, <2>2, <2>5, <3>2 DEF more
    <2> QED BY <2>4, <2>5
  <1> QED BY <1>3, <1>4

-----------------------------------------------------------------------------
(* The invariant.                                                          *)

\* What is left of a tournament's quote when k groups of n are done.
LeftSent(n, k)  == StillSent(n, k) + Shape[GroupsOf(n)][1]
LeftAsked(n, k) == StillAsked(n, k) + Shape[GroupsOf(n)][2]
LeftToSend == LeftSent(Len(entrants), Len(orders))
LeftToAsk  == LeftAsked(Len(entrants), Len(orders))

\* The types, and windows that are each listed once.
OrderTypes ==
    /\ kind \in {"ranking", "tournament"}
    /\ \E n \in Nat : score \in [1 .. n -> Nat]
    /\ entrants \in Seq(DOMAIN score) /\ IsInjective(entrants)
    /\ tries \in 0 .. Attempts - 1
    /\ bill \in [asked : Nat, sent : Nat, unanswered : Nat]

\* What stands for the k-th group: an order of it, or nothing when a ranking
\* gave it up.
StandsFor(k) ==
    \/ Lists(orders[k], Range(Group(entrants, k)))
    \/ kind = "ranking" /\ orders[k] = <<>> /\ bill.unanswered > 0

\* The orders of this round are of its groups, in turn.
OrdersFit ==
    /\ orders \in Seq(Seq(DOMAIN score)) /\ Len(orders) <= Groups(entrants)
    /\ \A k \in DOMAIN orders : StandsFor(k)
    /\ tries > 0 => Len(orders) < Groups(entrants) /\ Len(Current) > 1

\* The rounds before share out who entered them, and their winners enter this.
RoundsFit ==
    /\ RoundsAre(DOMAIN score, rounds)
    /\ kind = "ranking" => rounds = <<>>
    /\ kind = "tournament" =>
          entrants # <<>> /\ Lists(entrants, Entering(DOMAIN score, rounds, Len(rounds) + 1))

\* The orders of all rounds.
Said == SaidFrom(rounds, Range(orders), 1)

\* The answers are among the orders, and without holes all that compare are.
AnswersFit ==
    /\ answers \subseteq Said
    /\ bill.unanswered = 0 => \A o \in Said : Len(o) > 1 => o \in answers

\* So much has been spent of a quote of which so much is left, c a time.
Spends(quote, left, c, spent) ==
    /\ quote - left <= spent
    /\ spent <= Attempts * quote - Attempts * left + (IF tries = 0 THEN 0 ELSE tries * c)

\* What has been spent is what is no longer left of the quote, as often as
\* it was asked for.
BillFits ==
    kind = "tournament" =>
        /\ Spends(Quoted[2], LeftToAsk, 1, bill.asked)
        /\ Spends(Quoted[1], LeftToSend, Len(Current), bill.sent)

\* What is written is read back from whole rounds.
WrittenFits ==
    ordering = "written" =>
        /\ Len(orders) = Groups(entrants)
        /\ kind = "tournament" => Len(orders) = 1
        /\ placed = ReadBack(FlattenSeq(orders), rounds)

\* The inductive invariant.
OrderInv == OrderTypes /\ OrdersFit /\ RoundsFit /\ AnswersFit /\ BillFits /\ WrittenFits

\* Every round of the ride before this one enters only windows of the ride.
LEMMA RoundIsShared ==
    ASSUME OrderTypes, OrdersFit
    PROVE  /\ Shared(Range(entrants), orders)
           /\ (bill.unanswered = 0 \/ kind = "tournament") /\ Len(orders) = Groups(entrants)
                 => SharesOut(Range(entrants), orders)
  <1> DEFINE E == Range(entrants)
             gr(k) == Group(entrants, k)
             n == Len(orders)
             G == Groups(entrants)
  <1>1. /\ G \in Nat
        /\ \A k \in 1 .. G : /\ gr(k) \in Seq(E) /\ IsInjective(gr(k))
                             /\ Len(gr(k)) \in 1 .. GroupSize
        /\ \A k, l \in 1 .. G : \A i \in DOMAIN gr(k), j \in DOMAIN gr(l) : gr(k)[i] = gr(l)[j] => k = l
        /\ \A x \in E : \E k \in 1 .. G : x \in Range(gr(k))
    BY GroupsAre DEF OrderTypes
  <1>2. /\ n \in Nat /\ n <= G /\ DOMAIN orders = 1 .. n /\ orders = [k \in 1 .. n |-> orders[k]]
        /\ \A k \in 1 .. n : StandsFor(k)
    BY DEF OrdersFit
  <1> HIDE DEF gr, G, n, E
  <1>3. ASSUME NEW k \in 1 .. n
        PROVE  /\ k \in 1 .. G /\ orders[k] \in Seq(E) /\ IsInjective(orders[k])
               /\ \A i \in DOMAIN orders[k] : orders[k][i] \in Range(gr(k))
               /\ bill.unanswered = 0 \/ kind = "tournament" =>
                     orders[k] # <<>> /\ \A x \in Range(gr(k)) : x \in Range(orders[k])
    <2>1. k \in 1 .. G
      BY <1>1, <1>2
    <2>2. Range(gr(k)) \subseteq E /\ 1 \in DOMAIN gr(k) /\ gr(k)[1] \in Range(gr(k))
      <3> DEFINE s == gr(k)
      <3>1. s \in Seq(E) /\ Len(s) \in 1 .. GroupSize
        BY <1>1, <2>1
      <3> HIDE DEF s
      <3>2. 1 \in DOMAIN s
        BY <3>1, OrderAssumption
      <3>3. \A i \in DOMAIN s : s[i] \in E
        BY <3>1
      <3> QED BY <3>2, <3>3 DEF Range, s
    <2>3. CASE Lists(orders[k], Range(gr(k)))
      <3>1. orders[k] \in Seq(Range(gr(k))) /\ IsInjective(orders[k])
            /\ \A x \in Range(gr(k)) : x \in Range(orders[k])
        BY <2>3 DEF Lists
      <3>2. orders[k] \in Seq(E)
        BY <2>2, <3>1
      <3>3. orders[k] # <<>>
        <4>1. gr(k)[1] \in Range(orders[k])
          BY <2>2, <3>1
        <4> QED BY <4>1 DEF Range
      <3> QED BY <2>1, <3>1, <3>2, <3>3
    <2>4. CASE kind = "ranking" /\ orders[k] = <<>> /\ bill.unanswered > 0
      <3>1. <<>> \in Seq(E) /\ IsInjective(<<>>) /\ DOMAIN <<>> = {}
        BY DEF IsInjective
      <3>2. bill.unanswered # 0
        BY <2>4 DEF OrderTypes
      <3> QED BY <2>1, <2>4, <3>1, <3>2
    <2> QED BY <1>2, <2>3, <2>4 DEF StandsFor, gr
  <1>4. Shared(E, orders)
    <2>1. orders \in Seq(Seq(E))
      BY <1>2, <1>3
    <2>2. ASSUME NEW k \in 1 .. n, NEW l \in 1 .. n, NEW i \in DOMAIN orders[k], NEW j \in DOMAIN orders[l],
                 orders[k][i] = orders[l][j]
          PROVE  k = l
      <3>1. orders[k][i] \in Range(gr(k)) /\ orders[l][j] \in Range(gr(l)) /\ k \in 1 .. G /\ l \in 1 .. G
        BY <1>3
      <3>2. PICK p \in DOMAIN gr(k) : gr(k)[p] = orders[k][i]
        BY <3>1 DEF Range
      <3>3. PICK q \in DOMAIN gr(l) : gr(l)[q] = orders[l][j]
        BY <3>1 DEF Range
      <3> QED BY <1>1, <2>2, <3>1, <3>2, <3>3
    <2> QED BY <1>2, <1>3, <2>1, <2>2 DEF Shared
  <1>5. ASSUME bill.unanswered = 0 \/ kind = "tournament", n = G PROVE SharesOut(E, orders)
    <2>1. ASSUME NEW x \in E PROVE \E k \in DOMAIN orders : x \in Range(orders[k])
      <3>1. PICK k \in 1 .. G : x \in Range(gr(k))
        BY <1>1
      <3> QED BY <1>2, <1>3, <1>5, <3>1
    <2>2. \A k \in DOMAIN orders : orders[k] # <<>>
      BY <1>2, <1>3, <1>5
    <2> QED BY <1>4, <2>1, <2>2 DEF SharesOut
  <1> QED BY <1>4, <1>5 DEF E, n, G

\* A round of one order says what the order says.
LEMMA OneOrderSays ==
    ASSUME NEW S, NEW round, SharesOut(S, round), Len(round) = 1
    PROVE  SaysOf(S, Range(round), FlattenSeq(round))
  <1> DEFINE f == FlattenSeq(round)
  <1>1. Shared(S, round) /\ round \in Seq(Seq(S))
    BY DEF SharesOut, Shared
  <1>2. FlatTo(S, round, 1, f)
    BY <1>1, FlattenIs
  <1> HIDE DEF f
  <1>3. DOMAIN round = 1 .. 1 /\ 1 \in DOMAIN round /\ \A k \in DOMAIN round : k = 1
    BY <1>1
  <1>4. round[1] \in Seq(S) /\ round[1] # <<>> /\ \A x \in S : x \in Range(round[1])
    BY <1>1, <1>3 DEF SharesOut
  <1>5. f \in Seq(S) /\ IsInjective(f) /\ Keeps(f, round[1]) /\ f # <<>> /\ f[1] = round[1][1]
    BY <1>2, <1>4 DEF FlatTo
  <1>6. \A x : x \in Range(f) <=> x \in Range(round[1])
    BY <1>2 DEF FlatTo
  <1>7. \A o : o \in Range(round) <=> o = round[1]
    BY <1>3 DEF Range
  <1>8. Lists(f, S)
    BY <1>4, <1>5, <1>6 DEF Lists
  <1>9. Range(round[1]) \subseteq S
    BY <1>4 DEF Range
  <1>10. \A w \in S : w # f[1] <=> \E o \in Range(round) : w \in Range(o) /\ o[1] # w
    BY <1>4, <1>5, <1>7
  <1> QED BY <1>5, <1>7, <1>8, <1>9, <1>10 DEF SaysOf, f

\* With no round before it the last order is the whole.
LEMMA NothingToReadBack ==
    ASSUME NEW last
    PROVE  ReadBack(last, <<>>) = last
  <1> DEFINE back[k \in 0 .. 0] == IF k = 0 THEN last ELSE ReadOut(back[k - 1], (<<>>)[0 + 1 - k])
             h == [k \in 0 .. 0 |-> last]
  <1>1. \A k \in 0 .. 0 : k = 0
    OBVIOUS
  <1>2. h = [k \in 0 .. 0 |-> IF k = 0 THEN last ELSE ReadOut(h[k - 1], (<<>>)[0 + 1 - k])]
    BY <1>1
  <1> HIDE DEF h
  <1>3. back = [k \in 0 .. 0 |-> IF k = 0 THEN last ELSE ReadOut(back[k - 1], (<<>>)[0 + 1 - k])]
    BY <1>2 DEF back
  <1>4. ReadBack(last, <<>>) = back[0]
    <2>1. Len(<<>>) = 0
      OBVIOUS
    <2> QED BY <2>1 DEF ReadBack
  <1> HIDE DEF back
  <1>5. 0 \in 0 .. 0
    OBVIOUS
  <1>6. back[0] = IF 0 = 0 THEN last ELSE ReadOut(back[0 - 1], (<<>>)[0 + 1 - 0])
    BY <1>3, <1>5, Zenon
  <1> QED BY <1>4, <1>6

-----------------------------------------------------------------------------
(* The invariant gives what a bought order promises.                       *)

\* What is written is whole and says what the model said.
LEMMA WrittenIsTheModels ==
    ASSUME OrderInv
    PROVE  OrderIsTheModels
  <1> SUFFICES ASSUME ordering = "written" PROVE OrderIsTheModels
    BY DEF OrderIsTheModels, OrderIsWhole, AnswersAreKept, WinnerUnbeaten
  <1>1. /\ Len(orders) = Groups(entrants)
        /\ kind = "tournament" => Len(orders) = 1
        /\ placed = ReadBack(FlattenSeq(orders), rounds)
    BY DEF OrderInv, WrittenFits
  <1>2. /\ Shared(Range(entrants), orders)
        /\ bill.unanswered = 0 \/ kind = "tournament" => SharesOut(Range(entrants), orders)
    BY <1>1, RoundIsShared DEF OrderInv
  <1>3. kind \in {"ranking", "tournament"}
    BY DEF OrderInv, OrderTypes
  <1>4. answers \subseteq Said /\ (bill.unanswered = 0 => \A o \in Said : Len(o) > 1 => o \in answers)
    BY DEF OrderInv, AnswersFit
  <1>5. \A v, w : Above(v, w) <=> Puts(placed, v, w)
    BY DEF Above, Puts
  <1>6. CASE kind = "tournament"
    <2> DEFINE W == DOMAIN score
               E == Entering(W, rounds, Len(rounds) + 1)
    <2>1. RoundsAre(W, rounds) /\ Lists(entrants, E)
      BY <1>6 DEF OrderInv, RoundsFit
    <2>2. Range(entrants) = E
      BY <2>1 DEF Lists, Range
    <2>3. SaysOf(E, Range(orders), FlattenSeq(orders))
      BY <1>1, <1>2, <1>6, <2>2, OneOrderSays
    <2>4. SaysOf(W, SaidFrom(rounds, Range(orders), 1), ReadBack(FlattenSeq(orders), rounds))
      <3> HIDE DEF W
      <3> QED BY <2>1, <2>3, ReadBackIs
    <2>5. SaysOf(W, Said, placed)
      BY <1>1, <2>4 DEF Said
    <2> HIDE DEF E
    <2>6. OrderIsWhole
      <3>1. placed \in Seq(W) /\ IsInjective(placed) /\ \A x \in W : x \in Range(placed)
        BY <2>5 DEF SaysOf, Lists
      <3>2. Range(placed) = W
        <4> HIDE DEF W
        <4> QED BY <3>1 DEF Range
      <3> QED BY <1>6, <3>1, <3>2 DEF OrderIsWhole
    <2>7. AnswersAreKept
      <3>1. \A o \in answers : Keeps(placed, o)
        BY <1>4, <2>5 DEF SaysOf
      <3> QED BY <1>5, <3>1 DEF AnswersAreKept, Keeps
    <2>8. ASSUME bill.unanswered = 0, NEW w \in W
          PROVE  w # placed[1] <=> \E o \in answers : w \in Range(o) /\ o[1] # w
      <3>1. w # placed[1] <=> \E o \in Said : w \in Range(o) /\ o[1] # w
        BY <2>5 DEF SaysOf
      <3>2. ASSUME NEW o \in Said, w \in Range(o), o[1] # w PROVE o \in answers
        <4>1. PICK i \in DOMAIN o : o[i] = w
          BY <3>2 DEF Range
        <4>2. \E S : o \in Seq(S)
          <5>1. CASE o \in Range(orders)
            <6>1. orders \in Seq(Seq(W))
              BY DEF OrderInv, OrdersFit
            <6>2. PICK k \in DOMAIN orders : o = orders[k]
              BY <5>1 DEF Range
            <6> HIDE DEF W
            <6> QED BY <6>1, <6>2
          <5>2. CASE o \notin Range(orders)
            <6>1. PICK r \in 1 .. Len(rounds) : o \in Range(rounds[r])
              BY <5>2 DEF Said, SaidFrom
            <6> HIDE DEF W
            <6>2. rounds \in Seq(Seq(Seq(W)))
              BY <2>1 DEF RoundsAre
            <6>3. r \in DOMAIN rounds
              BY <6>2
            <6>4. rounds[r] \in Seq(Seq(W))
              BY <6>2, <6>3
            <6>5. PICK k \in DOMAIN rounds[r] : o = rounds[r][k]
              BY <6>1 DEF Range
            <6> QED BY <6>4, <6>5
          <5> QED BY <5>1, <5>2
        <4>3. PICK S : o \in Seq(S)
          BY <4>2
        <4>4. Len(o) > 1
          <5>1. i \in 1 .. Len(o) /\ Len(o) \in Nat
            BY <4>1, <4>3
          <5>2. i # 1
            BY <3>2, <4>1
          <5> QED BY <5>1, <5>2
        <4> QED BY <1>4, <2>8, <4>4
      <3> QED BY <1>4, <3>1, <3>2
    <2>9. WinnerUnbeaten
      BY <2>8 DEF WinnerUnbeaten
    <2> QED BY <2>6, <2>7, <2>9 DEF OrderIsTheModels
  <1>7. CASE kind = "ranking"
    <2> DEFINE E == Range(entrants)
               n == Len(orders)
    <2>1. rounds = <<>>
      BY <1>7 DEF OrderInv, RoundsFit
    <2>2. placed = FlattenSeq(orders)
      BY <1>1, <2>1, NothingToReadBack
    <2>3. FlatTo(E, orders, n, placed)
      <3> HIDE DEF E
      <3>1. Shared(E, orders)
        BY <1>2 DEF E
      <3> QED BY <2>2, <3>1, FlattenIs
    <2>4. DOMAIN orders = 1 .. n /\ n \in Nat
      BY DEF OrderInv, OrdersFit
    <2>5. Said = Range(orders)
      BY <2>1 DEF Said, SaidFrom
    <2> HIDE DEF n
    <2>6. \A o \in answers : Keeps(placed, o)
      BY <1>4, <2>3, <2>4, <2>5 DEF FlatTo, Range
    <2>7. AnswersAreKept
      BY <1>5, <2>6 DEF AnswersAreKept, Keeps
    <2>8. ASSUME bill.unanswered = 0 PROVE Range(placed) = E
      <3>1. SharesOut(E, orders)
        BY <1>2, <2>8
      <3>2. \A x \in E : \E k \in 1 .. n : x \in Range(orders[k])
        BY <2>4, <3>1 DEF SharesOut
      <3>3. \A x \in E : x \in Range(placed)
        BY <2>3, <3>2 DEF FlatTo
      <3>4. placed \in Seq(E)
        BY <2>3 DEF FlatTo
      <3> HIDE DEF E
      <3> QED BY <3>3, <3>4 DEF Range
    <2>9. OrderIsWhole
      <3>1. IsInjective(placed)
        BY <2>3 DEF FlatTo
      <3> QED BY <1>7, <2>8, <3>1 DEF OrderIsWhole
    <2>10. WinnerUnbeaten
      BY <1>7 DEF WinnerUnbeaten
    <2> QED BY <2>7, <2>9, <2>10 DEF OrderIsTheModels
  <1> QED BY <1>3, <1>6, <1>7

\* What is left of a quote goes down by each group that is compared.
LEMMA LeftIs ==
    ASSUME NEW n \in Nat, n > 0, NEW k \in 0 .. GroupsOf(n)
    PROVE  /\ LeftSent(n, k) \in Nat /\ LeftAsked(n, k) \in Nat
           /\ LeftSent(n, 0) = Shape[n][1] /\ LeftAsked(n, 0) = Shape[n][2]
           /\ k = GroupsOf(n) => /\ LeftSent(n, k) = Shape[k][1]
                                 /\ LeftAsked(n, k) = Shape[k][2]
           /\ k < GroupsOf(n) =>
                 /\ LeftSent(n, k + 1) \in Nat /\ LeftAsked(n, k + 1) \in Nat
                 /\ GroupLen(n, k + 1) > 1 => /\ LeftSent(n, k) = LeftSent(n, k + 1) + GroupLen(n, k + 1)
                                              /\ LeftAsked(n, k) = LeftAsked(n, k + 1) + 1
                 /\ GroupLen(n, k + 1) = 1 => /\ LeftSent(n, k) = LeftSent(n, k + 1)
                                              /\ LeftAsked(n, k) = LeftAsked(n, k + 1)
  <1> DEFINE G == GroupsOf(n)
             s == Shape[G][1]
             a == Shape[G][2]
  <1>1. /\ G \in Nat /\ Shape[n][1] = StillSent(n, 0) + s /\ Shape[n][2] = StillAsked(n, 0) + a
        /\ Shape[G] \in Nat \X Nat
    BY ShapeOf
  <1>2. s \in Nat /\ a \in Nat
    BY <1>1
  <1>3. \A j : LeftSent(n, j) = StillSent(n, j) + s /\ LeftAsked(n, j) = StillAsked(n, j) + a
    BY DEF LeftSent, LeftAsked
  <1>4. /\ StillSent(n, k) \in Nat /\ StillAsked(n, k) \in Nat
        /\ k = G => StillSent(n, k) = 0 /\ StillAsked(n, k) = 0
        /\ k < G /\ GroupLen(n, k + 1) > 1 =>
              /\ StillSent(n, k) = StillSent(n, k + 1) + GroupLen(n, k + 1)
              /\ StillAsked(n, k) = StillAsked(n, k + 1) + 1
        /\ k < G /\ GroupLen(n, k + 1) = 1 =>
              /\ StillSent(n, k) = StillSent(n, k + 1)
              /\ StillAsked(n, k) = StillAsked(n, k + 1)
    BY StillIs
  <1>5. k < G => /\ k + 1 \in 1 .. G /\ StillSent(n, k + 1) \in Nat /\ StillAsked(n, k + 1) \in Nat
                 /\ GroupLen(n, k + 1) \in Nat
    <2> HAVE k < G
    <2>1. k + 1 \in 0 .. GroupsOf(n) /\ k + 1 \in 1 .. GroupsOf(n)
      BY <1>1
    <2>2. GroupLen(n, k + 1) \in 1 .. GroupSize
      BY <2>1, GroupNumbers
    <2> QED BY <2>1, <2>2, StillIs
  <1> HIDE DEF s, a, G
  <1>6. LeftSent(n, k) \in Nat /\ LeftAsked(n, k) \in Nat
    BY <1>2, <1>3, <1>4
  <1>7. LeftSent(n, 0) = Shape[n][1] /\ LeftAsked(n, 0) = Shape[n][2]
    BY <1>1, <1>3
  <1>8. k = G => LeftSent(n, k) = Shape[k][1] /\ LeftAsked(n, k) = Shape[k][2]
    <2> HAVE k = G
    <2>1. LeftSent(n, k) = s /\ LeftAsked(n, k) = a
      BY <1>2, <1>3, <1>4
    <2>2. s = Shape[k][1] /\ a = Shape[k][2]
      BY DEF s, a
    <2> QED BY <2>1, <2>2
  <1>9. ASSUME k < G
        PROVE  /\ LeftSent(n, k + 1) \in Nat /\ LeftAsked(n, k + 1) \in Nat
               /\ GroupLen(n, k + 1) > 1 => /\ LeftSent(n, k) = LeftSent(n, k + 1) + GroupLen(n, k + 1)
                                            /\ LeftAsked(n, k) = LeftAsked(n, k + 1) + 1
               /\ GroupLen(n, k + 1) = 1 => /\ LeftSent(n, k) = LeftSent(n, k + 1)
                                            /\ LeftAsked(n, k) = LeftAsked(n, k + 1)
    <2>1. LeftSent(n, k + 1) \in Nat /\ LeftAsked(n, k + 1) \in Nat
      BY <1>2, <1>3, <1>5, <1>9
    <2>2. ASSUME GroupLen(n, k + 1) > 1
          PROVE  /\ LeftSent(n, k) = LeftSent(n, k + 1) + GroupLen(n, k + 1)
                 /\ LeftAsked(n, k) = LeftAsked(n, k + 1) + 1
      BY <1>2, <1>3, <1>4, <1>5, <1>9, <2>2
    <2>3. ASSUME GroupLen(n, k + 1) = 1
          PROVE  /\ LeftSent(n, k) = LeftSent(n, k + 1)
                 /\ LeftAsked(n, k) = LeftAsked(n, k + 1)
      BY <1>2, <1>3, <1>4, <1>5, <1>9, <2>3
    <2> QED BY <2>1, <2>2, <2>3
  <1> QED BY <1>6, <1>7, <1>8, <1>9 DEF G

\* The numbers of a state: its groups, its quote, and what is left of it.
LEMMA CostsAre ==
    ASSUME OrderTypes, OrdersFit, RoundsFit
    PROVE  /\ Len(entrants) \in Nat /\ Groups(entrants) = GroupsOf(Len(entrants)) /\ Groups(entrants) \in Nat
           /\ Len(orders) \in 0 .. GroupsOf(Len(entrants))
           /\ Len(orders) < Groups(entrants) =>
                 /\ Len(orders) + 1 \in 1 .. Groups(entrants)
                 /\ Len(Current) = GroupLen(Len(entrants), Len(orders) + 1)
                 /\ Len(Current) \in 1 .. GroupSize
           /\ Quoted \in Nat \X Nat
           /\ Attempts \in Nat /\ Attempts > 0 /\ tries \in Nat /\ tries + 1 <= Attempts
           /\ kind = "tournament" =>
                 /\ Len(entrants) > 0
                 /\ LeftToSend \in Nat /\ LeftToAsk \in Nat
  <1>1. entrants \in Seq(DOMAIN score) /\ IsInjective(entrants) /\ tries \in 0 .. Attempts - 1
    BY DEF OrderTypes
  <1>2. Len(entrants) \in Nat
    BY <1>1
  <1>3. /\ Groups(entrants) = GroupsOf(Len(entrants)) /\ Groups(entrants) \in Nat
        /\ \A k \in 1 .. Groups(entrants) :
              /\ Len(Group(entrants, k)) = GroupLen(Len(entrants), k)
              /\ Len(Group(entrants, k)) \in 1 .. GroupSize
    <2> DEFINE S == DOMAIN score
    <2>1. entrants \in Seq(S)
      BY <1>1
    <2> HIDE DEF S
    <2> QED BY <1>1, <2>1, GroupsAre
  <1>4. Len(orders) \in 0 .. Groups(entrants)
    BY <1>3 DEF OrdersFit
  <1>5. Len(orders) < Groups(entrants) => Len(orders) + 1 \in 1 .. Groups(entrants)
    BY <1>3, <1>4
  <1>6. Len(orders) < Groups(entrants) =>
           /\ Len(Current) = GroupLen(Len(entrants), Len(orders) + 1)
           /\ Len(Current) \in 1 .. GroupSize
    BY <1>3, <1>5 DEF Current
  <1>7. Quoted \in Nat \X Nat
    <2>1. PICK n \in Nat : score \in [1 .. n -> Nat]
      BY DEF OrderTypes
    <2>2. DOMAIN score = 1 .. n
      BY <2>1
    <2>3. 1 \in Int /\ n \in Int
      OBVIOUS
    <2>4. IsFiniteSet(1 .. n) /\ Cardinality(1 .. n) = IF 1 > n THEN 0 ELSE n - 1 + 1
      BY <2>3, FS_Interval
    <2>5. Cardinality(DOMAIN score) \in Nat
      BY <2>2, <2>4
    <2> QED BY <2>5, ShapeIs DEF Quoted
  <1>8. Attempts \in Nat /\ Attempts > 0
    BY OrderAssumption
  <1>9. tries \in Nat /\ tries + 1 <= Attempts
    BY <1>1, <1>8
  <1>10. kind = "tournament" =>
            Len(entrants) > 0 /\ LeftToSend \in Nat /\ LeftToAsk \in Nat
    <2> HAVE kind = "tournament"
    <2>1. Len(entrants) > 0
      <3>1. entrants # <<>>
        BY DEF RoundsFit
      <3> QED BY <1>1, <3>1
    <2>2. Len(orders) \in 0 .. GroupsOf(Len(entrants))
      BY <1>3, <1>4
    <2> QED BY <1>2, <2>1, <2>2, LeftIs DEF LeftToSend, LeftToAsk
  <1> QED BY <1>2, <1>3, <1>4, <1>5, <1>6, <1>7, <1>8, <1>9, <1>10

\* So many times so much, for more and for less.
LEMMA TimesAre ==
    ASSUME NEW a \in Nat, NEW x \in Nat, NEW y \in Nat, x <= y
    PROVE  a * x \in Nat /\ a * y \in Nat /\ a * x <= a * y
  <1>1. x * a <= y * a
    BY StepsOf
  <1> QED BY <1>1

\* What was bought cost what was foreseen.
LEMMA BillWasForeseen ==
    ASSUME OrderInv
    PROVE  BillIsForeseen
  <1> SUFFICES ASSUME kind = "tournament"
               PROVE  /\ bill.asked <= Attempts * Quoted[2]
                      /\ bill.sent <= Attempts * Quoted[1]
                      /\ ordering = "written" => bill.asked >= Quoted[2] /\ bill.sent >= Quoted[1]
    BY DEF BillIsForeseen
  <1> DEFINE A == Attempts
             q2 == Quoted[2]
             q1 == Quoted[1]
             l2 == LeftToAsk
             l1 == LeftToSend
             c == Len(Current)
             n == Len(entrants)
             k == Len(orders)
  <1>0. OrderTypes /\ OrdersFit /\ RoundsFit
    BY DEF OrderInv
  <1>1. /\ n \in Nat /\ n > 0 /\ Groups(entrants) = GroupsOf(n) /\ Groups(entrants) \in Nat
        /\ k \in 0 .. GroupsOf(n)
        /\ k < Groups(entrants) => c = GroupLen(n, k + 1) /\ c \in 1 .. GroupSize
        /\ Quoted \in Nat \X Nat
        /\ A \in Nat /\ A > 0 /\ tries \in Nat /\ tries + 1 <= A /\ l1 \in Nat /\ l2 \in Nat
    BY <1>0, CostsAre
  <1>2. q1 \in Nat /\ q2 \in Nat
    BY <1>1
  <1>3. bill.asked \in Nat /\ bill.sent \in Nat
    BY <1>0 DEF OrderTypes
  <1>4. /\ q2 - l2 <= bill.asked
        /\ bill.asked <= A * q2 - A * l2 + (IF tries = 0 THEN 0 ELSE tries * 1)
        /\ q1 - l1 <= bill.sent
        /\ bill.sent <= A * q1 - A * l1 + (IF tries = 0 THEN 0 ELSE tries * c)
    BY DEF OrderInv, BillFits, Spends
  <1>5. tries # 0 => c \in Nat /\ c <= l1 /\ 1 <= l2
    <2> HAVE tries # 0
    <2>1. k < Groups(entrants) /\ c > 1
      BY <1>0, <1>1 DEF OrdersFit
    <2>2. l1 = LeftSent(n, k) /\ l2 = LeftAsked(n, k)
      BY DEF LeftToSend, LeftToAsk
    <2>3. /\ LeftSent(n, k + 1) \in Nat /\ LeftAsked(n, k + 1) \in Nat
          /\ LeftSent(n, k) = LeftSent(n, k + 1) + c /\ LeftAsked(n, k) = LeftAsked(n, k + 1) + 1
      <3> HIDE DEF n, k, c
      <3> QED BY <1>1, <2>1, LeftIs
    <2>4. c \in Nat
      BY <1>1, <2>1
    <2> HIDE DEF n, k, c, l1, l2
    <2> QED BY <2>2, <2>3, <2>4
  <1>6. ASSUME ordering = "written" PROVE l1 = 0 /\ l2 = 0
    <2>1. k = 1 /\ k = Groups(entrants)
      BY <1>6 DEF OrderInv, WrittenFits
    <2>2. l1 = LeftSent(n, k) /\ l2 = LeftAsked(n, k)
      BY DEF LeftToSend, LeftToAsk
    <2>3. LeftSent(n, k) = Shape[k][1] /\ LeftAsked(n, k) = Shape[k][2]
      <3> HIDE DEF n, k
      <3> QED BY <1>1, <2>1, LeftIs
    <2>4. Shape[1] = <<0, 0>>
      <3> HIDE DEF n
      <3> QED BY <1>1, ShapeOf
    <2> QED BY <2>1, <2>2, <2>3, <2>4
  <1> HIDE DEF A, q1, q2, l1, l2, c
  <1>7. bill.asked <= A * q2
    <2>1. A * q2 \in Nat /\ A * l2 \in Nat
      BY <1>1, <1>2
    <2>2. CASE tries = 0
      BY <1>3, <1>4, <2>1, <2>2
    <2>3. CASE tries # 0
      <3>1. A * 1 <= A * l2
        BY <1>1, <1>5, <2>3, TimesAre
      <3> QED BY <1>1, <1>3, <1>4, <2>1, <2>3, <3>1
    <2> QED BY <2>2, <2>3
  <1>8. bill.sent <= A * q1
    <2>1. A * q1 \in Nat /\ A * l1 \in Nat
      BY <1>1, <1>2
    <2>2. CASE tries = 0
      BY <1>3, <1>4, <2>1, <2>2
    <2>3. CASE tries # 0
      <3>1. A * c <= A * l1
        BY <1>1, <1>5, <2>3, TimesAre
      <3>2. tries * c <= A * c /\ tries * c \in Int /\ A * c \in Int
        <4>1. tries \in Int /\ A \in Int /\ tries <= A /\ c \in Nat
          BY <1>1, <1>5, <2>3
        <4> QED BY <4>1, StepsOf
      <3> QED BY <1>3, <1>4, <2>1, <2>3, <3>1, <3>2
    <2> QED BY <2>2, <2>3
  <1>9. ordering = "written" => bill.asked >= q2 /\ bill.sent >= q1
    BY <1>2, <1>3, <1>4, <1>6
  <1> QED BY <1>7, <1>8, <1>9 DEF A, q1, q2

-----------------------------------------------------------------------------
(* The invariant holds at first, and every step keeps it.                  *)

LEMMA OrderBegins == OrderInit => OrderInv
  <1> SUFFICES ASSUME OrderInit PROVE OrderInv
    OBVIOUS
  <1>1. /\ kind \in {"ranking", "tournament"}
        /\ orders = <<>> /\ rounds = <<>> /\ tries = 0 /\ answers = {}
        /\ bill = [asked |-> 0, sent |-> 0, unanswered |-> 0]
        /\ ordering # "written"
    BY DEF OrderInit
  <1>2. PICK n \in 1 .. MaxEntrants : IF kind = "ranking" THEN score \in [1 .. n -> Scores]
                                      ELSE score = [w \in 1 .. n |-> 0]
    BY DEF OrderInit
  <1>3. n \in Nat /\ n > 0 /\ score \in [1 .. n -> Nat] /\ DOMAIN score = 1 .. n
    <2>1. Scores \subseteq Nat
      BY OrderAssumption
    <2>2. n \in Nat /\ n > 0
      OBVIOUS
    <2>3. CASE kind = "ranking"
      <3>1. score \in [1 .. n -> Scores]
        BY <1>2, <2>3
      <3> QED BY <2>1, <2>2, <3>1
    <2>4. CASE kind # "ranking"
      <3>1. score = [w \in 1 .. n |-> 0]
        BY <1>2, <2>4
      <3> QED BY <2>2, <3>1
    <2> QED BY <2>3, <2>4
  <1>4. entrants \in Seq(1 .. n) /\ IsInjective(entrants)
    <2>1. CASE kind = "ranking"
      <3>1. entrants = WorthRanking(score)
        BY <2>1 DEF OrderInit
      <3> QED BY <1>3, <3>1, WorthRankingIs
    <2>2. CASE kind = "tournament"
      <3>1. entrants = [w \in 1 .. n |-> w]
        BY <1>3, <2>2 DEF OrderInit
      <3>2. entrants \in Seq(1 .. n)
        BY <1>3, <3>1
      <3>3. IsInjective(entrants)
        BY <3>1 DEF IsInjective
      <3> QED BY <3>2, <3>3
    <2> QED BY <1>1, <2>1, <2>2
  <1>5. kind = "tournament" => Len(entrants) = n /\ \A x \in 1 .. n : x \in Range(entrants)
    <2> HAVE kind = "tournament"
    <2>1. entrants = [w \in 1 .. n |-> w]
      BY <1>3 DEF OrderInit
    <2>2. DOMAIN entrants = 1 .. n /\ \A x \in 1 .. n : entrants[x] = x
      BY <2>1
    <2>3. Len(entrants) = n
      BY <1>3, <2>1
    <2> QED BY <2>2, <2>3 DEF Range
  <1>6. OrderTypes
    <2>1. \E m \in Nat : score \in [1 .. m -> Nat]
      BY <1>3
    <2>2. tries \in 0 .. Attempts - 1
      BY <1>1, OrderAssumption
    <2>3. bill \in [asked : Nat, sent : Nat, unanswered : Nat]
      BY <1>1
    <2> QED BY <1>1, <1>3, <1>4, <2>1, <2>2, <2>3 DEF OrderTypes
  <1>7. OrdersFit
    <2>1. Groups(entrants) \in Nat
      <3> DEFINE S == 1 .. n
      <3>1. entrants \in Seq(S)
        BY <1>4
      <3> HIDE DEF S
      <3> QED BY <1>4, <3>1, GroupsAre
    <2>2. orders \in Seq(Seq(DOMAIN score)) /\ Len(orders) = 0 /\ DOMAIN orders = {}
      BY <1>1
    <2> QED BY <1>1, <2>1, <2>2 DEF OrdersFit
  <1>8. RoundsFit
    <2>1. rounds \in Seq(Seq(Seq(DOMAIN score))) /\ DOMAIN rounds = {} /\ Len(rounds) + 1 = 1
      BY <1>1
    <2>2. RoundsAre(DOMAIN score, rounds)
      BY <2>1 DEF RoundsAre
    <2>3. Entering(DOMAIN score, rounds, Len(rounds) + 1) = DOMAIN score
      BY <2>1 DEF Entering
    <2>4. kind = "tournament" => entrants # <<>> /\ Lists(entrants, DOMAIN score)
      <3> HAVE kind = "tournament"
      <3>1. entrants # <<>>
        BY <1>3, <1>5
      <3> QED BY <1>3, <1>4, <1>5, <3>1 DEF Lists
    <2> QED BY <1>1, <2>2, <2>3, <2>4 DEF RoundsFit
  <1>9. AnswersFit
    <2>1. Said = {}
      <3>1. Range(orders) = {} /\ 1 .. Len(rounds) = {}
        BY <1>1 DEF Range
      <3> QED BY <3>1 DEF Said, SaidFrom
    <2> QED BY <1>1, <2>1 DEF AnswersFit
  <1>10. BillFits
    <2> SUFFICES ASSUME kind = "tournament"
                 PROVE  /\ Spends(Quoted[2], LeftToAsk, 1, bill.asked)
                        /\ Spends(Quoted[1], LeftToSend, Len(Current), bill.sent)
      BY DEF BillFits
    <2>1. Cardinality(DOMAIN score) = n
      <3>1. 1 \in Int /\ n \in Int
        OBVIOUS
      <3>2. IsFiniteSet(1 .. n) /\ Cardinality(1 .. n) = IF 1 > n THEN 0 ELSE n - 1 + 1
        BY <3>1, FS_Interval
      <3> QED BY <1>3, <3>2
    <2>2. Quoted[1] = Shape[n][1] /\ Quoted[2] = Shape[n][2]
      BY <2>1 DEF Quoted
    <2>3. LeftToSend = LeftSent(n, 0) /\ LeftToAsk = LeftAsked(n, 0)
      <3>1. Len(orders) = 0
        BY <1>1
      <3> QED BY <1>5, <3>1 DEF LeftToSend, LeftToAsk
    <2>4. LeftSent(n, 0) = Shape[n][1] /\ LeftAsked(n, 0) = Shape[n][2]
          /\ LeftSent(n, 0) \in Nat /\ LeftAsked(n, 0) \in Nat
      <3>1. 0 \in 0 .. GroupsOf(n)
        BY <1>3, GroupNumbers
      <3> QED BY <1>3, <3>1, LeftIs
    <2>5. LeftToSend = Quoted[1] /\ LeftToAsk = Quoted[2] /\ Quoted[1] \in Nat /\ Quoted[2] \in Nat
      BY <2>2, <2>3, <2>4
    <2>6. \A q \in Nat : Attempts * q - Attempts * q = 0 /\ q - q = 0
      <3> SUFFICES ASSUME NEW q \in Nat PROVE Attempts * q - Attempts * q = 0 /\ q - q = 0
        OBVIOUS
      <3>1. Attempts * q \in Nat
        BY OrderAssumption
      <3> QED BY <3>1
    <2>7. bill.asked = 0 /\ bill.sent = 0
      BY <1>1
    <2> QED BY <1>1, <2>5, <2>6, <2>7 DEF Spends
  <1>11. WrittenFits
    BY <1>1 DEF WrittenFits
  <1> QED BY <1>6, <1>7, <1>8, <1>9, <1>10, <1>11 DEF OrderInv

\* One more order.
LEMMA OrderComesIn ==
    ASSUME OrderTypes, OrdersFit, Len(orders) < Groups(entrants),
           UNCHANGED <<kind, score, entrants, rounds>>, NEW o, orders' = Append(orders, o),
           bill'.unanswered \in Nat, bill'.unanswered >= bill.unanswered,
           Lists(o, Range(Current)) \/ (kind = "ranking" /\ o = <<>> /\ bill'.unanswered > 0)
    PROVE  /\ orders' \in Seq(Seq(DOMAIN score)) /\ Len(orders') = Len(orders) + 1
           /\ Len(orders') <= Groups(entrants')
           /\ \A k \in DOMAIN orders' : StandsFor(k)'
           /\ Said' = Said \cup {o}
  <1> DEFINE W == DOMAIN score
             n == Len(orders)
  <1>1. orders \in Seq(Seq(W)) /\ n \in Nat /\ DOMAIN orders = 1 .. n
    BY DEF OrdersFit
  <1>2. Groups(entrants) \in Nat /\ n + 1 \in 1 .. Groups(entrants)
        /\ Current \in Seq(Range(entrants)) /\ entrants \in Seq(W)
    <2>1. entrants \in Seq(W) /\ IsInjective(entrants)
      BY DEF OrderTypes
    <2> HIDE DEF W
    <2>2. Groups(entrants) \in Nat
          /\ \A k \in 1 .. Groups(entrants) : Group(entrants, k) \in Seq(Range(entrants))
      BY <2>1, GroupsAre
    <2>3. n + 1 \in 1 .. Groups(entrants)
      BY <1>1, <2>2 DEF OrdersFit
    <2> QED BY <2>1, <2>2, <2>3 DEF Current
  <1> HIDE DEF W
  <1>3. o \in Seq(W)
    <2>1. <<>> \in Seq(W)
      OBVIOUS
    <2>2. ASSUME o \in Seq(Range(Current)) PROVE o \in Seq(W)
      <3>1. Range(Current) \subseteq Range(entrants)
        BY <1>2 DEF Range
      <3>2. Range(entrants) \subseteq W
        BY <1>2 DEF Range
      <3> QED BY <2>2, <3>1, <3>2
    <2> QED BY <2>1, <2>2 DEF Lists
  <1>4. /\ orders' \in Seq(Seq(W)) /\ Len(orders') = n + 1 /\ DOMAIN orders' = 1 .. (n + 1)
        /\ \A k \in 1 .. n : orders'[k] = orders[k]
        /\ orders'[n + 1] = o
    BY <1>1, <1>3
  <1>5. Len(orders') <= Groups(entrants')
    BY <1>2, <1>4
  <1>6. ASSUME NEW k \in DOMAIN orders' PROVE StandsFor(k)'
    <2>1. CASE k = n + 1
      <3>1. orders'[k] = o /\ Group(entrants', k) = Current
        BY <1>4, <2>1 DEF Current
      <3> QED BY <3>1 DEF StandsFor
    <2>2. CASE k # n + 1
      <3>1. k \in 1 .. n /\ orders'[k] = orders[k]
        BY <1>1, <1>4, <2>2
      <3>2. StandsFor(k)
        BY <1>1, <3>1 DEF OrdersFit
      <3>3. bill.unanswered > 0 => bill'.unanswered > 0
        <4>1. bill.unanswered \in Nat
          BY DEF OrderTypes
        <4> QED BY <4>1
      <3> QED BY <3>1, <3>2, <3>3 DEF StandsFor
    <2> QED BY <2>1, <2>2
  <1>7. Said' = Said \cup {o}
    <2>1. Range(orders') = Range(orders) \cup {o}
      <3>1. \A k \in 1 .. n : k \in 1 .. (n + 1)
        BY <1>1
      <3>2. \A k \in 1 .. (n + 1) : k \in 1 .. n \/ k = n + 1
        BY <1>1
      <3>3. n + 1 \in 1 .. (n + 1)
        BY <1>1
      <3> HIDE DEF n
      <3> QED BY <1>1, <1>4, <3>1, <3>2, <3>3 DEF Range
    <2> QED BY <2>1 DEF Said, SaidFrom
  <1> QED BY <1>4, <1>5, <1>6, <1>7 DEF W

\* Spending for one group, and spending again.
LEMMA SpendOne ==
    ASSUME NEW a \in Nat, NEW q \in Nat, NEW l \in Nat, NEW m \in Nat, NEW c \in Nat,
           NEW t \in Nat, NEW x \in Nat, l = m + c, t + 1 <= a, q - l <= x,
           x <= a * q - a * l + (IF t = 0 THEN 0 ELSE t * c)
    PROVE  q - m <= x + c /\ x + c <= a * q - a * m + 0
  <1>1. a * q \in Nat /\ a * m \in Nat /\ a * c \in Nat /\ t * c \in Nat /\ (t + 1) * c \in Nat
    OBVIOUS
  <1>2. a * l = a * m + a * c
    OBVIOUS
  <1>3. (t + 1) * c = t * c + c
    OBVIOUS
  <1>4. (t + 1) * c <= a * c
    BY StepsOf
  <1>5. CASE t = 0
    <2>1. t * c = 0
      BY <1>5
    <2> HIDE <1>5
    <2>2. x <= a * q - a * l
      BY <1>5
    <2> QED BY <1>1, <1>2, <1>3, <1>4, <2>1, <2>2
  <1>6. CASE t # 0
    <2>1. x <= a * q - a * l + t * c
      BY <1>6
    <2> QED BY <1>1, <1>2, <1>3, <1>4, <2>1
  <1> QED BY <1>5, <1>6

LEMMA SpendAgain ==
    ASSUME NEW a \in Nat, NEW q \in Nat, NEW l \in Nat, NEW c \in Nat,
           NEW t \in Nat, NEW x \in Nat, q - l <= x,
           x <= a * q - a * l + (IF t = 0 THEN 0 ELSE t * c)
    PROVE  q - l <= x + c /\ x + c <= a * q - a * l + (t + 1) * c
  <1>1. a * q \in Nat /\ a * l \in Nat /\ t * c \in Nat /\ (t + 1) * c = t * c + c
    OBVIOUS
  <1>2. t = 0 => t * c = 0
    OBVIOUS
  <1>3. x <= a * q - a * l + t * c
    BY <1>2
  <1> QED BY <1>1, <1>3

\* The bill of a comparison.
LEMMA AskedIs ==
    ASSUME bill \in [asked : Nat, sent : Nat, unanswered : Nat], NEW c, c = Len(Current), c \in Nat
    PROVE  /\ Asked \in [asked : Nat, sent : Nat, unanswered : Nat]
           /\ Asked.asked = bill.asked + 1 /\ Asked.sent = bill.sent + c
           /\ Asked.unanswered = bill.unanswered
  <1> DEFINE x == bill.asked + 1
             y == bill.sent + c
  <1>1. x \in Nat /\ y \in Nat
    OBVIOUS
  <1>2. Asked = [bill EXCEPT !.asked = x, !.sent = y]
    BY DEF Asked
  <1> HIDE DEF x, y
  <1>3. [bill EXCEPT !.asked = x, !.sent = y] \in [asked : Nat, sent : Nat, unanswered : Nat]
    BY <1>1
  <1>4. [bill EXCEPT !.asked = x, !.sent = y].asked = x
    BY <1>1
  <1>5. [bill EXCEPT !.asked = x, !.sent = y].sent = y
    BY <1>1
  <1>6. [bill EXCEPT !.asked = x, !.sent = y].unanswered = bill.unanswered
    BY <1>1
  <1> QED BY <1>2, <1>3, <1>4, <1>5, <1>6 DEF x, y

\* A comparison that settles a group is spent as the quote foresaw.
LEMMA BillGoesOn ==
    ASSUME OrderInv, Len(orders) < Groups(entrants), Len(Current) > 1,
           UNCHANGED <<kind, score, entrants>>, Len(orders') = Len(orders) + 1, tries' = 0,
           bill'.asked = bill.asked + 1, bill'.sent = bill.sent + Len(Current)
    PROVE  BillFits'
  <1> SUFFICES ASSUME kind = "tournament"
               PROVE  /\ Spends(Quoted[2], LeftToAsk, 1, bill.asked)'
                      /\ Spends(Quoted[1], LeftToSend, Len(Current), bill.sent)'
    BY DEF BillFits
  <1> DEFINE A == Attempts
             q2 == Quoted[2]
             q1 == Quoted[1]
             l2 == LeftToAsk
             l1 == LeftToSend
             c == Len(Current)
             n == Len(entrants)
             k == Len(orders)
  <1>0. OrderTypes /\ OrdersFit /\ RoundsFit
    BY DEF OrderInv
  <1>1. /\ n \in Nat /\ n > 0 /\ Groups(entrants) = GroupsOf(n)
        /\ k \in 0 .. GroupsOf(n)
        /\ c = GroupLen(n, k + 1) /\ c \in 1 .. GroupSize
        /\ Quoted \in Nat \X Nat
        /\ A \in Nat /\ tries \in Nat /\ tries + 1 <= A /\ l1 \in Nat /\ l2 \in Nat
    BY <1>0, CostsAre
  <1>2. q1 \in Nat /\ q2 \in Nat /\ bill.asked \in Nat /\ bill.sent \in Nat /\ c \in Nat
    BY <1>0, <1>1 DEF OrderTypes
  <1>3. /\ q2 - l2 <= bill.asked
        /\ bill.asked <= A * q2 - A * l2 + (IF tries = 0 THEN 0 ELSE tries * 1)
        /\ q1 - l1 <= bill.sent
        /\ bill.sent <= A * q1 - A * l1 + (IF tries = 0 THEN 0 ELSE tries * c)
    BY DEF OrderInv, BillFits, Spends
  <1>4. l1 = LeftSent(n, k) /\ l2 = LeftAsked(n, k)
    BY DEF LeftToSend, LeftToAsk
  <1>5. LeftToSend' = LeftSent(n, k + 1) /\ LeftToAsk' = LeftAsked(n, k + 1) /\ Quoted' = Quoted
    BY DEF LeftToSend, LeftToAsk, Quoted
  <1>6. /\ LeftSent(n, k + 1) \in Nat /\ LeftAsked(n, k + 1) \in Nat
        /\ LeftSent(n, k) = LeftSent(n, k + 1) + c /\ LeftAsked(n, k) = LeftAsked(n, k + 1) + 1
    <2>1. k < GroupsOf(n) /\ GroupLen(n, k + 1) > 1
      BY <1>1
    <2> HIDE DEF n, k, c
    <2> QED BY <1>1, <2>1, LeftIs
  <1> DEFINE m1 == LeftSent(n, k + 1)
             m2 == LeftAsked(n, k + 1)
  <1>7. l1 = m1 + c /\ l2 = m2 + 1 /\ m1 \in Nat /\ m2 \in Nat
    BY <1>4, <1>6
  <1>8. LeftToSend' = m1 /\ LeftToAsk' = m2 /\ Quoted'[1] = q1 /\ Quoted'[2] = q2
    BY <1>5
  <1>9. bill'.asked = bill.asked + 1 /\ bill'.sent = bill.sent + c /\ tries' = 0
    OBVIOUS
  <1> HIDE DEF m1, m2, l1, l2, q1, q2, n, k, c, A
  <1>10. q2 - m2 <= bill.asked + 1 /\ bill.asked + 1 <= A * q2 - A * m2 + 0
    <2>1. 1 \in Nat
      OBVIOUS
    <2> QED BY <1>1, <1>2, <1>3, <1>7, <2>1, SpendOne
  <1>11. q1 - m1 <= bill.sent + c /\ bill.sent + c <= A * q1 - A * m1 + 0
    BY <1>1, <1>2, <1>3, <1>7, SpendOne
  <1>12. Spends(Quoted[2], LeftToAsk, 1, bill.asked)'
    BY <1>8, <1>9, <1>10 DEF Spends, A
  <1>13. Spends(Quoted[1], LeftToSend, Len(Current), bill.sent)'
    BY <1>8, <1>9, <1>11 DEF Spends, A
  <1> QED BY <1>12, <1>13

\* A group of one stands as it is.
LEMMA LeaveAloneKeeps ==
    ASSUME OrderInv, LeaveAlone
    PROVE  OrderInv'
  <1>0. OrderTypes /\ OrdersFit /\ RoundsFit /\ AnswersFit /\ BillFits
    BY DEF OrderInv
  <1>1. /\ ordering = "comparing" /\ Len(orders) < Groups(entrants) /\ Len(Current) = 1
        /\ orders' = Append(orders, Current)
        /\ UNCHANGED <<kind, score, entrants, rounds, tries, answers, bill, placed, ordering>>
    BY DEF LeaveAlone, Comparing
  <1>2. tries = 0
    <2>1. tries \in Nat
      BY <1>0, CostsAre
    <2>2. ~(tries > 0)
      BY <1>0, <1>1 DEF OrdersFit
    <2> QED BY <2>1, <2>2
  <1>3. OrderTypes'
    BY <1>0, <1>1 DEF OrderTypes
  <1>4. /\ orders' \in Seq(Seq(DOMAIN score)) /\ Len(orders') = Len(orders) + 1
        /\ Len(orders') <= Groups(entrants')
        /\ \A k \in DOMAIN orders' : StandsFor(k)'
        /\ Said' = Said \cup {Current}
    <2> DEFINE o == Current
    <2>1. Lists(o, Range(o))
      <3>1. entrants \in Seq(DOMAIN score) /\ IsInjective(entrants)
        BY <1>0 DEF OrderTypes
      <3>2. Len(orders) + 1 \in 1 .. Groups(entrants)
        BY <1>0, <1>1, CostsAre
      <3> DEFINE S == DOMAIN score
      <3>3. entrants \in Seq(S)
        BY <3>1
      <3> HIDE DEF S
      <3>4. o \in Seq(Range(entrants)) /\ IsInjective(o)
        BY <3>1, <3>2, <3>3, GroupsAre DEF Current
      <3> HIDE DEF o
      <3> QED BY <3>4, RangeIs
    <2>2. bill'.unanswered \in Nat /\ bill'.unanswered >= bill.unanswered
      BY <1>0, <1>1 DEF OrderTypes
    <2>3. orders' = Append(orders, o) /\ Range(o) = Range(Current)
      BY <1>1
    <2> HIDE DEF o
    <2>4. /\ orders' \in Seq(Seq(DOMAIN score)) /\ Len(orders') = Len(orders) + 1
          /\ Len(orders') <= Groups(entrants')
          /\ \A k \in DOMAIN orders' : StandsFor(k)'
          /\ Said' = Said \cup {o}
      BY <1>0, <1>1, <2>1, <2>2, <2>3, OrderComesIn
    <2> QED BY <2>4 DEF o
  <1>5. OrdersFit'
    BY <1>1, <1>2, <1>4 DEF OrdersFit
  <1>6. RoundsFit'
    BY <1>0, <1>1 DEF RoundsFit
  <1>7. AnswersFit'
    <2>1. Said' = Said \cup {Current} /\ answers' = answers /\ bill' = bill
      BY <1>1, <1>4
    <2>2. ~(Len(Current) > 1)
      BY <1>1
    <2>3. answers \subseteq Said /\ (bill.unanswered = 0 => \A o \in Said : Len(o) > 1 => o \in answers)
      BY <1>0 DEF AnswersFit
    <2>4. answers' \subseteq Said'
      BY <2>1, <2>3
    <2>5. bill'.unanswered = 0 => \A o \in Said' : Len(o) > 1 => o \in answers'
      BY <2>1, <2>2, <2>3
    <2> QED BY <2>4, <2>5 DEF AnswersFit
  <1>8. BillFits'
    <2> SUFFICES ASSUME kind = "tournament"
                 PROVE  /\ Spends(Quoted[2], LeftToAsk, 1, bill.asked)'
                        /\ Spends(Quoted[1], LeftToSend, Len(Current), bill.sent)'
      BY <1>1 DEF BillFits
    <2> DEFINE n == Len(entrants)
               k == Len(orders)
    <2>1. /\ n \in Nat /\ n > 0 /\ k \in 0 .. GroupsOf(n) /\ k < GroupsOf(n) /\ GroupLen(n, k + 1) = 1
      BY <1>0, <1>1, CostsAre
    <2>2. LeftSent(n, k) = LeftSent(n, k + 1) /\ LeftAsked(n, k) = LeftAsked(n, k + 1)
      <3> HIDE DEF n, k
      <3> QED BY <2>1, LeftIs
    <2>3. LeftToSend' = LeftToSend /\ LeftToAsk' = LeftToAsk /\ Quoted' = Quoted
      BY <1>1, <1>4, <2>2 DEF LeftToSend, LeftToAsk, Quoted
    <2>4. /\ Spends(Quoted[2], LeftToAsk, 1, bill.asked)
          /\ Spends(Quoted[1], LeftToSend, Len(Current), bill.sent)
      BY <1>0 DEF BillFits
    <2> QED BY <1>1, <1>2, <2>3, <2>4 DEF Spends
  <1>9. WrittenFits'
    BY <1>1 DEF WrittenFits
  <1> QED BY <1>3, <1>5, <1>6, <1>7, <1>8, <1>9 DEF OrderInv

\* The model orders a group.
LEMMA AnswerKeeps ==
    ASSUME OrderInv, Answer
    PROVE  OrderInv'
  <1>0. OrderTypes /\ OrdersFit /\ RoundsFit /\ AnswersFit
    BY DEF OrderInv
  <1>1. PICK o \in SetToSeqs(Range(Current)) :
           orders' = Append(orders, o) /\ answers' = answers \cup {o}
    BY DEF Answer
  <1>2. /\ ordering = "comparing" /\ Len(orders) < Groups(entrants) /\ Len(Current) > 1
        /\ bill' = Asked /\ tries' = 0
        /\ UNCHANGED <<kind, score, entrants, rounds, placed, ordering>>
    BY DEF Answer, Comparing
  <1>3. Len(Current) \in Nat /\ Len(orders) + 1 \in 1 .. Groups(entrants)
    BY <1>0, <1>2, CostsAre
  <1>4. /\ bill' \in [asked : Nat, sent : Nat, unanswered : Nat]
        /\ bill'.asked = bill.asked + 1 /\ bill'.sent = bill.sent + Len(Current)
        /\ bill'.unanswered = bill.unanswered
    <2>1. bill \in [asked : Nat, sent : Nat, unanswered : Nat]
      BY <1>0 DEF OrderTypes
    <2> DEFINE c == Len(Current)
    <2>2. c = Len(Current) /\ c \in Nat
      BY <1>3
    <2> HIDE DEF c
    <2>3. /\ Asked \in [asked : Nat, sent : Nat, unanswered : Nat]
          /\ Asked.asked = bill.asked + 1 /\ Asked.sent = bill.sent + c
          /\ Asked.unanswered = bill.unanswered
      BY <2>1, <2>2, AskedIs
    <2> QED BY <1>2, <2>2, <2>3
  <1>5. OrderTypes'
    <2>1. tries' \in 0 .. Attempts - 1
      BY <1>2, OrderAssumption
    <2> QED BY <1>0, <1>2, <1>4, <2>1 DEF OrderTypes
  <1>6. Lists(o, Range(Current))
    <2> DEFINE S == DOMAIN score
    <2>1. entrants \in Seq(S) /\ IsInjective(entrants)
      BY <1>0 DEF OrderTypes
    <2> HIDE DEF S
    <2>2. Current \in Seq(Range(entrants)) /\ IsInjective(Current)
      BY <1>3, <2>1, GroupsAre DEF Current
    <2>3. IsFiniteSet(Range(Current))
      BY <2>2, RangeIs
    <2> QED BY <1>1, <2>3, AnswersAre
  <1>7. /\ orders' \in Seq(Seq(DOMAIN score)) /\ Len(orders') = Len(orders) + 1
        /\ Len(orders') <= Groups(entrants')
        /\ \A k \in DOMAIN orders' : StandsFor(k)'
        /\ Said' = Said \cup {o}
    <2>1. bill'.unanswered \in Nat /\ bill'.unanswered >= bill.unanswered
      BY <1>0, <1>4 DEF OrderTypes
    <2> QED BY <1>0, <1>1, <1>2, <1>6, <2>1, OrderComesIn
  <1>8. OrdersFit'
    BY <1>2, <1>7 DEF OrdersFit
  <1>9. RoundsFit'
    BY <1>0, <1>2 DEF RoundsFit
  <1>10. AnswersFit'
    <2>1. Said' = Said \cup {o} /\ answers' = answers \cup {o} /\ bill'.unanswered = bill.unanswered
      BY <1>1, <1>4, <1>7
    <2>2. answers \subseteq Said /\ (bill.unanswered = 0 => \A a \in Said : Len(a) > 1 => a \in answers)
      BY <1>0 DEF AnswersFit
    <2>3. answers' \subseteq Said'
      BY <2>1, <2>2
    <2>4. bill'.unanswered = 0 => \A a \in Said' : Len(a) > 1 => a \in answers'
      BY <2>1, <2>2
    <2> QED BY <2>3, <2>4 DEF AnswersFit
  <1>11. BillFits'
    BY <1>2, <1>4, <1>7, BillGoesOn
  <1>12. WrittenFits'
    BY <1>2 DEF WrittenFits
  <1> QED BY <1>5, <1>8, <1>9, <1>10, <1>11, <1>12 DEF OrderInv

\* An answer with a hole, of which another is asked.
LEMMA HoleAskedAgain ==
    ASSUME OrderInv, Hole, tries + 1 < Attempts
    PROVE  OrderInv'
  <1>0. OrderTypes /\ OrdersFit /\ RoundsFit /\ AnswersFit
    BY DEF OrderInv
  <1>1. /\ ordering = "comparing" /\ Len(orders) < Groups(entrants) /\ Len(Current) > 1
        /\ tries' = tries + 1 /\ bill' = Asked
        /\ UNCHANGED <<kind, score, entrants, orders, rounds, answers, placed, ordering>>
    BY DEF Hole, Comparing
  <1>2. Len(Current) \in Nat /\ tries \in Nat /\ Attempts \in Nat
    BY <1>0, <1>1, CostsAre
  <1>3. /\ bill' \in [asked : Nat, sent : Nat, unanswered : Nat]
        /\ bill'.asked = bill.asked + 1 /\ bill'.sent = bill.sent + Len(Current)
        /\ bill'.unanswered = bill.unanswered
    <2>1. bill \in [asked : Nat, sent : Nat, unanswered : Nat]
      BY <1>0 DEF OrderTypes
    <2> DEFINE c == Len(Current)
    <2>2. c = Len(Current) /\ c \in Nat
      BY <1>2
    <2> HIDE DEF c
    <2>3. /\ Asked \in [asked : Nat, sent : Nat, unanswered : Nat]
          /\ Asked.asked = bill.asked + 1 /\ Asked.sent = bill.sent + c
          /\ Asked.unanswered = bill.unanswered
      BY <2>1, <2>2, AskedIs
    <2> QED BY <1>1, <2>2, <2>3
  <1>4. OrderTypes'
    <2>1. tries' \in 0 .. Attempts - 1
      BY <1>1, <1>2
    <2> QED BY <1>0, <1>1, <1>3, <2>1 DEF OrderTypes
  <1>5. OrdersFit'
    <2>1. \A k : StandsFor(k)' <=> StandsFor(k)
      BY <1>1, <1>3 DEF StandsFor
    <2>2. Len(Current)' = Len(Current)
      BY <1>1 DEF Current
    <2> QED BY <1>0, <1>1, <2>1, <2>2 DEF OrdersFit
  <1>6. RoundsFit'
    BY <1>0, <1>1 DEF RoundsFit
  <1>7. AnswersFit'
    BY <1>0, <1>1, <1>3 DEF AnswersFit, Said
  <1>8. BillFits'
    <2> SUFFICES ASSUME kind = "tournament"
                 PROVE  /\ Spends(Quoted[2], LeftToAsk, 1, bill.asked)'
                        /\ Spends(Quoted[1], LeftToSend, Len(Current), bill.sent)'
      BY <1>1 DEF BillFits
    <2> DEFINE A == Attempts
               q2 == Quoted[2]
               q1 == Quoted[1]
               l2 == LeftToAsk
               l1 == LeftToSend
               c == Len(Current)
    <2>1. Quoted \in Nat \X Nat /\ l1 \in Nat /\ l2 \in Nat
      BY <1>0, CostsAre
    <2>2. q1 \in Nat /\ q2 \in Nat /\ bill.asked \in Nat /\ bill.sent \in Nat /\ c \in Nat /\ A \in Nat
      BY <1>0, <1>2, <2>1 DEF OrderTypes
    <2>3. /\ q2 - l2 <= bill.asked
          /\ bill.asked <= A * q2 - A * l2 + (IF tries = 0 THEN 0 ELSE tries * 1)
          /\ q1 - l1 <= bill.sent
          /\ bill.sent <= A * q1 - A * l1 + (IF tries = 0 THEN 0 ELSE tries * c)
      BY DEF OrderInv, BillFits, Spends
    <2>4. LeftToSend' = l1 /\ LeftToAsk' = l2 /\ Quoted'[1] = q1 /\ Quoted'[2] = q2
          /\ Len(Current)' = c
      BY <1>1 DEF LeftToSend, LeftToAsk, Quoted, Current
    <2>5. bill'.asked = bill.asked + 1 /\ bill'.sent = bill.sent + c
          /\ tries' = tries + 1 /\ tries' # 0
      BY <1>1, <1>2, <1>3
    <2> HIDE DEF l1, l2, q1, q2, c, A
    <2>6. q2 - l2 <= bill.asked + 1 /\ bill.asked + 1 <= A * q2 - A * l2 + (tries + 1) * 1
      <3>1. 1 \in Nat
        OBVIOUS
      <3> QED BY <1>2, <2>1, <2>2, <2>3, <3>1, SpendAgain
    <2>7. q1 - l1 <= bill.sent + c /\ bill.sent + c <= A * q1 - A * l1 + (tries + 1) * c
      BY <1>2, <2>1, <2>2, <2>3, SpendAgain
    <2>8. Spends(Quoted[2], LeftToAsk, 1, bill.asked)'
      BY <2>4, <2>5, <2>6 DEF Spends, A
    <2>9. Spends(Quoted[1], LeftToSend, Len(Current), bill.sent)'
      BY <2>4, <2>5, <2>7 DEF Spends, A
    <2> QED BY <2>8, <2>9
  <1>9. WrittenFits'
    BY <1>1 DEF WrittenFits
  <1> QED BY <1>4, <1>5, <1>6, <1>7, <1>8, <1>9 DEF OrderInv

\* An answer with a hole, and the group is given up.
LEMMA HoleGivenUp ==
    ASSUME OrderInv, Hole, ~(tries + 1 < Attempts)
    PROVE  OrderInv'
  <1>0. OrderTypes /\ OrdersFit /\ RoundsFit /\ AnswersFit
    BY DEF OrderInv
  <1>1. /\ ordering = "comparing" /\ Len(orders) < Groups(entrants) /\ Len(Current) > 1
        /\ tries' = 0 /\ bill' = [Asked EXCEPT !.unanswered = @ + 1]
        /\ orders' = Append(orders, GivenUp)
        /\ UNCHANGED <<kind, score, entrants, rounds, answers, placed, ordering>>
    BY DEF Hole, Comparing
  <1>2. Len(Current) \in Nat /\ Len(orders) + 1 \in 1 .. Groups(entrants)
    BY <1>0, <1>1, CostsAre
  <1>3. /\ bill' \in [asked : Nat, sent : Nat, unanswered : Nat]
        /\ bill'.asked = bill.asked + 1 /\ bill'.sent = bill.sent + Len(Current)
        /\ bill'.unanswered = bill.unanswered + 1
    <2>1. bill \in [asked : Nat, sent : Nat, unanswered : Nat]
      BY <1>0 DEF OrderTypes
    <2> DEFINE c == Len(Current)
               u == Asked.unanswered + 1
    <2>2. c = Len(Current) /\ c \in Nat
      BY <1>2
    <2> HIDE DEF c
    <2>3. /\ Asked \in [asked : Nat, sent : Nat, unanswered : Nat]
          /\ Asked.asked = bill.asked + 1 /\ Asked.sent = bill.sent + c
          /\ Asked.unanswered = bill.unanswered
      BY <2>1, <2>2, AskedIs
    <2>4. bill' = [Asked EXCEPT !.unanswered = u] /\ u \in Nat /\ u = bill.unanswered + 1
      BY <1>1, <2>1, <2>3
    <2> HIDE DEF u
    <2>5. [Asked EXCEPT !.unanswered = u] \in [asked : Nat, sent : Nat, unanswered : Nat]
      BY <2>3, <2>4
    <2>6. /\ [Asked EXCEPT !.unanswered = u].asked = Asked.asked
          /\ [Asked EXCEPT !.unanswered = u].sent = Asked.sent
          /\ [Asked EXCEPT !.unanswered = u].unanswered = u
      BY <2>3, <2>4
    <2> QED BY <2>2, <2>3, <2>4, <2>5, <2>6
  <1>4. OrderTypes'
    <2>1. tries' \in 0 .. Attempts - 1
      BY <1>1, OrderAssumption
    <2> QED BY <1>0, <1>1, <1>3, <2>1 DEF OrderTypes
  <1>5. bill'.unanswered \in Nat /\ bill'.unanswered >= bill.unanswered /\ bill'.unanswered > 0
    <2>1. bill.unanswered \in Nat
      BY <1>0 DEF OrderTypes
    <2> QED BY <1>3, <2>1
  <1>6. Lists(Current, Range(Current))
    <2> DEFINE S == DOMAIN score
    <2>1. entrants \in Seq(S) /\ IsInjective(entrants)
      BY <1>0 DEF OrderTypes
    <2> HIDE DEF S
    <2>2. Current \in Seq(Range(entrants)) /\ IsInjective(Current)
      BY <1>2, <2>1, GroupsAre DEF Current
    <2> QED BY <2>2, RangeIs
  <1>7. /\ orders' \in Seq(Seq(DOMAIN score)) /\ Len(orders') = Len(orders) + 1
        /\ Len(orders') <= Groups(entrants')
        /\ \A k \in DOMAIN orders' : StandsFor(k)'
        /\ Said' = Said \cup {GivenUp}
    <2> DEFINE o == GivenUp
    <2>1. Lists(o, Range(Current)) \/ (kind = "ranking" /\ o = <<>> /\ bill'.unanswered > 0)
      BY <1>5, <1>6 DEF GivenUp
    <2>2. orders' = Append(orders, o)
      BY <1>1
    <2> HIDE DEF o
    <2>3. /\ orders' \in Seq(Seq(DOMAIN score)) /\ Len(orders') = Len(orders) + 1
          /\ Len(orders') <= Groups(entrants')
          /\ \A k \in DOMAIN orders' : StandsFor(k)'
          /\ Said' = Said \cup {o}
      BY <1>0, <1>1, <1>5, <2>1, <2>2, OrderComesIn
    <2> QED BY <2>3 DEF o
  <1>8. OrdersFit'
    BY <1>1, <1>7 DEF OrdersFit
  <1>9. RoundsFit'
    BY <1>0, <1>1 DEF RoundsFit
  <1>10. AnswersFit'
    <2>1. answers' \subseteq Said'
      BY <1>0, <1>1, <1>7 DEF AnswersFit
    <2>2. bill'.unanswered # 0
      BY <1>5
    <2> QED BY <2>1, <2>2 DEF AnswersFit
  <1>11. BillFits'
    BY <1>1, <1>3, <1>7, BillGoesOn
  <1>12. WrittenFits'
    BY <1>1 DEF WrittenFits
  <1> QED BY <1>4, <1>8, <1>9, <1>10, <1>11, <1>12 DEF OrderInv

\* The heads of a round that shares out its windows are its winners, once each.
LEMMA WinnersAre ==
    ASSUME NEW S, NEW round, SharesOut(S, round)
    PROVE  /\ Lists([k \in DOMAIN round |-> Head(round[k])], Firsts(round))
           /\ Len([k \in DOMAIN round |-> Head(round[k])]) = Len(round)
           /\ Firsts(round) \subseteq S
  <1> DEFINE h == [k \in DOMAIN round |-> Head(round[k])]
             n == Len(round)
  <1>1. n \in Nat /\ DOMAIN round = 1 .. n
    BY DEF SharesOut, Shared
  <1>2. \A k \in DOMAIN round : 1 \in DOMAIN round[k] /\ Head(round[k]) = round[k][1] /\ round[k][1] \in S
    BY DEF SharesOut, Shared
  <1>3. \A k \in DOMAIN round : h[k] = Head(round[k]) /\ h[k] \in Firsts(round)
    BY DEF Firsts
  <1>4. h \in [1 .. n -> Firsts(round)]
    BY <1>1, <1>3
  <1>5. DOMAIN h = DOMAIN round
    OBVIOUS
  <1> HIDE DEF h, n
  <1>6. h \in Seq(Firsts(round)) /\ Len(h) = n
    BY <1>1, <1>4
  <1>7. IsInjective(h)
    <2> SUFFICES ASSUME NEW k \in DOMAIN round, NEW l \in DOMAIN round, h[k] = h[l] PROVE k = l
      BY <1>5 DEF IsInjective
    <2>1. round[k][1] = round[l][1] /\ 1 \in DOMAIN round[k] /\ 1 \in DOMAIN round[l]
      BY <1>2, <1>3
    <2> QED BY <2>1 DEF SharesOut, Shared
  <1>8. \A x \in Firsts(round) : x \in Range(h)
    BY <1>3, <1>5 DEF Firsts, Range
  <1>9. Firsts(round) \subseteq S
    BY <1>2 DEF Firsts
  <1> QED BY <1>6, <1>7, <1>8, <1>9 DEF Lists, h, n

\* One more round that shares out who entered it.
LEMMA RoundComesIn ==
    ASSUME NEW W, NEW these, RoundsAre(W, these), NEW round,
           SharesOut(Entering(W, these, Len(these) + 1), round), round \in Seq(Seq(W))
    PROVE  /\ RoundsAre(W, Append(these, round))
           /\ Len(Append(these, round)) = Len(these) + 1
           /\ Entering(W, Append(these, round), Len(these) + 2) = Firsts(round)
           /\ SaidFrom(Append(these, round), {}, 1) = SaidFrom(these, Range(round), 1)
  <1> DEFINE m == Len(these)
             more == Append(these, round)
  <1>1. /\ m \in Nat /\ these \in Seq(Seq(Seq(W))) /\ DOMAIN these = 1 .. m
        /\ \A r \in 1 .. m : SharesOut(Entering(W, these, r), these[r])
    BY DEF RoundsAre
  <1>2. /\ more \in Seq(Seq(Seq(W))) /\ Len(more) = m + 1 /\ DOMAIN more = 1 .. (m + 1)
        /\ \A r \in 1 .. m : more[r] = these[r]
        /\ more[m + 1] = round
    BY <1>1
  <1> HIDE DEF more
  <1>3. \A r \in 1 .. (m + 1) : Entering(W, more, r) = Entering(W, these, r)
    <2> SUFFICES ASSUME NEW r \in 1 .. (m + 1), r # 1 PROVE more[r - 1] = these[r - 1]
      BY DEF Entering
    <2>1. r - 1 \in 1 .. m
      BY <1>1
    <2> QED BY <1>2, <2>1
  <1>4. ASSUME NEW r \in 1 .. (m + 1) PROVE SharesOut(Entering(W, more, r), more[r])
    <2>1. CASE r = m + 1
      <3>1. more[r] = round /\ Entering(W, more, r) = Entering(W, these, m + 1)
        BY <1>2, <1>3, <2>1
      <3> QED BY <3>1
    <2>2. CASE r # m + 1
      <3>1. r \in 1 .. m
        BY <1>1, <2>2
      <3>2. more[r] = these[r] /\ Entering(W, more, r) = Entering(W, these, r)
        BY <1>2, <1>3, <3>1
      <3> QED BY <1>1, <3>1, <3>2
    <2> QED BY <2>1, <2>2
  <1>5. RoundsAre(W, more)
    BY <1>2, <1>4 DEF RoundsAre
  <1>6. Entering(W, more, m + 2) = Firsts(round)
    <2>1. m + 2 # 1 /\ (m + 2) - 1 = m + 1
      BY <1>1
    <2> QED BY <1>2, <2>1 DEF Entering
  <1>7. SaidFrom(more, {}, 1) = SaidFrom(these, Range(round), 1)
    <2>1. \A x : x \in SaidFrom(more, {}, 1) <=> \E q \in 1 .. (m + 1) : x \in Range(more[q])
      BY <1>2 DEF SaidFrom
    <2>2. \A x : x \in SaidFrom(these, Range(round), 1)
                   <=> x \in Range(round) \/ \E q \in 1 .. m : x \in Range(these[q])
      BY DEF SaidFrom
    <2>3. \A q \in 1 .. m : Range(more[q]) = Range(these[q])
      BY <1>2
    <2>4. Range(more[m + 1]) = Range(round)
      BY <1>2
    <2>5. \A q : q \in 1 .. (m + 1) <=> q \in 1 .. m \/ q = m + 1
      BY <1>1
    <2> HIDE DEF m
    <2>6. \A x : x \in SaidFrom(more, {}, 1) <=> x \in SaidFrom(these, Range(round), 1)
      BY <2>1, <2>2, <2>3, <2>4, <2>5
    <2> QED BY <2>6
  <1> QED BY <1>2, <1>5, <1>6, <1>7 DEF more

\* The winners go on.
LEMMA NextRoundKeeps ==
    ASSUME OrderInv, NextRound
    PROVE  OrderInv'
  <1>0. OrderTypes /\ OrdersFit /\ RoundsFit /\ AnswersFit
    BY DEF OrderInv
  <1>1. /\ ordering = "comparing" /\ kind = "tournament"
        /\ Len(orders) = Groups(entrants) /\ Len(orders) > 1
        /\ rounds' = Append(rounds, orders)
        /\ entrants' = [k \in DOMAIN orders |-> Head(orders[k])]
        /\ orders' = <<>>
        /\ UNCHANGED <<kind, score, tries, answers, bill, placed, ordering>>
    BY DEF NextRound
  <1> DEFINE W == DOMAIN score
             m == Len(rounds)
             n == Len(entrants)
             k == Len(orders)
  <1>2. /\ n \in Nat /\ n > 0 /\ Groups(entrants) = GroupsOf(n) /\ k \in 0 .. GroupsOf(n)
        /\ tries \in Nat
    BY <1>0, <1>1, CostsAre
  <1>3. tries = 0
    <2>1. ~(tries > 0)
      BY <1>0, <1>1, <1>2 DEF OrdersFit
    <2> QED BY <1>2, <2>1
  <1>4. /\ RoundsAre(W, rounds) /\ Lists(entrants, Entering(W, rounds, m + 1))
        /\ orders \in Seq(Seq(W)) /\ k \in Nat
    BY <1>0, <1>1 DEF RoundsFit, OrdersFit
  <1>5. SharesOut(Entering(W, rounds, m + 1), orders)
    <2>1. Range(entrants) = Entering(W, rounds, m + 1)
      BY <1>4 DEF Lists, Range
    <2>2. SharesOut(Range(entrants), orders)
      BY <1>0, <1>1, RoundIsShared
    <2> QED BY <2>1, <2>2
  <1>6. /\ RoundsAre(W, rounds') /\ Len(rounds') = m + 1
        /\ Entering(W, rounds', m + 2) = Firsts(orders)
        /\ SaidFrom(rounds', {}, 1) = SaidFrom(rounds, Range(orders), 1)
    <2> HIDE DEF W
    <2> QED BY <1>1, <1>4, <1>5, RoundComesIn
  <1>7. Lists(entrants', Firsts(orders)) /\ Len(entrants') = k
    <2> HIDE DEF W
    <2> QED BY <1>1, <1>5, WinnersAre
  <1>8. Firsts(orders) \subseteq W
    <2>1. \A o \in DOMAIN orders : orders[o] # <<>>
      BY <1>5 DEF SharesOut
    <2> HIDE DEF W
    <2>2. \A o \in DOMAIN orders : Head(orders[o]) \in W
      BY <1>4, <2>1
    <2> QED BY <2>2 DEF Firsts
  <1>9. OrderTypes'
    <2>1. entrants' \in Seq(W) /\ IsInjective(entrants')
      <3> HIDE DEF W
      <3> QED BY <1>7, <1>8 DEF Lists
    <2> QED BY <1>0, <1>1, <2>1 DEF OrderTypes
  <1>10. entrants' # <<>>
    <2>1. entrants' \in Seq(Firsts(orders))
      BY <1>7 DEF Lists
    <2> QED BY <1>1, <1>7, <2>1
  <1>11. OrdersFit'
    <2>1. Groups(entrants') \in Nat
      <3> DEFINE list == entrants'
      <3>1. list \in Seq(Firsts(orders)) /\ IsInjective(list)
        BY <1>7 DEF Lists
      <3> HIDE DEF list
      <3>2. Groups(list) \in Nat
        BY <3>1, GroupsAre
      <3> QED BY <3>2 DEF list
    <2>2. orders' \in Seq(Seq(DOMAIN score')) /\ Len(orders') = 0 /\ DOMAIN orders' = {}
      BY <1>1
    <2>3. tries' = 0
      BY <1>1, <1>3
    <2>4. Len(orders') <= Groups(entrants')
      BY <2>1, <2>2
    <2>5. ~(tries' > 0)
      BY <2>3
    <2> QED BY <2>2, <2>4, <2>5 DEF OrdersFit
  <1>12. RoundsFit'
    <2>1. Lists(entrants', Entering(W, rounds', Len(rounds') + 1))
      <3>1. Len(rounds') + 1 = m + 2
        <4>1. m \in Nat
          BY <1>4 DEF RoundsAre
        <4> QED BY <1>6, <4>1
      <3> QED BY <1>6, <1>7, <3>1
    <2>2. DOMAIN score' = W /\ kind' = "tournament"
      BY <1>1
    <2>3. RoundsAre(DOMAIN score', rounds')
      BY <1>6, <2>2
    <2>4. Lists(entrants', Entering(DOMAIN score', rounds', Len(rounds') + 1))
      BY <2>1, <2>2
    <2> HIDE DEF W
    <2> QED BY <1>10, <2>2, <2>3, <2>4 DEF RoundsFit
  <1>13. AnswersFit'
    <2>1. Said' = Said
      <3>1. Range(orders') = {}
        BY <1>1 DEF Range
      <3>2. Said' = SaidFrom(rounds', {}, 1)
        BY <3>1 DEF Said, SaidFrom
      <3> QED BY <1>6, <3>2 DEF Said
    <2> QED BY <1>0, <1>1, <2>1 DEF AnswersFit
  <1>14. BillFits'
    <2>1. LeftToSend' = LeftToSend /\ LeftToAsk' = LeftToAsk
      <3>1. LeftToSend = Shape[k][1] /\ LeftToAsk = Shape[k][2]
        <4>1. k = GroupsOf(n)
          BY <1>1, <1>2
        <4>2. LeftSent(n, k) = Shape[k][1] /\ LeftAsked(n, k) = Shape[k][2]
          <5> HIDE DEF n, k
          <5> QED BY <1>2, <4>1, LeftIs
        <4> QED BY <4>2 DEF LeftToSend, LeftToAsk
      <3>2. LeftToSend' = LeftSent(k, 0) /\ LeftToAsk' = LeftAsked(k, 0)
        <4>1. Len(orders') = 0
          BY <1>1
        <4> QED BY <1>7, <4>1 DEF LeftToSend, LeftToAsk
      <3>3. LeftSent(k, 0) = Shape[k][1] /\ LeftAsked(k, 0) = Shape[k][2]
        <4>1. k \in Nat /\ k > 0 /\ 0 \in 0 .. GroupsOf(k)
          BY <1>1, <1>4, GroupNumbers
        <4> HIDE DEF k
        <4> QED BY <4>1, LeftIs
      <3> QED BY <3>1, <3>2, <3>3
    <2>2. Quoted' = Quoted /\ bill' = bill /\ tries' = 0
      BY <1>1, <1>3 DEF Quoted
    <2>3. /\ Spends(Quoted[2], LeftToAsk, 1, bill.asked)
          /\ Spends(Quoted[1], LeftToSend, Len(Current), bill.sent)
      BY <1>1 DEF OrderInv, BillFits
    <2>4. Spends(Quoted[2], LeftToAsk, 1, bill.asked)'
      BY <1>3, <2>1, <2>2, <2>3 DEF Spends
    <2>5. Spends(Quoted[1], LeftToSend, Len(Current), bill.sent)'
      BY <1>3, <2>1, <2>2, <2>3 DEF Spends
    <2> QED BY <2>4, <2>5 DEF BillFits
  <1>15. WrittenFits'
    BY <1>1 DEF WrittenFits
  <1> QED BY <1>9, <1>11, <1>12, <1>13, <1>14, <1>15 DEF OrderInv

\* What does not touch the comparing leaves all but the written order alone.
LEMMA ComparingStays ==
    ASSUME OrderInv, UNCHANGED <<kind, score, entrants, orders, rounds, tries, answers, bill>>
    PROVE  OrderTypes' /\ OrdersFit' /\ RoundsFit' /\ AnswersFit' /\ BillFits'
  <1>0. OrderTypes /\ OrdersFit /\ RoundsFit /\ AnswersFit /\ BillFits
    BY DEF OrderInv
  <1>1. OrderTypes'
    BY <1>0 DEF OrderTypes
  <1>2. OrdersFit'
    BY <1>0 DEF OrdersFit, StandsFor, Current
  <1>3. RoundsFit'
    BY <1>0 DEF RoundsFit
  <1>4. AnswersFit'
    BY <1>0 DEF AnswersFit, Said
  <1>5. BillFits'
    BY <1>0 DEF BillFits, Spends, LeftToSend, LeftToAsk, Quoted, Current
  <1> QED BY <1>1, <1>2, <1>3, <1>4, <1>5

\* The order is written down.
LEMMA WriteOrderKeeps ==
    ASSUME OrderInv, WriteOrder
    PROVE  OrderInv'
  <1>1. OrderTypes' /\ OrdersFit' /\ RoundsFit' /\ AnswersFit' /\ BillFits'
    BY ComparingStays DEF WriteOrder
  <1>2. WrittenFits'
    <2>1. /\ Len(orders) = Groups(entrants) /\ (kind = "tournament" => Len(orders) = 1)
          /\ UNCHANGED <<kind, score, entrants, orders, rounds, tries, answers, bill>>
          /\ ordering' = "refused" \/ placed' = ReadBack(FlattenSeq(orders), rounds)
      BY DEF WriteOrder
    <2> QED BY <2>1 DEF WrittenFits
  <1> QED BY <1>1, <1>2 DEF OrderInv

LEMMA OrderStepsKeep == OrderInv /\ [OrderNext]_orderVars => OrderInv'
  <1> SUFFICES ASSUME OrderInv, [OrderNext]_orderVars PROVE OrderInv'
    OBVIOUS
  <1>1. CASE LeaveAlone
    BY <1>1, LeaveAloneKeeps
  <1>2. CASE Answer
    BY <1>2, AnswerKeeps
  <1>3. CASE Hole
    BY <1>3, HoleAskedAgain, HoleGivenUp
  <1>4. CASE Raise
    <2>1. OrderTypes' /\ OrdersFit' /\ RoundsFit' /\ AnswersFit' /\ BillFits'
      BY <1>4, ComparingStays DEF Raise
    <2>2. WrittenFits'
      BY <1>4 DEF Raise, WrittenFits
    <2> QED BY <2>1, <2>2 DEF OrderInv
  <1>5. CASE NextRound
    BY <1>5, NextRoundKeeps
  <1>6. CASE WriteOrder
    BY <1>6, WriteOrderKeeps
  <1>7. CASE UNCHANGED orderVars
    <2>1. OrderTypes' /\ OrdersFit' /\ RoundsFit' /\ AnswersFit' /\ BillFits'
      BY <1>7, ComparingStays DEF orderVars
    <2>2. WrittenFits'
      BY <1>7 DEF orderVars, OrderInv, WrittenFits
    <2> QED BY <2>1, <2>2 DEF OrderInv
  <1> QED BY <1>1, <1>2, <1>3, <1>4, <1>5, <1>6, <1>7 DEF OrderNext

\* An order that is bought is whole, says what the model said and cost what
\* was quoted, whatever the windows, the holes and the rounds it took
\* (rank_windows, run_tournament, plan_tournament_cost).
THEOREM OrdersAreBought == OrderSpec => []OrderIsBought
  <1>1. OrderInit => OrderInv
    BY OrderBegins
  <1>2. OrderInv /\ [OrderNext]_orderVars => OrderInv'
    BY OrderStepsKeep
  <1>3. OrderInv => OrderIsBought
    BY WrittenIsTheModels, BillWasForeseen DEF OrderIsBought
  <1> QED BY <1>1, <1>2, <1>3, PTL DEF OrderSpec

=============================================================================
