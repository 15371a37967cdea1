---------------------------- MODULE SharingProofs ----------------------------
(***************************************************************************)
(* What TLAPS proves of the package someone else may cut: ParcelIsSound,   *)
(* for any footage, plans, passes and rounds.                              *)
(*                                                                         *)
(* That a plate read once stays blurred rests on geometry (a box holds its *)
(* plate, merging loses no region) and on one fact about the passes: those *)
(* over a recording begin from the recording again, so what the passes     *)
(* before have read must all be among the regions of the next, while those *)
(* over a clip may only add.                                               *)
(***************************************************************************)
EXTENDS Sharing, FiniteSetTheorems, WellFoundedInduction, TLAPS

\* What is blurred, from a frame to a frame and from a place across the picture.
Region == [from : Nat, to : Nat, x : Nat, width : Nat]
Place  == 0 .. Across - 1

\* Region r is round region s, in time and in the picture.
Covers(r, s) ==
  /\ r.from <= s.from /\ s.to <= r.to
  /\ r.x <= s.x /\ s.x + s.width <= r.x + r.width

CoversAll(kept, regions) == \A s \in regions : \E r \in kept : Covers(r, s)

\* Of two numbers.
LEMMA MaxOfTwo ==
    ASSUME NEW a \in Int, NEW b \in Int
    PROVE  Max({a, b}) = IF a >= b THEN a ELSE b
  BY DEF Max

\* Of two numbers, the least.
LEMMA MinOfTwo ==
    ASSUME NEW a \in Int, NEW b \in Int
    PROVE  Min({a, b}) = IF a <= b THEN a ELSE b
  BY DEF Min

\* The box round a plate holds the place where the plate stands, at every place of
\* the picture: padded, kept in the picture, widened and brought to even pixels.
LEMMA BoxIsAround ==
    ASSUME NEW place \in Place
    PROVE  /\ BoxAround(place)[1] \in Nat /\ BoxAround(place)[2] \in Nat
           /\ BoxAround(place)[1] <= place
           /\ place < BoxAround(place)[1] + BoxAround(place)[2]
  <1> DEFINE left  == Max({0, place - Pad})
             right == Min({Across, place + 1 + Pad})
             middle == (left + right) \div 2
             from == Max({0, Min({Across - Least, middle - (Least \div 2)})})
             even == from - (from % 2)
  <1>1. place \in Int /\ 0 <= place /\ place <= 29
    BY DEF Place, Across
  <1>2. left = (IF place >= 1 THEN place - 1 ELSE 0) /\ left \in Int
    BY <1>1, MaxOfTwo DEF Pad
  <1>3. right = (IF place <= 28 THEN place + 2 ELSE 30) /\ right \in Int
    <2> DEFINE b == place + 1 + 1
    <2>1. b \in Int /\ b = place + 2
      BY <1>1
    <2>2. right = Min({30, b})
      BY DEF Pad, Across
    <2> HIDE DEF b, right
    <2>3. Min({30, b}) = IF 30 <= b THEN 30 ELSE b
      BY <2>1, MinOfTwo
    <2> QED
      BY <1>1, <2>1, <2>2, <2>3
  <1>4. ~(right - left >= Least)
    BY <1>1, <1>2, <1>3 DEF Least
  <1> HIDE DEF left, right
  <1>5. middle \in Int /\ 2 * middle <= left + right /\ left + right <= 2 * middle + 1
    BY <1>2, <1>3
  <1> HIDE DEF middle
  <1>6. from \in Int /\ from = (IF middle < 2 THEN 0 ELSE IF middle > 28 THEN 26 ELSE middle - 2)
    <2> DEFINE b == middle - 2
               c == Min({26, b})
    <2>1. b \in Int
      BY <1>5
    <2>2. Across - Least = 26 /\ Least \div 2 = 2
      BY DEF Across, Least
    <2>3. from = Max({0, c})
      BY <2>2
    <2> HIDE DEF from
    <2>4. b = middle - 2
      OBVIOUS
    <2>5. c = Min({26, b})
      OBVIOUS
    <2> HIDE DEF b, c
    <2>6. c = (IF 26 <= b THEN 26 ELSE b) /\ c \in Int
      BY <2>1, <2>5, MinOfTwo
    <2>7. Max({0, c}) = IF 0 >= c THEN 0 ELSE c
      BY <2>6, MaxOfTwo
    <2> QED
      BY <1>5, <2>3, <2>4, <2>6, <2>7
  <1> HIDE DEF from
  <1>7. from <= place /\ (place <= from + 2 \/ (place = 29 /\ from = 26))
    BY <1>1, <1>2, <1>3, <1>5, <1>6
  <1>8. from % 2 \in {0, 1} /\ (from = 26 => from % 2 = 0) /\ (from = 0 => from % 2 = 0)
    BY <1>6
  <1>9. BoxAround(place) = <<even, 4>>
    <2>1. Widened(left, right) = <<from, from + 4>>
      BY <1>4 DEF Widened, from, middle, Least, left, right
    <2>2. BoxAround(place) = <<from - (from % 2), ((from + 4) - from) - (((from + 4) - from) % 2)>>
      BY <2>1 DEF BoxAround, left, right
    <2>3. (from + 4) - from = 4 /\ 4 % 2 = 0
      BY <1>6
    <2> QED
      BY <2>2, <2>3
  <1>10. even \in Nat /\ even <= place /\ place < even + 4
    <2> DEFINE odd == from % 2
    <2>1. odd \in {0, 1} /\ (from = 26 => odd = 0) /\ (from = 0 => odd = 0)
      BY <1>8
    <2> HIDE DEF odd
    <2>2. even = from - odd
      BY DEF odd
    <2> HIDE DEF even
    <2> QED
      BY <1>1, <1>5, <1>6, <1>7, <2>1, <2>2
  <1> HIDE DEF even
  <1>11. BoxAround(place)[1] = even /\ BoxAround(place)[2] = 4
    BY <1>9
  <1> QED
    BY <1>1, <1>10, <1>11

\* What is blurred for a plate read at a frame is blurred at that frame and place.
LEMMA SightingCovers ==
    ASSUME NEW frame \in Nat, NEW place \in Place
    PROVE  /\ Sighting(frame, place) \in Region
           /\ BlurredOver(Sighting(frame, place), frame, place)
  <1>1. Max({0, frame - Hold}) = IF frame >= 1 THEN frame - 1 ELSE 0
    BY MaxOfTwo DEF Hold
  <1>2. /\ Sighting(frame, place).from = Max({0, frame - Hold})
        /\ Sighting(frame, place).to = frame + 1
        /\ Sighting(frame, place).x = BoxAround(place)[1]
        /\ Sighting(frame, place).width = BoxAround(place)[2]
    BY DEF Sighting, Hold
  <1>3. Max({0, frame - Hold}) \in Nat /\ Max({0, frame - Hold}) <= frame /\ frame + Hold \in Nat
    BY <1>1 DEF Hold
  <1>4. Sighting(frame, place) \in Region
    BY <1>3, BoxIsAround DEF Sighting, Region
  <1> QED
    BY <1>2, <1>3, <1>4, BoxIsAround DEF BlurredOver

\* A region round another blurs all that the other does.
LEMMA CoveredIsBlurred ==
    ASSUME NEW r \in Region, NEW s \in Region, Covers(r, s),
           NEW frame \in Nat, NEW place \in Nat, BlurredOver(s, frame, place)
    PROVE  BlurredOver(r, frame, place)
  BY DEF Covers, BlurredOver, Region

\* A region round one that is round a third is round the third.
LEMMA CoversTransitive ==
    ASSUME NEW r \in Region, NEW s \in Region, NEW t \in Region, Covers(r, s), Covers(s, t)
    PROVE  Covers(r, t)
  BY DEF Covers, Region

\* Two regions joined are a region round both.
LEMMA JoinedCovers ==
    ASSUME NEW r \in Region, NEW s \in Region
    PROVE  /\ JoinedRegion(r, s) \in Region
           /\ Covers(JoinedRegion(r, s), r) /\ Covers(JoinedRegion(r, s), s)
  <1> DEFINE x == Min({r.x, s.x})
             right == Max({r.x + r.width, s.x + s.width})
             from == Min({r.from, s.from})
             to == Max({r.to, s.to})
  <1>1. r.from \in Nat /\ r.to \in Nat /\ r.x \in Nat /\ r.width \in Nat
    BY DEF Region
  <1>2. s.from \in Nat /\ s.to \in Nat /\ s.x \in Nat /\ s.width \in Nat
    BY DEF Region
  <1>3. x \in Nat /\ x <= r.x /\ x <= s.x
    BY <1>1, <1>2, MinOfTwo
  <1>4. right \in Nat /\ r.x + r.width <= right /\ s.x + s.width <= right
    <2> DEFINE a == r.x + r.width
               b == s.x + s.width
    <2>1. a \in Nat /\ b \in Nat
      BY <1>1, <1>2
    <2> HIDE DEF a, b
    <2>2. Max({a, b}) = IF a >= b THEN a ELSE b
      BY <2>1, MaxOfTwo
    <2>3. right = Max({a, b})
      BY DEF a, b
    <2> HIDE DEF right
    <2>4. right \in Nat /\ a <= right /\ b <= right
      BY <2>1, <2>2, <2>3
    <2> QED
      BY <2>4 DEF a, b
  <1>5. from \in Nat /\ from <= r.from /\ from <= s.from
    BY <1>1, <1>2, MinOfTwo
  <1>6. to \in Nat /\ r.to <= to /\ s.to <= to
    <2>1. Max({r.to, s.to}) = IF r.to >= s.to THEN r.to ELSE s.to
      BY <1>1, <1>2, MaxOfTwo
    <2> QED
      BY <1>1, <1>2, <2>1
  <1>7. JoinedRegion(r, s) = [from |-> from, to |-> to, x |-> x, width |-> right - x]
    BY DEF JoinedRegion
  <1> HIDE DEF x, right, from, to
  <1>8. right - x \in Nat /\ x + (right - x) = right
    BY <1>1, <1>3, <1>4
  <1> DEFINE joined == JoinedRegion(r, s)
  <1>9. /\ joined.from = from /\ joined.to = to /\ joined.x = x /\ joined.width = right - x
    BY <1>7
  <1>10. joined \in Region
    BY <1>3, <1>5, <1>6, <1>7, <1>8 DEF Region
  <1> QED
    BY <1>3, <1>4, <1>5, <1>6, <1>8, <1>9, <1>10 DEF Covers

\* A set of naturals with anything in it has a least one: what induction comes
\* to here, by way of the least counterexample.
LEMMA LeastNatural ==
    ASSUME NEW T \in SUBSET Nat, T # {}
    PROVE  \E x \in T : \A y \in T : ~(y < x)
  <1>1. IsWellFoundedOn(OpToRel(<, Nat), Nat)
    BY NatLessThanWellFounded
  <1>2. PICK x \in T : \A y \in T : ~(<<y, x>> \in OpToRel(<, Nat))
    BY <1>1, WFMin
  <1>3. ASSUME NEW y \in T PROVE ~(y < x)
    BY <1>2, <1>3 DEF OpToRel
  <1> QED
    BY <1>3

\* And it is the one the operator names.
LEMMA LeastIsMin ==
    ASSUME NEW T \in SUBSET Nat, T # {}
    PROVE  Min(T) \in T /\ \A y \in T : Min(T) <= y
  <1>1. PICK x \in T : \A y \in T : ~(y < x)
    BY LeastNatural
  <1>2. x \in T /\ \A y \in T : x <= y
    BY <1>1
  <1> QED
    BY <1>2 DEF Min

\* Of some regions one is the first.
LEMMA FirstIsOne ==
    ASSUME NEW regions \in SUBSET Region, regions # {}
    PROVE  FirstRegion(regions) \in regions
  <1> DEFINE starts == {r.from : r \in regions}
             early(f) == {r \in regions : r.from = f}
             lefts(f) == {r.x : r \in early(f)}
  <1>1. \A r \in regions : r.from \in Nat /\ r.x \in Nat
    BY DEF Region
  <1>2. PICK f \in starts : \A g \in starts : ~(g < f)
    <2>1. starts \in SUBSET Nat /\ starts # {}
      BY <1>1
    <2> QED
      BY <2>1, LeastNatural
  <1>3. PICK x \in lefts(f) : \A y \in lefts(f) : ~(y < x)
    <2>1. lefts(f) \in SUBSET Nat /\ lefts(f) # {}
      BY <1>1, <1>2
    <2> HIDE DEF lefts
    <2> QED
      BY <2>1, LeastNatural
  <1>4. PICK r \in regions : r.from = f /\ r.x = x
    BY <1>3
  <1>5. ASSUME NEW s \in regions PROVE r.from < s.from \/ (r.from = s.from /\ r.x <= s.x)
    <2>1. r.from \in Nat /\ s.from \in Nat /\ r.x \in Nat /\ s.x \in Nat
      BY <1>1
    <2>2. ~(s.from < r.from)
      BY <1>2, <1>4
    <2>3. s.from = r.from => ~(s.x < r.x)
      BY <1>3, <1>4
    <2> QED
      BY <2>1, <2>2, <2>3
  <1> QED
    BY <1>5 DEF FirstRegion

\* A region taken in is covered from then on, and so is all that was before.
LEMMA IntoCovers ==
    ASSUME NEW kept \in Seq(Region), NEW r \in Region
    PROVE  /\ Into(kept, r) \in Seq(Region)
           /\ Len(Into(kept, r)) >= Len(kept)
           /\ \E i \in DOMAIN Into(kept, r) : Covers(Into(kept, r)[i], r)
           /\ \A j \in DOMAIN kept : Covers(Into(kept, r)[j], kept[j])
  <1> DEFINE at == {i \in DOMAIN kept : Touches(kept[i], r)}
  <1>1. \A q \in Region : Covers(q, q)
    BY DEF Covers, Region
  <1>2. CASE at = {}
    <2>1. Into(kept, r) = Append(kept, r)
      BY <1>2 DEF Into
    <2>2. /\ Append(kept, r) \in Seq(Region) /\ Len(Append(kept, r)) = Len(kept) + 1
          /\ Append(kept, r)[Len(kept) + 1] = r /\ Len(kept) + 1 \in DOMAIN Append(kept, r)
          /\ \A j \in DOMAIN kept : Append(kept, r)[j] = kept[j] /\ kept[j] \in Region
          /\ Len(kept) \in Nat
      OBVIOUS
    <2> QED
      BY <1>1, <2>1, <2>2
  <1>3. CASE at # {}
    <2> DEFINE m == Min(at)
               joined == JoinedRegion(kept[m], r)
    <2>1. at \in SUBSET Nat
      OBVIOUS
    <2>2. m \in at
      BY <1>3, <2>1, LeastIsMin
    <2>3. m \in DOMAIN kept /\ kept[m] \in Region /\ DOMAIN kept = 1 .. Len(kept) /\ Len(kept) \in Nat
      BY <2>2
    <2>4. Into(kept, r) = [kept EXCEPT ![m] = joined]
      BY <1>3 DEF Into
    <2> HIDE DEF m, at
    <2>5. joined \in Region /\ Covers(joined, kept[m]) /\ Covers(joined, r)
      BY <2>3, JoinedCovers
    <2> HIDE DEF joined
    <2> DEFINE next == [kept EXCEPT ![m] = joined]
    <2>6. /\ next \in Seq(Region) /\ Len(next) = Len(kept) /\ DOMAIN next = DOMAIN kept
          /\ next[m] = joined /\ \A j \in DOMAIN kept : j # m => next[j] = kept[j]
      BY <2>3, <2>5
    <2>7. \A j \in DOMAIN kept : Covers(next[j], kept[j])
      <3>1. \A j \in DOMAIN kept : kept[j] \in Region
        OBVIOUS
      <3> QED
        BY <1>1, <2>5, <2>6, <3>1
    <2> HIDE DEF next
    <2>8. Into(kept, r) = next
      BY <2>4 DEF next
    <2> QED
      BY <2>3, <2>5, <2>6, <2>7, <2>8
  <1> QED
    BY <1>2, <1>3

\* The recursion of MergedRegions, its first value and what it has done by the
\* n-th: everything taken in so far is inside something kept.
Begun(regions) == [kept |-> <<>>, left |-> regions]

MergesUpTo(size, regions, f) ==
  f = [n \in 0 .. size |-> IF n = 0 THEN Begun(regions) ELSE Absorbed(f[n - 1])]

MergedSoFar(so, regions, n) ==
  /\ so.kept \in Seq(Region)
  /\ so.left \in SUBSET regions
  /\ IsFiniteSet(so.left)
  /\ Cardinality(so.left) = Cardinality(regions) - n
  /\ CoversAll(Range(so.kept), regions \ so.left)

\* The recursion that takes the regions in one by one defines a function.
LEMMA MergesExist ==
    ASSUME NEW regions, NEW size \in Nat
    PROVE  \E f : MergesUpTo(size, regions, f)
  <1> DEFINE without == {k \in Nat : ~\E f : MergesUpTo(k, regions, f)}
  <1> SUFFICES ASSUME without # {} PROVE FALSE
    OBVIOUS
  <1>1. PICK k \in without : \A j \in without : ~(j < k)
    <2>1. without \in SUBSET Nat
      OBVIOUS
    <2> HIDE DEF without
    <2> QED
      BY <2>1, LeastNatural
  <1>2. k \in Nat /\ ~\E f : MergesUpTo(k, regions, f)
    BY <1>1
  <1>3. CASE k = 0
    <2> DEFINE f == [n \in 0 .. 0 |-> Begun(regions)]
    <2>1. MergesUpTo(0, regions, f)
      <3>1. \A n \in 0 .. 0 : n = 0
        OBVIOUS
      <3> QED
        BY <3>1 DEF MergesUpTo
    <2> QED
      BY <1>2, <1>3, <2>1
  <1>4. CASE k # 0
    <2>1. k - 1 \in Nat /\ k - 1 < k
      BY <1>2, <1>4
    <2>2. \E g : MergesUpTo(k - 1, regions, g)
      BY <1>1, <2>1
    <2>3. PICK g : MergesUpTo(k - 1, regions, g)
      BY <2>2
    <2> DEFINE f == [n \in 0 .. k |-> IF n = k THEN Absorbed(g[k - 1]) ELSE g[n]]
    <2>4. \A n \in 0 .. (k - 1) : g[n] = IF n = 0 THEN Begun(regions) ELSE Absorbed(g[n - 1])
      BY <2>3, Zenon DEF MergesUpTo
    <2>5. \A n \in 0 .. k : n = k \/ n \in 0 .. (k - 1)
      BY <1>2
    <2>6. \A n \in 0 .. k : n # 0 => n - 1 \in 0 .. (k - 1) /\ n - 1 \in 0 .. k /\ n - 1 # k
      BY <1>2
    <2>7. \A n \in 0 .. k : n # 0 => f[n - 1] = g[n - 1]
      BY <2>6
    <2>8. \A n \in 0 .. k : f[n] = IF n = 0 THEN Begun(regions) ELSE Absorbed(f[n - 1])
      <3> SUFFICES ASSUME NEW n \in 0 .. k
                   PROVE  f[n] = IF n = 0 THEN Begun(regions) ELSE Absorbed(f[n - 1])
        OBVIOUS
      <3>1. CASE n = k
        <4>1. f[n] = Absorbed(g[k - 1]) /\ f[n - 1] = g[n - 1] /\ n # 0
          BY <1>4, <2>7, <3>1
        <4> QED
          BY <3>1, <4>1
      <3>2. CASE n # k
        <4>1. f[n] = g[n] /\ n \in 0 .. (k - 1)
          BY <2>5, <3>2
        <4> HIDE DEF f
        <4> QED
          BY <2>4, <2>7, <4>1
      <3> QED
        BY <3>1, <3>2
    <2>9. MergesUpTo(k, regions, f)
      <3> DEFINE h == [n \in 0 .. k |-> IF n = 0 THEN Begun(regions) ELSE Absorbed(f[n - 1])]
      <3>1. f = h
        <4>1. DOMAIN f = 0 .. k /\ DOMAIN h = 0 .. k
          OBVIOUS
        <4>2. \A n \in 0 .. k : h[n] = IF n = 0 THEN Begun(regions) ELSE Absorbed(f[n - 1])
          BY Zenon
        <4>3. f = [n \in 0 .. k |-> f[n]] /\ h = [n \in 0 .. k |-> h[n]]
          OBVIOUS
        <4> HIDE DEF f, h
        <4>4. \A n \in 0 .. k : f[n] = h[n]
          BY <2>8, <4>2, Zenon
        <4> QED
          BY <4>3, <4>4
      <3> QED
        BY <3>1 DEF MergesUpTo
    <2> QED
      BY <1>2, <2>9
  <1> QED
    BY <1>3, <1>4

\* One more region is taken in.
LEMMA AbsorbedMerges ==
    ASSUME NEW regions \in SUBSET Region, IsFiniteSet(regions),
           NEW n \in Nat, n < Cardinality(regions),
           NEW so, MergedSoFar(so, regions, n)
    PROVE  MergedSoFar(Absorbed(so), regions, n + 1)
  <1> DEFINE r == FirstRegion(so.left)
             next == Into(so.kept, r)
  <1>1. Cardinality(regions) \in Nat
    BY FS_CardinalityType
  <1>2. so.left # {}
    BY <1>1, FS_EmptySet DEF MergedSoFar
  <1>3. r \in so.left /\ r \in Region /\ so.left \in SUBSET Region
    BY <1>2, FirstIsOne DEF MergedSoFar
  <1>4. so.kept \in Seq(Region)
    BY DEF MergedSoFar
  <1>5. Absorbed(so).kept = next /\ Absorbed(so).left = so.left \ {r}
    BY DEF Absorbed
  <1> HIDE DEF r
  <1>6. /\ next \in Seq(Region) /\ Len(next) >= Len(so.kept)
        /\ \E i \in DOMAIN next : Covers(next[i], r)
        /\ \A j \in DOMAIN so.kept : Covers(next[j], so.kept[j])
    BY <1>3, <1>4, IntoCovers
  <1> HIDE DEF next
  <1>7. CoversAll(Range(next), regions \ (so.left \ {r}))
    <2> SUFFICES ASSUME NEW s \in regions \ (so.left \ {r})
                 PROVE  \E q \in Range(next) : Covers(q, s)
      BY DEF CoversAll
    <2>1. CASE s = r
      BY <1>6, <2>1 DEF Range
    <2>2. CASE s # r
      <3>1. s \in regions \ so.left
        BY <2>2
      <3>2. PICK q \in Range(so.kept) : Covers(q, s)
        BY <3>1 DEF MergedSoFar, CoversAll
      <3>3. PICK j \in DOMAIN so.kept : q = so.kept[j]
        BY <3>2 DEF Range
      <3>4. j \in DOMAIN next /\ next[j] \in Region /\ q \in Region /\ s \in Region
        BY <1>4, <1>6, <3>1, <3>3
      <3>5. Covers(next[j], s)
        BY <1>6, <3>2, <3>3, <3>4, CoversTransitive
      <3> QED
        BY <3>4, <3>5 DEF Range
    <2> QED
      BY <2>1, <2>2
  <1>8. /\ so.left \ {r} \in SUBSET regions
        /\ IsFiniteSet(so.left \ {r})
        /\ Cardinality(so.left \ {r}) = Cardinality(regions) - (n + 1)
    <2>1. /\ IsFiniteSet(so.left) /\ Cardinality(so.left) = Cardinality(regions) - n
          /\ so.left \in SUBSET regions
      BY DEF MergedSoFar
    <2>2. IsFiniteSet(so.left \ {r}) /\ Cardinality(so.left \ {r}) = Cardinality(so.left) - 1
      BY <1>3, <2>1, FS_RemoveElement
    <2> QED
      BY <1>1, <2>1, <2>2
  <1> QED
    BY <1>5, <1>6, <1>7, <1>8 DEF MergedSoFar

\* What a sequence lists is finite.
LEMMA RangeIsFinite ==
    ASSUME NEW S, NEW list \in Seq(S)
    PROVE  IsFiniteSet(Range(list)) /\ Range(list) \in SUBSET S
  <1>1. Len(list) \in Nat /\ DOMAIN list = 1 .. Len(list) /\ \A i \in DOMAIN list : list[i] \in S
    OBVIOUS
  <1>2. IsFiniteSet(DOMAIN list)
    BY <1>1, FS_Interval
  <1>3. list \in Surjection(DOMAIN list, Range(list))
    <2>1. list = [i \in DOMAIN list |-> list[i]]
      BY <1>1
    <2>2. list \in [DOMAIN list -> Range(list)]
      BY <2>1 DEF Range
    <2>3. \A t \in Range(list) : \E s \in DOMAIN list : list[s] = t
      BY DEF Range
    <2> QED
      BY <2>2, <2>3 DEF Surjection
  <1> QED
    BY <1>1, <1>2, <1>3, FS_Surjection DEF Range

\* Merging regions loses nothing: each is inside one that is kept (_merged).
LEMMA MergedCovers ==
    ASSUME NEW regions \in SUBSET Region, IsFiniteSet(regions)
    PROVE  /\ MergedRegions(regions) \in SUBSET Region
           /\ IsFiniteSet(MergedRegions(regions))
           /\ CoversAll(MergedRegions(regions), regions)
  <1> DEFINE size == Cardinality(regions)
             merged[n \in 0 .. Cardinality(regions)] ==
               IF n = 0 THEN [kept |-> <<>>, left |-> regions] ELSE Absorbed(merged[n - 1])
  <1>1. size \in Nat
    BY FS_CardinalityType
  <1>2. MergedRegions(regions) = Range(merged[size].kept)
    BY DEF MergedRegions
  <1>3. MergesUpTo(size, regions, merged)
    <2>1. \E f : MergesUpTo(size, regions, f)
      BY <1>1, MergesExist
    <2> QED
      BY <2>1 DEF MergesUpTo, Begun
  <1> HIDE DEF merged
  <1> DEFINE bad == {n \in Nat : n <= size /\ ~MergedSoFar(merged[n], regions, n)}
  <1>4. \A n \in 0 .. size : merged[n] = IF n = 0 THEN Begun(regions) ELSE Absorbed(merged[n - 1])
    BY <1>3, Zenon DEF MergesUpTo
  <1>5. bad = {}
    <2> SUFFICES ASSUME bad # {} PROVE FALSE
      OBVIOUS
    <2>1. bad \in SUBSET Nat
      OBVIOUS
    <2> HIDE DEF bad
    <2>2. PICK n \in bad : \A m \in bad : ~(m < n)
      BY <2>1, LeastNatural
    <2>3. n \in Nat /\ n <= size /\ ~MergedSoFar(merged[n], regions, n)
      BY <2>2 DEF bad
    <2>4. CASE n = 0
      <3>1. merged[0] = Begun(regions)
        BY <1>1, <1>4, <2>4
      <3>2. Range(<<>>) = {} /\ <<>> \in Seq(Region)
        BY DEF Range
      <3>3. MergedSoFar(Begun(regions), regions, 0)
        BY <1>1, <3>2 DEF MergedSoFar, Begun, CoversAll
      <3> QED
        BY <2>3, <2>4, <3>1, <3>3
    <2>5. CASE n # 0
      <3>1. n - 1 \in Nat /\ n - 1 < n /\ n - 1 <= size /\ n - 1 < size /\ (n - 1) + 1 = n /\ n \in 0 .. size
        BY <1>1, <2>3, <2>5
      <3>2. n - 1 \notin bad
        BY <2>2, <3>1
      <3>3. MergedSoFar(merged[n - 1], regions, n - 1)
        BY <3>1, <3>2 DEF bad
      <3>4. MergedSoFar(Absorbed(merged[n - 1]), regions, (n - 1) + 1)
        BY <3>1, <3>3, AbsorbedMerges
      <3>5. merged[n] = Absorbed(merged[n - 1])
        BY <1>4, <2>5, <3>1
      <3> QED
        BY <2>3, <3>1, <3>4, <3>5
    <2> QED
      BY <2>4, <2>5
  <1>6. MergedSoFar(merged[size], regions, size)
    BY <1>1, <1>5
  <1> DEFINE last == merged[size]
             kept == last.kept
  <1> HIDE DEF size
  <1>7. kept \in Seq(Region) /\ last.left \in SUBSET regions /\ CoversAll(Range(kept), regions \ last.left)
        /\ IsFiniteSet(last.left) /\ Cardinality(last.left) = size - size
    BY <1>6 DEF MergedSoFar, size
  <1>8. last.left = {}
    BY <1>1, <1>7, FS_EmptySet
  <1>9. MergedRegions(regions) = Range(kept) /\ CoversAll(Range(kept), regions)
    BY <1>2, <1>7, <1>8
  <1> HIDE DEF kept
  <1>10. IsFiniteSet(Range(kept)) /\ Range(kept) \in SUBSET Region
    BY <1>7, RangeIsFinite
  <1> QED
    BY <1>9, <1>10

\* In ascending order.
Ascends(order) == \A i, j \in DOMAIN order : i < j => order[i] < order[j]

-----------------------------------------------------------------------------
(* Looking at frames.                                                      *)

\* A finite set of numbers can be put in order.
LEMMA OrderExists ==
    ASSUME NEW S \in SUBSET Nat, IsFiniteSet(S)
    PROVE  \E order \in [1 .. Cardinality(S) -> S] : Range(order) = S /\ Ascends(order)
  <1> DEFINE Has(T) == \E order \in [1 .. Cardinality(T) -> T] : Range(order) = T /\ Ascends(order)
             sizes == {n \in Nat : \E T \in SUBSET Nat : IsFiniteSet(T) /\ Cardinality(T) = n /\ ~Has(T)}
  <1> SUFFICES ASSUME ~Has(S) PROVE FALSE
    OBVIOUS
  <1>1. sizes \in SUBSET Nat /\ sizes # {}
    BY FS_CardinalityType
  <1>2. PICK n \in sizes : \A m \in sizes : ~(m < n)
    <2> HIDE DEF sizes
    <2> QED
      BY <1>1, LeastNatural
  <1>3. PICK T \in SUBSET Nat : IsFiniteSet(T) /\ Cardinality(T) = n /\ ~Has(T)
    BY <1>2
  <1>4. n \in Nat
    BY <1>2
  <1>5. T # {}
    <2> SUFFICES ASSUME T = {} PROVE FALSE
      OBVIOUS
    <2>1. n = 0
      BY <1>3, FS_EmptySet
    <2> DEFINE none == [i \in 1 .. 0 |-> 0]
    <2>2. none \in [1 .. 0 -> T] /\ DOMAIN none = {}
      OBVIOUS
    <2>3. Range(none) = T /\ Ascends(none)
      BY <2>2 DEF Range, Ascends
    <2> QED
      BY <1>3, <2>1, <2>2, <2>3
  <1>6. PICK m \in T : \A y \in T : ~(y < m)
    BY <1>5, LeastNatural
  <1> DEFINE rest == T \ {m}
  <1>7. rest \in SUBSET Nat /\ IsFiniteSet(rest) /\ Cardinality(rest) = n - 1
    BY <1>3, <1>6, FS_RemoveElement
  <1>8. n - 1 \in Nat /\ n - 1 < n
    BY <1>4, <1>7, FS_CardinalityType
  <1>9. Has(rest)
    BY <1>2, <1>7, <1>8
  <1>10. PICK g \in [1 .. (n - 1) -> rest] : Range(g) = rest /\ Ascends(g)
    BY <1>7, <1>9
  <1> HIDE DEF Has, sizes
  <1> DEFINE order == [i \in 1 .. n |-> IF i = 1 THEN m ELSE g[i - 1]]
  <1>11. \A i \in 1 .. n : i # 1 => i - 1 \in 1 .. (n - 1)
    BY <1>4
  <1>12. \A i \in 1 .. (n - 1) : i + 1 \in 1 .. n /\ i + 1 # 1 /\ (i + 1) - 1 = i
    BY <1>4
  <1>13. /\ 1 \in 1 .. n /\ order[1] = m
         /\ \A i \in 1 .. n : i # 1 => order[i] = g[i - 1] /\ g[i - 1] \in rest
    BY <1>4, <1>8, <1>10, <1>11
  <1>14. order \in [1 .. n -> T] /\ DOMAIN order = 1 .. n
    BY <1>6, <1>10, <1>11
  <1> HIDE DEF order
  <1>15. Range(order) = T
    <2>1. Range(order) \subseteq T
      BY <1>14 DEF Range
    <2>2. ASSUME NEW t \in T PROVE \E i \in 1 .. n : order[i] = t
      <3>1. CASE t = m
        BY <1>13, <3>1
      <3>2. CASE t # m
        <4>1. PICK i \in 1 .. (n - 1) : g[i] = t
          BY <1>10, <3>2 DEF Range
        <4>2. order[i + 1] = g[(i + 1) - 1]
          BY <1>12, <1>13
        <4> QED
          BY <1>12, <4>1, <4>2
      <3> QED
        BY <3>1, <3>2
    <2> QED
      BY <1>14, <2>1, <2>2 DEF Range
  <1>16. Ascends(order)
    <2> SUFFICES ASSUME NEW i \in 1 .. n, NEW j \in 1 .. n, i < j PROVE order[i] < order[j]
      BY <1>14 DEF Ascends
    <2>1. j # 1 /\ j - 1 \in 1 .. (n - 1) /\ order[j] = g[j - 1] /\ g[j - 1] \in rest
      BY <1>11, <1>13
    <2>2. CASE i = 1
      <3>1. m \in Nat /\ g[j - 1] \in Nat /\ ~(g[j - 1] < m) /\ g[j - 1] # m
        BY <1>6, <2>1
      <3> QED
        BY <1>13, <2>1, <2>2, <3>1
    <2>3. CASE i # 1
      <3>1. i - 1 \in 1 .. (n - 1) /\ i - 1 < j - 1 /\ order[i] = g[i - 1]
        BY <1>11, <1>13, <2>3
      <3> QED
        BY <1>10, <2>1, <3>1 DEF Ascends
    <2> QED
      BY <2>2, <2>3
  <1> QED
    BY <1>3, <1>14, <1>15, <1>16 DEF Has

\* In the order of their names, and none is left out.
LEMMA ByNameIsAll ==
    ASSUME NEW S \in SUBSET Nat, IsFiniteSet(S)
    PROVE  ByName(S) \in Seq(S) /\ Range(ByName(S)) = S
  <1>1. \E order \in [1 .. Cardinality(S) -> S] :
            /\ Range(order) = S
            /\ \A i, j \in DOMAIN order : i < j => order[i] < order[j]
    BY OrderExists DEF Ascends
  <1>2. ByName(S) \in [1 .. Cardinality(S) -> S] /\ Range(ByName(S)) = S
    BY <1>1 DEF ByName
  <1>3. Cardinality(S) \in Nat
    BY FS_CardinalityType
  <1> QED
    BY <1>2, <1>3

\* A plate made out is one that shows, and where one shows one is made out.
LEMMA MadeOutIsThere ==
    ASSUME NEW frame \in Samples
    PROVE  /\ MadeOut(frame) \in SUBSET frame.plates
           /\ MadeOut(frame) \in SUBSET Place
           /\ MadeOut(frame) = {} => frame.plates = {}
  <1>1. frame.plates \in SUBSET Place
    BY DEF Samples, Place
  <1>2. frame.plates # {} => Min(frame.plates) \in frame.plates
    <2>1. frame.plates \in SUBSET Nat
      BY <1>1 DEF Place, Across
    <2> QED
      BY <2>1, LeastIsMin
  <1> QED
    BY <1>1, <1>2 DEF MadeOut

\* The plates read in a clip are finitely many, and each shows at the frame and
\* place where it was read.
LEMMA SightingsAre ==
    ASSUME NEW frames \in Seq(Samples)
    PROVE  /\ Sightings(frames) \in SUBSET ((0 .. Len(frames)) \X Place)
           /\ IsFiniteSet(Sightings(frames))
           /\ \A s \in Sightings(frames) :
                 s[1] \in Nat /\ s[1] + 1 \in DOMAIN frames /\ s[2] \in frames[s[1] + 1].plates
           /\ \A t \in DOMAIN frames : \A p \in MadeOut(frames[t]) : <<t - 1, p>> \in Sightings(frames)
  <1>1. Len(frames) \in Nat /\ DOMAIN frames = 1 .. Len(frames) /\ \A t \in DOMAIN frames : frames[t] \in Samples
    OBVIOUS
  <1>2. ASSUME NEW s \in Sightings(frames)
        PROVE  \E t \in DOMAIN frames : \E p \in MadeOut(frames[t]) : s = <<t - 1, p>>
    BY DEF Sightings
  <1>3. ASSUME NEW s \in Sightings(frames)
        PROVE  /\ s \in (0 .. Len(frames)) \X Place
               /\ s[1] \in Nat /\ s[1] + 1 \in DOMAIN frames /\ s[2] \in frames[s[1] + 1].plates
    <2>1. PICK t \in DOMAIN frames : \E p \in MadeOut(frames[t]) : s = <<t - 1, p>>
      BY <1>2, <1>3
    <2>2. PICK p \in MadeOut(frames[t]) : s = <<t - 1, p>>
      BY <2>1
    <2>3. p \in Place /\ p \in frames[t].plates
      BY <1>1, MadeOutIsThere
    <2>4. \A y, z : <<y, z>>[1] = y /\ <<y, z>>[2] = z
      OBVIOUS
    <2>5. s[1] = t - 1 /\ s[2] = p
      BY <2>2, <2>4
    <2>6. t - 1 \in 0 .. Len(frames) /\ t - 1 \in Nat /\ (t - 1) + 1 = t
      BY <1>1
    <2> QED
      BY <2>2, <2>3, <2>5, <2>6
  <1>4. IsFiniteSet(0 .. Len(frames)) /\ IsFiniteSet(Place)
    <2>1. 0 \in Int /\ Len(frames) \in Int /\ Across - 1 \in Int
      BY <1>1 DEF Across
    <2> QED
      BY <2>1, FS_Interval DEF Place
  <1>5. IsFiniteSet((0 .. Len(frames)) \X Place)
    BY <1>4, FS_Product
  <1>6. Sightings(frames) \in SUBSET ((0 .. Len(frames)) \X Place)
    BY <1>3
  <1>7. IsFiniteSet(Sightings(frames))
    BY <1>5, <1>6, FS_Subset
  <1>8. \A t \in DOMAIN frames : \A p \in MadeOut(frames[t]) : <<t - 1, p>> \in Sightings(frames)
    BY DEF Sightings
  <1> QED
    BY <1>3, <1>6, <1>7, <1>8

\* Every plate read in the frames is inside a region found in them.
LEMMA PlatesAreCovered ==
    ASSUME NEW frames \in Seq(Samples)
    PROVE  /\ PlateRegions(frames) \in SUBSET Region
           /\ IsFiniteSet(PlateRegions(frames))
           /\ \A s \in Sightings(frames) : \E r \in PlateRegions(frames) : BlurredOver(r, s[1], s[2])
  <1> DEFINE seen == Sightings(frames)
             boxes == {Sighting(s[1], s[2]) : s \in seen}
  <1>1. IsFiniteSet(seen) /\ \A s \in seen : s[1] \in Nat /\ s[2] \in Place
    BY SightingsAre
  <1> HIDE DEF seen
  <1>2. \A s \in seen : Sighting(s[1], s[2]) \in Region /\ BlurredOver(Sighting(s[1], s[2]), s[1], s[2])
    BY <1>1, SightingCovers
  <1>3. IsFiniteSet(boxes)
    <2> DEFINE box == [s \in seen |-> Sighting(s[1], s[2])]
    <2>1. box \in Surjection(seen, boxes)
      BY DEF Surjection
    <2> QED
      BY <1>1, <2>1, FS_Surjection
  <1>4. boxes \in SUBSET Region
    BY <1>2
  <1>5. PlateRegions(frames) = MergedRegions(boxes)
    BY DEF PlateRegions, seen
  <1>6. \A s \in seen : Sighting(s[1], s[2]) \in boxes
    OBVIOUS
  <1> HIDE DEF boxes
  <1>7. /\ PlateRegions(frames) \in SUBSET Region /\ IsFiniteSet(PlateRegions(frames))
        /\ CoversAll(PlateRegions(frames), boxes)
    BY <1>3, <1>4, <1>5, MergedCovers
  <1>8. ASSUME NEW s \in seen
        PROVE  \E r \in PlateRegions(frames) : BlurredOver(r, s[1], s[2])
    <2> DEFINE b == Sighting(s[1], s[2])
    <2>1. b \in Region /\ b \in boxes /\ BlurredOver(b, s[1], s[2])
      BY <1>2, <1>6
    <2> HIDE DEF b
    <2>2. PICK r \in PlateRegions(frames) : Covers(r, b)
      BY <1>7, <2>1 DEF CoversAll
    <2>3. r \in Region /\ s[1] \in Nat /\ s[2] \in Nat
      <3>1. s[1] \in Nat /\ s[2] \in Place
        BY <1>1
      <3> QED
        BY <1>7, <2>2, <3>1 DEF Place
    <2> QED
      BY <2>1, <2>2, <2>3, CoveredIsBlurred
  <1> QED
    BY <1>7, <1>8 DEF seen

\* Frames in which no plate is found and no face shows are clean.
LEMMA NothingIsMadeOut ==
    ASSUME NEW frames \in Seq(Samples), PlateRegions(frames) = {}, FaceSeconds(frames) = {},
           NEW t \in DOMAIN frames
    PROVE  frames[t] = [plates |-> {}, face |-> FALSE]
  <1>1. frames[t] \in Samples
    OBVIOUS
  <1>2. frames[t].face \in BOOLEAN /\ frames[t] = [plates |-> frames[t].plates, face |-> frames[t].face]
    BY <1>1 DEF Samples
  <1>3. Sightings(frames) = {}
    BY PlatesAreCovered
  <1>4. MadeOut(frames[t]) = {}
    BY <1>3, SightingsAre
  <1>5. frames[t].plates = {}
    BY <1>1, <1>4, MadeOutIsThere
  <1>6. ~frames[t].face
    BY DEF FaceSeconds
  <1>7. frames[t].face = FALSE
    BY <1>2, <1>6
  <1> QED
    BY <1>2, <1>5, <1>7, Zenon

-----------------------------------------------------------------------------
(* The invariant.                                                          *)

Events == DOMAIN Footage

\* A frame, and a clip, in which there is nothing to be seen.
Unmarked == [plates |-> {}, face |-> FALSE]
Clean(clip) == \A t \in DOMAIN clip : clip[t] = Unmarked

\* The shapes of the variables: a clip has the frames of its window, whatever was
\* blurred in it, and what is read was read at one of them.
ClipsAre(clips) ==
  /\ DOMAIN clips \in SUBSET Events
  /\ \A e \in DOMAIN clips : clips[e] \in Seq(Samples) /\ Len(clips[e]) = Len(Footage[e])

ParcelIs(p) ==
  /\ p = [f \in {"clips", "portable", "listed", "record", "manifest", "film"} |-> p[f]]
  /\ p.record = [f \in {"events", "bought", "clocks"} |-> p.record[f]]
  /\ ClipsAre(p.clips)
  /\ p.listed \in SUBSET Events /\ IsFiniteSet(p.listed)
  /\ p.portable \in BOOLEAN

TaskIs(k) ==
  /\ k = [f \in {"step", "how", "left", "plan", "regions", "pass", "round", "changed",
                 "bought", "music"} |-> k[f]]
  /\ k.left \in Seq(Events) /\ k.plan \in Seq(Events) /\ k.changed \in BOOLEAN
  /\ k.how \in {"none", "build", "harden", "film"}
  /\ k.how # "film" => k.regions \in SUBSET Region /\ IsFiniteSet(k.regions)
  /\ k.how = "none" => k.step = "idle"
  /\ k.how = "build" => k.step \in {"cut", "again", "manifest", "map"}
  /\ k.how = "harden" => k.step \in {"look", "again", "judgement"}
  /\ k.how = "film" => k.step = "trace"

VerdictIs(v) ==
  /\ v = [f \in {"built", "whole", "settled"} |-> v[f]]
  /\ v.built \in BOOLEAN /\ v.whole \in BOOLEAN /\ v.settled \in BOOLEAN

TasksAre(n) == n = [f \in {"begun", "builds"} |-> n[f]] /\ n.begun \in Nat /\ n.builds \in Nat

Reads == {s \in Events \X Nat \X Place : s[2] + 1 \in DOMAIN Footage[s[1]]}

ShareType ==
  /\ ParcelIs(parcel) /\ TaskIs(task) /\ VerdictIs(verdict) /\ TasksAre(tasks)
  /\ sampled \in Seq(Samples)
  /\ read \in SUBSET Reads

\* A clip that is to be looked at again is there.
Again(k, p) == k.step = "again" => k.left # <<>> /\ Head(k.left) \in DOMAIN p.clips

\* What was read in a clip does not show in it.
NotMadeOut(p, rd) == \A s \in rd : s[1] \in DOMAIN p.clips => s[3] \notin p.clips[s[1]][s[2] + 1].plates

\* A window cut from its recording is blurred from the recording each time, so all
\* that was ever read in it has to be among the regions found so far.
FoundSoFar(k, rd) ==
  k.step = "again" /\ k.how = "build" =>
    \A s \in rd : s[1] = Head(k.left) => \E r \in k.regions : BlurredOver(r, s[2], s[3])

\* A hardening that has changed nothing has found every clip behind it clean.
LookedAt(k, p) ==
  /\ k.step = "again" /\ k.how = "harden" => k.changed
  /\ k.step = "look" /\ ~k.changed =>
       \A e \in p.listed : e \in Range(k.left) \/ e \notin DOMAIN p.clips \/ Clean(p.clips[e])
  /\ k.step = "judgement" =>
       p.listed \subseteq DOMAIN p.clips /\ (~k.changed => \A e \in p.listed : Clean(p.clips[e]))

\* What settled is clean, and only a hardening from the film has touched it since.
Settled(k, p, v) ==
  v.settled => /\ k.how \in {"none", "film"}
               /\ \A e \in p.listed : e \in DOMAIN p.clips /\ Clean(p.clips[e])

\* Of a build, every window planned is cut or still to be cut, and when the record
\* is written the windows it holds are those.
Planned(k, p) ==
  k.how = "build" =>
    /\ k.plan # <<>> /\ Range(k.plan) \subseteq Range(k.left) \cup DOMAIN p.clips
    /\ k.step \in {"manifest", "map"} => k.left = <<>> /\ p.record.events = Range(k.plan)

\* What is listed is judged: since the first build ended, and since any that ended
\* with no other begun after it.
Judged(k, p, v, n) ==
  /\ p.portable \/ k.how = "build" => n.builds >= 1
  /\ p.portable /\ n.builds = 1 =>
       k.how # "build" /\ p.listed # {} /\ p.listed \subseteq p.record.events
  /\ v.built => k.how # "build" /\ p.listed \subseteq p.record.events
  /\ v.whole => /\ k.how \in {"none", "film"}
                /\ p.listed = p.record.events /\ p.listed \subseteq DOMAIN p.clips

\* Together they are inductive.
ShareInv ==
  /\ ShareType
  /\ Again(task, parcel)
  /\ NotMadeOut(parcel, read) /\ FoundSoFar(task, read)
  /\ LookedAt(task, parcel) /\ Settled(task, parcel, verdict)
  /\ Planned(task, parcel) /\ Judged(task, parcel, verdict, tasks)

-----------------------------------------------------------------------------
(* Looking, blurring and putting in place.                                 *)

\* A look at a clip sees the frames of the clip, whatever an earlier look left
\* behind them in the working directory.
LEMMA SampledAre ==
    ASSUME NEW frames \in Seq(Samples), sampled \in Seq(Samples)
    PROVE  /\ Sampled(frames) \in Seq(Samples)
           /\ \A t \in DOMAIN frames : t \in DOMAIN Sampled(frames) /\ Sampled(frames)[t] = frames[t]
  <1> DEFINE n == Max({Len(sampled), Len(frames)})
             look == [t \in 1 .. n |-> IF t \in DOMAIN frames THEN frames[t] ELSE sampled[t]]
  <1>1. Len(sampled) \in Nat /\ Len(frames) \in Nat
    OBVIOUS
  <1>2. n = (IF Len(sampled) >= Len(frames) THEN Len(sampled) ELSE Len(frames))
    BY <1>1, MaxOfTwo
  <1> HIDE DEF n
  <1>3. n \in Nat /\ DOMAIN frames \subseteq 1 .. n
        /\ \A t \in 1 .. n : t \in DOMAIN frames \/ t \in DOMAIN sampled
    BY <1>1, <1>2
  <1>4. \A t \in DOMAIN frames : frames[t] \in Samples
    OBVIOUS
  <1>5. \A t \in DOMAIN sampled : sampled[t] \in Samples
    OBVIOUS
  <1>6. look \in [1 .. n -> Samples]
    BY <1>3, <1>4, <1>5
  <1>7. look \in Seq(Samples) /\ DOMAIN look = 1 .. n
    BY <1>3, <1>6
  <1>8. Sampled(frames) = look
    BY DEF Sampled, n
  <1> QED
    BY <1>3, <1>7, <1>8

\* So it covers every plate that can be read in the clip,
LEMMA LookCovers ==
    ASSUME NEW frames \in Seq(Samples), sampled \in Seq(Samples)
    PROVE  /\ PlateRegions(Sampled(frames)) \in SUBSET Region
           /\ IsFiniteSet(PlateRegions(Sampled(frames)))
           /\ \A s \in Sightings(frames) :
                 \E r \in PlateRegions(Sampled(frames)) : BlurredOver(r, s[1], s[2])
  <1> DEFINE look == Sampled(frames)
  <1>1. look \in Seq(Samples) /\ \A t \in DOMAIN frames : t \in DOMAIN look /\ look[t] = frames[t]
    BY SampledAre
  <1> HIDE DEF look
  <1>2. Sightings(frames) \subseteq Sightings(look)
    BY <1>1 DEF Sightings
  <1> QED
    BY <1>1, <1>2, PlatesAreCovered DEF look

\* and a clip in which it finds nothing is clean.
LEMMA LookIsClean ==
    ASSUME NEW frames \in Seq(Samples), sampled \in Seq(Samples),
           FaceSeconds(Sampled(frames)) = {}, PlateRegions(Sampled(frames)) = {}
    PROVE  Clean(frames)
  <1>1. Sampled(frames) \in Seq(Samples)
        /\ \A t \in DOMAIN frames : t \in DOMAIN Sampled(frames) /\ Sampled(frames)[t] = frames[t]
    BY SampledAre
  <1>2. ASSUME NEW t \in DOMAIN frames PROVE frames[t] = Unmarked
    <2>1. t \in DOMAIN Sampled(frames) /\ Sampled(frames)[t] = frames[t]
      BY <1>1
    <2> QED
      BY <1>1, <2>1, NothingIsMadeOut DEF Unmarked
  <1> QED
    BY <1>2 DEF Clean

\* Blurring takes plates away and adds nothing.
LEMMA BlurredIs ==
    ASSUME NEW frames \in Seq(Samples), NEW regions
    PROVE  /\ Blurred(frames, regions) \in Seq(Samples)
           /\ Len(Blurred(frames, regions)) = Len(frames)
           /\ DOMAIN Blurred(frames, regions) = DOMAIN frames
           /\ \A t \in DOMAIN frames :
                 Blurred(frames, regions)[t].plates =
                   {p \in frames[t].plates : \A r \in regions : ~BlurredOver(r, t - 1, p)}
           /\ Clean(frames) => Clean(Blurred(frames, regions))
  <1> DEFINE seen(t) == {p \in frames[t].plates : \A r \in regions : ~BlurredOver(r, t - 1, p)}
             soft == [t \in DOMAIN frames |-> [frames[t] EXCEPT !.plates = seen(t)]]
  <1>1. Blurred(frames, regions) = soft
    BY DEF Blurred
  <1>2. \A t \in DOMAIN frames : frames[t] \in Samples
    OBVIOUS
  <1>3. ASSUME NEW t \in DOMAIN frames
        PROVE  /\ soft[t] \in Samples /\ soft[t].plates = seen(t)
               /\ soft[t].face = frames[t].face
               /\ soft[t] = [plates |-> seen(t), face |-> frames[t].face]
    <2>1. frames[t] = [plates |-> frames[t].plates, face |-> frames[t].face]
          /\ frames[t].plates \in SUBSET (0 .. Across - 1) /\ frames[t].face \in BOOLEAN
      BY <1>2 DEF Samples
    <2>2. seen(t) \in SUBSET (0 .. Across - 1)
      BY <2>1
    <2> HIDE DEF seen
    <2>3. [frames[t] EXCEPT !.plates = seen(t)] = [plates |-> seen(t), face |-> frames[t].face]
      BY <2>1
    <2> QED
      BY <2>1, <2>2, <2>3 DEF Samples
  <1>4. DOMAIN soft = DOMAIN frames /\ DOMAIN frames = 1 .. Len(frames) /\ Len(frames) \in Nat
    OBVIOUS
  <1>5. Clean(frames) => Clean(soft)
    <2> SUFFICES ASSUME Clean(frames), NEW t \in DOMAIN frames PROVE soft[t] = Unmarked
      BY <1>4 DEF Clean
    <2>1. frames[t] = Unmarked
      BY DEF Clean
    <2>2. frames[t].plates = {} /\ frames[t].face = FALSE
      BY <2>1 DEF Unmarked
    <2>3. seen(t) = {}
      BY <2>2
    <2> HIDE DEF seen, soft
    <2> QED
      BY <1>3, <2>2, <2>3 DEF Unmarked
  <1> HIDE DEF soft
  <1>6. soft \in [1 .. Len(frames) -> Samples]
    <2>1. soft = [t \in DOMAIN frames |-> soft[t]]
      BY DEF soft
    <2> QED
      BY <1>3, <1>4, <2>1
  <1>7. soft \in Seq(Samples) /\ Len(soft) = Len(frames)
    BY <1>4, <1>6
  <1> QED
    BY <1>1, <1>3, <1>4, <1>5, <1>7

\* What is read of a clip is of that clip, at a frame it has.
LEMMA OwnReadsAre ==
    ASSUME NEW e \in Events, NEW frames \in Seq(Samples), Len(frames) = Len(Footage[e]),
           Footage[e] \in Seq(Samples)
    PROVE  /\ OwnReads(e, frames) \in SUBSET Reads
           /\ \A s \in OwnReads(e, frames) : s[1] = e /\ <<s[2], s[3]>> \in Sightings(frames)
  <1>1. DOMAIN frames = DOMAIN Footage[e]
    OBVIOUS
  <1>2. ASSUME NEW s \in OwnReads(e, frames)
        PROVE  s \in Reads /\ s[1] = e /\ <<s[2], s[3]>> \in Sightings(frames)
    <2>1. PICK w \in Sightings(frames) : s = <<e, w[1], w[2]>>
      BY <1>2 DEF OwnReads
    <2>2. w[1] \in Nat /\ w[1] + 1 \in DOMAIN frames /\ w \in (0 .. Len(frames)) \X Place
      BY SightingsAre
    <2>3. w[2] \in Place /\ w = <<w[1], w[2]>>
      BY <2>2
    <2>4. \A x, y, z : <<x, y, z>>[1] = x /\ <<x, y, z>>[2] = y /\ <<x, y, z>>[3] = z
      OBVIOUS
    <2>5. s[1] = e /\ s[2] = w[1] /\ s[3] = w[2]
      BY <2>1, <2>4
    <2>6. s \in Events \X Nat \X Place
      BY <2>1, <2>2, <2>3
    <2> QED
      BY <1>1, <2>2, <2>3, <2>5, <2>6 DEF Reads
  <1> QED
    BY <1>2

\* A clip put in its place, and the rest of the package as it was.
LEMMA PutIs ==
    ASSUME ParcelIs(parcel), NEW e \in Events, NEW frames \in Seq(Samples),
           Len(frames) = Len(Footage[e])
    PROVE  /\ ParcelIs(Put(e, frames))
           /\ DOMAIN Put(e, frames).clips = Built \cup {e}
           /\ Put(e, frames).clips[e] = frames
           /\ \A d \in Built : d # e => Put(e, frames).clips[d] = parcel.clips[d]
           /\ Put(e, frames).listed = parcel.listed
           /\ Put(e, frames).portable = parcel.portable
           /\ Put(e, frames).record = parcel.record
  <1> DEFINE clips == [d \in Built \cup {e} |-> IF d = e THEN frames ELSE parcel.clips[d]]
             next == [parcel EXCEPT !.clips = clips]
  <1>1. Put(e, frames) = next
    BY DEF Put
  <1>2. /\ DOMAIN clips = Built \cup {e} /\ clips[e] = frames
        /\ \A d \in Built : d # e => clips[d] = parcel.clips[d]
    OBVIOUS
  <1> HIDE DEF clips
  <1>3. parcel = [f \in {"clips", "portable", "listed", "record", "manifest", "film"} |-> parcel[f]]
    BY DEF ParcelIs
  <1>4. /\ next = [f \in {"clips", "portable", "listed", "record", "manifest", "film"} |-> next[f]]
        /\ next.clips = clips /\ next.listed = parcel.listed /\ next.portable = parcel.portable
        /\ next.record = parcel.record
    BY <1>3
  <1> HIDE DEF next
  <1>5. ClipsAre(clips)
    BY <1>2 DEF ClipsAre, ParcelIs, Built
  <1>6. ParcelIs(next)
    BY <1>4, <1>5 DEF ParcelIs
  <1> QED
    BY <1>1, <1>2, <1>4, <1>6

\* The first of a list, and the rest of it.
LEMMA FirstOfList ==
    ASSUME NEW S, NEW list \in Seq(S), list # <<>>
    PROVE  /\ Head(list) \in S /\ Tail(list) \in Seq(S)
           /\ Head(list) \in Range(list)
           /\ \A x \in Range(list) : x = Head(list) \/ x \in Range(Tail(list))
           /\ Range(Tail(list)) \subseteq Range(list)
  <1>1. /\ Len(list) \in Nat \ {0} /\ DOMAIN list = 1 .. Len(list)
        /\ Tail(list) \in Seq(S) /\ Len(Tail(list)) = Len(list) - 1
        /\ DOMAIN Tail(list) = 1 .. (Len(list) - 1)
        /\ \A i \in 1 .. (Len(list) - 1) : Tail(list)[i] = list[i + 1]
        /\ Head(list) = list[1] /\ list[1] \in S
    OBVIOUS
  <1>2. 1 \in DOMAIN list
    BY <1>1
  <1>3. ASSUME NEW x \in Range(list) PROVE x = Head(list) \/ x \in Range(Tail(list))
    <2>1. PICK i \in DOMAIN list : x = list[i]
      BY <1>3 DEF Range
    <2>2. CASE i = 1
      BY <1>1, <2>1, <2>2
    <2>3. CASE i # 1
      <3>1. i - 1 \in 1 .. (Len(list) - 1) /\ (i - 1) + 1 = i
        BY <1>1, <2>3
      <3>2. Tail(list)[i - 1] = x
        BY <1>1, <2>1, <3>1
      <3> QED
        BY <1>1, <3>1, <3>2 DEF Range
    <2> QED
      BY <2>2, <2>3
  <1>4. ASSUME NEW x \in Range(Tail(list)) PROVE x \in Range(list)
    <2>1. PICK i \in 1 .. (Len(list) - 1) : x = Tail(list)[i]
      BY <1>1, <1>4 DEF Range
    <2>2. i + 1 \in DOMAIN list /\ x = list[i + 1]
      BY <1>1, <2>1
    <2> QED
      BY <2>2 DEF Range
  <1>5. Head(list) \in Range(list)
    BY <1>1, <1>2 DEF Range
  <1> QED
    BY <1>1, <1>3, <1>4, <1>5

\* Of each event there are frames.
LEMMA FootageIs ==
    ASSUME NEW e \in Events
    PROVE  Footage[e] \in Seq(Samples) /\ e \in Nat
  BY ShareAssumption DEF Events

\* A plate inside one of the regions cannot be made out once they are blurred.
LEMMA CoveredIsGone ==
    ASSUME NEW s \in Reads, NEW frames \in Seq(Samples), Len(frames) = Len(Footage[s[1]]),
           NEW regions, \E r \in regions : BlurredOver(r, s[2], s[3])
    PROVE  s[3] \notin Blurred(frames, regions)[s[2] + 1].plates
  <1>1. s[1] \in Events /\ s[2] \in Nat /\ s[2] + 1 \in DOMAIN Footage[s[1]]
    BY DEF Reads
  <1>2. Footage[s[1]] \in Seq(Samples)
    BY <1>1, FootageIs
  <1>3. s[2] + 1 \in DOMAIN frames /\ (s[2] + 1) - 1 = s[2]
    BY <1>1, <1>2
  <1>4. Blurred(frames, regions)[s[2] + 1].plates =
          {p \in frames[s[2] + 1].plates : \A r \in regions : ~BlurredOver(r, (s[2] + 1) - 1, p)}
    BY <1>3, BlurredIs
  <1> QED
    BY <1>3, <1>4

\* A clip blurred in place keeps what was kept before: nothing read comes back,
\* and what was clean is.
LEMMA BlurringKeeps ==
    ASSUME ParcelIs(parcel), read \in SUBSET Reads, NotMadeOut(parcel, read),
           NEW e \in Built, NEW regions
    PROVE  LET p == Put(e, Blurred(parcel.clips[e], regions))
           IN  /\ ParcelIs(p) /\ NotMadeOut(p, read)
               /\ DOMAIN p.clips = Built /\ p.listed = parcel.listed
               /\ p.portable = parcel.portable /\ p.record = parcel.record
               /\ p.clips[e] = Blurred(parcel.clips[e], regions)
               /\ \A d \in Built : Clean(parcel.clips[d]) => Clean(p.clips[d])
  <1> DEFINE old == parcel.clips[e]
             soft == Blurred(old, regions)
             p == Put(e, soft)
  <1>1. Built \in SUBSET Events /\ \A d \in Built : parcel.clips[d] \in Seq(Samples) /\ Len(parcel.clips[d]) = Len(Footage[d])
    BY DEF ParcelIs, ClipsAre, Built
  <1>2. e \in Events /\ old \in Seq(Samples) /\ Len(old) = Len(Footage[e])
    BY <1>1
  <1> HIDE DEF old
  <1>3. /\ soft \in Seq(Samples) /\ Len(soft) = Len(old) /\ (Clean(old) => Clean(soft))
        /\ \A t \in DOMAIN old : soft[t].plates \subseteq old[t].plates
    BY <1>2, BlurredIs
  <1> HIDE DEF soft
  <1>4. /\ ParcelIs(p) /\ DOMAIN p.clips = Built \cup {e} /\ p.clips[e] = soft
        /\ \A d \in Built : d # e => p.clips[d] = parcel.clips[d]
        /\ p.listed = parcel.listed /\ p.portable = parcel.portable /\ p.record = parcel.record
    BY <1>2, <1>3, PutIs
  <1> HIDE DEF p
  <1>5. NotMadeOut(p, read)
    <2> SUFFICES ASSUME NEW s \in read, s[1] \in DOMAIN p.clips
                 PROVE  s[3] \notin p.clips[s[1]][s[2] + 1].plates
      BY DEF NotMadeOut
    <2>1. s[1] \in Built /\ s[3] \notin parcel.clips[s[1]][s[2] + 1].plates
      BY <1>4 DEF NotMadeOut, Built
    <2>2. CASE s[1] # e
      BY <1>4, <2>1, <2>2
    <2>3. CASE s[1] = e
      <3>1. s \in Reads /\ Footage[e] \in Seq(Samples)
        BY <1>2, FootageIs
      <3>2. s[2] + 1 \in DOMAIN Footage[e]
        BY <2>3, <3>1 DEF Reads
      <3>3. s[2] + 1 \in DOMAIN old
        BY <1>2, <3>1, <3>2
      <3> QED
        BY <1>3, <1>4, <2>1, <2>3, <3>3 DEF old
    <2> QED
      BY <2>2, <2>3
  <1>6. \A d \in Built : Clean(parcel.clips[d]) => Clean(p.clips[d])
    BY <1>3, <1>4 DEF old
  <1> QED
    BY <1>4, <1>5, <1>6 DEF p, soft, old, Built

-----------------------------------------------------------------------------
(* Every step keeps the invariant.                                         *)

\* The next clip.
LEMMA OnwardIs ==
    ASSUME TaskIs(task), task.left # <<>>, task.how \in {"build", "harden"}
    PROVE  /\ TaskIs(Onward)
           /\ Onward.left = Tail(task.left) /\ Onward.plan = task.plan
           /\ Onward.how = task.how /\ Onward.changed = task.changed
           /\ Onward.step = IF task.how = "build" THEN "cut" ELSE "look"
  <1> DEFINE step == IF task.how = "build" THEN "cut" ELSE "look"
             rest == Tail(task.left)
             next == [task EXCEPT !.step = step, !.left = rest]
  <1>1. Onward = next
    BY DEF Onward
  <1>2. rest \in Seq(Events)
    BY FirstOfList DEF TaskIs
  <1> HIDE DEF step, rest
  <1>3. task = [f \in {"step", "how", "left", "plan", "regions", "pass", "round", "changed",
                       "bought", "music"} |-> task[f]]
    BY DEF TaskIs
  <1>4. /\ next = [f \in {"step", "how", "left", "plan", "regions", "pass", "round", "changed",
                          "bought", "music"} |-> next[f]]
        /\ next.step = step /\ next.left = rest /\ next.how = task.how /\ next.plan = task.plan
        /\ next.regions = task.regions /\ next.changed = task.changed
    BY <1>3
  <1> HIDE DEF next
  <1>5. TaskIs(next)
    BY <1>2, <1>4 DEF TaskIs, step
  <1> QED
    BY <1>1, <1>4, <1>5 DEF step, rest

\* A command goes on to the next clip once this one is gone, clean or to be
\* looked at again.
LEMMA OnwardKeeps ==
    ASSUME ShareInv, task.step \in {"again", "look"}, task.left # <<>>, task' = Onward,
           UNCHANGED <<parcel, read, verdict, tasks>>, sampled' \in Seq(Samples),
           task.how = "harden" =>
               task.changed \/ Event \notin Built \/ Clean(parcel.clips[Event])
    PROVE  ShareInv'
  <1>1. ShareType /\ TaskIs(task) /\ task.how \in {"build", "harden"}
    BY DEF ShareInv, ShareType, TaskIs
  <1>2. /\ TaskIs(task') /\ task'.left = Tail(task.left) /\ task'.plan = task.plan
        /\ task'.how = task.how /\ task'.changed = task.changed
        /\ task'.step = IF task.how = "build" THEN "cut" ELSE "look"
    BY <1>1, OnwardIs
  <1>3. /\ Event \in Range(task.left)
        /\ \A x \in Range(task.left) : x = Event \/ x \in Range(task'.left)
    BY <1>1, <1>2, FirstOfList DEF TaskIs, Event
  <1>4. ShareType'
    BY <1>1, <1>2 DEF ShareType
  <1>5. Again(task', parcel') /\ FoundSoFar(task', read')
    BY <1>2 DEF Again, FoundSoFar
  <1>6. NotMadeOut(parcel', read')
    BY DEF ShareInv
  <1>7. LookedAt(task', parcel')
    <2>1. CASE task.how = "build"
      BY <1>2, <2>1 DEF LookedAt
    <2>2. CASE task.how = "harden"
      <3>1. task'.step = "look"
        BY <1>2, <2>2
      <3> SUFFICES ASSUME ~task'.changed, NEW e \in parcel.listed
                   PROVE  e \in Range(task'.left) \/ e \notin DOMAIN parcel.clips \/ Clean(parcel.clips[e])
        BY <3>1 DEF LookedAt
      <3>2. ~task.changed /\ task.step = "look"
        BY <1>2, <2>2 DEF ShareInv, LookedAt
      <3>3. e \in Range(task.left) \/ e \notin DOMAIN parcel.clips \/ Clean(parcel.clips[e])
        BY <3>2 DEF ShareInv, LookedAt
      <3> QED
        BY <1>3, <2>2, <3>2, <3>3 DEF Built
    <2> QED
      BY <1>1, <2>1, <2>2
  <1>8. Settled(task', parcel', verdict')
    BY <1>1, <1>2 DEF ShareInv, Settled
  <1>9. Planned(task', parcel')
    <2> SUFFICES ASSUME task.how = "build"
                 PROVE  /\ task.plan # <<>> /\ Range(task.plan) \subseteq Range(task'.left) \cup DOMAIN parcel.clips
                        /\ task'.step = "cut"
      BY <1>2 DEF Planned
    <2>1. task.step = "again"
      BY <1>1 DEF TaskIs
    <2>2. Event \in DOMAIN parcel.clips
      BY <2>1 DEF ShareInv, Again, Event
    <2> QED
      BY <1>2, <1>3, <2>2 DEF ShareInv, Planned
  <1>10. Judged(task', parcel', verdict', tasks')
    BY <1>1, <1>2 DEF ShareInv, Judged
  <1> QED
    BY <1>4, <1>5, <1>6, <1>7, <1>8, <1>9, <1>10 DEF ShareInv

\* The first pass over a window cut from its recording.
LEMMA CutWindowKeeps == ShareInv /\ CutWindow => ShareInv'
  <1> SUFFICES ASSUME ShareInv, CutWindow PROVE ShareInv'
    OBVIOUS
  <1> DEFINE regions == PlateRegions(Sampled(Source))
             soft == Blurred(Source, regions)
             next == [task EXCEPT !.step = "again", !.pass = 1, !.regions = regions]
  <1>1. /\ ShareType /\ TaskIs(task) /\ ParcelIs(parcel) /\ read \in SUBSET Reads /\ sampled \in Seq(Samples)
        /\ NotMadeOut(parcel, read)
    BY DEF ShareInv, ShareType
  <1>2. task.step = "cut" /\ task.left # <<>> /\ task.how = "build"
    BY <1>1 DEF CutWindow, TaskIs
  <1>3. /\ Source = Footage[Event] /\ Event \in Events /\ Event = Head(task.left)
        /\ Event \in Range(task.left)
    BY <1>1, <1>2, FirstOfList DEF TaskIs, Event, Source
  <1>4. Source \in Seq(Samples) /\ Len(Source) = Len(Footage[Event]) /\ Footage[Event] \in Seq(Samples)
    BY <1>3, FootageIs
  <1>5. /\ regions \in SUBSET Region /\ IsFiniteSet(regions)
        /\ \A s \in Sightings(Source) : \E r \in regions : BlurredOver(r, s[1], s[2])
    BY <1>1, <1>4, LookCovers
  <1>6. soft \in Seq(Samples) /\ Len(soft) = Len(Footage[Event])
    BY <1>4, BlurredIs
  <1>7. /\ sampled' = Sampled(Source) /\ parcel' = Put(Event, soft) /\ task' = next
        /\ read' = OwnReads(Event, Source) \cup {s \in read : s[1] # Event}
        /\ UNCHANGED <<verdict, tasks>>
    BY <1>2 DEF CutWindow, FirstPass
  <1> HIDE DEF regions
  <1>8. /\ next = [f \in {"step", "how", "left", "plan", "regions", "pass", "round", "changed",
                          "bought", "music"} |-> next[f]]
        /\ next.step = "again" /\ next.left = task.left /\ next.how = "build" /\ next.plan = task.plan
        /\ next.regions = regions /\ next.changed = task.changed
    <2>1. task = [f \in {"step", "how", "left", "plan", "regions", "pass", "round", "changed",
                         "bought", "music"} |-> task[f]]
      BY <1>1 DEF TaskIs
    <2> QED
      BY <1>2, <2>1
  <1> HIDE DEF next
  <1>9. TaskIs(task')
    BY <1>1, <1>5, <1>7, <1>8 DEF TaskIs
  <1>10. /\ ParcelIs(parcel') /\ DOMAIN parcel'.clips = Built \cup {Event} /\ parcel'.clips[Event] = soft
         /\ \A d \in Built : d # Event => parcel'.clips[d] = parcel.clips[d]
         /\ parcel'.listed = parcel.listed /\ parcel'.portable = parcel.portable
         /\ parcel'.record = parcel.record
    BY <1>1, <1>3, <1>6, <1>7, PutIs
  <1>11. /\ OwnReads(Event, Source) \in SUBSET Reads
         /\ \A s \in OwnReads(Event, Source) : s[1] = Event /\ <<s[2], s[3]>> \in Sightings(Source)
    BY <1>3, <1>4, OwnReadsAre
  <1>12. \A s \in OwnReads(Event, Source) : \E r \in regions : BlurredOver(r, s[2], s[3])
    <2>1. \A y, z : <<y, z>>[1] = y /\ <<y, z>>[2] = z
      OBVIOUS
    <2> SUFFICES ASSUME NEW s \in OwnReads(Event, Source)
                 PROVE  \E r \in regions : BlurredOver(r, s[2], s[3])
      OBVIOUS
    <2>2. \E r \in regions : BlurredOver(r, <<s[2], s[3]>>[1], <<s[2], s[3]>>[2])
      BY <1>5, <1>11
    <2> QED
      BY <2>1, <2>2
  <1>13. ShareType'
    <2>1. Sampled(Source) \in Seq(Samples)
      BY <1>1, <1>4, SampledAre
    <2>2. read' \in SUBSET Reads
      BY <1>1, <1>7, <1>11
    <2> QED
      BY <1>1, <1>7, <1>9, <1>10, <2>1, <2>2 DEF ShareType
  <1>14. Again(task', parcel')
    BY <1>2, <1>3, <1>7, <1>8, <1>10 DEF Again
  <1>15. NotMadeOut(parcel', read')
    <2> SUFFICES ASSUME NEW s \in read', s[1] \in DOMAIN parcel'.clips
                 PROVE  s[3] \notin parcel'.clips[s[1]][s[2] + 1].plates
      BY DEF NotMadeOut
    <2>1. CASE s \in OwnReads(Event, Source)
      <3>1. s \in Reads /\ s[1] = Event /\ \E r \in regions : BlurredOver(r, s[2], s[3])
        BY <1>11, <1>12, <2>1
      <3>2. s[3] \notin soft[s[2] + 1].plates
        BY <1>4, <3>1, CoveredIsGone
      <3> QED
        BY <1>10, <3>1, <3>2
    <2>2. CASE s \notin OwnReads(Event, Source)
      <3>1. s \in read /\ s[1] # Event
        BY <1>7, <2>2
      <3>2. s[1] \in Built /\ parcel'.clips[s[1]] = parcel.clips[s[1]]
        BY <1>10, <3>1
      <3> QED
        BY <1>1, <3>1, <3>2 DEF NotMadeOut, Built
    <2> QED
      BY <2>1, <2>2
  <1>16. FoundSoFar(task', read')
    <2> SUFFICES ASSUME NEW s \in read', s[1] = Event
                 PROVE  \E r \in regions : BlurredOver(r, s[2], s[3])
      BY <1>3, <1>7, <1>8 DEF FoundSoFar
    <2> QED
      BY <1>7, <1>12
  <1>17. LookedAt(task', parcel')
    BY <1>7, <1>8 DEF LookedAt
  <1>18. Settled(task', parcel', verdict')
    BY <1>2, <1>7 DEF ShareInv, Settled
  <1>19. Planned(task', parcel')
    BY <1>2, <1>7, <1>8, <1>10 DEF ShareInv, Planned, Built
  <1>20. Judged(task', parcel', verdict', tasks')
    BY <1>2, <1>7, <1>8, <1>10 DEF ShareInv, Judged
  <1> QED
    BY <1>13, <1>14, <1>15, <1>16, <1>17, <1>18, <1>19, <1>20 DEF ShareInv

\* The first pass over a clip that shows plates.
LEMMA BlurPlatesKeeps ==
    ShareInv /\ task.step = "look" /\ task.left # <<>> /\ BlurPlates => ShareInv'
  <1> SUFFICES ASSUME ShareInv, task.step = "look", task.left # <<>>, BlurPlates PROVE ShareInv'
    OBVIOUS
  <1> DEFINE regions == PlateRegions(Sampled(Source))
             soft == Blurred(Source, regions)
             next == [task EXCEPT !.step = "again", !.pass = 1, !.regions = regions, !.changed = TRUE]
  <1>1. /\ ShareType /\ TaskIs(task) /\ ParcelIs(parcel) /\ read \in SUBSET Reads /\ sampled \in Seq(Samples)
        /\ NotMadeOut(parcel, read)
    BY DEF ShareInv, ShareType
  <1>2. task.how = "harden" /\ Event \in Built /\ Source = parcel.clips[Event]
    BY <1>1 DEF BlurPlates, TaskIs, Source
  <1>3. Event \in Events /\ Source \in Seq(Samples) /\ Len(Source) = Len(Footage[Event])
    BY <1>1, <1>2 DEF ParcelIs, ClipsAre, Built
  <1>4. Footage[Event] \in Seq(Samples)
    BY <1>3, FootageIs
  <1>5. /\ regions \in SUBSET Region /\ IsFiniteSet(regions)
        /\ \A s \in Sightings(Source) : \E r \in regions : BlurredOver(r, s[1], s[2])
    BY <1>1, <1>3, LookCovers
  <1>6. /\ sampled' = Sampled(Source) /\ parcel' = Put(Event, soft) /\ task' = next
        /\ read' = read \cup OwnReads(Event, Source)
        /\ UNCHANGED <<verdict, tasks>>
    BY <1>2 DEF BlurPlates
  <1> HIDE DEF regions
  <1>7. /\ next = [f \in {"step", "how", "left", "plan", "regions", "pass", "round", "changed",
                          "bought", "music"} |-> next[f]]
        /\ next.step = "again" /\ next.left = task.left /\ next.how = "harden" /\ next.plan = task.plan
        /\ next.regions = regions /\ next.changed = TRUE
    <2>1. task = [f \in {"step", "how", "left", "plan", "regions", "pass", "round", "changed",
                         "bought", "music"} |-> task[f]]
      BY <1>1 DEF TaskIs
    <2> QED
      BY <1>2, <2>1
  <1> HIDE DEF next
  <1>8. TaskIs(task')
    BY <1>1, <1>5, <1>6, <1>7 DEF TaskIs
  <1>9. /\ ParcelIs(parcel') /\ NotMadeOut(parcel', read) /\ DOMAIN parcel'.clips = Built
        /\ parcel'.clips[Event] = soft /\ parcel'.listed = parcel.listed
        /\ parcel'.portable = parcel.portable /\ parcel'.record = parcel.record
    BY <1>1, <1>2, <1>6, BlurringKeeps
  <1>10. /\ OwnReads(Event, Source) \in SUBSET Reads
         /\ \A s \in OwnReads(Event, Source) : s[1] = Event /\ <<s[2], s[3]>> \in Sightings(Source)
    BY <1>3, <1>4, OwnReadsAre
  <1>11. ShareType'
    <2>1. Sampled(Source) \in Seq(Samples)
      BY <1>1, <1>3, SampledAre
    <2>2. read' \in SUBSET Reads
      BY <1>1, <1>6, <1>10
    <2> QED
      BY <1>1, <1>6, <1>8, <1>9, <2>1, <2>2 DEF ShareType
  <1>12. Again(task', parcel')
    BY <1>2, <1>6, <1>7, <1>9 DEF Again, Event
  <1>13. NotMadeOut(parcel', read')
    <2>1. \A y, z : <<y, z>>[1] = y /\ <<y, z>>[2] = z
      OBVIOUS
    <2> SUFFICES ASSUME NEW s \in OwnReads(Event, Source)
                 PROVE  s[3] \notin soft[s[2] + 1].plates
      BY <1>6, <1>9, <1>10 DEF NotMadeOut
    <2>2. \E r \in regions : BlurredOver(r, <<s[2], s[3]>>[1], <<s[2], s[3]>>[2])
      BY <1>5, <1>10
    <2>3. \E r \in regions : BlurredOver(r, s[2], s[3])
      BY <2>1, <2>2
    <2>4. s \in Reads /\ s[1] = Event
      BY <1>10
    <2> QED
      BY <1>3, <2>3, <2>4, CoveredIsGone
  <1>14. FoundSoFar(task', read')
    BY <1>6, <1>7 DEF FoundSoFar
  <1>15. LookedAt(task', parcel')
    BY <1>6, <1>7 DEF LookedAt
  <1>16. Settled(task', parcel', verdict')
    BY <1>2, <1>6 DEF ShareInv, Settled
  <1>17. Planned(task', parcel')
    BY <1>6, <1>7 DEF Planned
  <1>18. Judged(task', parcel', verdict', tasks')
    BY <1>2, <1>6, <1>7, <1>9 DEF ShareInv, Judged
  <1> QED
    BY <1>11, <1>12, <1>13, <1>14, <1>15, <1>16, <1>17, <1>18 DEF ShareInv

\* A later pass: of a recording everything found so far is blurred, and of a
\* clip what was blurred before stays so.
LEMMA BlurAgainKeeps == ShareInv /\ BlurAgain => ShareInv'
  <1> SUFFICES ASSUME ShareInv, BlurAgain PROVE ShareInv'
    OBVIOUS
  <1> DEFINE again == PlateRegions(Sampled(parcel.clips[Event]))
             regions == AllFound(again)
             soft == Blurred(Source, regions)
             next == [task EXCEPT !.pass = @ + 1, !.regions = regions]
  <1>1. /\ ShareType /\ TaskIs(task) /\ ParcelIs(parcel) /\ read \in SUBSET Reads /\ sampled \in Seq(Samples)
        /\ NotMadeOut(parcel, read)
    BY DEF ShareInv, ShareType
  <1>2. /\ task.step = "again" /\ task.left # <<>> /\ Event = Head(task.left) /\ Event \in Built
        /\ task.how \in {"build", "harden"} /\ (task.how = "harden" => task.changed)
    BY <1>1 DEF BlurAgain, ShareInv, Again, TaskIs, LookedAt, Event, Built
  <1>3. /\ Event \in Events /\ parcel.clips[Event] \in Seq(Samples)
        /\ Len(parcel.clips[Event]) = Len(Footage[Event])
    BY <1>1, <1>2 DEF ParcelIs, ClipsAre, Built
  <1>4. Footage[Event] \in Seq(Samples)
    BY <1>3, FootageIs
  <1>5. Sampled(parcel.clips[Event]) \in Seq(Samples)
    BY <1>1, <1>3, SampledAre
  <1>6. CASE task' = Onward /\ UNCHANGED <<parcel, read, verdict, tasks>> /\ sampled' \in Seq(Samples)
    BY <1>2, <1>6, OnwardKeeps
  <1>7. CASE /\ sampled' = Sampled(parcel.clips[Event]) /\ task' = next
             /\ parcel' = Put(Event, soft)
             /\ read' = read \cup OwnReads(Event, parcel.clips[Event])
             /\ UNCHANGED <<verdict, tasks>>
    <2>1. /\ again \in SUBSET Region /\ IsFiniteSet(again)
          /\ \A s \in Sightings(parcel.clips[Event]) : \E r \in again : BlurredOver(r, s[1], s[2])
      BY <1>1, <1>3, LookCovers
    <2> HIDE DEF again
    <2>2. task.regions \in SUBSET Region /\ IsFiniteSet(task.regions)
      BY <1>1, <1>2 DEF TaskIs
    <2>3. task.regions \cup again \in SUBSET Region /\ IsFiniteSet(task.regions \cup again)
      BY <2>1, <2>2, FS_Union
    <2>4. /\ regions \in SUBSET Region /\ IsFiniteSet(regions)
          /\ CoversAll(regions, task.regions \cup again)
      BY <2>3, MergedCovers DEF AllFound
    <2> HIDE DEF regions
    <2>5. ASSUME NEW f \in Nat, NEW p \in Nat, NEW b \in task.regions \cup again, BlurredOver(b, f, p)
          PROVE  \E r \in regions : BlurredOver(r, f, p)
      <3>1. PICK r \in regions : Covers(r, b)
        BY <2>4 DEF CoversAll
      <3>2. r \in Region /\ b \in Region
        BY <2>3, <2>4
      <3> QED
        BY <2>5, <3>1, <3>2, CoveredIsBlurred
    <2>6. /\ OwnReads(Event, parcel.clips[Event]) \in SUBSET Reads
          /\ \A s \in OwnReads(Event, parcel.clips[Event]) :
                s[1] = Event /\ <<s[2], s[3]>> \in Sightings(parcel.clips[Event])
      BY <1>3, <1>4, OwnReadsAre
    <2>7. read' \in SUBSET Reads /\ \A s \in Reads : s[1] \in Events /\ s[2] \in Nat /\ s[3] \in Nat
      <3>1. \A s \in Reads : s[3] \in Place /\ s[1] \in Events /\ s[2] \in Nat
        BY DEF Reads
      <3>2. \A p \in Place : p \in Nat
        BY DEF Place
      <3> QED
        BY <1>1, <1>7, <2>6, <3>1, <3>2
    <2>8. ASSUME NEW s \in OwnReads(Event, parcel.clips[Event])
          PROVE  \E r \in regions : BlurredOver(r, s[2], s[3])
      <3>1. \A y, z : <<y, z>>[1] = y /\ <<y, z>>[2] = z
        OBVIOUS
      <3>2. \E b \in again : BlurredOver(b, <<s[2], s[3]>>[1], <<s[2], s[3]>>[2])
        BY <2>1, <2>6
      <3>3. PICK b \in again : BlurredOver(b, s[2], s[3])
        BY <3>1, <3>2
      <3>4. s[2] \in Nat /\ s[3] \in Nat
        BY <2>6, <2>7
      <3> QED
        BY <2>5, <3>3, <3>4
    <2>9. ASSUME task.how = "build", NEW s \in read', s[1] = Event
          PROVE  \E r \in regions : BlurredOver(r, s[2], s[3])
      <3>1. CASE s \in OwnReads(Event, parcel.clips[Event])
        BY <2>8, <3>1
      <3>2. CASE s \in read
        <4>1. PICK b \in task.regions : BlurredOver(b, s[2], s[3])
          BY <1>2, <2>9, <3>2 DEF ShareInv, FoundSoFar
        <4>2. s[2] \in Nat /\ s[3] \in Nat
          BY <2>7
        <4> QED
          BY <2>5, <4>1, <4>2
      <3> QED
        BY <1>7, <2>9, <3>1, <3>2
    <2>10. /\ next = [f \in {"step", "how", "left", "plan", "regions", "pass", "round", "changed",
                             "bought", "music"} |-> next[f]]
           /\ next.step = "again" /\ next.left = task.left /\ next.how = task.how /\ next.plan = task.plan
           /\ next.regions = regions /\ next.changed = task.changed
      <3>1. task = [f \in {"step", "how", "left", "plan", "regions", "pass", "round", "changed",
                           "bought", "music"} |-> task[f]]
        BY <1>1 DEF TaskIs
      <3> QED
        BY <1>2, <3>1
    <2> HIDE DEF next
    <2>11. TaskIs(task')
      BY <1>1, <1>2, <1>7, <2>4, <2>10 DEF TaskIs
    <2>12. Source \in Seq(Samples) /\ Len(Source) = Len(Footage[Event])
           /\ (task.how = "harden" => Source = parcel.clips[Event])
           /\ (task.how = "build" => Source = Footage[Event])
      BY <1>2, <1>3, <1>4 DEF Source
    <2>13. soft \in Seq(Samples) /\ Len(soft) = Len(Footage[Event])
      BY <2>12, BlurredIs
    <2>14. /\ ParcelIs(parcel') /\ DOMAIN parcel'.clips = Built /\ parcel'.clips[Event] = soft
           /\ \A d \in Built : d # Event => parcel'.clips[d] = parcel.clips[d]
           /\ parcel'.listed = parcel.listed /\ parcel'.portable = parcel.portable
           /\ parcel'.record = parcel.record
      <3> HIDE DEF soft
      <3>1. Built \cup {Event} = Built
        BY <1>2
      <3> QED
        BY <1>1, <1>3, <1>7, <2>13, <3>1, PutIs
    <2>15. NotMadeOut(parcel', read')
      <3> SUFFICES ASSUME NEW s \in read', s[1] \in DOMAIN parcel'.clips
                   PROVE  s[3] \notin parcel'.clips[s[1]][s[2] + 1].plates
        BY DEF NotMadeOut
      <3>1. s \in Reads
        BY <2>7
      <3>2. CASE s[1] # Event
        <4>1. s \in read
          BY <1>7, <2>6, <3>2
        <4>2. s[1] \in Built /\ parcel'.clips[s[1]] = parcel.clips[s[1]]
          BY <2>14, <3>2
        <4> QED
          BY <1>1, <4>1, <4>2 DEF NotMadeOut, Built
      <3>3. CASE s[1] = Event /\ \E r \in regions : BlurredOver(r, s[2], s[3])
        <4>1. s[3] \notin soft[s[2] + 1].plates
          BY <2>12, <3>1, <3>3, CoveredIsGone
        <4> QED
          BY <2>14, <3>3, <4>1
      <3>4. CASE s[1] = Event /\ ~\E r \in regions : BlurredOver(r, s[2], s[3])
        <4>1. task.how = "harden" /\ s \in read
          BY <1>2, <1>7, <2>8, <2>9, <3>4
        <4>2. parcel' = Put(Event, Blurred(parcel.clips[Event], regions))
          BY <1>7, <2>12, <4>1
        <4>3. NotMadeOut(parcel', read)
          BY <1>1, <1>2, <4>2, BlurringKeeps
        <4> QED
          BY <4>1, <4>3 DEF NotMadeOut
      <3> QED
        BY <3>2, <3>3, <3>4
    <2>16. ShareType'
      BY <1>1, <1>5, <1>7, <2>7, <2>11, <2>14 DEF ShareType
    <2>17. Again(task', parcel')
      BY <1>2, <1>7, <2>10, <2>14 DEF Again
    <2>18. FoundSoFar(task', read')
      BY <1>2, <1>7, <2>9, <2>10 DEF FoundSoFar
    <2>19. LookedAt(task', parcel')
      BY <1>2, <1>7, <2>10 DEF LookedAt
    <2>20. Settled(task', parcel', verdict')
      BY <1>2, <1>7 DEF ShareInv, Settled
    <2>21. Planned(task', parcel')
      BY <1>2, <1>7, <2>10, <2>14 DEF ShareInv, Planned, Built
    <2>22. Judged(task', parcel', verdict', tasks')
      BY <1>2, <1>7, <2>10, <2>14 DEF ShareInv, Judged
    <2> QED
      BY <2>15, <2>16, <2>17, <2>18, <2>19, <2>20, <2>21, <2>22 DEF ShareInv
  <1> QED
    <2> HIDE DEF again, regions, soft, next
    <2>1. \/ task.pass >= Passes /\ task' = Onward /\ UNCHANGED <<parcel, sampled, read>>
          \/ task' = Onward /\ UNCHANGED <<parcel, read>> /\ sampled' = Sampled(parcel.clips[Event])
          \/ /\ sampled' = Sampled(parcel.clips[Event]) /\ task' = next
             /\ parcel' = Put(Event, soft)
             /\ read' = read \cup OwnReads(Event, parcel.clips[Event])
      BY DEF BlurAgain, again, regions, soft, next
    <2>2. UNCHANGED <<verdict, tasks>>
      BY DEF BlurAgain
    <2> QED
      BY <1>1, <1>5, <1>6, <1>7, <2>1, <2>2

\* A clip dropped for a face.
LEMMA DropFaceKeeps ==
    ShareInv /\ task.step = "look" /\ task.left # <<>> /\ DropFace => ShareInv'
  <1> SUFFICES ASSUME ShareInv, task.step = "look", task.left # <<>>, DropFace PROVE ShareInv'
    OBVIOUS
  <1> DEFINE clips == Restrict(parcel.clips, Built \ {Event})
             p == [parcel EXCEPT !.clips = clips]
             k == [Onward EXCEPT !.changed = TRUE]
  <1>1. /\ ShareType /\ TaskIs(task) /\ ParcelIs(parcel) /\ sampled \in Seq(Samples)
        /\ NotMadeOut(parcel, read)
    BY DEF ShareInv, ShareType
  <1>2. task.how = "harden" /\ Event \in Built
    BY <1>1 DEF DropFace, TaskIs
  <1>3. /\ sampled' = Sampled(parcel.clips[Event]) /\ parcel' = p /\ task' = k
        /\ UNCHANGED <<read, verdict, tasks>>
    BY DEF DropFace, Built
  <1>4. /\ DOMAIN clips = Built \ {Event} /\ \A d \in Built \ {Event} : clips[d] = parcel.clips[d]
    BY DEF Restrict
  <1> HIDE DEF clips
  <1>5. /\ p = [f \in {"clips", "portable", "listed", "record", "manifest", "film"} |-> p[f]]
        /\ p.clips = clips /\ p.listed = parcel.listed /\ p.portable = parcel.portable
        /\ p.record = parcel.record
    <2>1. parcel = [f \in {"clips", "portable", "listed", "record", "manifest", "film"} |-> parcel[f]]
      BY <1>1 DEF ParcelIs
    <2> QED
      BY <2>1
  <1> HIDE DEF p
  <1>6. ParcelIs(parcel')
    BY <1>1, <1>3, <1>4, <1>5 DEF ParcelIs, ClipsAre, Built
  <1>7. TaskIs(Onward) /\ Onward.left = Tail(task.left) /\ Onward.plan = task.plan
        /\ Onward.how = "harden" /\ Onward.step = "look"
    BY <1>1, <1>2, OnwardIs
  <1>8. /\ k = [f \in {"step", "how", "left", "plan", "regions", "pass", "round", "changed",
                 "bought", "music"} |-> k[f]]
        /\ k.step = "look" /\ k.left = Onward.left /\ k.how = "harden" /\ k.plan = Onward.plan
        /\ k.regions = Onward.regions /\ k.changed = TRUE
    <2>1. Onward = [f \in {"step", "how", "left", "plan", "regions", "pass", "round", "changed",
                 "bought", "music"} |-> Onward[f]]
      BY <1>7 DEF TaskIs
    <2> QED
      BY <1>7, <2>1
  <1> HIDE DEF k
  <1>9. TaskIs(task')
    BY <1>3, <1>7, <1>8 DEF TaskIs
  <1>10. ShareType'
    <2>1. parcel.clips[Event] \in Seq(Samples)
      BY <1>1, <1>2 DEF ParcelIs, ClipsAre, Built
    <2>2. sampled' \in Seq(Samples)
      BY <1>1, <1>3, <2>1, SampledAre
    <2> QED
      BY <1>1, <1>3, <1>6, <1>9, <2>2 DEF ShareType
  <1>11. Again(task', parcel') /\ FoundSoFar(task', read') /\ LookedAt(task', parcel') /\ Planned(task', parcel')
    BY <1>3, <1>8 DEF Again, FoundSoFar, LookedAt, Planned
  <1>12. NotMadeOut(parcel', read')
    BY <1>1, <1>3, <1>4, <1>5 DEF NotMadeOut, Built
  <1>13. Settled(task', parcel', verdict')
    BY <1>2, <1>3 DEF ShareInv, Settled
  <1>14. Judged(task', parcel', verdict', tasks')
    BY <1>2, <1>3, <1>5, <1>8 DEF ShareInv, Judged
  <1> QED
    BY <1>10, <1>11, <1>12, <1>13, <1>14 DEF ShareInv

\* One clip of a hardening.
LEMMA LookAtClipKeeps == ShareInv /\ LookAtClip => ShareInv'
  <1> SUFFICES ASSUME ShareInv, LookAtClip PROVE ShareInv'
    OBVIOUS
  <1>1. task.step = "look" /\ task.left # <<>> /\ sampled \in Seq(Samples) /\ ParcelIs(parcel)
    BY DEF LookAtClip, ShareInv, ShareType
  <1>2. CASE PassOver
    <2>1. task' = Onward /\ Event \notin Built /\ UNCHANGED <<parcel, sampled, read, verdict, tasks>>
      BY <1>2 DEF PassOver
    <2> QED
      BY <1>1, <2>1, OnwardKeeps
  <1>3. CASE DropFace
    BY <1>1, <1>3, DropFaceKeeps
  <1>4. CASE BlurPlates
    BY <1>1, <1>4, BlurPlatesKeeps
  <1>5. CASE FindClean
    <2>1. /\ task' = Onward /\ UNCHANGED <<parcel, read, verdict, tasks>>
          /\ sampled' = Sampled(parcel.clips[Event]) /\ Event \in Built
          /\ FaceSeconds(Sampled(parcel.clips[Event])) = {}
          /\ PlateRegions(Sampled(parcel.clips[Event])) = {}
      BY <1>5 DEF FindClean
    <2>2. parcel.clips[Event] \in Seq(Samples)
      BY <1>1, <2>1 DEF ParcelIs, ClipsAre, Built
    <2>3. Clean(parcel.clips[Event]) /\ sampled' \in Seq(Samples)
      BY <1>1, <2>1, <2>2, LookIsClean, SampledAre
    <2> QED
      BY <1>1, <2>1, <2>3, OnwardKeeps
  <1> QED
    BY <1>2, <1>3, <1>4, <1>5 DEF LookAtClip

\* The judgement narrowed to what is shipped: every window of it has its clip.
LEMMA WriteRecordKeeps == ShareInv /\ WriteRecord => ShareInv'
  <1> SUFFICES ASSUME ShareInv, WriteRecord PROVE ShareInv'
    OBVIOUS
  <1> DEFINE record == [events |-> Range(task.plan), bought |-> task.bought, clocks |-> TRUE]
             p == [parcel EXCEPT !.record = record]
             k == [task EXCEPT !.step = "manifest"]
  <1>1. ShareType /\ TaskIs(task) /\ ParcelIs(parcel) /\ NotMadeOut(parcel, read)
    BY DEF ShareInv, ShareType
  <1>2. task.how = "build" /\ task.left = <<>>
    BY <1>1 DEF WriteRecord, TaskIs
  <1>3. parcel' = p /\ task' = k /\ UNCHANGED <<sampled, read, verdict, tasks>>
    BY DEF WriteRecord
  <1>4. record = [f \in {"events", "bought", "clocks"} |-> record[f]] /\ record.events = Range(task.plan)
    OBVIOUS
  <1> HIDE DEF record
  <1>5. /\ p = [f \in {"clips", "portable", "listed", "record", "manifest", "film"} |-> p[f]]
        /\ p.clips = parcel.clips /\ p.listed = parcel.listed /\ p.portable = parcel.portable
        /\ p.record = record
    <2>1. parcel = [f \in {"clips", "portable", "listed", "record", "manifest", "film"} |-> parcel[f]]
      BY <1>1 DEF ParcelIs
    <2> QED
      BY <2>1
  <1> HIDE DEF p
  <1>6. ParcelIs(parcel')
    BY <1>1, <1>3, <1>4, <1>5 DEF ParcelIs
  <1>7. /\ k = [f \in {"step", "how", "left", "plan", "regions", "pass", "round", "changed",
                 "bought", "music"} |-> k[f]]
        /\ k.step = "manifest" /\ k.left = task.left /\ k.how = "build" /\ k.plan = task.plan
        /\ k.regions = task.regions /\ k.changed = task.changed
    <2>1. task = [f \in {"step", "how", "left", "plan", "regions", "pass", "round", "changed",
                 "bought", "music"} |-> task[f]]
      BY <1>1 DEF TaskIs
    <2> QED
      BY <1>2, <2>1
  <1> HIDE DEF k
  <1>8. TaskIs(task')
    BY <1>1, <1>2, <1>3, <1>7 DEF TaskIs
  <1>9. ShareType'
    BY <1>1, <1>3, <1>6, <1>8 DEF ShareType
  <1>10. Again(task', parcel') /\ FoundSoFar(task', read') /\ LookedAt(task', parcel')
    BY <1>3, <1>7 DEF Again, FoundSoFar, LookedAt
  <1>11. NotMadeOut(parcel', read')
    BY <1>1, <1>3, <1>5 DEF NotMadeOut
  <1>12. Settled(task', parcel', verdict')
    BY <1>2, <1>3 DEF ShareInv, Settled
  <1>13. Planned(task', parcel')
    BY <1>2, <1>3, <1>4, <1>5, <1>7 DEF ShareInv, Planned
  <1>14. Judged(task', parcel', verdict', tasks')
    BY <1>2, <1>3, <1>5, <1>7 DEF ShareInv, Judged
  <1> QED
    BY <1>9, <1>10, <1>11, <1>12, <1>13, <1>14 DEF ShareInv

\* The manifest, the track and the music.
LEMMA WriteManifestKeeps == ShareInv /\ WriteManifest => ShareInv'
  <1> SUFFICES ASSUME ShareInv, WriteManifest PROVE ShareInv'
    OBVIOUS
  <1> DEFINE p == [parcel EXCEPT !.manifest = "home"]
             k == [task EXCEPT !.step = "map"]
  <1>1. ShareType /\ TaskIs(task) /\ ParcelIs(parcel) /\ NotMadeOut(parcel, read)
    BY DEF ShareInv, ShareType
  <1>2. task.how = "build" /\ task.step = "manifest"
    BY <1>1 DEF WriteManifest, TaskIs
  <1>3. parcel' = p /\ task' = k /\ UNCHANGED <<sampled, read, verdict, tasks>>
    BY DEF WriteManifest
  <1>4. /\ p = [f \in {"clips", "portable", "listed", "record", "manifest", "film"} |-> p[f]]
        /\ p.clips = parcel.clips /\ p.listed = parcel.listed /\ p.portable = parcel.portable
        /\ p.record = parcel.record
    <2>1. parcel = [f \in {"clips", "portable", "listed", "record", "manifest", "film"} |-> parcel[f]]
      BY <1>1 DEF ParcelIs
    <2> QED
      BY <2>1
  <1> HIDE DEF p
  <1>5. ParcelIs(parcel')
    BY <1>1, <1>3, <1>4 DEF ParcelIs
  <1>6. /\ k = [f \in {"step", "how", "left", "plan", "regions", "pass", "round", "changed",
                 "bought", "music"} |-> k[f]]
        /\ k.step = "map" /\ k.left = task.left /\ k.how = "build" /\ k.plan = task.plan
        /\ k.regions = task.regions /\ k.changed = task.changed
    <2>1. task = [f \in {"step", "how", "left", "plan", "regions", "pass", "round", "changed",
                 "bought", "music"} |-> task[f]]
      BY <1>1 DEF TaskIs
    <2> QED
      BY <1>2, <2>1
  <1> HIDE DEF k
  <1>7. TaskIs(task')
    BY <1>1, <1>2, <1>3, <1>6 DEF TaskIs
  <1>8. ShareType'
    BY <1>1, <1>3, <1>5, <1>7 DEF ShareType
  <1>9. Again(task', parcel') /\ FoundSoFar(task', read') /\ LookedAt(task', parcel')
    BY <1>3, <1>6 DEF Again, FoundSoFar, LookedAt
  <1>10. NotMadeOut(parcel', read')
    BY <1>1, <1>3, <1>4 DEF NotMadeOut
  <1>11. Settled(task', parcel', verdict')
    BY <1>2, <1>3 DEF ShareInv, Settled
  <1>12. Planned(task', parcel')
    BY <1>2, <1>3, <1>4, <1>6 DEF ShareInv, Planned
  <1>13. Judged(task', parcel', verdict', tasks')
    BY <1>2, <1>3, <1>4, <1>6 DEF ShareInv, Judged
  <1> QED
    BY <1>8, <1>9, <1>10, <1>11, <1>12, <1>13 DEF ShareInv

\* Between commands.
LEMMA RestingIs ==
    /\ TaskIs(Resting) /\ Resting.how = "none" /\ Resting.step = "idle" /\ Resting.left = <<>>
    /\ Resting.plan = <<>> /\ Resting.changed = FALSE /\ Resting.regions = {}
  <1>1. /\ Resting = [f \in {"step", "how", "left", "plan", "regions", "pass", "round", "changed",
                 "bought", "music"} |-> Resting[f]]
        /\ Resting.how = "none" /\ Resting.step = "idle" /\ Resting.left = <<>>
        /\ Resting.plan = <<>> /\ Resting.changed = FALSE /\ Resting.regions = {}
    BY DEF Resting
  <1>2. <<>> \in Seq(Events) /\ IsFiniteSet({})
    BY FS_EmptySet
  <1> QED
    BY <1>1, <1>2 DEF TaskIs

\* The map, last: it lists what the judgement holds.
LEMMA WriteFilmSourcesKeeps == ShareInv /\ WriteFilmSources => ShareInv'
  <1> SUFFICES ASSUME ShareInv, WriteFilmSources PROVE ShareInv'
    OBVIOUS
  <1> DEFINE listed == Range(task.plan)
             p == [parcel EXCEPT !.portable = TRUE, !.listed = listed]
             v == [built |-> TRUE, whole |-> TRUE, settled |-> FALSE]
  <1>1. ShareType /\ TaskIs(task) /\ ParcelIs(parcel) /\ NotMadeOut(parcel, read) /\ TasksAre(tasks)
    BY DEF ShareInv, ShareType
  <1>2. task.how = "build" /\ task.step = "map" /\ task.plan \in Seq(Events)
    BY <1>1 DEF WriteFilmSources, TaskIs
  <1>3. parcel' = p /\ task' = Resting /\ verdict' = v /\ UNCHANGED <<sampled, read, tasks>>
    BY DEF WriteFilmSources
  <1>4. listed \in SUBSET Events /\ IsFiniteSet(listed)
    BY <1>2, RangeIsFinite
  <1>5. /\ listed # {} /\ listed \subseteq DOMAIN parcel.clips /\ parcel.record.events = listed
    <2>1. /\ task.plan # <<>> /\ task.left = <<>> /\ parcel.record.events = listed
          /\ listed \subseteq Range(task.left) \cup DOMAIN parcel.clips
      BY <1>2 DEF ShareInv, Planned
    <2>2. Head(task.plan) \in listed
      BY <1>2, <2>1, FirstOfList
    <2>3. Range(<<>>) = {}
      BY DEF Range
    <2> QED
      BY <2>1, <2>2, <2>3
  <1> HIDE DEF listed
  <1>6. /\ p = [f \in {"clips", "portable", "listed", "record", "manifest", "film"} |-> p[f]]
        /\ p.clips = parcel.clips /\ p.listed = listed /\ p.portable = TRUE
        /\ p.record = parcel.record
    <2>1. parcel = [f \in {"clips", "portable", "listed", "record", "manifest", "film"} |-> parcel[f]]
      BY <1>1 DEF ParcelIs
    <2> QED
      BY <2>1
  <1> HIDE DEF p
  <1>7. ParcelIs(parcel')
    BY <1>1, <1>3, <1>4, <1>6 DEF ParcelIs
  <1>8. VerdictIs(v) /\ v.built = TRUE /\ v.whole = TRUE /\ v.settled = FALSE
    BY DEF VerdictIs
  <1> HIDE DEF v
  <1>9. ShareType'
    BY <1>1, <1>3, <1>7, <1>8, RestingIs DEF ShareType
  <1>10. Again(task', parcel') /\ FoundSoFar(task', read') /\ LookedAt(task', parcel') /\ Planned(task', parcel')
    BY <1>3, RestingIs DEF Again, FoundSoFar, LookedAt, Planned
  <1>11. NotMadeOut(parcel', read')
    BY <1>1, <1>3, <1>6 DEF NotMadeOut
  <1>12. Settled(task', parcel', verdict')
    BY <1>3, <1>8 DEF Settled
  <1>13. Judged(task', parcel', verdict', tasks')
    <2>1. tasks'.builds >= 1
      BY <1>2, <1>3 DEF ShareInv, Judged
    <2> QED
      BY <1>3, <1>5, <1>6, <1>8, <2>1, RestingIs DEF Judged
  <1> QED
    BY <1>9, <1>10, <1>11, <1>12, <1>13 DEF ShareInv

\* A command fails or is stopped, at any step.
LEMMA TaskFailsKeeps == ShareInv /\ TaskFails => ShareInv'
  <1> SUFFICES ASSUME ShareInv, TaskFails PROVE ShareInv'
    OBVIOUS
  <1>1. task' = Resting /\ UNCHANGED <<parcel, sampled, read, verdict, tasks>>
    BY DEF TaskFails
  <1>2. ShareType'
    BY <1>1, RestingIs DEF ShareInv, ShareType
  <1>3. Again(task', parcel') /\ FoundSoFar(task', read') /\ LookedAt(task', parcel') /\ Planned(task', parcel')
    BY <1>1, RestingIs DEF Again, FoundSoFar, LookedAt, Planned
  <1>4. NotMadeOut(parcel', read')
    BY <1>1 DEF ShareInv
  <1>5. Settled(task', parcel', verdict')
    BY <1>1, RestingIs DEF ShareInv, Settled
  <1>6. Judged(task', parcel', verdict', tasks')
    BY <1>1, RestingIs DEF ShareInv, Judged
  <1> QED
    BY <1>2, <1>3, <1>4, <1>5, <1>6 DEF ShareInv

\* What beginning a command does to the verdict and the counts.
LEMMA BegunIs ==
    ASSUME VerdictIs(verdict), TasksAre(tasks), NEW new, Begin(new)
    PROVE  /\ task = Resting /\ task' = new /\ sampled' = <<>> /\ sampled' \in Seq(Samples)
           /\ VerdictIs(verdict') /\ TasksAre(tasks')
           /\ tasks'.builds = IF new.how = "build" THEN tasks.builds + 1 ELSE tasks.builds
           /\ new.how = "film" => verdict' = verdict
           /\ new.how # "film" => /\ verdict'.built = (verdict.built /\ new.how = "harden")
                                  /\ verdict'.whole = FALSE /\ verdict'.settled = FALSE
  <1> DEFINE more == IF new.how = "build" THEN 1 ELSE 0
             n == [tasks EXCEPT !.begun = tasks.begun + 1, !.builds = tasks.builds + more]
             v == [built |-> verdict.built /\ new.how = "harden", whole |-> FALSE, settled |-> FALSE]
  <1>1. /\ task = Resting /\ task' = new /\ sampled' = <<>> /\ tasks' = n
        /\ verdict' = IF new.how = "film" THEN verdict ELSE v
    BY DEF Begin
  <1>2. more \in Nat /\ (new.how = "build" => more = 1) /\ (new.how # "build" => more = 0)
    OBVIOUS
  <1> HIDE DEF more
  <1>3. /\ n = [f \in {"begun", "builds"} |-> n[f]]
        /\ n.begun = tasks.begun + 1 /\ n.builds = tasks.builds + more
    BY DEF TasksAre
  <1> HIDE DEF n
  <1>4. TasksAre(n) /\ n.builds = IF new.how = "build" THEN tasks.builds + 1 ELSE tasks.builds
    BY <1>2, <1>3 DEF TasksAre
  <1>5. /\ VerdictIs(v) /\ v.built = (verdict.built /\ new.how = "harden")
        /\ v.whole = FALSE /\ v.settled = FALSE
    BY DEF VerdictIs
  <1> HIDE DEF v
  <1> QED
    BY <1>1, <1>4, <1>5

\* A build begins.
LEMMA BuildPackageKeeps == ShareInv /\ BuildPackage => ShareInv'
  <1> SUFFICES ASSUME ShareInv, BuildPackage PROVE ShareInv'
    OBVIOUS
  <1>1. /\ ShareType /\ ParcelIs(parcel) /\ NotMadeOut(parcel, read)
        /\ VerdictIs(verdict) /\ TasksAre(tasks)
    BY DEF ShareInv, ShareType
  <1>2. PICK given \in Given :
            /\ Buildable(given)
            /\ Begin([Resting EXCEPT !.step = "cut", !.how = "build", !.left = given.plan,
                                     !.plan = given.plan, !.bought = given.bought, !.music = given.music])
    BY DEF BuildPackage
  <1> DEFINE plan == given.plan
             k == [Resting EXCEPT !.step = "cut", !.how = "build", !.left = plan,
                                  !.plan = plan, !.bought = given.bought, !.music = given.music]
  <1>3. plan \in Seq(Events) /\ plan # <<>>
    BY <1>2, ShareAssumption DEF Buildable, Events
  <1>4. Begin(k)
    BY <1>2
  <1> HIDE DEF plan
  <1>5. /\ k = [f \in {"step", "how", "left", "plan", "regions", "pass", "round", "changed",
                 "bought", "music"} |-> k[f]]
        /\ k.step = "cut" /\ k.left = plan /\ k.how = "build" /\ k.plan = plan
        /\ k.regions = {} /\ k.changed = FALSE
    <2>1. Resting = [f \in {"step", "how", "left", "plan", "regions", "pass", "round", "changed",
                 "bought", "music"} |-> Resting[f]] /\ Resting.regions = {} /\ Resting.changed = FALSE
      BY RestingIs DEF TaskIs
    <2> HIDE DEF Resting
    <2> QED
      BY <2>1
  <1> HIDE DEF k
  <1>6. TaskIs(k)
    BY <1>3, <1>5, FS_EmptySet DEF TaskIs
  <1>7. /\ task' = k /\ sampled' \in Seq(Samples) /\ VerdictIs(verdict') /\ TasksAre(tasks')
        /\ tasks'.builds = tasks.builds + 1 /\ verdict'.built = FALSE
        /\ verdict'.whole = FALSE /\ verdict'.settled = FALSE
    BY <1>1, <1>4, <1>5, BegunIs
  <1>8. UNCHANGED <<parcel, read>>
    BY DEF BuildPackage
  <1>9. ShareType'
    BY <1>1, <1>6, <1>7, <1>8 DEF ShareType
  <1>10. /\ Again(task', parcel') /\ FoundSoFar(task', read') /\ LookedAt(task', parcel')
         /\ Settled(task', parcel', verdict') /\ NotMadeOut(parcel', read')
    BY <1>1, <1>5, <1>7, <1>8 DEF Again, FoundSoFar, LookedAt, Settled
  <1>11. Planned(task', parcel')
    BY <1>3, <1>5, <1>7, <1>8 DEF Planned
  <1>12. Judged(task', parcel', verdict', tasks')
    <2>1. /\ tasks.builds \in Nat /\ tasks'.builds = tasks.builds + 1 /\ task'.how = "build"
          /\ parcel.portable => tasks.builds >= 1
      BY <1>1, <1>5, <1>7 DEF ShareInv, Judged, TasksAre
    <2>2. tasks'.builds >= 1 /\ (parcel'.portable => tasks'.builds # 1)
      BY <1>8, <2>1
    <2> QED
      BY <1>7, <2>2 DEF Judged
  <1> QED
    BY <1>9, <1>10, <1>11, <1>12 DEF ShareInv

\* A hardening begins with every clip the map lists.
LEMMA HardenPackageKeeps == ShareInv /\ HardenPackage => ShareInv'
  <1> SUFFICES ASSUME ShareInv, HardenPackage PROVE ShareInv'
    OBVIOUS
  <1>1. /\ ShareType /\ ParcelIs(parcel) /\ NotMadeOut(parcel, read)
        /\ VerdictIs(verdict) /\ TasksAre(tasks)
    BY DEF ShareInv, ShareType
  <1> DEFINE list == ByName(parcel.listed)
             k == [Resting EXCEPT !.step = "look", !.how = "harden", !.round = 1, !.left = list]
  <1>2. Begin(k) /\ UNCHANGED <<parcel, read>>
    BY DEF HardenPackage
  <1>3. list \in Seq(Events) /\ Range(list) = parcel.listed
    <2>1. parcel.listed \in SUBSET Events /\ IsFiniteSet(parcel.listed) /\ parcel.listed \in SUBSET Nat
      BY <1>1, FootageIs DEF ParcelIs
    <2>2. list \in Seq(parcel.listed) /\ Range(list) = parcel.listed
      BY <2>1, ByNameIsAll
    <2> HIDE DEF list
    <2> QED
      BY <2>1, <2>2
  <1> HIDE DEF list
  <1>4. /\ k = [f \in {"step", "how", "left", "plan", "regions", "pass", "round", "changed",
                 "bought", "music"} |-> k[f]]
        /\ k.step = "look" /\ k.left = list /\ k.how = "harden" /\ k.plan = <<>>
        /\ k.regions = {} /\ k.changed = FALSE
    <2>1. /\ Resting = [f \in {"step", "how", "left", "plan", "regions", "pass", "round", "changed",
                 "bought", "music"} |-> Resting[f]]
          /\ Resting.regions = {} /\ Resting.changed = FALSE /\ Resting.plan = <<>>
      BY RestingIs DEF TaskIs
    <2> QED
      BY <2>1
  <1> HIDE DEF k
  <1>5. TaskIs(k)
    <2>1. <<>> \in Seq(Events)
      OBVIOUS
    <2> QED
      BY <1>3, <1>4, <2>1, FS_EmptySet DEF TaskIs
  <1>6. /\ task' = k /\ sampled' \in Seq(Samples) /\ VerdictIs(verdict') /\ TasksAre(tasks')
        /\ tasks'.builds = tasks.builds /\ verdict'.built = verdict.built
        /\ verdict'.whole = FALSE /\ verdict'.settled = FALSE
    <2>1. /\ task' = k /\ sampled' \in Seq(Samples) /\ VerdictIs(verdict') /\ TasksAre(tasks')
          /\ tasks'.builds = tasks.builds /\ verdict'.built = (verdict.built /\ TRUE)
          /\ verdict'.whole = FALSE /\ verdict'.settled = FALSE
      BY <1>1, <1>2, <1>4, BegunIs
    <2>2. verdict.built \in BOOLEAN
      BY <1>1 DEF VerdictIs
    <2> QED
      BY <2>1, <2>2
  <1>7. ShareType'
    BY <1>1, <1>2, <1>5, <1>6 DEF ShareType
  <1>8. /\ Again(task', parcel') /\ FoundSoFar(task', read') /\ LookedAt(task', parcel')
        /\ Settled(task', parcel', verdict') /\ NotMadeOut(parcel', read') /\ Planned(task', parcel')
    BY <1>1, <1>2, <1>3, <1>4, <1>6 DEF Again, FoundSoFar, LookedAt, Settled, Planned
  <1>9. Judged(task', parcel', verdict', tasks')
    BY <1>2, <1>4, <1>6 DEF ShareInv, Judged
  <1> QED
    BY <1>7, <1>8, <1>9 DEF ShareInv

\* The map narrowed to the clips that are left.
LEMMA NarrowSourcesKeeps == ShareInv /\ NarrowSources => ShareInv'
  <1> SUFFICES ASSUME ShareInv, NarrowSources PROVE ShareInv'
    OBVIOUS
  <1> DEFINE listed == parcel.listed \cap Built
             p == [parcel EXCEPT !.listed = listed]
             k == [task EXCEPT !.step = "judgement"]
  <1>1. ShareType /\ TaskIs(task) /\ ParcelIs(parcel) /\ NotMadeOut(parcel, read)
    BY DEF ShareInv, ShareType
  <1>2. task.how = "harden" /\ task.step = "look" /\ task.left = <<>> /\ listed # {}
    BY <1>1 DEF NarrowSources, TaskIs
  <1>3. parcel' = p /\ task' = k /\ UNCHANGED <<sampled, read, verdict, tasks>>
    BY DEF NarrowSources
  <1>4. /\ listed \in SUBSET Events /\ IsFiniteSet(listed) /\ listed \subseteq parcel.listed
        /\ listed \subseteq DOMAIN parcel.clips
    BY <1>1, FS_Subset DEF ParcelIs, Built
  <1>5. ~task.changed => \A e \in listed : Clean(parcel.clips[e])
    <2>1. Range(<<>>) = {}
      BY DEF Range
    <2> QED
      BY <1>2, <1>4, <2>1 DEF ShareInv, LookedAt
  <1> HIDE DEF listed
  <1>6. /\ p = [f \in {"clips", "portable", "listed", "record", "manifest", "film"} |-> p[f]]
        /\ p.clips = parcel.clips /\ p.listed = listed /\ p.portable = parcel.portable
        /\ p.record = parcel.record
    <2>1. parcel = [f \in {"clips", "portable", "listed", "record", "manifest", "film"} |-> parcel[f]]
      BY <1>1 DEF ParcelIs
    <2> QED
      BY <2>1
  <1> HIDE DEF p
  <1>7. ParcelIs(parcel')
    BY <1>1, <1>3, <1>4, <1>6 DEF ParcelIs
  <1>8. /\ k = [f \in {"step", "how", "left", "plan", "regions", "pass", "round", "changed",
                 "bought", "music"} |-> k[f]]
        /\ k.step = "judgement" /\ k.left = task.left /\ k.how = "harden" /\ k.plan = task.plan
        /\ k.regions = task.regions /\ k.changed = task.changed
    <2>1. task = [f \in {"step", "how", "left", "plan", "regions", "pass", "round", "changed",
                 "bought", "music"} |-> task[f]]
      BY <1>1 DEF TaskIs
    <2> QED
      BY <1>2, <2>1
  <1> HIDE DEF k
  <1>9. TaskIs(task')
    BY <1>1, <1>2, <1>3, <1>8 DEF TaskIs
  <1>10. ShareType'
    BY <1>1, <1>3, <1>7, <1>9 DEF ShareType
  <1>11. Again(task', parcel') /\ FoundSoFar(task', read') /\ Planned(task', parcel')
    BY <1>3, <1>8 DEF Again, FoundSoFar, Planned
  <1>12. LookedAt(task', parcel')
    BY <1>3, <1>4, <1>5, <1>6, <1>8 DEF LookedAt
  <1>13. NotMadeOut(parcel', read')
    BY <1>1, <1>3, <1>6 DEF NotMadeOut
  <1>14. Settled(task', parcel', verdict')
    BY <1>2, <1>3 DEF ShareInv, Settled
  <1>15. Judged(task', parcel', verdict', tasks')
    BY <1>2, <1>3, <1>4, <1>6, <1>8 DEF ShareInv, Judged
  <1> QED
    BY <1>10, <1>11, <1>12, <1>13, <1>14, <1>15 DEF ShareInv

\* The judgement narrowed after it; another round, or settled when none of the
\* clips had to be changed.
LEMMA NarrowRecordKeeps == ShareInv /\ NarrowRecord => ShareInv'
  <1> SUFFICES ASSUME ShareInv, NarrowRecord PROVE ShareInv'
    OBVIOUS
  <1> DEFINE events == parcel.record.events \cap parcel.listed
             record == [parcel.record EXCEPT !.events = events]
             p == [parcel EXCEPT !.record = record]
             list == ByName(parcel.listed)
             k == [task EXCEPT !.step = "look", !.round = @ + 1, !.changed = FALSE, !.left = list]
             v == [verdict EXCEPT !.whole = verdict.built, !.settled = ~task.changed]
  <1>1. /\ ShareType /\ TaskIs(task) /\ ParcelIs(parcel) /\ NotMadeOut(parcel, read)
        /\ VerdictIs(verdict)
    BY DEF ShareInv, ShareType
  <1>2. task.how = "harden" /\ task.step = "judgement" /\ task.changed \in BOOLEAN
    BY <1>1 DEF NarrowRecord, TaskIs
  <1>3. parcel' = p /\ UNCHANGED <<sampled, read, tasks>>
    BY DEF NarrowRecord
  <1>4. \/ task' = k /\ verdict' = verdict
        \/ ~(task.changed /\ task.round < Rounds) /\ task' = Resting /\ verdict' = v
    BY DEF NarrowRecord
  <1>5. record = [f \in {"events", "bought", "clocks"} |-> record[f]] /\ record.events = events
    <2>1. parcel.record = [f \in {"events", "bought", "clocks"} |-> parcel.record[f]]
      BY <1>1 DEF ParcelIs
    <2> QED
      BY <2>1
  <1> HIDE DEF record
  <1>6. /\ p = [f \in {"clips", "portable", "listed", "record", "manifest", "film"} |-> p[f]]
        /\ p.clips = parcel.clips /\ p.listed = parcel.listed /\ p.portable = parcel.portable
        /\ p.record = record
    <2>1. parcel = [f \in {"clips", "portable", "listed", "record", "manifest", "film"} |-> parcel[f]]
      BY <1>1 DEF ParcelIs
    <2> QED
      BY <2>1
  <1> HIDE DEF p
  <1>7. ParcelIs(parcel')
    BY <1>1, <1>3, <1>5, <1>6 DEF ParcelIs
  <1>8. NotMadeOut(parcel', read')
    BY <1>1, <1>3, <1>6 DEF NotMadeOut
  <1>9. /\ parcel.listed \subseteq DOMAIN parcel.clips
        /\ ~task.changed => \A e \in parcel.listed : Clean(parcel.clips[e])
    BY <1>2 DEF ShareInv, LookedAt
  <1>10. /\ verdict.built => parcel'.record.events = parcel.listed
         /\ parcel.portable /\ tasks.builds = 1 =>
              parcel.listed # {} /\ parcel.listed \subseteq parcel'.record.events
         /\ parcel.portable => tasks.builds >= 1
         /\ ~verdict.whole /\ ~verdict.settled
    BY <1>2, <1>3, <1>5, <1>6 DEF ShareInv, Judged, Settled
  <1>11. CASE task' = k /\ verdict' = verdict
    <2>1. list \in Seq(Events) /\ Range(list) = parcel.listed
      <3>1. parcel.listed \in SUBSET Events /\ IsFiniteSet(parcel.listed) /\ parcel.listed \in SUBSET Nat
        BY <1>1, FootageIs DEF ParcelIs
      <3>2. list \in Seq(parcel.listed) /\ Range(list) = parcel.listed
        BY <3>1, ByNameIsAll
      <3> HIDE DEF list
      <3> QED
        BY <3>1, <3>2
    <2> HIDE DEF list
    <2>2. /\ k = [f \in {"step", "how", "left", "plan", "regions", "pass", "round", "changed",
                 "bought", "music"} |-> k[f]]
          /\ k.step = "look" /\ k.left = list /\ k.how = "harden" /\ k.plan = task.plan
          /\ k.regions = task.regions /\ k.changed = FALSE
      <3>1. task = [f \in {"step", "how", "left", "plan", "regions", "pass", "round", "changed",
                 "bought", "music"} |-> task[f]]
        BY <1>1 DEF TaskIs
      <3> QED
        BY <1>2, <3>1
    <2> HIDE DEF k
    <2>3. TaskIs(task')
      BY <1>1, <1>2, <1>11, <2>1, <2>2 DEF TaskIs
    <2>4. ShareType'
      BY <1>1, <1>3, <1>7, <1>11, <2>3 DEF ShareType
    <2>5. /\ Again(task', parcel') /\ FoundSoFar(task', read') /\ Planned(task', parcel')
          /\ Settled(task', parcel', verdict')
      BY <1>10, <1>11, <2>2 DEF Again, FoundSoFar, Planned, Settled
    <2>6. LookedAt(task', parcel')
      BY <1>3, <1>6, <1>11, <2>1, <2>2 DEF LookedAt
    <2>7. Judged(task', parcel', verdict', tasks')
      BY <1>3, <1>6, <1>10, <1>11, <2>2 DEF Judged
    <2> QED
      BY <1>8, <2>4, <2>5, <2>6, <2>7 DEF ShareInv
  <1>12. CASE task' = Resting /\ verdict' = v
    <2>1. /\ v = [f \in {"built", "whole", "settled"} |-> v[f]]
          /\ v.built = verdict.built /\ v.whole = verdict.built /\ v.settled = ~task.changed
      <3>1. verdict = [f \in {"built", "whole", "settled"} |-> verdict[f]]
        BY <1>1 DEF VerdictIs
      <3> QED
        BY <3>1
    <2> HIDE DEF v
    <2>2. VerdictIs(verdict')
      BY <1>1, <1>2, <1>12, <2>1 DEF VerdictIs
    <2>3. ShareType'
      BY <1>1, <1>3, <1>7, <1>12, <2>2, RestingIs DEF ShareType
    <2>4. /\ Again(task', parcel') /\ FoundSoFar(task', read') /\ LookedAt(task', parcel')
          /\ Planned(task', parcel')
      BY <1>12, RestingIs DEF Again, FoundSoFar, Planned, LookedAt
    <2>5. Settled(task', parcel', verdict')
      <3>1. verdict'.settled => ~task.changed
        BY <1>12, <2>1
      <3> QED
        BY <1>3, <1>6, <1>9, <1>12, <3>1, RestingIs DEF Settled
    <2>6. Judged(task', parcel', verdict', tasks')
      <3>1. verdict'.built = verdict.built /\ verdict'.whole = verdict.built
        BY <1>12, <2>1
      <3> QED
        BY <1>3, <1>6, <1>9, <1>10, <1>12, <3>1, RestingIs DEF Judged
    <2> QED
      BY <1>8, <2>3, <2>4, <2>5, <2>6 DEF ShareInv
  <1> QED
    BY <1>4, <1>11, <1>12

\* A list of some of a set is a list of the set.
LEMMA ListOfSome ==
    ASSUME NEW S, NEW T \in SUBSET S, NEW list \in Seq(T)
    PROVE  list \in Seq(S)
  OBVIOUS

\* A hardening from the film begins.
LEMMA HardenFromFilmKeeps == ShareInv /\ HardenFromFilm => ShareInv'
  <1> SUFFICES ASSUME ShareInv, HardenFromFilm PROVE ShareInv'
    OBVIOUS
  <1>1. /\ ShareType /\ ParcelIs(parcel) /\ NotMadeOut(parcel, read)
        /\ VerdictIs(verdict) /\ TasksAre(tasks)
    BY DEF ShareInv, ShareType
  <1> DEFINE shown == {w.event : w \in Traced} \cap parcel.listed
             regions == {w \in Traced : w.event \in parcel.listed}
             list == ByName(shown)
             k == [Resting EXCEPT !.step = "trace", !.how = "film", !.regions = regions, !.left = list]
  <1>2. Begin(k) /\ UNCHANGED <<parcel, read>>
    BY DEF HardenFromFilm
  <1>3. list \in Seq(Events)
    <2>1. /\ shown \in SUBSET parcel.listed /\ parcel.listed \in SUBSET Events
          /\ IsFiniteSet(parcel.listed)
      BY <1>1 DEF ParcelIs
    <2> HIDE DEF shown
    <2>2. IsFiniteSet(shown) /\ shown \in SUBSET Nat /\ shown \in SUBSET Events
      BY <2>1, FootageIs, FS_Subset
    <2>3. list \in Seq(shown)
      BY <2>2, ByNameIsAll
    <2> HIDE DEF list
    <2>4. shown \in SUBSET Events
      BY <2>2
    <2> QED
      BY <2>3, <2>4, ListOfSome
  <1> HIDE DEF list, regions
  <1>4. /\ k = [f \in {"step", "how", "left", "plan", "regions", "pass", "round", "changed",
                 "bought", "music"} |-> k[f]]
        /\ k.step = "trace" /\ k.left = list /\ k.how = "film" /\ k.plan = <<>>
        /\ k.changed = FALSE
    <2>1. /\ Resting = [f \in {"step", "how", "left", "plan", "regions", "pass", "round", "changed",
                 "bought", "music"} |-> Resting[f]]
          /\ Resting.changed = FALSE /\ Resting.plan = <<>>
      BY RestingIs DEF TaskIs
    <2> QED
      BY <2>1
  <1> HIDE DEF k
  <1>5. TaskIs(k)
    <2>1. <<>> \in Seq(Events)
      OBVIOUS
    <2> QED
      BY <1>3, <1>4, <2>1 DEF TaskIs
  <1>6. /\ task = Resting /\ task' = k /\ sampled' \in Seq(Samples) /\ VerdictIs(verdict')
        /\ TasksAre(tasks') /\ tasks'.builds = tasks.builds /\ verdict' = verdict
    BY <1>1, <1>2, <1>4, BegunIs
  <1>7. ShareType'
    BY <1>1, <1>2, <1>5, <1>6 DEF ShareType
  <1>8. /\ Again(task', parcel') /\ FoundSoFar(task', read') /\ LookedAt(task', parcel')
        /\ NotMadeOut(parcel', read') /\ Planned(task', parcel')
    BY <1>1, <1>2, <1>4, <1>6 DEF Again, FoundSoFar, LookedAt, Planned
  <1>9. Settled(task', parcel', verdict')
    BY <1>2, <1>4, <1>6 DEF ShareInv, Settled
  <1>10. Judged(task', parcel', verdict', tasks')
    BY <1>2, <1>4, <1>6 DEF ShareInv, Judged
  <1> QED
    BY <1>7, <1>8, <1>9, <1>10 DEF ShareInv

\* One clip of it.
LEMMA BlurFromFilmKeeps == ShareInv /\ BlurFromFilm => ShareInv'
  <1> SUFFICES ASSUME ShareInv, BlurFromFilm PROVE ShareInv'
    OBVIOUS
  <1> DEFINE regions == {[w.region EXCEPT !.from = 0, !.to = Len(Source)] :
                            w \in {v \in task.regions : v.event = Event}}
             rest == Tail(task.left)
             k == [task EXCEPT !.left = rest]
  <1>1. /\ ShareType /\ TaskIs(task) /\ ParcelIs(parcel) /\ NotMadeOut(parcel, read)
        /\ read \in SUBSET Reads
    BY DEF ShareInv, ShareType
  <1>2. task.how = "film" /\ task.step = "trace" /\ task.left # <<>>
    BY <1>1 DEF BlurFromFilm, TaskIs
  <1>3. /\ Event \notin Built => parcel' = parcel
        /\ Event \in Built => parcel' = Put(Event, Blurred(Source, regions))
        /\ UNCHANGED <<sampled, read, verdict, tasks>>
        /\ task' = Resting \/ task' = k
    BY DEF BlurFromFilm
  <1> HIDE DEF regions
  <1>4. Source = parcel.clips[Event]
    BY <1>2 DEF Source
  <1>5. /\ ParcelIs(parcel') /\ NotMadeOut(parcel', read) /\ DOMAIN parcel'.clips = DOMAIN parcel.clips
        /\ parcel'.listed = parcel.listed /\ parcel'.portable = parcel.portable
        /\ parcel'.record = parcel.record
        /\ \A d \in Built : Clean(parcel.clips[d]) => Clean(parcel'.clips[d])
    <2>1. CASE Event \notin Built
      BY <1>1, <1>3, <2>1
    <2>2. CASE Event \in Built
      <3>1. parcel' = Put(Event, Blurred(parcel.clips[Event], regions))
        BY <1>3, <1>4, <2>2
      <3> QED
        BY <1>1, <2>2, <3>1, BlurringKeeps DEF Built
    <2> QED
      BY <2>1, <2>2
  <1>6. rest \in Seq(Events)
    BY <1>1, <1>2, FirstOfList DEF TaskIs
  <1> HIDE DEF rest
  <1>7. /\ k = [f \in {"step", "how", "left", "plan", "regions", "pass", "round", "changed",
                 "bought", "music"} |-> k[f]]
        /\ k.step = "trace" /\ k.left = rest /\ k.how = "film" /\ k.plan = task.plan
        /\ k.changed = task.changed
    <2>1. task = [f \in {"step", "how", "left", "plan", "regions", "pass", "round", "changed",
                 "bought", "music"} |-> task[f]]
      BY <1>1 DEF TaskIs
    <2> QED
      BY <1>2, <2>1
  <1> HIDE DEF k
  <1>8. TaskIs(k)
    BY <1>1, <1>6, <1>7 DEF TaskIs
  <1>9. TaskIs(task') /\ task'.how \in {"none", "film"} /\ task'.step \in {"idle", "trace"}
    BY <1>3, <1>7, <1>8, RestingIs
  <1>10. ShareType'
    BY <1>1, <1>3, <1>5, <1>9 DEF ShareType
  <1>11. /\ Again(task', parcel') /\ FoundSoFar(task', read') /\ LookedAt(task', parcel')
         /\ Planned(task', parcel') /\ NotMadeOut(parcel', read')
    BY <1>3, <1>5, <1>9 DEF Again, FoundSoFar, LookedAt, Planned
  <1>12. Settled(task', parcel', verdict')
    BY <1>3, <1>5, <1>9 DEF ShareInv, Settled, Built
  <1>13. Judged(task', parcel', verdict', tasks')
    BY <1>3, <1>5, <1>9 DEF ShareInv, Judged
  <1> QED
    BY <1>10, <1>11, <1>12, <1>13 DEF ShareInv

\* Nothing the invariant speaks of changes.
LEMMA ParcelOnlyKeeps ==
    ASSUME ShareInv, UNCHANGED <<task, sampled, read, verdict, tasks>>, ParcelIs(parcel'),
           parcel'.clips = parcel.clips, parcel'.listed = parcel.listed,
           parcel'.portable = parcel.portable, parcel'.record = parcel.record
    PROVE  ShareInv'
  <1>1. ShareType'
    BY DEF ShareInv, ShareType
  <1>2. /\ Again(task', parcel') /\ FoundSoFar(task', read') /\ LookedAt(task', parcel')
        /\ Planned(task', parcel') /\ NotMadeOut(parcel', read')
    BY DEF ShareInv, Again, FoundSoFar, LookedAt, Planned, NotMadeOut
  <1>3. Settled(task', parcel', verdict') /\ Judged(task', parcel', verdict', tasks')
    BY DEF ShareInv, Settled, Judged
  <1> QED
    BY <1>1, <1>2, <1>3 DEF ShareInv

\* The film and the manifest are no part of it.
LEMMA ParcelWith ==
    ASSUME ParcelIs(parcel), NEW x
    PROVE  LET p == [parcel EXCEPT !.film = x]
               q == [parcel EXCEPT !.manifest = x]
           IN  /\ ParcelIs(p) /\ p.clips = parcel.clips /\ p.listed = parcel.listed
               /\ p.portable = parcel.portable /\ p.record = parcel.record
               /\ ParcelIs(q) /\ q.clips = parcel.clips /\ q.listed = parcel.listed
               /\ q.portable = parcel.portable /\ q.record = parcel.record
  <1> DEFINE p == [parcel EXCEPT !.film = x]
             q == [parcel EXCEPT !.manifest = x]
  <1>1. parcel = [f \in {"clips", "portable", "listed", "record", "manifest", "film"} |-> parcel[f]]
    BY DEF ParcelIs
  <1>2. /\ p = [f \in {"clips", "portable", "listed", "record", "manifest", "film"} |-> p[f]]
        /\ p.clips = parcel.clips /\ p.listed = parcel.listed
        /\ p.portable = parcel.portable /\ p.record = parcel.record
    BY <1>1
  <1>3. /\ q = [f \in {"clips", "portable", "listed", "record", "manifest", "film"} |-> q[f]]
        /\ q.clips = parcel.clips /\ q.listed = parcel.listed
        /\ q.portable = parcel.portable /\ q.record = parcel.record
    BY <1>1
  <1> HIDE DEF p, q
  <1>4. ParcelIs(p) /\ ParcelIs(q)
    BY <1>2, <1>3 DEF ParcelIs
  <1> QED
    BY <1>2, <1>3, <1>4 DEF p, q

\* The film of the package is cut.
LEMMA CutFilmKeeps == ShareInv /\ CutFilm => ShareInv'
  <1> SUFFICES ASSUME ShareInv, CutFilm PROVE ShareInv'
    OBVIOUS
  <1>1. UNCHANGED <<task, sampled, read, verdict, tasks>> /\ ParcelIs(parcel)
    BY DEF CutFilm, ShareInv, ShareType
  <1>2. PICK x : parcel' = [parcel EXCEPT !.film = x]
    BY DEF CutFilm
  <1> QED
    BY <1>1, <1>2, ParcelWith, ParcelOnlyKeeps

\* The package is installed where it landed.
LEMMA SettlePackageKeeps == ShareInv /\ SettlePackage => ShareInv'
  <1> SUFFICES ASSUME ShareInv, SettlePackage PROVE ShareInv'
    OBVIOUS
  <1>1. UNCHANGED <<task, sampled, read, verdict, tasks>> /\ ParcelIs(parcel)
    BY DEF SettlePackage, ShareInv, ShareType
  <1>2. parcel' = [parcel EXCEPT !.manifest = "here"]
    BY DEF SettlePackage
  <1> QED
    BY <1>1, <1>2, ParcelWith, ParcelOnlyKeeps

\* An empty directory.
LEMMA ShareStart == ShareInit => ShareInv
  <1> SUFFICES ASSUME ShareInit PROVE ShareInv
    OBVIOUS
  <1>1. /\ parcel = [f \in {"clips", "portable", "listed", "record", "manifest", "film"} |-> parcel[f]]
        /\ parcel.record = [f \in {"events", "bought", "clocks"} |-> parcel.record[f]]
        /\ parcel.clips = <<>> /\ parcel.listed = {} /\ parcel.portable = FALSE
    BY DEF ShareInit
  <1>2. DOMAIN parcel.clips = {}
    <2>1. DOMAIN <<>> = {}
      OBVIOUS
    <2> QED
      BY <1>1, <2>1
  <1>3. ParcelIs(parcel)
    BY <1>1, <1>2, FS_EmptySet DEF ParcelIs, ClipsAre
  <1>4. VerdictIs(verdict) /\ ~verdict.built /\ ~verdict.whole /\ ~verdict.settled
    BY DEF ShareInit, VerdictIs
  <1>5. TasksAre(tasks)
    BY DEF ShareInit, TasksAre
  <1>6. task = Resting /\ read = {} /\ sampled = <<>> /\ <<>> \in Seq(Samples)
    BY DEF ShareInit
  <1>7. ShareType
    BY <1>3, <1>4, <1>5, <1>6, RestingIs DEF ShareType
  <1>8. /\ Again(task, parcel) /\ FoundSoFar(task, read) /\ LookedAt(task, parcel)
        /\ Planned(task, parcel) /\ NotMadeOut(parcel, read)
    BY <1>6, RestingIs DEF Again, FoundSoFar, LookedAt, Planned, NotMadeOut
  <1>9. Settled(task, parcel, verdict) /\ Judged(task, parcel, verdict, tasks)
    BY <1>1, <1>4, <1>6, RestingIs DEF Settled, Judged
  <1> QED
    BY <1>7, <1>8, <1>9 DEF ShareInv

\* Every step of the program keeps the invariant,
LEMMA ShareStep == ShareInv /\ [ShareNext]_shareVars => ShareInv'
  <1> SUFFICES ASSUME ShareInv, [ShareNext]_shareVars PROVE ShareInv'
    OBVIOUS
  <1>1. CASE UNCHANGED shareVars
    <2>1. UNCHANGED <<parcel, task, sampled, read, verdict, tasks>>
      BY <1>1 DEF shareVars
    <2> QED
      BY <2>1, ParcelOnlyKeeps DEF ShareInv, ShareType
  <1>2. CASE ShareNext
    BY <1>2, CutWindowKeeps, BlurAgainKeeps, LookAtClipKeeps, WriteRecordKeeps,
       WriteManifestKeeps, WriteFilmSourcesKeeps, TaskFailsKeeps, BuildPackageKeeps,
       HardenPackageKeeps, NarrowSourcesKeeps, NarrowRecordKeeps, HardenFromFilmKeeps,
       BlurFromFilmKeeps, CutFilmKeeps, SettlePackageKeeps DEF ShareNext
  <1> QED
    BY <1>1, <1>2

\* and the invariant says what was promised.
LEMMA ShareInvSays == ShareInv => ParcelIsSound
  <1> SUFFICES ASSUME ShareInv PROVE ParcelIsSound
    OBVIOUS
  <1>1. ReadIsBlurred
    BY DEF ShareInv, NotMadeOut, ReadIsBlurred, Built
  <1>2. SettledIsClean
    BY DEF ShareInv, Settled, Clean, Unmarked, SettledIsClean, Built
  <1>3. ListedIsJudged
    BY DEF ShareInv, Judged, ListedIsJudged, Built
  <1> QED
    BY <1>1, <1>2, <1>3 DEF ParcelIsSound

\* Whatever the footage, the packages and their plans are, and wherever a command
\* stops: a plate that a pass has read in a clip stays blurred in it, a package
\* whose hardening settled is clean, and the map lists no window the judgement does
\* not hold (portable_package.py, plate_blur.py).
THEOREM WhatIsSharedIsSound == ShareSpec => []ParcelIsSound
  <1>1. ShareInit => ShareInv
    BY ShareStart
  <1>2. ShareInv /\ [ShareNext]_shareVars => ShareInv'
    BY ShareStep
  <1>3. ShareInv => ParcelIsSound
    BY ShareInvSays
  <1> QED
    BY <1>1, <1>2, <1>3, PTL DEF ShareSpec

=============================================================================
