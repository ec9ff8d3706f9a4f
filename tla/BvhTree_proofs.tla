---------------------------- MODULE BvhTree_proofs ----------------------------
(***************************************************************************)
(* The collision tree for every triangle list, whatever its size, every     *)
(* unit of its coordinates and every number of levels.  First the blob is   *)
(* typed, packed vertices are near those of the triangles, no leaf is too   *)
(* large for what is written of it, and the sections do not overlap.  Two   *)
(* arguments meet.  The scale: it is chosen from the overall bounds so that *)
(* no coordinate is clamped.  The capacity: a call at some depth has no     *)
(* more triangles than the levels that are left can hold, because no part   *)
(* of a node is larger than half of it, rounded up.                         *)
(*                                                                         *)
(* Then what the engine reads is what was put in: every triangle once, and  *)
(* everything under a child within its packed bounds.  While the tree is    *)
(* built every triangle is in one leaf or one pending call (Growing); while *)
(* it is written the written nodes, words and vertices follow the tree, but *)
(* for the slots that pending calls fill (Laid).                            *)
(***************************************************************************)
EXTENDS BvhTree, NatLemmas, FiniteSetTheorems, FunctionTheorems, SequenceTheorems

-----------------------------------------------------------------------------
(* Numbers.                                                                *)

(* A finite set of integers that is not empty has a largest and a smallest  *)
(* element.                                                                *)
LEMMA Extremes ==
    ASSUME NEW S \in SUBSET Int, IsFiniteSet(S), S # {}
    PROVE  /\ Max(S) \in S /\ \A y \in S : y <= Max(S)
           /\ Min(S) \in S /\ \A y \in S : Min(S) <= y
<1>0. PICK N \in Nat : ExistsBijection(1 .. N, S)
  BY FS_NatBijection
<1>1. PICK f \in [1 .. N -> S] : \A y \in S : \E i \in 1 .. N : f[i] = y
  BY <1>0 DEF ExistsBijection, Bijection, Injection, Surjection, IsInjective
<1>a. \A k \in 1 .. N : f[k] \in S /\ f[k] \in Int
  BY <1>1
<1>2. N # 0
  <2>1. PICK y \in S : TRUE
    OBVIOUS
  <2> QED BY <1>1, <2>1
<1> DEFINE T == {n \in 0 .. N : n = 0 \/ \E i, j \in 1 .. n : \A k \in 1 .. n :
                                             f[j] <= f[k] /\ f[k] <= f[i]}
<1>3. 0 \in T
  OBVIOUS
<1>4. \A n \in 0 .. N - 1 : n \in T => n + 1 \in T
  <2> SUFFICES ASSUME NEW n \in 0 .. N - 1, n \in T PROVE n + 1 \in T
    OBVIOUS
  <2>1. \A k \in 1 .. n + 1 : f[k] \in Int /\ (k \in 1 .. n \/ k = n + 1)
    BY <1>a
  <2>2. CASE n = 0
    <3>1. \A k \in 1 .. 1 : k = 1
      OBVIOUS
    <3> QED BY <2>1, <2>2, <3>1
  <2>3. CASE n # 0
    <3>1. PICK i, j \in 1 .. n : \A k \in 1 .. n : f[j] <= f[k] /\ f[k] <= f[i]
      BY <2>3
    <3>2. PICK p \in 1 .. n + 1 : \A k \in 1 .. n + 1 : f[k] <= f[p]
      <4>1. CASE f[n + 1] <= f[i]
        <5>1. i \in 1 .. n + 1 /\ \A k \in 1 .. n + 1 : f[k] <= f[i]
          BY <2>1, <3>1, <4>1
        <5> QED BY <5>1
      <4>2. CASE ~(f[n + 1] <= f[i])
        <5>1. n + 1 \in 1 .. n + 1 /\ i \in 1 .. n + 1
          OBVIOUS
        <5>2. \A k \in 1 .. n + 1 : f[k] <= f[n + 1]
          <6> SUFFICES ASSUME NEW k \in 1 .. n + 1 PROVE f[k] <= f[n + 1]
            OBVIOUS
          <6>1. f[n + 1] \in Int /\ f[i] \in Int /\ f[k] \in Int
            BY <2>1, <5>1
          <6>2. CASE k \in 1 .. n
            <7>1. f[k] <= f[i]
              BY <3>1, <6>2
            <7> QED BY <4>2, <6>1, <7>1
          <6>3. CASE k = n + 1
            BY <6>1, <6>3
          <6> QED BY <2>1, <6>2, <6>3
        <5> QED BY <5>1, <5>2
      <4> QED BY <4>1, <4>2
    <3>3. PICK q \in 1 .. n + 1 : \A k \in 1 .. n + 1 : f[q] <= f[k]
      <4>1. CASE f[j] <= f[n + 1]
        <5>1. j \in 1 .. n + 1 /\ \A k \in 1 .. n + 1 : f[j] <= f[k]
          BY <2>1, <3>1, <4>1
        <5> QED BY <5>1
      <4>2. CASE ~(f[j] <= f[n + 1])
        <5>1. n + 1 \in 1 .. n + 1 /\ j \in 1 .. n + 1
          OBVIOUS
        <5>2. \A k \in 1 .. n + 1 : f[n + 1] <= f[k]
          <6> SUFFICES ASSUME NEW k \in 1 .. n + 1 PROVE f[n + 1] <= f[k]
            OBVIOUS
          <6>1. f[n + 1] \in Int /\ f[j] \in Int /\ f[k] \in Int
            BY <2>1, <5>1
          <6>2. CASE k \in 1 .. n
            <7>1. f[j] <= f[k]
              BY <3>1, <6>2
            <7> QED BY <4>2, <6>1, <7>1
          <6>3. CASE k = n + 1
            BY <6>1, <6>3
          <6> QED BY <2>1, <6>2, <6>3
        <5> QED BY <5>1, <5>2
      <4> QED BY <4>1, <4>2
    <3>4. n + 1 \in 0 .. N
      OBVIOUS
    <3>5. \E a, b \in 1 .. n + 1 : \A k \in 1 .. n + 1 : f[b] <= f[k] /\ f[k] <= f[a]
      BY <3>2, <3>3
    <3> QED BY <3>4, <3>5
  <2> QED BY <2>2, <2>3
<1>5. N \in T
  <2> HIDE DEF T
  <2>1. 0 .. N \subseteq T
    BY <1>3, <1>4, InductionTo
  <2> QED BY <2>1
<1>6. PICK i, j \in 1 .. N : \A k \in 1 .. N : f[j] <= f[k] /\ f[k] <= f[i]
  BY <1>2, <1>5
<1>7. f[i] \in S /\ f[j] \in S /\ \A y \in S : f[j] <= y /\ y <= f[i]
  BY <1>1, <1>a, <1>6
<1>8. Max(S) \in S /\ \A y \in S : Max(S) >= y
  BY <1>7 DEF Max
<1>9. Min(S) \in S /\ \A y \in S : Min(S) <= y
  BY <1>7 DEF Min
<1> QED BY <1>8, <1>9

(* Of two.                                                                 *)
LEMMA OfTwo ==
    ASSUME NEW x \in Int, NEW y \in Int
    PROVE  /\ Max({x, y}) = IF x < y THEN y ELSE x
           /\ Min({x, y}) = IF x < y THEN x ELSE y
<1>1. PICK m \in {x, y} : \A z \in {x, y} : m >= z
  OBVIOUS
<1>2. Max({x, y}) \in {x, y} /\ \A z \in {x, y} : Max({x, y}) >= z
  BY <1>1 DEF Max
<1>3. PICK n \in {x, y} : \A z \in {x, y} : n <= z
  OBVIOUS
<1>4. Min({x, y}) \in {x, y} /\ \A z \in {x, y} : Min({x, y}) <= z
  BY <1>3 DEF Min
<1> QED BY <1>2, <1>4

Int16 == (-Int16Max - 1) .. Int16Max

(* A clamped number is an int16, and a number that is one is not changed.   *)
LEMMA ClampIs ==
    ASSUME NEW x \in Int
    PROVE  Clamp(x) \in Int16 /\ (x \in Int16 => Clamp(x) = x)
<1>1. Int16Max \in Nat
  BY PackAssumption
<1> DEFINE m == Min({Int16Max, x})
<1>2. m \in Int /\ m = IF Int16Max < x THEN Int16Max ELSE x
  <2>1. Int16Max \in Int
    BY <1>1
  <2> QED BY <2>1, OfTwo
<1>3. Clamp(x) = IF -Int16Max - 1 < m THEN m ELSE -Int16Max - 1
  <2>1. -Int16Max - 1 \in Int
    BY <1>1
  <2>2. Clamp(x) = Max({-Int16Max - 1, m})
    BY DEF Clamp
  <2> HIDE DEF m
  <2> QED BY <1>2, <2>1, <2>2, OfTwo
<1> HIDE DEF m
<1> QED BY <1>1, <1>2, <1>3 DEF Int16

(* What division by a positive number leaves.                              *)
LEMMA Division ==
    ASSUME NEW x \in Nat, NEW d \in Nat \ {0}
    PROVE  x \div d \in Nat /\ (x \div d) * d <= x /\ x < (x \div d) * d + d
OBVIOUS

(* A quotient of a number that is at most k times as large is at most k.    *)
LEMMA Quotient ==
    ASSUME NEW x \in Nat, NEW d \in Nat \ {0}, NEW k \in Nat, x <= d * k
    PROVE  x \div d <= k
<1> DEFINE q == x \div d
<1>1. q \in Nat /\ q * d <= x
  BY Division
<1> HIDE DEF q
<1>2. SUFFICES ASSUME q > k PROVE FALSE
  BY <1>1 DEF q
<1>3. PICK e \in Nat : q = k + 1 + e
  <2>1. q - k - 1 \in Nat /\ q = k + 1 + (q - k - 1)
    BY <1>1, <1>2
  <2> QED BY <2>1
<1>4. q * d = d * k + d + e * d /\ e * d \in Nat /\ d * k \in Nat
  BY <1>3
<1> QED BY <1>1, <1>4

(* A fraction that stays within the range of an int16 is cut to the nearest *)
(* whole number towards zero, less than one away.                          *)
LEMMA TruncatedNear ==
    ASSUME NEW x \in Int, NEW d \in Nat \ {0}, NEW k \in Nat, k <= Int16Max,
           -(d * k) <= x, x <= d * k
    PROVE  LET t == Clamp(IF x >= 0 THEN x \div d ELSE -((-x) \div d))
           IN  -d < x - t * d /\ x - t * d < d
<1> DEFINE n == IF x >= 0 THEN x ELSE -x
           q == n \div d
           t == Clamp(IF x >= 0 THEN x \div d ELSE -((-x) \div d))
<1>1. n \in Nat /\ n <= d * k /\ d * k \in Nat
  OBVIOUS
<1>2. q \in Nat /\ q * d <= n /\ n < q * d + d /\ q <= k
  <2> HIDE DEF n
  <2> QED BY <1>1, Division, Quotient
<1>3. q \in Int16 /\ -q \in Int16
  BY <1>2, PackAssumption DEF Int16
<1>4. t = IF x >= 0 THEN q ELSE -q
  <2>1. CASE x >= 0
    <3>1. t = Clamp(q)
      BY <2>1
    <3> HIDE DEF t, q
    <3> QED BY <1>2, <1>3, <2>1, <3>1, ClampIs
  <2>2. CASE ~(x >= 0)
    <3>1. t = Clamp(-q)
      BY <2>2
    <3> HIDE DEF t, q
    <3> QED BY <1>2, <1>3, <2>2, <3>1, ClampIs
  <2> QED BY <2>1, <2>2
<1> HIDE DEF t, q
<1> DEFINE p == q * d
<1>5. p \in Nat /\ p <= n /\ n < p + d /\ t * d = IF x >= 0 THEN p ELSE -p
  BY <1>2, <1>4
<1> DEFINE r == t * d
<1>6. r = IF x >= 0 THEN p ELSE -p
  BY <1>5
<1> HIDE DEF p, r
<1>7. -d < x - r /\ x - r < d
  BY <1>5, <1>6
<1>8. -d < x - t * d /\ x - t * d < d
  BY <1>7 DEF r
<1> QED BY <1>8 DEF t

-----------------------------------------------------------------------------
(* Bounds and scale.                                                       *)

Coords == [Axes -> Int]
Triangles == [1 .. 3 -> Coords]

(* The triangles are a list of whole coordinates.                           *)
LEMMA Soup ==
    ASSUME NEW s \in Soups
    PROVE  /\ s \in Seq(Triangles) /\ Len(s) \in Nat /\ DOMAIN s = 1 .. Len(s)
           /\ \A t \in DOMAIN s : s[t] \in Triangles
           /\ Len(s) <= Capacity[MaxDepth]
<1>1. s \in Seq(Triangles) /\ Len(s) <= Capacity[MaxDepth]
  BY SoupAssumption DEF Triangles, Coords, Axes
<1> HIDE DEF Triangles
<1> QED BY <1>1

(* There are three axes, finitely many.                                     *)
LEMMA OneToThree == IsFiniteSet(Axes)
<1>1. IsFiniteSet({1, 2} \cup {3})
  <2>1. IsFiniteSet({1})
    BY FS_Singleton
  <2>2. IsFiniteSet({1} \cup {2})
    BY <2>1, FS_AddElement
  <2>3. {1} \cup {2} = {1, 2}
    OBVIOUS
  <2> QED BY <2>2, <2>3, FS_AddElement
<1>2. Axes = {1, 2} \cup {3}
  BY DEF Axes
<1> QED BY <1>1, <1>2

(* Bounds are whole, enclose the triangles they are of, and touch them.     *)
LEMMA BoundsTouch ==
    ASSUME tris \in Soups, NEW S \in SUBSET DOMAIN tris, S # {}
    PROVE  /\ Mins(S) \in Coords /\ Maxs(S) \in Coords
           /\ \A t \in S : \A c \in 1 .. 3 : \A a \in Axes :
                 Mins(S)[a] <= tris[t][c][a] /\ tris[t][c][a] <= Maxs(S)[a]
           /\ \A a \in Axes : /\ \E t \in S : \E c \in 1 .. 3 : Mins(S)[a] = tris[t][c][a]
                              /\ \E t \in S : \E c \in 1 .. 3 : Maxs(S)[a] = tris[t][c][a]
<1>1. \A t \in S : \A c \in 1 .. 3 : \A a \in Axes : tris[t][c][a] \in Int
  <2> SUFFICES ASSUME NEW t \in S, NEW c \in 1 .. 3, NEW a \in Axes
               PROVE  tris[t][c][a] \in Int
    OBVIOUS
  <2>1. tris[t] \in Triangles
    BY Soup
  <2> QED BY <2>1 DEF Triangles, Coords
<1>2. IsFiniteSet(S \X (1 .. 3))
  <2>1. IsFiniteSet(DOMAIN tris)
    <3>1. DOMAIN tris = 1 .. Len(tris) /\ Len(tris) \in Int /\ 1 \in Int
      BY Soup
    <3> QED BY <3>1, FS_Interval
  <2>2. IsFiniteSet(S)
    BY <2>1, FS_Subset
  <2>3. IsFiniteSet(1 .. 3)
    BY OneToThree DEF Axes
  <2> QED BY <2>2, <2>3, FS_Product
<1>3. ASSUME NEW a \in Axes
      PROVE  LET V == {v[a] : v \in Corners(S)}
             IN  /\ V \in SUBSET Int /\ V # {} /\ IsFiniteSet(V)
                 /\ \A t \in S : \A c \in 1 .. 3 : tris[t][c][a] \in V
                /\ \A x \in V : \E t \in S : \E c \in 1 .. 3 : x = tris[t][c][a]
  <2> DEFINE V == {v[a] : v \in Corners(S)}
             f == [p \in S \X (1 .. 3) |-> tris[p[1]][p[2]][a]]
  <2>1. \A t \in S : \A c \in 1 .. 3 : tris[t][c][a] \in V
    <3> TAKE t \in S
    <3> TAKE c \in 1 .. 3
    <3>1. <<t, c>> \in S \X (1 .. 3) /\ <<t, c>>[1] = t /\ <<t, c>>[2] = c
      OBVIOUS
    <3>2. tris[t][c] \in Corners(S)
      BY <3>1 DEF Corners
    <3> QED BY <3>2
  <2>2. \A x \in V : \E t \in S : \E c \in 1 .. 3 : x = tris[t][c][a]
    <3> SUFFICES ASSUME NEW x \in V
                 PROVE  \E t \in S : \E c \in 1 .. 3 : x = tris[t][c][a]
      OBVIOUS
    <3>1. PICK v \in Corners(S) : x = v[a]
      OBVIOUS
    <3>2. PICK p \in S \X (1 .. 3) : v = tris[p[1]][p[2]]
      BY <3>1 DEF Corners
    <3>3. p[1] \in S /\ p[2] \in 1 .. 3
      OBVIOUS
    <3> QED BY <3>1, <3>2, <3>3
  <2> HIDE DEF V
  <2>3. V \in SUBSET Int
    BY <1>1, <2>2
  <2>4. V # {}
    <3>1. PICK t \in S : TRUE
      OBVIOUS
    <3>2. 1 \in 1 .. 3
      OBVIOUS
    <3> QED BY <2>1, <3>1, <3>2
  <2>5. f \in Surjection(S \X (1 .. 3), V)
    <3>1. \A p \in S \X (1 .. 3) : f[p] \in V
      <4> TAKE p \in S \X (1 .. 3)
      <4>1. p[1] \in S /\ p[2] \in 1 .. 3
        OBVIOUS
      <4> QED BY <2>1, <4>1
    <3>2. \A x \in V : \E p \in S \X (1 .. 3) : f[p] = x
      <4> TAKE x \in V
      <4>1. PICK t \in S : \E c \in 1 .. 3 : x = tris[t][c][a]
        BY <2>2
      <4>2. PICK c \in 1 .. 3 : x = tris[t][c][a]
        BY <4>1
      <4>3. <<t, c>> \in S \X (1 .. 3) /\ f[<<t, c>>] = x
        BY <4>2
      <4> QED BY <4>3
    <3>3. f \in [S \X (1 .. 3) -> V]
      BY <3>1
    <3> HIDE DEF f
    <3> QED BY <3>2, <3>3 DEF Surjection
  <2>6. IsFiniteSet(V)
    <3> HIDE DEF f
    <3> QED BY <1>2, <2>5, FS_Surjection
  <2>7. /\ V \in SUBSET Int /\ V # {} /\ IsFiniteSet(V)
        /\ \A t \in S : \A c \in 1 .. 3 : tris[t][c][a] \in V
        /\ \A x \in V : \E t \in S : \E c \in 1 .. 3 : x = tris[t][c][a]
    BY <2>1, <2>2, <2>3, <2>4, <2>6
  <2> QED BY <2>7 DEF V
<1>4. ASSUME NEW a \in Axes
      PROVE  /\ Mins(S)[a] \in Int /\ Maxs(S)[a] \in Int
             /\ \A t \in S : \A c \in 1 .. 3 :
                   Mins(S)[a] <= tris[t][c][a] /\ tris[t][c][a] <= Maxs(S)[a]
             /\ \E t \in S : \E c \in 1 .. 3 : Mins(S)[a] = tris[t][c][a]
             /\ \E t \in S : \E c \in 1 .. 3 : Maxs(S)[a] = tris[t][c][a]
  <2> DEFINE V == {v[a] : v \in Corners(S)}
  <2>1. /\ V \in SUBSET Int /\ V # {} /\ IsFiniteSet(V)
        /\ \A t \in S : \A c \in 1 .. 3 : tris[t][c][a] \in V
        /\ \A x \in V : \E t \in S : \E c \in 1 .. 3 : x = tris[t][c][a]
    BY <1>3
  <2>2. Mins(S)[a] = Min(V) /\ Maxs(S)[a] = Max(V)
    BY DEF Mins, Maxs
  <2> HIDE DEF V
  <2>3. /\ Max(V) \in V /\ \A y \in V : y <= Max(V)
        /\ Min(V) \in V /\ \A y \in V : Min(V) <= y
    BY <2>1, Extremes
  <2> QED BY <2>1, <2>2, <2>3
<1>5. Mins(S) = [a \in Axes |-> Mins(S)[a]] /\ Maxs(S) = [a \in Axes |-> Maxs(S)[a]]
  BY DEF Mins, Maxs
<1>6. Mins(S) \in Coords /\ Maxs(S) \in Coords
  BY <1>4, <1>5 DEF Coords
<1> QED BY <1>4, <1>6

(* Bounds are whole, and enclose the triangles they are of.                 *)
LEMMA Bounds ==
    ASSUME tris \in Soups, NEW S \in SUBSET DOMAIN tris, S # {}
    PROVE  /\ Mins(S) \in Coords /\ Maxs(S) \in Coords
           /\ \A t \in S : \A c \in 1 .. 3 : \A a \in Axes :
                 Mins(S)[a] <= tris[t][c][a] /\ tris[t][c][a] <= Maxs(S)[a]
BY BoundsTouch

\* The frame encloses the whole model.
Framed ==
    /\ frame.mins \in Coords /\ frame.maxs \in Coords
    /\ \A t \in DOMAIN tris : \A c \in 1 .. 3 : \A a \in Axes :
          frame.mins[a] <= tris[t][c][a] /\ tris[t][c][a] <= frame.maxs[a]

(* The extent is that of the longest side, and not zero.                    *)
LEMMA ExtentIs ==
    ASSUME Framed
    PROVE  /\ Extent \in Nat \ {0}
           /\ \A a \in Axes : frame.maxs[a] - frame.mins[a] <= Extent
<1> DEFINE side == [a \in Axes |-> frame.maxs[a] - frame.mins[a]]
           V == {side[a] : a \in Axes}
           W == {frame.maxs[a] - frame.mins[a] : a \in Axes} \cup {2 * Unit}
<1>1. side \in [Axes -> Int]
  BY DEF Framed, Coords
<1>2. W = V \cup {2 * Unit} /\ \A a \in Axes : side[a] = frame.maxs[a] - frame.mins[a]
  OBVIOUS
<1>3. Extent = Max(W)
  BY DEF Extent
<1> HIDE DEF side, W
<1>4. IsFiniteSet(V)
  <2>1. IsFiniteSet(Axes)
    BY OneToThree
  <2>2. side \in Surjection(Axes, V)
    BY <1>1 DEF Surjection
  <2> HIDE DEF V
  <2> QED BY <2>1, <2>2, FS_Surjection
<1>5. 2 * Unit \in Nat /\ 2 * Unit > 0
  BY PackAssumption
<1>6. W \in SUBSET Int /\ W # {} /\ 2 * Unit \in W /\ \A a \in Axes : side[a] \in W
  BY <1>1, <1>2, <1>5
<1>7. IsFiniteSet(W)
  <2> HIDE DEF V
  <2> QED BY <1>2, <1>4, FS_AddElement
<1>8. Max(W) \in W /\ \A y \in W : y <= Max(W)
  BY <1>6, <1>7, Extremes
<1>9. \A a \in Axes : side[a] <= Max(W)
  BY <1>6, <1>8
<1>10. Max(W) \in Nat \ {0}
  <2>1. Max(W) \in Int /\ 2 * Unit <= Max(W)
    BY <1>6, <1>8
  <2> QED BY <1>5, <2>1
<1> QED BY <1>2, <1>3, <1>9, <1>10

(* The scale is a positive fraction.                                       *)
LEMMA ScaleIs ==
    ASSUME Framed
    PROVE  Scale[1] \in Nat \ {0} /\ Den \in Nat \ {0}
<1>1. Extent \in Nat \ {0} /\ 2 * Unit \in Nat \ {0} /\ PackMax \in Nat \ {0}
  BY ExtentIs, PackAssumption
<1> QED BY <1>1 DEF Scale, Den

(* With that scale no coordinate of the model is more than PackMax units    *)
(* from the centre.                                                        *)
LEMMA InScale ==
    ASSUME Framed, NEW a \in Axes, NEW w \in Int, frame.mins[a] <= w, w <= frame.maxs[a]
    PROVE  /\ Num(w, a) \in Int
           /\ -(Den * PackMax) <= Num(w, a) /\ Num(w, a) <= Den * PackMax
<1> DEFINE m == frame.mins[a]
           n == frame.maxs[a]
           x == 2 * w - (m + n)
           e == Extent
<1>1. m \in Int /\ n \in Int /\ m <= w /\ w <= n /\ n - m <= e /\ e \in Nat \ {0}
  BY ExtentIs DEF Framed, Coords
<1>2. Num(w, a) = x * Scale[1]
  BY DEF Num
<1>3. 2 * Unit \in Nat \ {0} /\ PackMax \in Nat \ {0}
  BY PackAssumption
<1> DEFINE u == 2 * Unit
<1>4. u * PackMax = 2 * Unit * PackMax /\ u * PackMax \in Nat
  BY PackAssumption
<1> HIDE DEF m, n, e, u
<1>5. x \in Int /\ -e <= x /\ x <= e
  BY <1>1
<1> HIDE DEF x
<1>6. CASE e <= 2 * Unit * PackMax
  <2>1. Scale[1] = 1 /\ Den = u
    BY <1>6 DEF Scale, Den, e, u
  <2>2. Num(w, a) = x
    BY <1>2, <1>5, <2>1
  <2> QED BY <1>1, <1>4, <1>5, <1>6, <2>1, <2>2
<1>7. CASE ~(e <= 2 * Unit * PackMax)
  <2>1. Scale[1] = PackMax /\ Den = e
    BY <1>7 DEF Scale, Den, e
  <2>2. Num(w, a) = x * PackMax
    BY <1>2, <2>1
  <2>3. x * PackMax \in Int /\ -(e * PackMax) <= x * PackMax /\ x * PackMax <= e * PackMax
    BY <1>1, <1>3, <1>5
  <2> QED BY <2>1, <2>2, <2>3
<1> QED BY <1>6, <1>7

(* A vertex read back is less than a packed unit from where it was.         *)
LEMMA Near == ASSUME tris \in Soups, Framed PROVE VerticesNear
<1> SUFFICES ASSUME NEW t \in DOMAIN tris, NEW c \in 1 .. 3, NEW a \in Axes
             PROVE  LET off == Num(tris[t][c][a], a) - Packed(tris[t][c])[a] * Den
                    IN  -Den < off /\ off < Den
  BY DEF VerticesNear
<1> DEFINE w == tris[t][c][a]
           x == Num(w, a)
<1>1. w \in Int
  BY Soup DEF Triangles, Coords
<1>2. frame.mins[a] <= w /\ w <= frame.maxs[a]
  BY DEF Framed
<1>3. Packed(tris[t][c])[a] = Truncate(w, a)
  BY DEF Packed
<1>4. Truncate(w, a) = Clamp(IF x >= 0 THEN x \div Den ELSE -((-x) \div Den))
  BY DEF Truncate
<1> HIDE DEF w
<1>5. x \in Int /\ -(Den * PackMax) <= x /\ x <= Den * PackMax
  BY <1>1, <1>2, InScale
<1>6. PackMax \in Nat /\ PackMax <= Int16Max /\ Den \in Nat \ {0}
  BY PackAssumption, ScaleIs
<1> HIDE DEF x
<1> DEFINE d == Den
<1>7. LET s == Clamp(IF x >= 0 THEN x \div d ELSE -((-x) \div d))
      IN  -d < x - s * d /\ x - s * d < d
  <2> HIDE DEF d
  <2>1. d \in Nat \ {0} /\ -(d * PackMax) <= x /\ x <= d * PackMax
    BY <1>5, <1>6 DEF d
  <2> QED BY <1>5, <1>6, <2>1, TruncatedNear
<1> QED BY <1>3, <1>4, <1>7 DEF w, x

-----------------------------------------------------------------------------
(* How triangles are divided.                                              *)

(* Capacities double from level to level.                                   *)
LEMMA CapacityIs ==
    /\ Capacity[0] = MaxLeaf
    /\ \A d \in 0 .. MaxDepth : Capacity[d] \in Nat
    /\ \A d \in 1 .. MaxDepth : Capacity[d] = 2 * Capacity[d - 1]
<1> DEFINE step == [k \in 1 .. MaxDepth |-> [v \in Nat |-> 2 * v]]
           fun(g) == [d \in 0 .. MaxDepth |-> IF d = 0 THEN MaxLeaf ELSE 2 * g[d - 1]]
<1>1. MaxDepth \in Nat /\ MaxLeaf \in Nat
  BY LeafAssumption, DepthAssumption
<1>2. step \in Steps(Nat, MaxDepth)
  BY DEF Steps
<1>3. \A k \in 1 .. MaxDepth : \A v \in Nat : step[k][v] = 2 * v
  OBVIOUS
<1> HIDE DEF step
<1>4. PICK h : Recursive(h, Nat, MaxDepth, MaxLeaf, step)
  BY <1>1, <1>2, Recursion
<1>5. /\ h \in [0 .. MaxDepth -> Nat]
      /\ \A k \in 0 .. MaxDepth : h[k] = IF k = 0 THEN MaxLeaf ELSE step[k][h[k - 1]]
  BY <1>4 DEF Recursive
<1>6. h = fun(h)
  <2> SUFFICES ASSUME NEW k \in 0 .. MaxDepth
               PROVE  h[k] = IF k = 0 THEN MaxLeaf ELSE 2 * h[k - 1]
    BY <1>5
  <2>1. CASE k = 0
    BY <1>5, <2>1
  <2>2. CASE k # 0
    <3>1. k \in 1 .. MaxDepth /\ k - 1 \in 0 .. MaxDepth
      BY <1>1, <2>2
    <3>2. h[k - 1] \in Nat
      BY <1>5, <3>1
    <3>3. h[k] = step[k][h[k - 1]]
      BY <1>5, <2>2
    <3> QED BY <1>3, <2>2, <3>1, <3>2, <3>3
  <2> QED BY <2>1, <2>2
<1>7. Capacity = fun(Capacity)
  <2>1. Capacity = CHOOSE g : g = fun(g)
    BY DEF Capacity
  <2> QED BY <1>6, <2>1
<1>8. \A d \in 0 .. MaxDepth : Capacity[d] = IF d = 0 THEN MaxLeaf ELSE 2 * Capacity[d - 1]
  <2> DEFINE c == Capacity
  <2>1. c = fun(c)
    BY <1>7
  <2> HIDE DEF c
  <2>2. \A d \in 0 .. MaxDepth : c[d] = IF d = 0 THEN MaxLeaf ELSE 2 * c[d - 1]
    BY <1>1, <2>1
  <2> QED BY <2>2 DEF c
<1> HIDE DEF fun
<1> DEFINE S == {d \in 0 .. MaxDepth : Capacity[d] \in Nat}
<1>9. 0 \in S
  BY <1>1, <1>8
<1>10. \A d \in 0 .. MaxDepth - 1 : d \in S => d + 1 \in S
  <2> SUFFICES ASSUME NEW d \in 0 .. MaxDepth - 1, d \in S PROVE d + 1 \in S
    OBVIOUS
  <2>1. d + 1 \in 0 .. MaxDepth /\ d + 1 # 0 /\ d + 1 - 1 = d
    BY <1>1
  <2>2. Capacity[d + 1] = 2 * Capacity[d]
    BY <1>8, <2>1
  <2> QED BY <2>1, <2>2
<1> HIDE DEF S
<1>11. 0 .. MaxDepth \subseteq S
  BY <1>1, <1>9, <1>10, InductionTo
<1>12. \A d \in 0 .. MaxDepth : Capacity[d] \in Nat
  BY <1>11 DEF S
<1>13. 0 \in 0 .. MaxDepth /\ \A d \in 1 .. MaxDepth : d \in 0 .. MaxDepth /\ d # 0
  BY <1>1
<1> QED BY <1>8, <1>12, <1>13

(* Parts of at most half: where the cuts are.                               *)
LEMMA Cuts ==
    ASSUME NEW count \in Nat, count >= 2, NEW n \in {2, 4}, NEW C \in Nat, count <= 2 * C
    PROVE  LET per == (count + n - 1) \div n
               full == (count + per - 1) \div per
           IN  /\ per \in Nat \ {0} /\ per <= C
               /\ full \in 1 .. 4
               /\ \A p \in 1 .. full : (p - 1) * per \in Nat /\ (p - 1) * per < count
<1> DEFINE per == (count + n - 1) \div n
           full == (count + per - 1) \div per
<1>1. per \in Nat \ {0} /\ per <= C /\ count <= n * per
  <2>1. CASE n = 2
    BY <2>1
  <2>2. CASE n = 4
    BY <2>2
  <2> QED BY <2>1, <2>2
<1> HIDE DEF per
<1>2. full \in Nat /\ full * per <= count + per - 1 /\ count + per - 1 < full * per + per
  <2>1. count + per - 1 \in Nat
    BY <1>1
  <2> QED BY <1>1, <2>1, Division
<1> HIDE DEF full
<1>3. full >= 1
  <2> SUFFICES ASSUME full = 0 PROVE FALSE
    BY <1>2
  <2> QED BY <1>1, <1>2
<1>4. (full - 1) * per < count /\ full * per = (full - 1) * per + per
  BY <1>1, <1>2
<1>5. full <= 4
  <2> SUFFICES ASSUME full >= 5 PROVE FALSE
    BY <1>2
  <2>1. full - 1 = 4 + (full - 5) /\ full - 5 \in Nat
    BY <1>2
  <2>2. (full - 1) * per = 4 * per + (full - 5) * per /\ (full - 5) * per \in Nat
    BY <1>1, <2>1
  <2>3. n * per <= 4 * per /\ n * per \in Nat
    BY <1>1
  <2> QED BY <1>1, <1>4, <2>2, <2>3
<1>6. ASSUME NEW p \in 1 .. full PROVE (p - 1) * per \in Nat /\ (p - 1) * per < count
  <2>1. full - 1 = (p - 1) + (full - p) /\ full - p \in Nat /\ p - 1 \in Nat
    BY <1>2
  <2>2. (full - 1) * per = (p - 1) * per + (full - p) * per
        /\ (full - p) * per \in Nat /\ (p - 1) * per \in Nat
    BY <1>1, <2>1
  <2> QED BY <1>4, <2>2
<1>7. /\ per \in Nat \ {0} /\ per <= C /\ full \in 1 .. 4
      /\ \A p \in 1 .. full : (p - 1) * per \in Nat /\ (p - 1) * per < count
  BY <1>1, <1>2, <1>3, <1>5, <1>6
<1> QED BY <1>7 DEF per, full

(* A list of triangles that does not fit a leaf is divided into two to four *)
(* parts, none of them empty and none with more than half.                  *)
LEMMA PartsAre ==
    ASSUME NEW S, NEW s \in Seq(S), Len(s) >= 2, NEW C \in Nat, Len(s) <= 2 * C
    PROVE  \E k \in 1 .. 4 :
              /\ DOMAIN Parts(s) = 1 .. k /\ Parts(s) \in Seq(Seq(S)) /\ Len(Parts(s)) = k
              /\ \A p \in 1 .. k : Parts(s)[p] # << >> /\ Len(Parts(s)[p]) <= C
<1> DEFINE count == Len(s)
           n == IF count >= FourWayAt THEN 4 ELSE 2
           per == (count + n - 1) \div n
           full == (count + per - 1) \div per
           part(p) == SubSeq(s, (p - 1) * per + 1, Min({p * per, count}))
<1>1. count \in Nat /\ n \in {2, 4} /\ count >= 2 /\ count <= 2 * C
  OBVIOUS
<1>2. /\ per \in Nat \ {0} /\ per <= C /\ full \in 1 .. 4
      /\ \A p \in 1 .. full : (p - 1) * per \in Nat /\ (p - 1) * per < count
  <2> HIDE DEF count, n
  <2> QED BY <1>1, Cuts
<1>3. Parts(s) = [p \in 1 .. full |-> part(p)]
  BY DEF Parts
<1> HIDE DEF full, per
<1>4. ASSUME NEW p \in 1 .. full
      PROVE  part(p) \in Seq(S) /\ part(p) # << >> /\ Len(part(p)) <= C
  <2> DEFINE a == (p - 1) * per
             b == Min({p * per, count})
  <2>1. a \in Nat /\ a < count /\ p * per = a + per
    BY <1>2
  <2>2. b = IF p * per < count THEN p * per ELSE count
    <3>1. p * per \in Int /\ count \in Int
      BY <1>1, <1>2, <2>1
    <3> QED BY <3>1, OfTwo
  <2>3. part(p) = SubSeq(s, a + 1, b)
    OBVIOUS
  <2> HIDE DEF a, b
  <2>4. b \in Nat /\ a + 1 <= b /\ b <= count /\ b - a <= C
    BY <1>1, <1>2, <2>1, <2>2
  <2>5. \A i \in a + 1 .. b : s[i] \in S
    BY <2>1, <2>4
  <2>6. SubSeq(s, a + 1, b) \in Seq(S) /\ Len(SubSeq(s, a + 1, b)) = b - (a + 1) + 1
    <3>1. a + 1 \in Int /\ b \in Int
      BY <2>1, <2>4
    <3> QED BY <2>4, <2>5, <3>1, SubSeqProperties
  <2> HIDE DEF part
  <2> QED BY <2>1, <2>3, <2>4, <2>6
<1> HIDE DEF part
<1>5. Parts(s) \in Seq(Seq(S)) /\ DOMAIN Parts(s) = 1 .. full /\ Len(Parts(s)) = full
  <2>1. full \in Nat /\ \A p \in 1 .. full : part(p) \in Seq(S)
    BY <1>2, <1>4
  <2> QED BY <1>3, <2>1
<1>6. \A p \in 1 .. full : Parts(s)[p] # << >> /\ Len(Parts(s)[p]) <= C
  BY <1>3, <1>4
<1> QED BY <1>2, <1>5, <1>6

-----------------------------------------------------------------------------
(* The invariant.                                                          *)

Kind == {Node, None, Poly3}
Corner16 == [Axes -> Int16]

BuildNodes == [isLeaf : BOOLEAN, tris : Seq(DOMAIN tris), mins : Coords, maxs : Coords,
               child : [Slots -> Nat], type : [Slots -> Kind]]
BuildCalls == [tris : Seq(DOMAIN tris), depth : 0 .. MaxDepth, parent : Nat, slot : Slots]
EmitCalls == [build : Nat, parent : Nat, slot : Slots]
OutNodes == [type : [Slots -> Kind], index : [Slots -> Nat],
             mins : [Slots -> Corner16], maxs : [Slots -> Corner16]]
Words == [num : Int, base : Nat] \cup [offset : Nat, d1 : Int, d2 : Int]

\* The nodes built so far: leaves of a size that is written, children that exist.
Built(ns) ==
    /\ ns \in Seq(BuildNodes)
    /\ \A i \in 1 .. Len(ns) :
          /\ Len(ns[i].tris) <= MaxLeaf
          /\ \A s \in Slots : ns[i].child[s] <= Len(ns)
          /\ ns[i].isLeaf => \A s \in Slots : ns[i].type[s] = None

\* The calls still to be made fit their depth and return to an inner node.
Called(cs, ns) ==
    /\ cs \in Seq(BuildCalls)
    /\ \A k \in 1 .. Len(cs) :
          /\ cs[k].tris # << >>
          /\ Len(cs[k].tris) <= Capacity[MaxDepth - cs[k].depth]
          /\ cs[k].parent <= Len(ns)
          /\ cs[k].parent # 0 => ~ns[cs[k].parent].isLeaf

\* An inner node has a first child, or a call that will make it.
FirstChild(cs, ns) ==
    \A i \in 1 .. Len(ns) : ~ns[i].isLeaf =>
        ns[i].child[1] # 0 \/ \E k \in 1 .. Len(cs) : cs[k].parent = i /\ cs[k].slot = 1

\* The calls that still write visit built nodes and return to a written one.
Emitting(es, n) ==
    /\ es \in Seq(EmitCalls)
    /\ \A k \in 1 .. Len(es) : /\ es[k].build \in 1 .. Len(nodes)
                               /\ es[k].parent <= n
                               /\ es[k].parent = 0 => Len(es) = 1

\* What has been written.
Written(bs, ls, vs) ==
    /\ bs \in Seq(OutNodes) /\ ls \in Seq(Words) /\ vs \in Seq(Corner16)
    /\ \A i \in 1 .. Len(bs) : \A s \in Slots : bs[i].index[s] <= Len(bs) + Len(ls)

BInv ==
    /\ pc \in {"build", "emit", "serialize", "done"}
    /\ tris \in Soups
    /\ Framed
    /\ Built(nodes) /\ Called(calls, nodes) /\ FirstChild(calls, nodes)
    /\ pc = "build" <=> calls # << >>
    /\ pc # "build" => nodes # << >>
    /\ Emitting(emits, Len(bvh))
    /\ pc = "emit" <=> emits # << >>
    /\ Written(bvh, leaves, verts)
    /\ SectionsFit

-----------------------------------------------------------------------------
(* Building.                                                               *)

(* The shape of a build node's record.                                     *)
NodeShape(D, C, K, T) ==
    [isLeaf : BOOLEAN, tris : D, mins : C, maxs : C, child : K, type : T]

(* A node with a child noted in one slot keeps that shape.                  *)
LEMMA Linked ==
    ASSUME NEW D, NEW C, NEW S, NEW K, NEW T, NEW r \in NodeShape(D, C, [S -> K], [S -> T]),
           NEW q \in S, NEW v \in K, NEW w \in T
    PROVE  LET m == [r EXCEPT !.child[q] = v, !.type[q] = w]
           IN  /\ m \in NodeShape(D, C, [S -> K], [S -> T]) /\ m.isLeaf = r.isLeaf /\ m.tris = r.tris
               /\ m.child = [r.child EXCEPT ![q] = v] /\ m.type = [r.type EXCEPT ![q] = w]
               /\ m.mins = r.mins /\ m.maxs = r.maxs
<1> DEFINE c == [r.child EXCEPT ![q] = v]
           t == [r.type EXCEPT ![q] = w]
           m == [r EXCEPT !.child[q] = v, !.type[q] = w]
<1>1. c \in [S -> K] /\ t \in [S -> T]
  BY DEF NodeShape
<1>2. m = [r EXCEPT !.child = c, !.type = t]
  BY DEF NodeShape
<1> HIDE DEF c, t, m
<1>3. /\ m \in NodeShape(D, C, [S -> K], [S -> T]) /\ m.isLeaf = r.isLeaf /\ m.tris = r.tris
      /\ m.child = c /\ m.type = t /\ m.mins = r.mins /\ m.maxs = r.maxs
  BY <1>1, <1>2 DEF NodeShape
<1> QED BY <1>3 DEF c, t, m

(* A node that has no children yet.                                        *)
Fresh(n, isLeaf, ts) ==
    /\ n \in BuildNodes /\ n.isLeaf = isLeaf /\ n.tris = ts
    /\ \A s \in Slots : n.child[s] = 0 /\ n.type[s] = None

(* A node over a list of triangles, before it has children.                 *)
LEMMA NewNode ==
    ASSUME tris \in Soups, NEW ts \in Seq(DOMAIN tris), ts # << >>
    PROVE  Fresh(LeafNode(ts), TRUE, ts) /\ Fresh(InnerNode(ts), FALSE, << >>)
<1>1. Range(ts) \in SUBSET DOMAIN tris /\ Range(ts) # {}
  <2>1. \A i \in DOMAIN ts : ts[i] \in DOMAIN tris
    OBVIOUS
  <2>2. 1 \in DOMAIN ts
    OBVIOUS
  <2> QED BY <2>1, <2>2 DEF Range
<1>2. Mins(Range(ts)) \in Coords /\ Maxs(Range(ts)) \in Coords
  BY <1>1, Bounds
<1> DEFINE mi == Mins(Range(ts))
           ma == Maxs(Range(ts))
           e == EmptyChildren
           t == [s \in Slots |-> None]
<1>3. e \in [Slots -> Nat] /\ t \in [Slots -> Kind] /\ \A s \in Slots : e[s] = 0 /\ t[s] = None
  BY DEF EmptyChildren, Kind
<1>4. << >> \in Seq(DOMAIN tris)
  OBVIOUS
<1>5. LeafNode(ts) = [isLeaf |-> TRUE, tris |-> ts, mins |-> mi, maxs |-> ma, child |-> e, type |-> t]
  BY DEF LeafNode
<1> DEFINE D == Seq(DOMAIN tris)
<1>6. ts \in D /\ << >> \in D
  BY <1>4
<1>7. BuildNodes = NodeShape(D, Coords, [Slots -> Nat], [Slots -> Kind])
  BY DEF BuildNodes, NodeShape
<1>8. mi \in Coords /\ ma \in Coords
  BY <1>2
<1>9. InnerNode(ts) = [LeafNode(ts) EXCEPT !.isLeaf = FALSE, !.tris = << >>]
  BY DEF InnerNode
<1> HIDE DEF mi, ma, e, t, D
<1>10. /\ LeafNode(ts) \in BuildNodes /\ LeafNode(ts).isLeaf = TRUE /\ LeafNode(ts).tris = ts
       /\ LeafNode(ts).child = e /\ LeafNode(ts).type = t
  BY <1>3, <1>5, <1>6, <1>7, <1>8 DEF NodeShape
<1>11. /\ InnerNode(ts) \in BuildNodes /\ InnerNode(ts).isLeaf = FALSE
       /\ InnerNode(ts).tris = << >> /\ InnerNode(ts).child = e /\ InnerNode(ts).type = t
  <2> DEFINE r == LeafNode(ts)
             m == InnerNode(ts)
             x == << >>
  <2>1. r \in NodeShape(D, Coords, [Slots -> Nat], [Slots -> Kind]) /\ r.child = e /\ r.type = t
        /\ x \in D
    BY <1>6, <1>7, <1>10
  <2>2. m = [r EXCEPT !.isLeaf = FALSE, !.tris = x]
    BY <1>9
  <2> HIDE DEF r, m, x
  <2>3. /\ m \in NodeShape(D, Coords, [Slots -> Nat], [Slots -> Kind])
        /\ m.isLeaf = FALSE /\ m.tris = x /\ m.child = e /\ m.type = t
    BY <2>1, <2>2 DEF NodeShape
  <2> QED BY <1>7, <2>3 DEF m, x
<1> QED BY <1>3, <1>10, <1>11 DEF Fresh

(* A new node, noted in the child slot of the one whose call made it.       *)
LEMMA Added ==
    ASSUME Built(nodes), NEW c \in BuildCalls, c.parent <= Len(nodes),
           c.parent # 0 => ~nodes[c.parent].isLeaf,
           NEW new \in BuildNodes, Len(new.tris) <= MaxLeaf, NEW ty \in Kind,
           \A s \in Slots : new.child[s] = 0 /\ (new.isLeaf => new.type[s] = None)
    PROVE  LET ns == Append(Link(c, ty), new)
           IN  /\ Built(ns) /\ Len(ns) = Len(nodes) + 1 /\ ns[Len(nodes) + 1] = new
               /\ \A i \in 1 .. Len(nodes) :
                     /\ ns[i].isLeaf = nodes[i].isLeaf
                     /\ ns[i].child[1] = IF c.parent = i /\ c.slot = 1 THEN Len(nodes) + 1
                                         ELSE nodes[i].child[1]
<1> DEFINE p == c.parent
           q == c.slot
           n == Len(nodes)
           old == nodes[p]
           more == [old EXCEPT !.child[q] = n + 1, !.type[q] = ty]
           ls == Link(c, ty)
           ns == Append(ls, new)
<1>1. nodes \in Seq(BuildNodes) /\ n \in Nat /\ p \in Nat /\ q \in Slots /\ 1 \in Slots
  BY DEF Built, BuildCalls, Slots
<1>2. /\ ls \in Seq(BuildNodes) /\ Len(ls) = n
      /\ \A i \in 1 .. n : /\ ls[i].isLeaf = nodes[i].isLeaf /\ ls[i].tris = nodes[i].tris
                           /\ \A s \in Slots :
                                 /\ ls[i].child[s] = IF p = i /\ q = s THEN n + 1
                                                     ELSE nodes[i].child[s]
                                 /\ ls[i].isLeaf => ls[i].type[s] = nodes[i].type[s]
  <2>1. CASE p = 0
    <3>1. ls = nodes
      BY <2>1 DEF Link
    <3> HIDE DEF ls
    <3> QED BY <1>1, <2>1, <3>1
  <2>2. CASE p # 0
    <3>1. p \in 1 .. n /\ ~nodes[p].isLeaf /\ old \in BuildNodes
      BY <1>1, <2>2
    <3>2. ls = [nodes EXCEPT ![p] = more]
      BY <2>2 DEF Link
    <3>3. /\ more \in BuildNodes
          /\ more.isLeaf = old.isLeaf /\ more.tris = old.tris
          /\ \A s \in Slots : more.child[s] = IF q = s THEN n + 1 ELSE old.child[s]
      <4> DEFINE D == Seq(DOMAIN tris)
                 ch == [old.child EXCEPT ![q] = n + 1]
      <4>1. BuildNodes = NodeShape(D, Coords, [Slots -> Nat], [Slots -> Kind])
        BY DEF BuildNodes, NodeShape
      <4>2. n + 1 \in Nat /\ q \in Slots /\ old \in BuildNodes
        BY <1>1, <3>1
      <4> HIDE DEF old, n, D, q, p
      <4>3. /\ more \in BuildNodes /\ more.isLeaf = old.isLeaf /\ more.tris = old.tris
            /\ more.child = ch /\ old.child \in [Slots -> Nat]
        BY <4>1, <4>2, Linked DEF NodeShape
      <4>4. \A s \in Slots : ch[s] = IF q = s THEN n + 1 ELSE old.child[s]
        BY <4>2, <4>3
      <4> HIDE DEF more, ch
      <4> QED BY <4>3, <4>4
    <3> HIDE DEF old, n, q, p, ls, more
    <3>4. /\ ls \in Seq(BuildNodes) /\ Len(ls) = n
          /\ \A i \in 1 .. n : ls[i] = IF i = p THEN more ELSE nodes[i]
      BY <1>1, <3>1, <3>2, <3>3, ExceptSeq DEF n
    <3>5. old = nodes[p]
      BY DEF old
    <3> QED BY <1>1, <3>1, <3>3, <3>4, <3>5
  <2> QED BY <2>1, <2>2
<1> HIDE DEF ls
<1>3. /\ ns \in Seq(BuildNodes) /\ Len(ns) = n + 1 /\ ns[n + 1] = new
      /\ \A i \in 1 .. n : ns[i] = ls[i]
  BY <1>1, <1>2
<1> HIDE DEF ns
<1>4. \A i \in 1 .. n + 1 : i \in 1 .. n \/ i = n + 1
  BY <1>1
<1>5. \A i \in 1 .. n : \A s \in Slots : nodes[i].child[s] \in Nat /\ nodes[i].child[s] <= n
  <2> TAKE i \in 1 .. n
  <2>1. nodes[i] \in BuildNodes
    BY <1>1
  <2> QED BY <2>1 DEF Built, BuildNodes
<1>6. MaxLeaf \in Nat
  BY LeafAssumption
<1>7. Built(ns)
  <2> SUFFICES ASSUME NEW i \in 1 .. n + 1
               PROVE  /\ Len(ns[i].tris) <= MaxLeaf
                      /\ \A s \in Slots : ns[i].child[s] <= n + 1
                      /\ ns[i].isLeaf => \A s \in Slots : ns[i].type[s] = None
    BY <1>3 DEF Built
  <2>1. CASE i = n + 1
    BY <1>1, <1>3, <2>1
  <2>2. CASE i \in 1 .. n
    <3>1. ns[i] = ls[i] /\ Len(nodes[i].tris) <= MaxLeaf
      BY <1>3, <2>2 DEF Built
    <3>2. ns[i].isLeaf => \A s \in Slots : ns[i].type[s] = None
      <4>1. ns[i].isLeaf = nodes[i].isLeaf
        BY <1>2, <2>2, <3>1
      <4>2. nodes[i].isLeaf => \A s \in Slots : nodes[i].type[s] = None
        BY <2>2 DEF Built
      <4>3. ns[i].isLeaf => \A s \in Slots : ns[i].type[s] = nodes[i].type[s]
        BY <1>2, <2>2, <3>1
      <4> QED BY <4>1, <4>2, <4>3
    <3>3. \A s \in Slots : ns[i].child[s] <= n + 1
      BY <1>1, <1>2, <1>5, <2>2, <3>1
    <3> QED BY <1>2, <2>2, <3>1, <3>2, <3>3
  <2> QED BY <1>4, <2>1, <2>2
<1>8. \A i \in 1 .. n : /\ ns[i].isLeaf = nodes[i].isLeaf
                        /\ ns[i].child[1] = IF p = i /\ q = 1 THEN n + 1 ELSE nodes[i].child[1]
  BY <1>1, <1>2, <1>3
<1> QED BY <1>3, <1>7, <1>8 DEF ns, ls

(* A stack whose top is replaced by what it calls.                          *)
Replacing(all, es, cs) ==
    /\ Len(all) = Len(es) + Len(cs) - 1
    /\ \A k \in 1 .. Len(es) : all[k] = es[k]
    /\ \A k \in 1 .. Len(all) : k \notin 1 .. Len(es) =>
          k - Len(es) + 1 \in 2 .. Len(cs) /\ all[k] = cs[k - Len(es) + 1]
    /\ \A j \in 2 .. Len(cs) :
          Len(es) + j - 1 \in 1 .. Len(all) /\ all[Len(es) + j - 1] = cs[j]

(* The stack without its top, behind the calls.                             *)
LEMMA Replaced ==
    ASSUME NEW S, NEW cs \in Seq(S), cs # << >>, NEW es \in Seq(S)
    PROVE  es \o Tail(cs) \in Seq(S) /\ Replacing(es \o Tail(cs), es, cs)
<1> DEFINE t == Tail(cs)
           all == es \o t
           m == Len(es)
           l == Len(cs)
<1>1. /\ t \in Seq(S) /\ Len(t) = l - 1 /\ l \in Nat \ {0} /\ m \in Nat
      /\ \A k \in 1 .. l - 1 : t[k] = cs[k + 1]
  OBVIOUS
<1> HIDE DEF t
<1>2. /\ all \in Seq(S) /\ Len(all) = m + Len(t)
      /\ \A k \in 1 .. m + Len(t) : all[k] = IF k <= m THEN es[k] ELSE t[k - m]
  BY <1>1, ConcatProperties
<1> HIDE DEF all, m, l
<1>3. \A k \in 1 .. m : all[k] = es[k]
  BY <1>1, <1>2
<1>4. \A k \in 1 .. Len(all) : k \notin 1 .. m =>
          k - m + 1 \in 2 .. l /\ all[k] = cs[k - m + 1]
  <2> SUFFICES ASSUME NEW k \in 1 .. Len(all), k \notin 1 .. m
               PROVE  k - m + 1 \in 2 .. l /\ all[k] = cs[k - m + 1]
    OBVIOUS
  <2>1. k - m \in 1 .. l - 1 /\ k \in 1 .. m + Len(t) /\ ~(k <= m)
    <3>1. m \in Nat /\ l \in Nat /\ Len(t) = l - 1 /\ Len(all) = m + Len(t)
      BY <1>1, <1>2
    <3> QED BY <3>1
  <2>2. all[k] = t[k - m]
    BY <1>2, <2>1
  <2>3. t[k - m] = cs[(k - m) + 1]
    BY <1>1, <2>1
  <2>4. (k - m) + 1 = k - m + 1 /\ k - m + 1 \in 2 .. l
    BY <1>1, <2>1
  <2> QED BY <2>2, <2>3, <2>4
<1>5. \A j \in 2 .. l : m + j - 1 \in 1 .. Len(all) /\ all[m + j - 1] = cs[j]
  <2> SUFFICES ASSUME NEW j \in 2 .. l
               PROVE  m + j - 1 \in 1 .. Len(all) /\ all[m + j - 1] = cs[j]
    OBVIOUS
  <2>1. m + j - 1 \in 1 .. Len(all) /\ m + j - 1 \notin 1 .. m /\ (m + j - 1) - m + 1 = j
    BY <1>1, <1>2
  <2> QED BY <1>4, <2>1
<1>6. Len(all) = m + l - 1
  BY <1>1, <1>2
<1>7. all = es \o Tail(cs) /\ m = Len(es) /\ l = Len(cs)
  BY DEF all, t, m, l
<1>8. all \in Seq(S)
  BY <1>2
<1>9. Replacing(all, es, cs)
  BY <1>3, <1>4, <1>5, <1>6, <1>7 DEF Replacing
<1> HIDE DEF all, t, m, l
<1> QED BY <1>7, <1>8, <1>9

(* When a call has made its node, the calls it makes in turn and those that *)
(* were waiting are as they should be.                                     *)
LEMMA Returned ==
    ASSUME Built(nodes), Called(calls, nodes), FirstChild(calls, nodes), calls # << >>,
           NEW ns, Built(ns), Len(ns) = Len(nodes) + 1,
           \A i \in 1 .. Len(nodes) :
              /\ ns[i].isLeaf = nodes[i].isLeaf
              /\ ns[i].child[1] = IF Head(calls).parent = i /\ Head(calls).slot = 1
                                  THEN Len(nodes) + 1 ELSE nodes[i].child[1],
           NEW es \in Seq(BuildCalls),
           \A k \in 1 .. Len(es) : /\ es[k].tris # << >>
                                   /\ Len(es[k].tris) <= Capacity[MaxDepth - es[k].depth]
                                   /\ es[k].parent = Len(ns),
           es # << >> => ~ns[Len(ns)].isLeaf,
           ~ns[Len(ns)].isLeaf => es # << >> /\ es[1].slot = 1
    PROVE  Called(es \o Tail(calls), ns) /\ FirstChild(es \o Tail(calls), ns)
<1> DEFINE n == Len(nodes)
           rest == Tail(calls)
           all == es \o rest
           m == Len(es)
           l == Len(calls)
<1>1. calls \in Seq(BuildCalls) /\ n \in Nat /\ m \in Nat /\ l \in Nat \ {0} /\ ns \in Seq(BuildNodes)
  BY DEF Called, Built
<1>2. Head(calls) = calls[1] /\ 1 \in 1 .. l
  BY <1>1
<1>3. /\ all \in Seq(BuildCalls) /\ Len(all) = m + l - 1
      /\ \A k \in 1 .. m : all[k] = es[k]
      /\ \A k \in 1 .. Len(all) : k \notin 1 .. m =>
            k - m + 1 \in 2 .. l /\ all[k] = calls[k - m + 1]
      /\ \A j \in 2 .. l : m + j - 1 \in 1 .. Len(all) /\ all[m + j - 1] = calls[j]
  <2>1. all \in Seq(BuildCalls) /\ Replacing(all, es, calls)
    BY <1>1, Replaced
  <2> HIDE DEF all
  <2> QED BY <2>1 DEF Replacing
<1> HIDE DEF all, rest
<1>4. 2 .. l \subseteq 1 .. l
  BY <1>1
<1>5. Called(all, ns)
  <2> SUFFICES ASSUME NEW k \in 1 .. Len(all)
               PROVE  /\ all[k].tris # << >>
                      /\ Len(all[k].tris) <= Capacity[MaxDepth - all[k].depth]
                      /\ all[k].parent <= Len(ns)
                      /\ all[k].parent # 0 => ~ns[all[k].parent].isLeaf
    BY <1>3 DEF Called
  <2>1. CASE k \in 1 .. m
    <3>1. all[k] = es[k] /\ es # << >> /\ Len(ns) \in Nat
      BY <1>1, <1>3, <2>1
    <3> QED BY <2>1, <3>1
  <2>2. CASE k \notin 1 .. m
    <3> DEFINE j == k - m + 1
    <3>1. j \in 1 .. l /\ all[k] = calls[j]
      BY <1>3, <1>4, <2>2
    <3> HIDE DEF j
    <3>2. calls[j] \in BuildCalls
      BY <1>1, <3>1
    <3>3. calls[j].parent \in Nat
      BY <3>2 DEF BuildCalls
    <3>4. /\ calls[j].tris # << >>
          /\ Len(calls[j].tris) <= Capacity[MaxDepth - calls[j].depth]
          /\ calls[j].parent <= n
          /\ calls[j].parent # 0 => ~nodes[calls[j].parent].isLeaf
      BY <3>1 DEF Called
    <3>5. calls[j].parent # 0 => calls[j].parent \in 1 .. n
      BY <1>1, <3>3, <3>4
    <3>6. calls[j].parent # 0 => ~ns[calls[j].parent].isLeaf
      BY <3>4, <3>5
    <3> QED BY <1>1, <3>1, <3>3, <3>4, <3>6
  <2> QED BY <2>1, <2>2
<1>6. FirstChild(all, ns)
  <2> SUFFICES ASSUME NEW i \in 1 .. Len(ns), ~ns[i].isLeaf, ns[i].child[1] = 0
               PROVE  \E k \in 1 .. Len(all) : all[k].parent = i /\ all[k].slot = 1
    BY DEF FirstChild
  <2>1. CASE i = n + 1
    <3>1. es # << >> /\ es[1].slot = 1 /\ 1 \in 1 .. m /\ 1 \in 1 .. Len(all)
      BY <1>1, <1>3, <2>1
    <3>2. all[1] = es[1]
      BY <1>3, <3>1
    <3>3. es[1].parent = i
      BY <2>1, <3>1
    <3> QED BY <3>1, <3>2, <3>3
  <2>2. CASE i \in 1 .. n
    <3>1. /\ ~nodes[i].isLeaf /\ nodes[i].child[1] = 0
          /\ ~(calls[1].parent = i /\ calls[1].slot = 1)
      BY <1>1, <1>2, <2>2
    <3>2. PICK j \in 1 .. l : calls[j].parent = i /\ calls[j].slot = 1
      BY <2>2, <3>1 DEF FirstChild
    <3>3. j # 1
      BY <3>1, <3>2
    <3>4. m + j - 1 \in 1 .. Len(all) /\ all[m + j - 1] = calls[j]
      <4>1. j \in 2 .. l
        BY <1>1, <3>2, <3>3
      <4> QED BY <1>3, <4>1
    <3> QED BY <3>2, <3>4
  <2> QED BY <1>1, <2>1, <2>2
<1> QED BY <1>5, <1>6 DEF all, rest

(* The call whose turn it is.                                              *)
LEMMA Current ==
    ASSUME BInv, pc = "build"
    PROVE  /\ calls # << >> /\ Head(calls) \in BuildCalls
           /\ Head(calls).tris \in Seq(DOMAIN tris) /\ Head(calls).tris # << >>
           /\ Head(calls).depth \in 0 .. MaxDepth
           /\ Len(Head(calls).tris) <= Capacity[MaxDepth - Head(calls).depth]
           /\ Head(calls).parent <= Len(nodes)
           /\ Head(calls).parent # 0 => ~nodes[Head(calls).parent].isLeaf
<1>1. calls \in Seq(BuildCalls) /\ calls # << >>
  BY DEF BInv, Called
<1>2. 1 \in 1 .. Len(calls) /\ Head(calls) = calls[1] /\ calls[1] \in BuildCalls
  BY <1>1
<1>3. calls[1].tris \in Seq(DOMAIN tris) /\ calls[1].depth \in 0 .. MaxDepth
  <2> DEFINE D == Seq(DOMAIN tris)
  <2>1. calls[1] \in [tris : D, depth : 0 .. MaxDepth, parent : Nat, slot : Slots]
    BY <1>2 DEF BuildCalls
  <2> HIDE DEF D
  <2>2. calls[1].tris \in D /\ calls[1].depth \in 0 .. MaxDepth
    BY <2>1
  <2> QED BY <2>2 DEF D
<1>4. /\ calls[1].tris # << >>
      /\ Len(calls[1].tris) <= Capacity[MaxDepth - calls[1].depth]
      /\ calls[1].parent <= Len(nodes)
      /\ calls[1].parent # 0 => ~nodes[calls[1].parent].isLeaf
  BY <1>2 DEF BInv, Called
<1> QED BY <1>1, <1>2, <1>3, <1>4

(* While the tree is built, what is written is empty and nothing emits.     *)
(* A build step keeps it.                                                  *)
LEMMA BuildKeeps ==
    ASSUME BInv, pc = "build", tris' = tris, frame' = frame, bvh' = bvh, leaves' = leaves,
           verts' = verts, blob' = blob,
           Built(nodes'), Called(calls', nodes'), FirstChild(calls', nodes'), nodes' # << >>,
           pc' = IF calls' = << >> THEN "emit" ELSE "build",
           emits' = IF calls' = << >> THEN FirstEmit ELSE emits
    PROVE  BInv'
<1>1. /\ tris' \in Soups /\ Framed' /\ pc' \in {"build", "emit", "serialize", "done"}
      /\ (pc' = "build" <=> calls' # << >>) /\ nodes' # << >>
  BY DEF BInv, Framed
<1>2. BuildNodes' = BuildNodes /\ BuildCalls' = BuildCalls
  BY DEF BuildNodes, BuildCalls
<1>3. Built(nodes)' /\ Called(calls, nodes)' /\ FirstChild(calls, nodes)'
  BY <1>2 DEF Built, Called, FirstChild
<1>4. Written(bvh, leaves, verts)'
  BY DEF BInv, Written
<1>5. SectionsFit'
  BY DEF SectionsFit
<1>6. emits = << >> /\ FirstEmit # << >> /\ Len(FirstEmit) = 1
  BY DEF BInv, FirstEmit
<1>7. Emitting(emits, Len(bvh))' /\ (pc' = "emit" <=> emits' # << >>)
  <2>1. CASE calls' = << >>
    <3> DEFINE e == [build |-> 1, parent |-> 0, slot |-> 1]
    <3>1. e \in EmitCalls /\ e.build = 1 /\ e.parent = 0
      BY DEF EmitCalls, Slots
    <3>2. emits' = <<e>> /\ pc' = "emit"
      BY <2>1 DEF FirstEmit
    <3>3. 1 \in 1 .. Len(nodes') /\ 0 <= Len(bvh')
      <4>1. nodes' \in Seq(BuildNodes) /\ bvh' \in Seq(OutNodes)
        BY DEF Built, BInv, Written
      <4> QED BY <4>1
    <3> HIDE DEF e
    <3>4. emits' \in Seq(EmitCalls) /\ Len(emits') = 1 /\ emits'[1] = e
      <4>1. <<e>> \in Seq(EmitCalls) /\ Len(<<e>>) = 1 /\ <<e>>[1] = e
        BY <3>1
      <4> QED BY <3>2, <4>1
    <3>5. \A k \in 1 .. Len(emits') : emits'[k] = e
      BY <3>4
    <3>6. EmitCalls' = EmitCalls
      BY DEF EmitCalls
    <3> QED BY <3>1, <3>2, <3>3, <3>4, <3>5, <3>6 DEF Emitting
  <2>2. CASE calls' # << >>
    <3>1. emits' = << >> /\ pc' = "build"
      BY <1>6, <2>2
    <3>2. emits' \in Seq(EmitCalls') /\ Len(emits') = 0
      <4>1. << >> \in Seq(EmitCalls') /\ Len(<< >>) = 0
        OBVIOUS
      <4> QED BY <3>1, <4>1
    <3> QED BY <3>1, <3>2 DEF Emitting
  <2> QED BY <2>1, <2>2
<1> QED BY <1>1, <1>3, <1>4, <1>5, <1>7 DEF BInv

(* BuildLeaf: the depth limit is only met by a list that fits a leaf.       *)
LEMMA BuildLeafKeeps == ASSUME BInv, BuildLeaf PROVE BInv'
<1> DEFINE c == Head(calls)
           new == LeafNode(c.tris)
           ns == Append(Link(c, Poly3), new)
<1>1. /\ calls # << >> /\ c \in BuildCalls /\ c.tris \in Seq(DOMAIN tris) /\ c.tris # << >>
      /\ c.depth \in 0 .. MaxDepth /\ Len(c.tris) <= Capacity[MaxDepth - c.depth]
      /\ c.parent <= Len(nodes) /\ (c.parent # 0 => ~nodes[c.parent].isLeaf)
  BY Current DEF BuildLeaf
<1>2. tris \in Soups /\ Built(nodes) /\ Called(calls, nodes) /\ FirstChild(calls, nodes)
  BY DEF BInv
<1>3. /\ new \in BuildNodes /\ new.isLeaf = TRUE /\ new.tris = c.tris
      /\ \A s \in Slots : new.child[s] = 0 /\ new.type[s] = None
  <2> DEFINE ts == c.tris
  <2>1. ts \in Seq(DOMAIN tris) /\ ts # << >> /\ tris \in Soups
    BY <1>1, <1>2
  <2> HIDE DEF ts
  <2>2. Fresh(LeafNode(ts), TRUE, ts)
    BY <2>1, NewNode
  <2> QED BY <2>2 DEF ts, Fresh
<1>4. Len(c.tris) <= MaxLeaf
  <2>1. CASE FitsLeaf(c.tris)
    BY <2>1 DEF FitsLeaf
  <2>2. CASE c.depth >= MaxDepth
    <3>1. MaxDepth - c.depth = 0
      BY <1>1, <2>2, DepthAssumption
    <3> QED BY <1>1, <3>1, CapacityIs
  <2> QED BY <2>1, <2>2 DEF BuildLeaf
<1>5. /\ nodes' = ns /\ calls' = Tail(calls) /\ pc' = AfterBuild(calls')
      /\ emits' = IF pc' = "emit" THEN FirstEmit ELSE emits
      /\ pc = "build" /\ tris' = tris /\ frame' = frame /\ bvh' = bvh /\ leaves' = leaves
      /\ verts' = verts /\ blob' = blob
  BY DEF BuildLeaf
<1>6. Poly3 \in Kind
  BY DEF Kind
<1> HIDE DEF c, new
<1>7. /\ Built(ns) /\ Len(ns) = Len(nodes) + 1 /\ ns[Len(nodes) + 1] = new
      /\ \A i \in 1 .. Len(nodes) :
            /\ ns[i].isLeaf = nodes[i].isLeaf
            /\ ns[i].child[1] = IF c.parent = i /\ c.slot = 1 THEN Len(nodes) + 1
                                ELSE nodes[i].child[1]
  BY <1>1, <1>2, <1>3, <1>4, <1>6, Added
<1> HIDE DEF ns
<1>8. Called(Tail(calls), ns) /\ FirstChild(Tail(calls), ns)
  <2> DEFINE es == << >>
  <2>1. es \in Seq(BuildCalls) /\ Len(es) = 0
    OBVIOUS
  <2>2. es \o Tail(calls) = Tail(calls)
    <3>1. Tail(calls) \in Seq(BuildCalls)
      BY <1>1, <1>2 DEF Called
    <3> QED BY <3>1, ConcatEmptySeq
  <2>3. ns[Len(ns)].isLeaf
    BY <1>3, <1>7
  <2>4. es = << >>
    OBVIOUS
  <2> HIDE DEF es
  <2>5. Called(es \o Tail(calls), ns) /\ FirstChild(es \o Tail(calls), ns)
    <3>1. \A i \in 1 .. Len(nodes) :
             /\ ns[i].isLeaf = nodes[i].isLeaf
             /\ ns[i].child[1] = IF Head(calls).parent = i /\ Head(calls).slot = 1
                                 THEN Len(nodes) + 1 ELSE nodes[i].child[1]
      BY <1>7 DEF c
    <3>2. \A k \in 1 .. Len(es) : /\ es[k].tris # << >>
                                   /\ Len(es[k].tris) <= Capacity[MaxDepth - es[k].depth]
                                   /\ es[k].parent = Len(ns)
      BY <2>1
    <3>3. /\ es # << >> => ~ns[Len(ns)].isLeaf
          /\ ~ns[Len(ns)].isLeaf => es # << >> /\ es[1].slot = 1
      BY <2>3, <2>4
    <3>4. calls # << >> /\ Built(ns) /\ Len(ns) = Len(nodes) + 1
      BY <1>1, <1>7
    <3> HIDE DEF c
    <3> QED BY <1>2, <2>1, <3>1, <3>2, <3>3, <3>4, Returned
  <2> QED BY <2>2, <2>5
<1>9. ns # << >>
  <2>1. ns \in Seq(BuildNodes) /\ nodes \in Seq(BuildNodes) /\ Len(ns) = Len(nodes) + 1
    BY <1>2, <1>7 DEF Built
  <2> QED BY <2>1
<1>10. /\ pc' = IF calls' = << >> THEN "emit" ELSE "build"
       /\ emits' = IF calls' = << >> THEN FirstEmit ELSE emits
  BY <1>5 DEF AfterBuild
<1>11. Built(nodes') /\ Called(calls', nodes') /\ FirstChild(calls', nodes') /\ nodes' # << >>
  BY <1>5, <1>7, <1>8, <1>9
<1> QED BY <1>5, <1>10, <1>11, BuildKeeps

(* A sorted order of some triangles is a list of as many.                   *)
LEMMA Order ==
    ASSUME NEW S, NEW ts \in Seq(S), NEW s \in SortedOrders(ts)
    PROVE  s \in Seq(S) /\ Len(s) = Len(ts)
<1>1. s \in [DOMAIN ts -> Range(ts)]
  BY DEF SortedOrders
<1>2. DOMAIN ts = 1 .. Len(ts) /\ Len(ts) \in Nat /\ Range(ts) \subseteq S
  BY DEF Range
<1>3. s \in [1 .. Len(ts) -> S]
  BY <1>1, <1>2
<1> QED BY <1>2, <1>3

(* The calls of a node for its parts: each has triangles, no more than the  *)
(* levels that are left can hold.                                          *)
LEMMA PartCalls ==
    ASSUME NEW s \in Seq(DOMAIN tris), Len(s) >= 2,
           NEW d \in 0 .. MaxDepth, d < MaxDepth, Len(s) <= Capacity[MaxDepth - d], NEW me \in Nat
    PROVE  LET es == [p \in DOMAIN Parts(s) |-> Call(Parts(s)[p], d + 1, me, p)]
           IN  /\ es \in Seq(BuildCalls) /\ es # << >> /\ es[1].slot = 1
               /\ \A k \in 1 .. Len(es) : /\ es[k].tris # << >>
                                          /\ Len(es[k].tris) <= Capacity[MaxDepth - es[k].depth]
                                          /\ es[k].parent = me
<1> DEFINE C == Capacity[MaxDepth - (d + 1)]
           es == [p \in DOMAIN Parts(s) |-> Call(Parts(s)[p], d + 1, me, p)]
<1>1. /\ MaxDepth - d \in 1 .. MaxDepth /\ (MaxDepth - d) - 1 = MaxDepth - (d + 1)
      /\ MaxDepth - (d + 1) \in 0 .. MaxDepth /\ d + 1 \in 0 .. MaxDepth
  BY DepthAssumption
<1>2. C \in Nat /\ Capacity[MaxDepth - d] = 2 * C
  BY <1>1, CapacityIs
<1> HIDE DEF C
<1>3. PICK k \in 1 .. 4 :
          /\ DOMAIN Parts(s) = 1 .. k /\ Parts(s) \in Seq(Seq(DOMAIN tris)) /\ Len(Parts(s)) = k
          /\ \A p \in 1 .. k : Parts(s)[p] # << >> /\ Len(Parts(s)[p]) <= C
  <2> DEFINE S == DOMAIN tris
  <2>1. s \in Seq(S)
    OBVIOUS
  <2> HIDE DEF S
  <2>2. \E k \in 1 .. 4 :
          /\ DOMAIN Parts(s) = 1 .. k /\ Parts(s) \in Seq(Seq(S)) /\ Len(Parts(s)) = k
          /\ \A p \in 1 .. k : Parts(s)[p] # << >> /\ Len(Parts(s)[p]) <= C
    BY <1>2, <2>1, PartsAre
  <2> QED BY <2>2 DEF S
<1> DEFINE call(p) == Call(Parts(s)[p], d + 1, me, p)
<1>4. \A p \in 1 .. k : /\ call(p) \in BuildCalls /\ call(p).tris = Parts(s)[p]
                        /\ call(p).depth = d + 1 /\ call(p).parent = me /\ call(p).slot = p
  <2> SUFFICES ASSUME NEW p \in 1 .. k
               PROVE  /\ call(p) \in BuildCalls /\ call(p).tris = Parts(s)[p]
                      /\ call(p).depth = d + 1 /\ call(p).parent = me /\ call(p).slot = p
    OBVIOUS
  <2>1. call(p) = [tris |-> Parts(s)[p], depth |-> d + 1, parent |-> me, slot |-> p]
    BY DEF Call
  <2> DEFINE D == Seq(DOMAIN tris)
             t == Parts(s)[p]
  <2>2. t \in D /\ p \in Slots
    BY <1>3 DEF Slots
  <2>3. BuildCalls = [tris : D, depth : 0 .. MaxDepth, parent : Nat, slot : Slots]
    BY DEF BuildCalls
  <2> HIDE DEF D, t
  <2>4. call(p) = [tris |-> t, depth |-> d + 1, parent |-> me, slot |-> p]
    BY <2>1 DEF t
  <2> HIDE DEF call
  <2>5. /\ call(p) \in BuildCalls /\ call(p).tris = t
        /\ call(p).depth = d + 1 /\ call(p).parent = me /\ call(p).slot = p
    BY <1>1, <2>2, <2>3, <2>4
  <2> QED BY <2>5 DEF t
<1>5. es = [p \in 1 .. k |-> call(p)]
  BY <1>3
<1> HIDE DEF es, call
<1>6. es \in Seq(BuildCalls) /\ Len(es) = k /\ \A p \in 1 .. k : es[p] = call(p)
  BY <1>3, <1>4, <1>5
<1>7. 1 \in 1 .. k /\ es # << >>
  BY <1>3, <1>6
<1>8. \A p \in 1 .. Len(es) : /\ es[p].tris # << >>
                              /\ Len(es[p].tris) <= Capacity[MaxDepth - es[p].depth]
                              /\ es[p].parent = me
  <2> SUFFICES ASSUME NEW p \in 1 .. k
               PROVE  /\ es[p].tris # << >>
                      /\ Len(es[p].tris) <= Capacity[MaxDepth - es[p].depth]
                      /\ es[p].parent = me
    BY <1>6
  <2>1. es[p].tris = Parts(s)[p] /\ es[p].depth = d + 1 /\ es[p].parent = me
    BY <1>4, <1>6
  <2>2. Parts(s)[p] # << >> /\ Len(Parts(s)[p]) <= C
    BY <1>3
  <2> QED BY <2>1, <2>2 DEF C
<1>9. es[1].slot = 1
  BY <1>4, <1>6, <1>7
<1> QED BY <1>6, <1>7, <1>8, <1>9 DEF es

(* BuildInner: the parts of a node become calls that return to it.          *)
LEMMA BuildInnerKeeps == ASSUME BInv, BuildInner PROVE BInv'
<1> DEFINE c == Head(calls)
           ts == c.tris
           new == InnerNode(ts)
           ns == Append(Link(c, Node), new)
           me == Len(nodes) + 1
<1>1. /\ calls # << >> /\ c \in BuildCalls /\ ts \in Seq(DOMAIN tris) /\ ts # << >>
      /\ c.depth \in 0 .. MaxDepth /\ Len(ts) <= Capacity[MaxDepth - c.depth]
      /\ c.parent <= Len(nodes) /\ (c.parent # 0 => ~nodes[c.parent].isLeaf)
  BY Current DEF BuildInner
<1>2. /\ tris \in Soups /\ Built(nodes) /\ Called(calls, nodes) /\ FirstChild(calls, nodes)
      /\ nodes \in Seq(BuildNodes)
  BY DEF BInv, Built
<1>3. Len(ts) > MaxLeaf /\ c.depth < MaxDepth
  <2>1. ~(Len(ts) <= MaxLeaf) /\ c.depth < MaxDepth
    BY DEF BuildInner, FitsLeaf
  <2>2. Len(ts) \in Nat /\ MaxLeaf \in Nat
    BY <1>1, LeafAssumption
  <2> HIDE DEF ts, c
  <2> QED BY <2>1, <2>2
<1>4. PICK s \in SortedOrders(ts) :
          calls' = [p \in DOMAIN Parts(s) |-> Call(Parts(s)[p], c.depth + 1, me, p)] \o Tail(calls)
  BY DEF BuildInner
<1>5. /\ nodes' = ns /\ pc' = pc /\ emits' = emits
      /\ pc = "build" /\ tris' = tris /\ frame' = frame /\ bvh' = bvh /\ leaves' = leaves
      /\ verts' = verts /\ blob' = blob
  BY DEF BuildInner
<1> DEFINE es == [p \in DOMAIN Parts(s) |-> Call(Parts(s)[p], c.depth + 1, me, p)]
<1>6. calls' = es \o Tail(calls)
  BY <1>4
<1> HIDE DEF ts
<1>7. /\ new \in BuildNodes /\ new.isLeaf = FALSE /\ Len(new.tris) <= MaxLeaf
      /\ \A x \in Slots : new.child[x] = 0
  <2>1. Fresh(InnerNode(ts), FALSE, << >>)
    <3>1. ts \in Seq(DOMAIN tris) /\ ts # << >> /\ tris \in Soups
      BY <1>1, <1>2
    <3> HIDE DEF c
    <3> QED BY <3>1, NewNode
  <2> HIDE DEF new
  <2>2. Fresh(new, FALSE, << >>)
    BY <2>1 DEF new
  <2>3. Len(<< >>) <= MaxLeaf
    BY LeafAssumption
  <2> QED BY <2>2, <2>3 DEF Fresh
<1>8. Node \in Kind
  BY DEF Kind
<1> HIDE DEF new
<1>9. me \in Nat /\ Len(ts) \in Nat /\ Len(ts) >= 2
  BY <1>1, <1>2, <1>3, LeafAssumption
<1>10. s \in Seq(DOMAIN tris) /\ Len(s) = Len(ts)
  BY <1>1, <1>4, Order
<1>11. /\ es \in Seq(BuildCalls) /\ es # << >> /\ es[1].slot = 1
       /\ \A k \in 1 .. Len(es) : /\ es[k].tris # << >>
                                  /\ Len(es[k].tris) <= Capacity[MaxDepth - es[k].depth]
                                  /\ es[k].parent = me
  <2>1. /\ c.depth \in 0 .. MaxDepth /\ c.depth < MaxDepth
        /\ Len(s) <= Capacity[MaxDepth - c.depth] /\ Len(s) >= 2
    BY <1>1, <1>3, <1>9, <1>10
  <2> HIDE DEF me, c
  <2>2. me \in Nat /\ s \in Seq(DOMAIN tris)
    BY <1>9, <1>10
  <2> QED BY <2>1, <2>2, PartCalls
<1> HIDE DEF c, es
<1>12. /\ Built(ns) /\ Len(ns) = Len(nodes) + 1 /\ ns[Len(nodes) + 1] = new
       /\ \A i \in 1 .. Len(nodes) :
             /\ ns[i].isLeaf = nodes[i].isLeaf
             /\ ns[i].child[1] = IF c.parent = i /\ c.slot = 1 THEN Len(nodes) + 1
                                 ELSE nodes[i].child[1]
  <2>1. \A x \in Slots : new.child[x] = 0 /\ (new.isLeaf => new.type[x] = None)
    BY <1>7
  <2> QED BY <1>1, <1>2, <1>7, <1>8, <2>1, Added
<1> HIDE DEF ns
<1>13. Called(es \o Tail(calls), ns) /\ FirstChild(es \o Tail(calls), ns)
  <2>1. \A i \in 1 .. Len(nodes) :
           /\ ns[i].isLeaf = nodes[i].isLeaf
           /\ ns[i].child[1] = IF Head(calls).parent = i /\ Head(calls).slot = 1
                               THEN Len(nodes) + 1 ELSE nodes[i].child[1]
    BY <1>12 DEF c
  <2>2. \A k \in 1 .. Len(es) : /\ es[k].tris # << >>
                                 /\ Len(es[k].tris) <= Capacity[MaxDepth - es[k].depth]
                                 /\ es[k].parent = Len(ns)
    BY <1>11, <1>12
  <2>3. /\ es # << >> => ~ns[Len(ns)].isLeaf
        /\ ~ns[Len(ns)].isLeaf => es # << >> /\ es[1].slot = 1
    BY <1>7, <1>11, <1>12
  <2>4. calls # << >> /\ Built(ns) /\ Len(ns) = Len(nodes) + 1 /\ es \in Seq(BuildCalls)
    BY <1>1, <1>11, <1>12
  <2> QED BY <1>2, <2>1, <2>2, <2>3, <2>4, Returned
<1>14. ns # << >>
  <2>1. ns \in Seq(BuildNodes) /\ Len(ns) = Len(nodes) + 1
    BY <1>12 DEF Built
  <2> QED BY <1>2, <2>1
<1>15. calls' # << >>
  <2>1. calls \in Seq(BuildCalls)
    BY <1>2 DEF Called
  <2>2. Len(es \o Tail(calls)) = Len(es) + Len(calls) - 1
    BY <1>1, <1>11, <2>1, Replaced DEF Replacing
  <2>3. Len(es) \in Nat \ {0} /\ Len(calls) \in Nat \ {0}
    BY <1>1, <1>11, <2>1
  <2>4. Len(calls') # 0
    BY <1>6, <2>2, <2>3
  <2> QED BY <2>4
<1>16. /\ pc' = IF calls' = << >> THEN "emit" ELSE "build"
       /\ emits' = IF calls' = << >> THEN FirstEmit ELSE emits
  BY <1>5, <1>15
<1>17. Built(nodes') /\ Called(calls', nodes') /\ FirstChild(calls', nodes') /\ nodes' # << >>
  BY <1>5, <1>6, <1>12, <1>13, <1>14
<1> QED BY <1>5, <1>16, <1>17, BuildKeeps

-----------------------------------------------------------------------------
(* Writing.                                                                *)

(* A whole number over a positive one is whole, and so is what is left.     *)
LEMMA Whole ==
    ASSUME NEW x \in Int, NEW d \in Nat \ {0}
    PROVE  x \div d \in Int /\ x % d \in Nat
OBVIOUS

(* What is packed is an int16, whatever it is rounded to.                   *)
LEMMA Rounded ==
    ASSUME Framed, NEW w \in Int, NEW a \in Axes
    PROVE  Floor(w, a) \in Int16 /\ Ceil(w, a) \in Int16 /\ Truncate(w, a) \in Int16
<1> DEFINE x == Num(w, a)
<1>1. x \in Int /\ -x \in Int /\ Den \in Nat \ {0}
  <2>1. frame.mins[a] \in Int /\ frame.maxs[a] \in Int /\ Scale[1] \in Nat /\ Den \in Nat \ {0}
    BY ScaleIs DEF Framed, Coords
  <2>2. x \in Int
    BY <2>1 DEF Num
  <2> HIDE DEF x
  <2> QED BY <2>1, <2>2
<1> HIDE DEF x
<1>2. x \div Den \in Int /\ (-x) \div Den \in Int
  BY <1>1, Whole
<1> DEFINE up == -((-x) \div Den)
           cut == IF x >= 0 THEN x \div Den ELSE -((-x) \div Den)
<1>3. up \in Int /\ cut \in Int
  BY <1>2
<1>4. Floor(w, a) = Clamp(x \div Den) /\ Ceil(w, a) = Clamp(up) /\ Truncate(w, a) = Clamp(cut)
  BY DEF Floor, Ceil, Truncate, x
<1> HIDE DEF up, cut
<1> QED BY <1>2, <1>3, <1>4, ClampIs

(* Packed points are three int16.                                          *)
LEMMA PackedIs ==
    ASSUME Framed, NEW v \in Coords
    PROVE  Packed(v) \in Corner16 /\ PackMins(v) \in Corner16 /\ PackMaxs(v) \in Corner16
<1>1. \A a \in Axes : v[a] \in Int
  BY DEF Coords
<1>2. \A a \in Axes : /\ Floor(v[a], a) \in Int16 /\ Ceil(v[a], a) \in Int16
                      /\ Truncate(v[a], a) \in Int16
  BY <1>1, Rounded
<1> QED BY <1>2 DEF Packed, PackMins, PackMaxs, Corner16

(* The words of a leaf: a header, and one word for each triangle.           *)
LEMMA WordsOf ==
    ASSUME NEW n \in Nat, NEW b \in Nat
    PROVE  LeafWords(n, b) \in Seq(Words)
<1> DEFINE shifted == (b \div BaseUnit) % BaseField
           run(i) == IF i = 1 THEN BaseUnit * (b \div BaseUnit) ELSE b + 3 * (i - 2)
           off(i) == (b + 3 * (i - 1) - run(i)) % (2 * BaseUnit)
           head == [num |-> n - 1, base |-> shifted]
           word == [i \in 1 .. n |-> [offset |-> off(i), d1 |-> 0, d2 |-> 1]]
<1>1. BaseUnit \in Nat \ {0} /\ BaseField \in Nat \ {0} /\ 2 * BaseUnit \in Nat \ {0}
  BY BaseAssumption
<1>2. b \div BaseUnit \in Int
  BY <1>1, Whole
<1>3. head \in Words
  <2>1. shifted \in Nat
    BY <1>1, <1>2, Whole
  <2> HIDE DEF shifted
  <2> QED BY <2>1 DEF Words
<1>4. \A i \in 1 .. n : off(i) \in Nat
  <2> TAKE i \in 1 .. n
  <2>1. BaseUnit * (b \div BaseUnit) \in Int
    BY <1>1, <1>2
  <2>2. run(i) \in Int
    BY <2>1
  <2> HIDE DEF run
  <2>3. b + 3 * (i - 1) - run(i) \in Int
    BY <2>2
  <2> QED BY <1>1, <2>3, Whole
<1>5. word \in Seq(Words)
  <2> HIDE DEF off
  <2>1. \A i \in 1 .. n : [offset |-> off(i), d1 |-> 0, d2 |-> 1] \in Words
    BY <1>4 DEF Words
  <2> QED BY <2>1
<1>6. LeafWords(n, b) = <<head>> \o word
  BY DEF LeafWords
<1> HIDE DEF head, word
<1>7. <<head>> \in Seq(Words)
  BY <1>3
<1> QED BY <1>5, <1>6, <1>7, ConcatProperties

(* The vertices of a leaf's triangles are packed points.                    *)
LEMMA VertsOf ==
    ASSUME tris \in Soups, Framed, NEW ts \in Seq(DOMAIN tris)
    PROVE  LeafVerts(ts) \in Seq(Corner16)
<1> DEFINE n == 3 * Len(ts)
           t(i) == tris[ts[(i + 2) \div 3]]
           v(i) == CASE i % 3 = 1 -> t(i)[1] [] i % 3 = 2 -> t(i)[3] [] i % 3 = 0 -> t(i)[2]
<1>1. n \in Nat
  OBVIOUS
<1>2. \A i \in 1 .. n : v(i) \in Coords
  <2> TAKE i \in 1 .. n
  <2>1. (i + 2) \div 3 \in 1 .. Len(ts)
    OBVIOUS
  <2>2. ts[(i + 2) \div 3] \in DOMAIN tris
    BY <2>1
  <2>3. t(i) \in Triangles
    BY <2>2, Soup
  <2> HIDE DEF t
  <2>4. t(i)[1] \in Coords /\ t(i)[2] \in Coords /\ t(i)[3] \in Coords
    BY <2>3 DEF Triangles
  <2>5. i % 3 = 0 \/ i % 3 = 1 \/ i % 3 = 2
    OBVIOUS
  <2> QED BY <2>4, <2>5
<1>3. LeafVerts(ts) = [i \in 1 .. n |-> Packed(v(i))]
  BY DEF LeafVerts
<1> HIDE DEF v, n
<1>4. \A i \in 1 .. n : Packed(v(i)) \in Corner16
  BY <1>2, PackedIs
<1> QED BY <1>1, <1>3, <1>4

(* EmitPoly3Leaf: more words and more packed points.                       *)
LEMMA LeafData ==
    ASSUME BInv, NEW b \in 1 .. Len(nodes), EmitLeafData(b)
    PROVE  /\ leaves' \in Seq(Words) /\ verts' \in Seq(Corner16)
           /\ Len(leaves) \in Nat /\ Len(leaves') \in Nat /\ Len(leaves) <= Len(leaves')
<1>1. nodes \in Seq(BuildNodes) /\ leaves \in Seq(Words) /\ verts \in Seq(Corner16)
  BY DEF BInv, Built, Written
<1>2. nodes[b].tris \in Seq(DOMAIN tris)
  <2> DEFINE D == Seq(DOMAIN tris)
  <2>1. nodes[b] \in NodeShape(D, Coords, [Slots -> Nat], [Slots -> Kind])
    <3>1. BuildNodes = NodeShape(D, Coords, [Slots -> Nat], [Slots -> Kind])
      BY DEF BuildNodes, NodeShape
    <3>2. nodes[b] \in BuildNodes
      BY <1>1
    <3> HIDE DEF D
    <3> QED BY <3>1, <3>2
  <2> HIDE DEF D
  <2>2. nodes[b].tris \in D
    BY <2>1 DEF NodeShape
  <2> QED BY <2>2 DEF D
<1>3. LeafTris(b) \in Seq(DOMAIN tris)
  <2> DEFINE S == DOMAIN tris
             l == Len(nodes[b].tris)
             m == Min({l, MaxLeaf})
  <2>1. nodes[b].tris \in Seq(S) /\ l \in Nat /\ MaxLeaf \in Nat
    BY <1>2, LeafAssumption
  <2> HIDE DEF S
  <2>2. m \in Nat /\ m <= l
    <3> HIDE DEF l
    <3>1. m = IF l < MaxLeaf THEN l ELSE MaxLeaf
      <4>1. l \in Int /\ MaxLeaf \in Int
        BY <2>1
      <4> QED BY <4>1, OfTwo
    <3> HIDE DEF m
    <3> QED BY <2>1, <3>1
  <2> HIDE DEF m
  <2>3. SubSeq(nodes[b].tris, 1, m) \in Seq(S)
    BY <2>1, <2>2
  <2> QED BY <2>3 DEF LeafTris, m, S
<1> DEFINE ts == LeafTris(b)
           w == LeafWords(Len(ts), Len(verts))
           v == LeafVerts(ts)
<1>4. leaves' = leaves \o w /\ verts' = verts \o v
  BY DEF EmitLeafData
<1>5. Len(ts) \in Nat /\ Len(verts) \in Nat
  BY <1>1, <1>3
<1>6. w \in Seq(Words)
  BY <1>5, WordsOf
<1>7. v \in Seq(Corner16)
  BY <1>3, VertsOf DEF BInv
<1> HIDE DEF w, v
<1>8. /\ leaves \o w \in Seq(Words) /\ verts \o v \in Seq(Corner16)
      /\ Len(leaves \o w) = Len(leaves) + Len(w) /\ Len(leaves) \in Nat /\ Len(w) \in Nat
  BY <1>1, <1>6, <1>7, ConcatProperties
<1> QED BY <1>4, <1>8

(* What a written node's record is; a new index in one slot.               *)
OutShape(K, I, C) == [type : K, index : I, mins : C, maxs : C]

(* A written node with an index filled in later stays one.                  *)
LEMMA Indexed ==
    ASSUME NEW bs \in Seq(OutNodes), NEW p \in 1 .. Len(bs), NEW q \in Slots, NEW v \in Nat
    PROVE  LET cs == [bs EXCEPT ![p].index[q] = v]
           IN  /\ cs \in Seq(OutNodes) /\ Len(cs) = Len(bs)
               /\ \A i \in 1 .. Len(bs) : \A s \in Slots :
                     cs[i].index[s] = IF i = p /\ s = q THEN v ELSE bs[i].index[s]
<1> DEFINE old == bs[p]
           ix == [old.index EXCEPT ![q] = v]
           new == [old EXCEPT !.index = ix]
           cs == [bs EXCEPT ![p].index[q] = v]
           T == [Slots -> Kind]
           I == [Slots -> Nat]
           C == [Slots -> Corner16]
<1>1. cs = [bs EXCEPT ![p] = new]
  OBVIOUS
<1>2. old \in OutNodes /\ Len(bs) \in Nat
  OBVIOUS
<1>3. OutNodes = OutShape(T, I, C)
  BY DEF OutNodes, OutShape
<1>4. old.index \in I
  <2> HIDE DEF old, T, I, C
  <2> QED BY <1>2, <1>3 DEF OutShape
<1>5. ix \in I /\ \A s \in Slots : ix[s] = IF s = q THEN v ELSE old.index[s]
  BY <1>4
<1>6. new \in OutNodes /\ new.index = ix
  <2> HIDE DEF old, T, I, C, ix
  <2> QED BY <1>2, <1>3, <1>5 DEF OutShape
<1>7. old = bs[p]
  OBVIOUS
<1> HIDE DEF old, ix, new, cs
<1>8. /\ cs \in Seq(OutNodes) /\ Len(cs) = Len(bs)
      /\ \A i \in 1 .. Len(bs) : cs[i] = IF i = p THEN new ELSE bs[i]
  BY <1>1, <1>2, <1>6, ExceptSeq
<1>9. \A i \in 1 .. Len(bs) : \A s \in Slots :
         cs[i].index[s] = IF i = p /\ s = q THEN v ELSE bs[i].index[s]
  BY <1>5, <1>6, <1>7, <1>8
<1> QED BY <1>8, <1>9 DEF cs

(* A step that writes keeps the invariant if what it writes and the calls    *)
(* it leaves are as they should be.                                        *)
LEMMA EmitKeeps ==
    ASSUME BInv, pc = "emit", tris' = tris, frame' = frame, calls' = calls, nodes' = nodes,
           blob' = blob, Written(bvh', leaves', verts'), Emitting(emits', Len(bvh')),
           pc' = IF emits' = << >> THEN "serialize" ELSE "emit"
    PROVE  BInv'
<1>1. /\ tris' \in Soups /\ Framed' /\ pc' \in {"build", "emit", "serialize", "done"}
      /\ nodes' # << >> /\ pc' # "build" /\ calls' = << >> /\ pc' # "done"
      /\ (pc' = "emit" <=> emits' # << >>)
  BY DEF BInv, Framed
<1>2. BuildNodes' = BuildNodes /\ BuildCalls' = BuildCalls
  BY DEF BuildNodes, BuildCalls
<1>3. Built(nodes)' /\ Called(calls, nodes)' /\ FirstChild(calls, nodes)'
  BY <1>2 DEF BInv, Built, Called, FirstChild
<1>4. Words' = Words /\ OutNodes' = OutNodes /\ Corner16' = Corner16 /\ EmitCalls' = EmitCalls
  BY DEF Words, OutNodes, Corner16, EmitCalls
<1>5. Written(bvh, leaves, verts)' /\ Emitting(emits, Len(bvh))'
  BY <1>4 DEF Written, Emitting
<1>6. SectionsFit'
  BY <1>1 DEF SectionsFit
<1> QED BY <1>1, <1>3, <1>5, <1>6 DEF BInv

(* The call whose turn it is to write.                                      *)
LEMMA Writer ==
    ASSUME BInv, pc = "emit"
    PROVE  /\ emits \in Seq(EmitCalls) /\ emits # << >> /\ Head(emits) = emits[1]
           /\ Head(emits).build \in 1 .. Len(nodes) /\ Head(emits).slot \in Slots
           /\ Head(emits).parent \in Nat /\ Head(emits).parent <= Len(bvh)
           /\ Head(emits).parent = 0 => Tail(emits) = << >>
           /\ \A k \in 2 .. Len(emits) : emits[k].parent # 0
<1>1. emits \in Seq(EmitCalls) /\ emits # << >> /\ Emitting(emits, Len(bvh))
  BY DEF BInv, Emitting
<1>2. 1 \in 1 .. Len(emits) /\ Head(emits) = emits[1] /\ emits[1] \in EmitCalls
  BY <1>1
<1>3. emits[1].slot \in Slots /\ emits[1].parent \in Nat
  BY <1>2 DEF EmitCalls
<1>4. /\ emits[1].build \in 1 .. Len(nodes) /\ emits[1].parent <= Len(bvh)
      /\ emits[1].parent = 0 => Len(emits) = 1
  BY <1>1, <1>2 DEF Emitting
<1>5. Len(emits) = 1 => Tail(emits) = << >>
  <2>1. Tail(emits) \in Seq(EmitCalls) /\ Len(Tail(emits)) = Len(emits) - 1
    BY <1>1
  <2> DEFINE t == Tail(emits)
  <2>2. Len(emits) = 1 => Len(t) = 0
    BY <2>1
  <2>3. t \in Seq(EmitCalls)
    BY <2>1
  <2> HIDE DEF t
  <2>4. t # << >> => Len(t) # 0
    BY <2>3, EmptySeq
  <2> QED BY <2>2, <2>4 DEF t
<1>6. \A k \in 2 .. Len(emits) : emits[k].parent # 0
  <2> SUFFICES ASSUME NEW k \in 2 .. Len(emits), emits[k].parent = 0 PROVE FALSE
    OBVIOUS
  <2>1. k \in 1 .. Len(emits) /\ Len(emits) # 1
    BY <1>1
  <2> QED BY <1>1, <2>1 DEF Emitting
<1> QED BY <1>1, <1>2, <1>3, <1>4, <1>5, <1>6

(* The calls that are left when one has written and called others.          *)
LEMMA Left ==
    ASSUME BInv, pc = "emit", NEW es \in Seq(EmitCalls), NEW n \in Nat, Len(bvh) <= n,
           \A k \in 1 .. Len(es) : /\ es[k].build \in 1 .. Len(nodes)
                                   /\ es[k].parent <= n /\ es[k].parent # 0
    PROVE  Emitting(es \o Tail(emits), n)
<1> DEFINE all == es \o Tail(emits)
           m == Len(es)
<1>1. emits \in Seq(EmitCalls) /\ emits # << >> /\ m \in Nat
  BY Writer
<1>2. /\ all \in Seq(EmitCalls)
      /\ \A k \in 1 .. m : all[k] = es[k]
      /\ \A k \in 1 .. Len(all) : k \notin 1 .. m =>
            k - m + 1 \in 2 .. Len(emits) /\ all[k] = emits[k - m + 1]
  <2>1. all \in Seq(EmitCalls) /\ Replacing(all, es, emits)
    BY <1>1, Replaced
  <2> HIDE DEF all
  <2> QED BY <2>1 DEF Replacing
<1> HIDE DEF all, m
<1>3. Len(bvh) \in Nat
  BY DEF BInv, Written
<1>4. SUFFICES ASSUME NEW k \in 1 .. Len(all)
               PROVE  /\ all[k].build \in 1 .. Len(nodes) /\ all[k].parent <= n
                      /\ all[k].parent # 0
  BY <1>2 DEF Emitting, all
<1>5. CASE k \in 1 .. m
  BY <1>2, <1>5 DEF m
<1>6. CASE k \notin 1 .. m
  <2> DEFINE j == k - m + 1
  <2>1. j \in 2 .. Len(emits) /\ all[k] = emits[j]
    BY <1>2, <1>6
  <2> HIDE DEF j
  <2>2. emits[j].parent # 0
    BY <2>1, Writer
  <2>3. j \in 1 .. Len(emits)
    BY <1>1, <2>1
  <2>4. emits[j].build \in 1 .. Len(nodes) /\ emits[j].parent <= Len(bvh)
    BY <2>3 DEF BInv, Emitting
  <2>5. emits[j].parent \in Nat
    <3>1. emits[j] \in EmitCalls
      BY <1>1, <2>3
    <3> QED BY <3>1 DEF EmitCalls
  <2> QED BY <1>3, <2>1, <2>2, <2>4, <2>5
<1> QED BY <1>5, <1>6

(* What is packed for the children of a node: their bounds, or its own.     *)
LEMMA ChildBounds ==
    ASSUME BInv, NEW b \in 1 .. Len(nodes)
    PROVE  /\ nodes[b].mins \in Coords /\ nodes[b].maxs \in Coords
           /\ nodes[b].type \in [Slots -> Kind] /\ nodes[b].child \in [Slots -> Nat]
           /\ \A s \in Slots : /\ PackMins(ChildMins(b, s)) \in Corner16
                               /\ PackMaxs(ChildMaxs(b, s)) \in Corner16
<1>1. nodes \in Seq(BuildNodes) /\ Built(nodes) /\ Framed /\ Len(nodes) \in Nat
  BY DEF BInv, Built
<1>2. \A i \in 1 .. Len(nodes) :
         /\ nodes[i].mins \in Coords /\ nodes[i].maxs \in Coords
         /\ nodes[i].type \in [Slots -> Kind] /\ nodes[i].child \in [Slots -> Nat]
  <2> TAKE i \in 1 .. Len(nodes)
  <2> DEFINE D == Seq(DOMAIN tris)
             n == nodes[i]
             K == [Slots -> Kind]
             I == [Slots -> Nat]
  <2>1. BuildNodes = NodeShape(D, Coords, I, K)
    BY DEF BuildNodes, NodeShape
  <2>2. n \in BuildNodes
    BY <1>1
  <2> HIDE DEF D, n, K, I
  <2>3. n.mins \in Coords /\ n.maxs \in Coords /\ n.type \in K /\ n.child \in I
    BY <2>1, <2>2 DEF NodeShape
  <2> QED BY <2>3 DEF n, K, I
<1>3. \A s \in Slots : ChildMins(b, s) \in Coords /\ ChildMaxs(b, s) \in Coords
  <2> TAKE s \in Slots
  <2> DEFINE c == nodes[b].child[s]
  <2>1. c \in Nat /\ c <= Len(nodes)
    BY <1>1, <1>2 DEF Built
  <2>2. CASE c = 0
    BY <1>2, <2>2 DEF ChildMins, ChildMaxs
  <2>3. CASE c # 0
    <3>1. c \in 1 .. Len(nodes)
      BY <1>1, <2>1, <2>3
    <3>2. nodes[c].mins \in Coords /\ nodes[c].maxs \in Coords
      BY <1>2, <3>1
    <3> QED BY <2>3, <3>2 DEF ChildMins, ChildMaxs
  <2> QED BY <2>2, <2>3
<1>4. \A s \in Slots : /\ PackMins(ChildMins(b, s)) \in Corner16
                       /\ PackMaxs(ChildMaxs(b, s)) \in Corner16
  BY <1>1, <1>3, PackedIs
<1> QED BY <1>2, <1>4

(* A written node from what it is made of.                                 *)
LEMMA OutNode ==
    ASSUME NEW t \in [Slots -> Kind], NEW x \in [Slots -> Nat],
           NEW lo \in [Slots -> Corner16], NEW hi \in [Slots -> Corner16]
    PROVE  LET n == [type |-> t, index |-> x, mins |-> lo, maxs |-> hi]
           IN  n \in OutNodes /\ n.index = x
<1> DEFINE K == [Slots -> Kind]
           I == [Slots -> Nat]
           C == [Slots -> Corner16]
<1>1. t \in K /\ x \in I /\ lo \in C /\ hi \in C
  OBVIOUS
<1>2. OutNodes = OutShape(K, I, C)
  BY DEF OutNodes, OutShape
<1> HIDE DEF K, I, C
<1> QED BY <1>1, <1>2 DEF OutShape

(* EmitBVH4Nodes for a tree of one leaf.                                   *)
LEMMA EmitRootLeafKeeps == ASSUME BInv, EmitRootLeaf PROVE BInv'
<1> DEFINE b == nodes[1]
           t == [s \in Slots |-> IF s = 1 THEN Poly3 ELSE None]
           x == [s \in Slots |-> IF s = 1 THEN Len(leaves) ELSE 0]
           lo == [s \in Slots |-> PackMins(IF s = 1 THEN b.mins ELSE b.maxs)]
           hi == [s \in Slots |-> PackMaxs(IF s = 1 THEN b.maxs ELSE b.mins)]
           n == [type |-> t, index |-> x, mins |-> lo, maxs |-> hi]
<1>1. /\ pc = "emit" /\ Head(emits).parent = 0 /\ EmitLeafData(1)
      /\ bvh' = <<n>> /\ emits' = Tail(emits) /\ pc' = AfterEmit(emits')
      /\ tris' = tris /\ frame' = frame /\ calls' = calls /\ nodes' = nodes /\ blob' = blob
  BY DEF EmitRootLeaf
<1>2. nodes # << >> /\ nodes \in Seq(BuildNodes) /\ Framed
  BY <1>1 DEF BInv, Built
<1>3. 1 \in 1 .. Len(nodes)
  BY <1>2
<1>4. /\ leaves' \in Seq(Words) /\ verts' \in Seq(Corner16)
      /\ Len(leaves) \in Nat /\ Len(leaves') \in Nat /\ Len(leaves) <= Len(leaves')
  BY <1>1, <1>3, LeafData
<1>5. b.mins \in Coords /\ b.maxs \in Coords
  BY <1>3, ChildBounds
<1> HIDE DEF b
<1>6. PackMins(b.mins) \in Corner16 /\ PackMaxs(b.maxs) \in Corner16
      /\ PackMins(b.maxs) \in Corner16 /\ PackMaxs(b.mins) \in Corner16
  BY <1>2, <1>5, PackedIs
<1>7. t \in [Slots -> Kind] /\ x \in [Slots -> Nat]
      /\ lo \in [Slots -> Corner16] /\ hi \in [Slots -> Corner16]
  <2>1. t \in [Slots -> Kind]
    BY DEF Kind
  <2>2. x \in [Slots -> Nat]
    BY <1>4
  <2>3. \A s \in Slots : /\ PackMins(IF s = 1 THEN b.mins ELSE b.maxs) \in Corner16
                         /\ PackMaxs(IF s = 1 THEN b.maxs ELSE b.mins) \in Corner16
    BY <1>6
  <2> QED BY <2>1, <2>2, <2>3
<1>8. \A s \in Slots : x[s] <= Len(leaves)
  BY <1>4
<1> HIDE DEF t, x, lo, hi
<1>9. n \in OutNodes /\ n.index = x
  BY <1>7, OutNode
<1> HIDE DEF n
<1>10. bvh' \in Seq(OutNodes) /\ Len(bvh') = 1 /\ \A i \in 1 .. 1 : bvh'[i] = n
  <2>1. <<n>> \in Seq(OutNodes) /\ Len(<<n>>) = 1 /\ <<n>>[1] = n
    BY <1>9
  <2> QED BY <1>1, <2>1
<1>11. Written(bvh', leaves', verts')
  <2>1. \A s \in Slots : x[s] \in Nat
    BY <1>7
  <2>2. \A i \in 1 .. Len(bvh') : \A s \in Slots :
           bvh'[i].index[s] <= Len(bvh') + Len(leaves')
    BY <1>4, <1>8, <1>9, <1>10, <2>1
  <2> QED BY <1>4, <1>10, <2>2 DEF Written
<1>12. emits' = << >>
  BY <1>1, Writer
<1>13. Emitting(emits', Len(bvh'))
  <2>1. << >> \in Seq(EmitCalls) /\ Len(<< >>) = 0
    OBVIOUS
  <2> QED BY <1>12, <2>1 DEF Emitting
<1>14. pc' = IF emits' = << >> THEN "serialize" ELSE "emit"
  BY <1>1 DEF AfterEmit
<1> QED BY <1>1, <1>11, <1>13, <1>14, EmitKeeps

(* EmitBVH4Nodes for a leaf that is a child: its index is noted.            *)
LEMMA EmitLeafChildKeeps == ASSUME BInv, EmitLeafChild PROVE BInv'
<1> DEFINE e == Head(emits)
           cs == [bvh EXCEPT ![e.parent].index[e.slot] = Len(leaves)]
<1>1. /\ pc = "emit" /\ e.parent # 0 /\ EmitLeafData(e.build)
      /\ bvh' = cs /\ emits' = Tail(emits) /\ pc' = AfterEmit(emits')
      /\ tris' = tris /\ frame' = frame /\ calls' = calls /\ nodes' = nodes /\ blob' = blob
  BY DEF EmitLeafChild
<1>2. /\ e.build \in 1 .. Len(nodes) /\ e.slot \in Slots /\ e.parent \in Nat
      /\ e.parent <= Len(bvh) /\ emits \in Seq(EmitCalls) /\ emits # << >>
  BY <1>1, Writer
<1>3. bvh \in Seq(OutNodes) /\ Len(bvh) \in Nat
      /\ \A i \in 1 .. Len(bvh) : \A s \in Slots : bvh[i].index[s] <= Len(bvh) + Len(leaves)
  BY DEF BInv, Written
<1>4. /\ leaves' \in Seq(Words) /\ verts' \in Seq(Corner16)
      /\ Len(leaves) \in Nat /\ Len(leaves') \in Nat /\ Len(leaves) <= Len(leaves')
  BY <1>1, <1>2, LeafData
<1>5. e.parent \in 1 .. Len(bvh)
  BY <1>1, <1>2, <1>3
<1> HIDE DEF e
<1>6. /\ cs \in Seq(OutNodes) /\ Len(cs) = Len(bvh)
      /\ \A i \in 1 .. Len(bvh) : \A s \in Slots :
            cs[i].index[s] = IF i = e.parent /\ s = e.slot THEN Len(leaves) ELSE bvh[i].index[s]
  <2> DEFINE p == e.parent
             q == e.slot
             v == Len(leaves)
             new == [bvh EXCEPT ![p].index[q] = v]
  <2>1. bvh \in Seq(OutNodes) /\ p \in 1 .. Len(bvh) /\ q \in Slots /\ v \in Nat
    BY <1>2, <1>3, <1>4, <1>5
  <2> HIDE DEF p, q, v
  <2>2. /\ new \in Seq(OutNodes) /\ Len(new) = Len(bvh)
        /\ \A i \in 1 .. Len(bvh) : \A s \in Slots :
              new[i].index[s] = IF i = p /\ s = q THEN v ELSE bvh[i].index[s]
    BY <2>1, Indexed
  <2> HIDE DEF new
  <2>3. cs = new
    BY DEF new, p, q, v
  <2> HIDE DEF cs
  <2> QED BY <2>2, <2>3 DEF p, q, v
<1> HIDE DEF cs
<1>7. \A i \in 1 .. Len(bvh) : \A s \in Slots : bvh[i].index[s] \in Nat
  <2> TAKE i \in 1 .. Len(bvh)
  <2>1. bvh[i] \in OutNodes
    BY <1>3
  <2> QED BY <2>1 DEF OutNodes
<1>8. Written(cs, leaves', verts')
  <2>1. \A i \in 1 .. Len(cs) : \A s \in Slots : cs[i].index[s] <= Len(cs) + Len(leaves')
    BY <1>3, <1>4, <1>6, <1>7
  <2> QED BY <1>4, <1>6, <2>1 DEF Written
<1>9. Emitting(Tail(emits), Len(cs))
  <2> DEFINE es == << >>
  <2>1. es \in Seq(EmitCalls) /\ Len(es) = 0
    OBVIOUS
  <2>2. es \o Tail(emits) = Tail(emits)
    <3>1. Tail(emits) \in Seq(EmitCalls)
      BY <1>2
    <3> QED BY <3>1, ConcatEmptySeq
  <2> HIDE DEF es
  <2>3. \A k \in 1 .. Len(es) : /\ es[k].build \in 1 .. Len(nodes)
                                /\ es[k].parent <= Len(bvh) /\ es[k].parent # 0
    BY <2>1
  <2>4. Emitting(es \o Tail(emits), Len(bvh))
    <3>1. Len(bvh) <= Len(bvh) /\ Len(bvh) \in Nat /\ pc = "emit"
      BY <1>1, <1>3
    <3> QED BY <2>1, <2>3, <3>1, Left
  <2> QED BY <1>6, <2>2, <2>4
<1>10. pc' = IF emits' = << >> THEN "serialize" ELSE "emit"
  BY <1>1 DEF AfterEmit
<1>11. Written(bvh', leaves', verts') /\ Emitting(emits', Len(bvh'))
  BY <1>1, <1>8, <1>9
<1> QED BY <1>1, <1>10, <1>11, EmitKeeps

(* Four lists in a row.                                                    *)
LEMMA InARow ==
    ASSUME NEW S, NEW q \in Seq(S), NEW r \in Seq(S), NEW s \in Seq(S), NEW t \in Seq(S)
    PROVE  /\ q \o r \o s \o t \in Seq(S)
           /\ Len(q \o r \o s \o t) = Len(q) + Len(r) + Len(s) + Len(t)
           /\ Len(q) \in Nat /\ Len(r) \in Nat /\ Len(s) \in Nat /\ Len(t) \in Nat
<1>1. q \o r \in Seq(S) /\ Len(q \o r) = Len(q) + Len(r)
  BY ConcatProperties
<1> DEFINE qr == q \o r
<1>2. qr \in Seq(S) /\ Len(qr) = Len(q) + Len(r)
  BY <1>1
<1> HIDE DEF qr
<1>3. qr \o s \in Seq(S) /\ Len(qr \o s) = Len(qr) + Len(s)
  BY <1>2, ConcatProperties
<1> DEFINE qrs == qr \o s
<1>4. qrs \in Seq(S) /\ Len(qrs) = Len(qr) + Len(s)
  BY <1>3
<1> HIDE DEF qrs
<1>5. qrs \o t \in Seq(S) /\ Len(qrs \o t) = Len(qrs) + Len(t)
  BY <1>4, ConcatProperties
<1>6. Len(q) \in Nat /\ Len(r) \in Nat /\ Len(s) \in Nat /\ Len(t) \in Nat
  OBVIOUS
<1>7. qrs \o t = q \o r \o s \o t
  BY DEF qrs, qr
<1> QED BY <1>2, <1>4, <1>5, <1>6, <1>7

(* The call of an inner node for the child in one slot, if there is one.    *)
VisitOf(b, me, s) ==
    IF nodes[b].child[s] = 0 THEN << >>
    ELSE <<[build |-> nodes[b].child[s], parent |-> me, slot |-> s]>>

(* The calls of an inner node for its children: one at least.               *)
LEMMA Visits ==
    ASSUME BInv, NEW b \in 1 .. Len(nodes), nodes[b].child[1] # 0, NEW me \in Nat \ {0}
    PROVE  LET es == VisitOf(b, me, 1) \o VisitOf(b, me, 2) \o VisitOf(b, me, 3)
                         \o VisitOf(b, me, 4)
           IN  /\ es \in Seq(EmitCalls) /\ es # << >>
               /\ \A k \in 1 .. Len(es) : /\ es[k].build \in 1 .. Len(nodes)
                                          /\ es[k].parent <= me /\ es[k].parent # 0
<1> DEFINE V(s) == VisitOf(b, me, s)
<1> DEFINE E == {e \in EmitCalls : e.build \in 1 .. Len(nodes) /\ e.parent = me}
           es == V(1) \o V(2) \o V(3) \o V(4)
<1>1. Built(nodes) /\ Len(nodes) \in Nat /\ nodes[b].child \in [Slots -> Nat]
      /\ \A s \in Slots : nodes[b].child[s] <= Len(nodes)
  BY ChildBounds DEF BInv, Built
<1>2. \A s \in Slots : V(s) \in Seq(E) /\ (nodes[b].child[s] # 0 => Len(V(s)) = 1)
  <2> TAKE s \in Slots
  <2>1. CASE nodes[b].child[s] = 0
    <3>1. V(s) = << >>
      BY <2>1 DEF VisitOf
    <3> HIDE DEF E
    <3> QED BY <2>1, <3>1
  <2>2. CASE nodes[b].child[s] # 0
    <3> DEFINE e == [build |-> nodes[b].child[s], parent |-> me, slot |-> s]
    <3>1. V(s) = <<e>>
      BY <2>2 DEF VisitOf
    <3>2. nodes[b].child[s] \in 1 .. Len(nodes)
      BY <1>1, <2>2
    <3>3. e \in E
      BY <3>2 DEF EmitCalls
    <3> HIDE DEF e, E
    <3>4. <<e>> \in Seq(E) /\ Len(<<e>>) = 1
      BY <3>3
    <3> QED BY <3>1, <3>4
  <2> QED BY <2>1, <2>2
<1> DEFINE A == V(1)
           B == V(2)
           C == V(3)
           D == V(4)
<1>3. A \in Seq(E) /\ B \in Seq(E) /\ C \in Seq(E) /\ D \in Seq(E) /\ Len(A) = 1
  BY <1>2 DEF Slots
<1> HIDE DEF A, B, C, D, E
<1>4. Len(A) \in Nat /\ Len(B) \in Nat /\ Len(C) \in Nat /\ Len(D) \in Nat
  BY <1>3, InARow
<1>5. /\ A \o B \o C \o D \in Seq(E)
      /\ Len(A \o B \o C \o D) = Len(A) + Len(B) + Len(C) + Len(D)
  <2>1. A \in Seq(E) /\ B \in Seq(E) /\ C \in Seq(E) /\ D \in Seq(E)
    BY <1>3
  <2> QED BY <2>1, InARow
<1>7. es = A \o B \o C \o D
  BY DEF A, B, C, D
<1> HIDE DEF es
<1>8. es \in Seq(E) /\ Len(es) # 0
  BY <1>3, <1>4, <1>5, <1>7
<1>9. \A k \in 1 .. Len(es) : es[k] \in E
  BY <1>8
<1>10. \A k \in 1 .. Len(es) : /\ es[k] \in EmitCalls /\ es[k].build \in 1 .. Len(nodes)
                               /\ es[k].parent <= me /\ es[k].parent # 0
  BY <1>9 DEF E
<1>11. es # << >>
  BY <1>8
<1>12. es \in Seq(EmitCalls)
  <2>1. E \subseteq EmitCalls
    BY DEF E
  <2> QED BY <1>8, <2>1
<1> QED BY <1>10, <1>11, <1>12 DEF es

(* EmitBVH4Nodes for an inner node: it is written, and its children next.   *)
LEMMA EmitInnerKeeps == ASSUME BInv, EmitInner PROVE BInv'
<1> DEFINE e == Head(emits)
           i == e.build
           b == nodes[i]
           linked == IF e.parent = 0 THEN bvh
                     ELSE [bvh EXCEPT ![e.parent].index[e.slot] = Len(bvh)]
           me == Len(bvh) + 1
           V(s) == IF b.child[s] = 0 THEN << >>
                   ELSE <<[build |-> b.child[s], parent |-> me, slot |-> s]>>
           x == [s \in Slots |-> 0]
           lo == [s \in Slots |-> PackMins(ChildMins(i, s))]
           hi == [s \in Slots |-> PackMaxs(ChildMaxs(i, s))]
           n == [type |-> b.type, index |-> x, mins |-> lo, maxs |-> hi]
           cs == Append(linked, n)
           es == V(1) \o V(2) \o V(3) \o V(4)
<1>1. /\ pc = "emit" /\ ~b.isLeaf /\ bvh' = cs /\ emits' = es \o Tail(emits) /\ pc' = pc
      /\ tris' = tris /\ frame' = frame /\ calls' = calls /\ nodes' = nodes /\ blob' = blob
      /\ leaves' = leaves /\ verts' = verts
  BY DEF EmitInner
<1>2. /\ i \in 1 .. Len(nodes) /\ e.slot \in Slots /\ e.parent \in Nat
      /\ e.parent <= Len(bvh) /\ emits \in Seq(EmitCalls) /\ emits # << >>
  BY <1>1, Writer
<1>3. /\ bvh \in Seq(OutNodes) /\ Len(bvh) \in Nat /\ leaves \in Seq(Words)
      /\ verts \in Seq(Corner16) /\ Len(leaves) \in Nat /\ me \in Nat \ {0}
      /\ \A k \in 1 .. Len(bvh) : \A s \in Slots : bvh[k].index[s] <= Len(bvh) + Len(leaves)
  BY DEF BInv, Written
<1>4. b.child[1] # 0
  <2>1. calls = << >> /\ FirstChild(calls, nodes)
    BY <1>1 DEF BInv
  <2>2. i \in 1 .. Len(nodes) /\ ~nodes[i].isLeaf /\ Len(calls) = 0
    BY <1>1, <1>2, <2>1
  <2> HIDE DEF i
  <2> QED BY <2>1, <2>2 DEF FirstChild
<1>5. /\ es \in Seq(EmitCalls) /\ es # << >>
      /\ \A k \in 1 .. Len(es) : /\ es[k].build \in 1 .. Len(nodes)
                                 /\ es[k].parent <= me /\ es[k].parent # 0
  <2>1. es = VisitOf(i, me, 1) \o VisitOf(i, me, 2) \o VisitOf(i, me, 3) \o VisitOf(i, me, 4)
    BY DEF VisitOf
  <2>2. nodes[i].child[1] # 0
    BY <1>4
  <2> HIDE DEF es, me, i
  <2> QED BY <1>2, <1>3, <2>1, <2>2, Visits
<1> HIDE DEF V, es
<1>6. /\ b.type \in [Slots -> Kind]
      /\ \A s \in Slots : /\ PackMins(ChildMins(i, s)) \in Corner16
                          /\ PackMaxs(ChildMaxs(i, s)) \in Corner16
  BY <1>2, ChildBounds
<1> HIDE DEF e, i, b
<1>7. lo \in [Slots -> Corner16] /\ hi \in [Slots -> Corner16] /\ x \in [Slots -> Nat]
  BY <1>6
<1>8. \A s \in Slots : x[s] = 0
  OBVIOUS
<1> HIDE DEF x, lo, hi
<1>9. n \in OutNodes /\ n.index = x
  BY <1>6, <1>7, OutNode
<1> HIDE DEF n
<1>10. \A k \in 1 .. Len(bvh) : \A s \in Slots : bvh[k].index[s] \in Nat
  <2> TAKE k \in 1 .. Len(bvh)
  <2>1. bvh[k] \in OutNodes
    BY <1>3
  <2> QED BY <2>1 DEF OutNodes
<1>11. /\ linked \in Seq(OutNodes) /\ Len(linked) = Len(bvh)
       /\ \A k \in 1 .. Len(bvh) : \A s \in Slots :
             linked[k].index[s] <= Len(bvh) + Len(leaves)
  <2>1. CASE e.parent = 0
    <3>1. linked = bvh
      BY <2>1
    <3> HIDE DEF linked
    <3> QED BY <1>3, <3>1
  <2>2. CASE e.parent # 0
    <3> DEFINE p == e.parent
               q == e.slot
               v == Len(bvh)
               new == [bvh EXCEPT ![p].index[q] = v]
    <3>1. bvh \in Seq(OutNodes) /\ p \in 1 .. Len(bvh) /\ q \in Slots /\ v \in Nat
      BY <1>2, <1>3, <2>2
    <3>2. linked = new
      BY <2>2
    <3> HIDE DEF p, q, v, linked
    <3>3. /\ new \in Seq(OutNodes) /\ Len(new) = Len(bvh)
          /\ \A k \in 1 .. Len(bvh) : \A s \in Slots :
                new[k].index[s] = IF k = p /\ s = q THEN v ELSE bvh[k].index[s]
      BY <3>1, Indexed
    <3> HIDE DEF new
    <3>4. v <= Len(bvh) + Len(leaves)
      BY <1>3 DEF v
    <3>5. \A k \in 1 .. Len(bvh) : \A s \in Slots :
             linked[k].index[s] <= Len(bvh) + Len(leaves)
      BY <1>3, <3>2, <3>3, <3>4
    <3> QED BY <3>2, <3>3, <3>5
  <2> QED BY <2>1, <2>2
<1>12. \A k \in 1 .. Len(bvh) : \A s \in Slots : linked[k].index[s] \in Nat
  <2> TAKE k \in 1 .. Len(bvh)
  <2> HIDE DEF linked
  <2>1. linked[k] \in OutNodes
    BY <1>11
  <2> QED BY <2>1 DEF OutNodes
<1> HIDE DEF linked
<1>13. /\ cs \in Seq(OutNodes) /\ Len(cs) = me /\ cs[me] = n
       /\ \A k \in 1 .. Len(bvh) : cs[k] = linked[k]
  BY <1>3, <1>9, <1>11
<1> HIDE DEF cs
<1>14. Written(cs, leaves, verts)
  <2> SUFFICES ASSUME NEW k \in 1 .. Len(cs), NEW s \in Slots
               PROVE  cs[k].index[s] <= Len(cs) + Len(leaves)
    BY <1>3, <1>13 DEF Written
  <2>1. CASE k = me
    BY <1>3, <1>8, <1>9, <1>13, <2>1
  <2>2. CASE k \in 1 .. Len(bvh)
    <3>1. cs[k].index[s] = linked[k].index[s]
      BY <1>13, <2>2
    <3> QED BY <1>3, <1>11, <1>12, <1>13, <2>2, <3>1
  <2> QED BY <1>3, <1>13, <2>1, <2>2
<1>15. Emitting(es \o Tail(emits), me)
  <2>1. Len(bvh) <= me
    BY <1>3
  <2> HIDE DEF me
  <2> QED BY <1>1, <1>3, <1>5, <2>1, Left
<1>16. emits' # << >>
  <2>1. Len(es \o Tail(emits)) = Len(es) + Len(emits) - 1
    BY <1>2, <1>5, Replaced DEF Replacing
  <2>2. Len(es) \in Nat \ {0} /\ Len(emits) \in Nat \ {0}
    BY <1>2, <1>5
  <2>3. Len(emits') # 0
    BY <1>1, <2>1, <2>2
  <2> QED BY <2>3
<1>17. pc' = IF emits' = << >> THEN "serialize" ELSE "emit"
  BY <1>1, <1>16
<1>18. Written(bvh', leaves', verts') /\ Emitting(emits', Len(bvh'))
  BY <1>1, <1>13, <1>14, <1>15
<1> QED BY <1>1, <1>17, <1>18, EmitKeeps

-----------------------------------------------------------------------------
(* The sections, the start and every step.                                 *)

(* A number aligned up to 4 or to 64.                                      *)
LEMMA Aligned ==
    ASSUME NEW n \in Nat
    PROVE  /\ AlignUp(n, 4) \in Nat /\ n <= AlignUp(n, 4)
           /\ AlignUp(n, 64) \in Nat /\ n <= AlignUp(n, 64) /\ AlignUp(n, 64) % 64 = 0
BY DEF AlignUp

(* R5_BuildBVHCollision, step 5: the sections follow each other.            *)
LEMMA SerializeKeeps == ASSUME BInv, Serialize PROVE BInv'
<1> DEFINE v == Len(verts)
           l == Len(leaves)
           n == Len(bvh)
           leafOfs == AlignUp(72 + 6 * v, 4)
           nodesOfs == AlignUp(leafOfs + 4 * l, 64)
           total == AlignUp(nodesOfs + 64 * n, 4)
<1>1. /\ pc = "serialize" /\ pc' = "done"
      /\ blob' = [packedVertsOfs |-> 72, leafDataOfs |-> leafOfs, nodesOfs |-> nodesOfs,
                  total |-> total]
      /\ tris' = tris /\ frame' = frame /\ calls' = calls /\ nodes' = nodes
      /\ emits' = emits /\ bvh' = bvh /\ leaves' = leaves /\ verts' = verts
  BY DEF Serialize, NodeSection
<1>2. v \in Nat /\ l \in Nat /\ n \in Nat
  BY DEF BInv, Written
<1> HIDE DEF v, l, n
<1>3. 72 + 6 * v <= leafOfs /\ leafOfs \in Nat
  BY <1>2, Aligned
<1> HIDE DEF leafOfs
<1>4. leafOfs + 4 * l <= nodesOfs /\ nodesOfs \in Nat /\ nodesOfs % 64 = 0
  BY <1>2, <1>3, Aligned
<1> HIDE DEF nodesOfs
<1>5. nodesOfs + 64 * n <= total
  BY <1>2, <1>4, Aligned
<1> HIDE DEF total
<1>6. SectionsFit'
  BY <1>1, <1>3, <1>4, <1>5 DEF SectionsFit, v, l, n
<1>7. /\ tris' \in Soups /\ Framed' /\ pc' \in {"build", "emit", "serialize", "done"}
      /\ nodes' # << >> /\ calls' = << >> /\ emits' = << >>
  BY <1>1 DEF BInv, Framed
<1>8. BuildNodes' = BuildNodes /\ BuildCalls' = BuildCalls
  BY <1>1 DEF BuildNodes, BuildCalls
<1>9. Built(nodes)' /\ Called(calls, nodes)' /\ FirstChild(calls, nodes)'
  BY <1>1, <1>8 DEF BInv, Built, Called, FirstChild
<1>10. Words' = Words /\ OutNodes' = OutNodes /\ Corner16' = Corner16 /\ EmitCalls' = EmitCalls
  BY DEF Words, OutNodes, Corner16, EmitCalls
<1>11. Written(bvh, leaves, verts)' /\ Emitting(emits, Len(bvh))'
  BY <1>1, <1>10 DEF BInv, Written, Emitting
<1> QED BY <1>1, <1>6, <1>7, <1>9, <1>11 DEF BInv

(* At the start one call is to be made, for all triangles.                  *)
LEMMA InitBInv == ASSUME Init PROVE BInv
<1> DEFINE all == [i \in DOMAIN tris |-> i]
           c == Call(all, 0, 0, 1)
           n == Len(tris)
<1>1. /\ pc = "build" /\ tris \in Soups /\ tris # << >>
      /\ frame = [mins |-> Mins(DOMAIN tris), maxs |-> Maxs(DOMAIN tris)]
      /\ calls = <<c>> /\ nodes = << >> /\ emits = << >> /\ bvh = << >>
      /\ leaves = << >> /\ verts = << >>
  BY DEF Init
<1>2. n \in Nat \ {0} /\ DOMAIN tris = 1 .. n /\ n <= Capacity[MaxDepth] /\ DOMAIN tris # {}
  <2>1. tris \in Seq(Triangles) /\ DOMAIN tris = 1 .. n /\ n <= Capacity[MaxDepth]
    BY <1>1, Soup
  <2>2. n \in Nat \ {0}
    BY <1>1, <2>1, EmptySeq
  <2>3. 1 \in DOMAIN tris
    BY <2>1, <2>2
  <2> QED BY <2>1, <2>2, <2>3
<1>3. Framed
  BY <1>1, <1>2, Bounds DEF Framed
<1>4. all \in Seq(DOMAIN tris) /\ Len(all) = n /\ all # << >>
  <2>1. all \in [1 .. n -> 1 .. n]
    BY <1>2
  <2>2. all \in Seq(1 .. n) /\ Len(all) = n
    BY <1>2, <2>1
  <2> HIDE DEF all
  <2> QED BY <1>2, <2>2
<1>5. c \in BuildCalls /\ c.tris = all /\ c.depth = 0 /\ c.parent = 0
  <2> DEFINE D == Seq(DOMAIN tris)
  <2>1. BuildCalls = [tris : D, depth : 0 .. MaxDepth, parent : Nat, slot : Slots]
    BY DEF BuildCalls
  <2>2. all \in D /\ 0 \in 0 .. MaxDepth /\ 1 \in Slots
    BY <1>4, DepthAssumption DEF Slots
  <2> HIDE DEF D, all
  <2> QED BY <2>1, <2>2 DEF Call
<1> HIDE DEF c, all
<1>6. MaxDepth - 0 = MaxDepth
  BY DepthAssumption
<1>7. calls \in Seq(BuildCalls) /\ Len(calls) = 1 /\ calls # << >> /\ \A k \in 1 .. 1 : calls[k] = c
  <2>1. <<c>> \in Seq(BuildCalls) /\ Len(<<c>>) = 1 /\ <<c>>[1] = c /\ <<c>> # << >>
    BY <1>5
  <2> QED BY <1>1, <2>1
<1>8. nodes \in Seq(BuildNodes) /\ Len(nodes) = 0
  <2>1. << >> \in Seq(BuildNodes) /\ Len(<< >>) = 0
    OBVIOUS
  <2> QED BY <1>1, <2>1
<1>9. Built(nodes) /\ FirstChild(calls, nodes)
  BY <1>8 DEF Built, FirstChild
<1>10. Called(calls, nodes)
  <2>1. \A k \in 1 .. Len(calls) : /\ calls[k].tris # << >> /\ calls[k].parent = 0
                                   /\ Len(calls[k].tris) <= Capacity[MaxDepth - calls[k].depth]
    BY <1>2, <1>4, <1>5, <1>6, <1>7
  <2>2. 0 <= Len(nodes)
    BY <1>8
  <2> QED BY <1>7, <2>1, <2>2 DEF Called
<1>11. Emitting(emits, Len(bvh))
  <2>1. << >> \in Seq(EmitCalls) /\ Len(<< >>) = 0
    OBVIOUS
  <2>2. emits \in Seq(EmitCalls) /\ Len(emits) = 0
    BY <1>1, <2>1
  <2> QED BY <2>2 DEF Emitting
<1>12. Written(bvh, leaves, verts)
  <2>1. << >> \in Seq(OutNodes) /\ << >> \in Seq(Words) /\ << >> \in Seq(Corner16)
        /\ Len(<< >>) = 0
    OBVIOUS
  <2>2. bvh \in Seq(OutNodes) /\ leaves \in Seq(Words) /\ verts \in Seq(Corner16)
        /\ Len(bvh) = 0
    BY <1>1, <2>1
  <2> QED BY <2>2 DEF Written
<1>13. SectionsFit
  BY <1>1 DEF SectionsFit
<1> QED BY <1>1, <1>3, <1>7, <1>9, <1>10, <1>11, <1>12, <1>13 DEF BInv

(* Every step keeps the invariant.                                         *)
LEMMA NextBInv == ASSUME BInv, [Next]_vars PROVE BInv'
<1>1. CASE BuildLeaf
  BY <1>1, BuildLeafKeeps
<1>2. CASE BuildInner
  BY <1>2, BuildInnerKeeps
<1>3. CASE EmitRootLeaf
  BY <1>3, EmitRootLeafKeeps
<1>4. CASE EmitLeafChild
  BY <1>4, EmitLeafChildKeeps
<1>5. CASE EmitInner
  BY <1>5, EmitInnerKeeps
<1>6. CASE Serialize
  BY <1>6, SerializeKeeps
<1>7. CASE UNCHANGED vars
  <2>1. /\ pc' = pc /\ tris' = tris /\ frame' = frame /\ calls' = calls /\ nodes' = nodes
        /\ emits' = emits /\ bvh' = bvh /\ leaves' = leaves /\ verts' = verts /\ blob' = blob
    BY <1>7 DEF vars
  <2>2. BuildNodes' = BuildNodes /\ BuildCalls' = BuildCalls
    BY <2>1 DEF BuildNodes, BuildCalls
  <2>3. Built(nodes)' /\ Called(calls, nodes)' /\ FirstChild(calls, nodes)' /\ Framed'
    BY <2>1, <2>2 DEF BInv, Built, Called, FirstChild, Framed
  <2>4. Words' = Words /\ OutNodes' = OutNodes /\ Corner16' = Corner16 /\ EmitCalls' = EmitCalls
    BY DEF Words, OutNodes, Corner16, EmitCalls
  <2>5. Written(bvh, leaves, verts)' /\ Emitting(emits, Len(bvh))' /\ SectionsFit'
    BY <2>1, <2>4 DEF BInv, Written, Emitting, SectionsFit
  <2> QED BY <2>1, <2>3, <2>5 DEF BInv
<1> QED BY <1>1, <1>2, <1>3, <1>4, <1>5, <1>6, <1>7 DEF Next

-----------------------------------------------------------------------------
(* What follows.                                                           *)

(* The invariant gives every node its type.                                *)
LEMMA TypedNodes ==
    ASSUME BInv
    PROVE  \A n \in Range(nodes) :
              /\ n.isLeaf => Range(n.type) = {None}
              /\ \A s \in Slots : n.child[s] \in 0 .. Len(nodes) /\ n.type[s] \in {Node, None, Poly3}
<1>1. nodes \in Seq(BuildNodes) /\ Built(nodes) /\ Len(nodes) \in Nat
  BY DEF BInv, Built
<1> SUFFICES ASSUME NEW i \in 1 .. Len(nodes)
             PROVE  /\ nodes[i].isLeaf => Range(nodes[i].type) = {None}
                    /\ \A s \in Slots : /\ nodes[i].child[s] \in 0 .. Len(nodes)
                                        /\ nodes[i].type[s] \in {Node, None, Poly3}
  <2>1. \A n \in Range(nodes) : \E i \in 1 .. Len(nodes) : n = nodes[i]
    BY <1>1 DEF Range
  <2> QED BY <2>1
<1>2. nodes[i].type \in [Slots -> Kind] /\ nodes[i].child \in [Slots -> Nat]
  BY ChildBounds
<1>3. \A s \in Slots : nodes[i].child[s] <= Len(nodes)
  BY <1>1 DEF Built
<1>4. ASSUME nodes[i].isLeaf PROVE Range(nodes[i].type) = {None}
  <2>1. \A s \in Slots : nodes[i].type[s] = None
    BY <1>1, <1>4 DEF Built
  <2>2. 1 \in Slots
    BY DEF Slots
  <2> QED BY <1>2, <2>1, <2>2 DEF Range
<1> QED BY <1>1, <1>2, <1>3, <1>4 DEF Kind

(* The invariant is as strong as the types.                                *)
LEMMA Typed == ASSUME BInv PROVE TypeOK
<1>1. \A c \in Range(calls) : c.depth \in 0 .. MaxDepth /\ c.tris # << >>
  <2>1. calls \in Seq(BuildCalls)
    BY DEF BInv, Called
  <2> SUFFICES ASSUME NEW k \in 1 .. Len(calls)
               PROVE  calls[k].depth \in 0 .. MaxDepth /\ calls[k].tris # << >>
    BY <2>1 DEF Range
  <2>2. calls[k].depth \in 0 .. MaxDepth
    <3> DEFINE D == Seq(DOMAIN tris)
    <3>1. BuildCalls = [tris : D, depth : 0 .. MaxDepth, parent : Nat, slot : Slots]
      BY DEF BuildCalls
    <3>2. calls[k] \in BuildCalls
      BY <2>1
    <3> HIDE DEF D
    <3> QED BY <3>1, <3>2
  <2> QED BY <2>2 DEF BInv, Called
<1>2. \A n \in Range(bvh) : \A s \in Slots :
         /\ n.index[s] \in 0 .. (Len(bvh) + Len(leaves))
         /\ Range(n.mins[s]) \cup Range(n.maxs[s]) \subseteq (-Int16Max - 1) .. Int16Max
  <2>1. bvh \in Seq(OutNodes) /\ Len(bvh) \in Nat /\ Len(leaves) \in Nat
    BY DEF BInv, Written
  <2> SUFFICES ASSUME NEW i \in 1 .. Len(bvh), NEW s \in Slots
               PROVE  /\ bvh[i].index[s] \in 0 .. (Len(bvh) + Len(leaves))
                      /\ Range(bvh[i].mins[s]) \subseteq (-Int16Max - 1) .. Int16Max
                      /\ Range(bvh[i].maxs[s]) \subseteq (-Int16Max - 1) .. Int16Max
    BY <2>1 DEF Range
  <2>2. bvh[i] \in OutNodes
    BY <2>1
  <2>3. bvh[i].index[s] \in Nat /\ bvh[i].mins[s] \in Corner16 /\ bvh[i].maxs[s] \in Corner16
    BY <2>2 DEF OutNodes
  <2>4. bvh[i].index[s] <= Len(bvh) + Len(leaves)
    BY DEF BInv, Written
  <2>5. \A x \in Corner16 : Range(x) \subseteq (-Int16Max - 1) .. Int16Max
    BY DEF Corner16, Int16, Range
  <2> QED BY <2>1, <2>3, <2>4, <2>5
<1>3. \A v \in Range(verts) : Range(v) \subseteq (-Int16Max - 1) .. Int16Max
  <2>1. verts \in Seq(Corner16)
    BY DEF BInv, Written
  <2>2. \A i \in DOMAIN verts : verts[i] \in Corner16
    BY <2>1
  <2>3. \A x \in Corner16 : Range(x) \subseteq (-Int16Max - 1) .. Int16Max
    BY DEF Corner16, Int16, Range
  <2> QED BY <2>2, <2>3 DEF Range
<1>4. pc \in {"build", "emit", "serialize", "done"} /\ tris \in Soups
  BY DEF BInv
<1> QED BY <1>1, <1>2, <1>3, <1>4, TypedNodes DEF TypeOK

(* In every state what the blob is made of is typed, every packed vertex is *)
(* near its triangle's, no leaf of the build tree holds more than is        *)
(* written, and the sections of the blob follow each other                 *)
(* (R5_BuildBVHCollision, BuildBVH4Node, EmitBVH4Nodes, EmitPoly3Leaf).     *)
THEOREM BlobPackedHolds == Spec => []BlobPacked
<1>1. Init => BInv
  BY InitBInv
<1>2. BInv /\ [Next]_vars => BInv'
  BY NextBInv
<1>3. BInv => BlobPacked
  <2> SUFFICES ASSUME BInv PROVE BlobPacked
    OBVIOUS
  <2>1. VerticesNear
    BY Near DEF BInv
  <2>2. LeavesFit
    <3>1. nodes \in Seq(BuildNodes)
      BY DEF BInv, Built
    <3> QED BY <3>1 DEF BInv, Built, LeavesFit, Range
  <2> QED BY <2>1, <2>2, Typed DEF BlobPacked, BInv
<1> QED BY <1>1, <1>2, <1>3, PTL DEF Spec

-----------------------------------------------------------------------------
(* Every triangle once, while the tree is built.                           *)

(* The stack without its top, behind the calls, holds what the calls and    *)
(* the rest hold, once each.                                               *)
LEMMA Popped ==
    ASSUME NEW S, NEW cs \in Seq(S), cs # << >>, IsInjective(cs),
           NEW es \in Seq(S), IsInjective(es), \A x \in Range(es) : x \notin Range(cs)
    PROVE  /\ IsInjective(es \o Tail(cs))
           /\ Range(es \o Tail(cs)) = Range(es) \cup (Range(cs) \ {cs[1]})
<1> DEFINE all == es \o Tail(cs)
           m == Len(es)
           l == Len(cs)
<1>1. /\ m \in Nat /\ l \in Nat \ {0} /\ all \in Seq(S) /\ DOMAIN all = 1 .. Len(all)
      /\ Len(all) \in Nat /\ DOMAIN es = 1 .. m /\ DOMAIN cs = 1 .. l
  <2>1. all \in Seq(S)
    BY Replaced
  <2> HIDE DEF all
  <2> QED BY <2>1
<1>2. /\ Len(all) = m + l - 1
      /\ \A k \in 1 .. m : all[k] = es[k]
      /\ \A k \in 1 .. Len(all) : k \notin 1 .. m =>
            k - m + 1 \in 2 .. l /\ all[k] = cs[k - m + 1]
      /\ \A j \in 2 .. l : m + j - 1 \in 1 .. Len(all) /\ all[m + j - 1] = cs[j]
  <2>1. Replacing(all, es, cs)
    BY Replaced
  <2> HIDE DEF all
  <2> QED BY <2>1 DEF Replacing
<1> HIDE DEF all
<1>3. /\ \A i, j \in 1 .. m : es[i] = es[j] => i = j
      /\ \A i, j \in 1 .. l : cs[i] = cs[j] => i = j
      /\ \A i \in 1 .. m : \A j \in 1 .. l : es[i] # cs[j]
  BY <1>1 DEF IsInjective, Range
<1> HIDE DEF m, l
<1>4. ASSUME NEW i \in 1 .. Len(all), NEW j \in 1 .. Len(all), all[i] = all[j] PROVE i = j
  <2>1. CASE i \in 1 .. m /\ j \in 1 .. m
    BY <1>2, <1>3, <1>4, <2>1
  <2>2. CASE i \in 1 .. m /\ j \notin 1 .. m
    <3>1. es[i] = cs[j - m + 1] /\ j - m + 1 \in 1 .. l
      BY <1>1, <1>2, <1>4, <2>2
    <3> QED BY <1>3, <2>2, <3>1
  <2>3. CASE i \notin 1 .. m /\ j \in 1 .. m
    <3>1. es[j] = cs[i - m + 1] /\ i - m + 1 \in 1 .. l
      BY <1>1, <1>2, <1>4, <2>3
    <3> QED BY <1>3, <2>3, <3>1
  <2>4. CASE i \notin 1 .. m /\ j \notin 1 .. m
    <3>1. /\ cs[i - m + 1] = cs[j - m + 1] /\ j - m + 1 \in 1 .. l /\ i - m + 1 \in 1 .. l
      BY <1>1, <1>2, <1>4, <2>4
    <3>2. i - m + 1 = j - m + 1
      BY <1>3, <3>1
    <3> QED BY <1>1, <3>2
  <2> QED BY <2>1, <2>2, <2>3, <2>4
<1>5. ASSUME NEW x \in Range(all) PROVE x \in Range(es) \cup (Range(cs) \ {cs[1]})
  <2>1. PICK k \in 1 .. Len(all) : x = all[k]
    BY <1>1 DEF Range
  <2>2. CASE k \in 1 .. m
    BY <1>1, <1>2, <2>1, <2>2 DEF Range
  <2>3. CASE k \notin 1 .. m
    <3>1. PICK j \in 2 .. l : x = cs[j]
      BY <1>2, <2>1, <2>3
    <3>2. j \in 1 .. l /\ 1 \in 1 .. l /\ j # 1
      BY <1>1
    <3>3. cs[j] # cs[1] /\ cs[j] \in Range(cs)
      BY <1>1, <1>3, <3>2 DEF Range
    <3> QED BY <3>1, <3>3
  <2> QED BY <2>2, <2>3
<1>6. ASSUME NEW x \in Range(es) PROVE x \in Range(all)
  <2>1. PICK k \in 1 .. m : x = es[k]
    BY <1>1 DEF Range
  <2>2. k \in 1 .. Len(all) /\ all[k] = x
    BY <1>1, <1>2, <2>1
  <2> QED BY <1>1, <2>2 DEF Range
<1>7. ASSUME NEW x \in Range(cs) \ {cs[1]} PROVE x \in Range(all)
  <2>1. PICK j \in 1 .. l : x = cs[j]
    BY <1>1 DEF Range
  <2>2. j \in 2 .. l
    BY <1>1, <2>1
  <2>3. m + j - 1 \in 1 .. Len(all) /\ all[m + j - 1] = x
    BY <1>2, <2>1, <2>2
  <2> QED BY <1>1, <2>3 DEF Range
<1>8. IsInjective(all)
  BY <1>1, <1>4 DEF IsInjective
<1>9. Range(all) = Range(es) \cup (Range(cs) \ {cs[1]})
  BY <1>5, <1>6, <1>7
<1> QED BY <1>8, <1>9 DEF all

(* Sorting leaves each triangle of a list without repetition once.          *)
LEMMA Sorted ==
    ASSUME NEW S, NEW ts \in Seq(S), IsInjective(ts), NEW s \in SortedOrders(ts)
    PROVE  IsInjective(s) /\ Range(s) = Range(ts) /\ DOMAIN s = 1 .. Len(s)
<1> DEFINE D == DOMAIN ts
           R == Range(ts)
<1>1. s \in [D -> R] /\ Range(s) = R
  BY DEF SortedOrders
<1>2. D = 1 .. Len(ts) /\ Len(ts) \in Nat /\ s \in Seq(R)
  <2>1. D = 1 .. Len(ts) /\ Len(ts) \in Nat
    OBVIOUS
  <2> HIDE DEF D, R
  <2> QED BY <1>1, <2>1
<1>3. IsFiniteSet(D)
  <2>1. Len(ts) \in Int /\ 1 \in Int
    BY <1>2
  <2> QED BY <1>2, <2>1, FS_Interval
<1>4. ts \in [D -> R] /\ \A y \in R : \E x \in D : ts[x] = y
  BY <1>2 DEF Range
<1>5. ts \in Surjection(D, R)
  BY <1>4 DEF Surjection
<1>6. ts \in Injection(D, R)
  BY <1>4 DEF Injection
<1>7. s \in Surjection(D, R)
  <2>1. \A y \in R : \E x \in D : s[x] = y
    <3>1. DOMAIN s = D
      BY <1>1
    <3>2. \A y \in Range(s) : \E x \in DOMAIN s : s[x] = y
      BY DEF Range
    <3> QED BY <1>1, <3>1, <3>2
  <2> QED BY <1>1, <2>1 DEF Surjection
<1> HIDE DEF D, R
<1>8. Cardinality(R) = Cardinality(D)
  BY <1>3, <1>5, <1>6, FS_Surjection
<1>9. s \in Injection(D, R)
  BY <1>3, <1>7, <1>8, FS_Surjection
<1>10. DOMAIN s = 1 .. Len(s)
  BY <1>2
<1> QED BY <1>1, <1>9, <1>10 DEF Injection, R

(* Where a number is, counted in groups of the same size.                   *)
LEMMA Grouped ==
    ASSUME NEW x \in Nat \ {0}, NEW d \in Nat \ {0}
    PROVE  LET g == (x - 1) \div d + 1
               r == x - (g - 1) * d
           IN  g \in Nat \ {0} /\ r \in 1 .. d /\ x = (g - 1) * d + r
<1> DEFINE q == (x - 1) \div d
<1>1. q \in Nat /\ q * d <= x - 1 /\ x - 1 < q * d + d
  BY Division
<1> HIDE DEF q
<1>2. (q + 1) - 1 = q
  BY <1>1
<1> DEFINE p == q * d
<1>3. p \in Nat /\ p <= x - 1 /\ x - 1 < p + d
  BY <1>1
<1> HIDE DEF p
<1>4. x - p \in 1 .. d /\ x = p + (x - p) /\ q + 1 \in Nat \ {0}
  BY <1>1, <1>3
<1> QED BY <1>2, <1>4 DEF p, q

(* Two numbers in the same place of the same group are the same.            *)
LEMMA SameGroup ==
    ASSUME NEW g \in Nat, NEW h \in Nat, NEW d \in Nat \ {0}, NEW r \in 1 .. d, NEW t \in 1 .. d,
           g * d + r = h * d + t
    PROVE  g = h /\ r = t
<1>1. CASE g < h
  <2>1. h = g + 1 + (h - g - 1) /\ h - g - 1 \in Nat
    BY <1>1
  <2>2. h * d = g * d + d + (h - g - 1) * d /\ (h - g - 1) * d \in Nat /\ g * d \in Nat
    BY <2>1
  <2> QED BY <2>2
<1>2. CASE h < g
  <2>1. g = h + 1 + (g - h - 1) /\ g - h - 1 \in Nat
    BY <1>2
  <2>2. g * d = h * d + d + (g - h - 1) * d /\ (g - h - 1) * d \in Nat /\ h * d \in Nat
    BY <2>1
  <2> QED BY <2>2
<1>3. CASE g = h
  <2> DEFINE p == g * d
  <2>1. p \in Int /\ p + r = p + t
    BY <1>3
  <2> HIDE DEF p
  <2> QED BY <1>3, <2>1
<1> QED BY <1>1, <1>2, <1>3

(* Where the parts of a list are in it.                                     *)
PartsOf(s, per) ==
    /\ \A p \in DOMAIN Parts(s) : \A k \in DOMAIN Parts(s)[p] :
          /\ p \in Nat \ {0} /\ k \in 1 .. per
          /\ (p - 1) * per + k \in 1 .. Len(s) /\ Parts(s)[p][k] = s[(p - 1) * per + k]
    /\ \A x \in 1 .. Len(s) : \E p \in DOMAIN Parts(s) : \E k \in DOMAIN Parts(s)[p] :
          (p - 1) * per + k = x

(* The parts lie next to each other and cover the list.                     *)
LEMMA PartsCover ==
    ASSUME NEW S, NEW s \in Seq(S), Len(s) >= 2
    PROVE  \E per \in Nat \ {0} : PartsOf(s, per)
<1> DEFINE count == Len(s)
           n == IF count >= FourWayAt THEN 4 ELSE 2
           per == (count + n - 1) \div n
           full == (count + per - 1) \div per
           b(p) == Min({p * per, count})
           part(p) == SubSeq(s, (p - 1) * per + 1, b(p))
<1>1. count \in Nat /\ n \in {2, 4} /\ count >= 2 /\ count <= 2 * count
  OBVIOUS
<1>2. /\ per \in Nat \ {0} /\ full \in 1 .. 4
      /\ \A p \in 1 .. full : (p - 1) * per \in Nat /\ (p - 1) * per < count
  <2> HIDE DEF count, n
  <2> QED BY <1>1, Cuts
<1>3. Parts(s) = [p \in 1 .. full |-> part(p)]
  BY DEF Parts
<1>4. count <= full * per
  <2> HIDE DEF per, n, count
  <2>1. count + per - 1 \in Nat
    BY <1>1, <1>2
  <2>2. count + per - 1 < full * per + per
    BY <1>2, <2>1, Division
  <2> DEFINE m == full * per
  <2>3. m \in Int
    BY <1>2
  <2> HIDE DEF m, full, count
  <2>4. count + per - 1 < m + per
    BY <2>2 DEF m
  <2>5. count <= m
    BY <1>1, <1>2, <2>3, <2>4
  <2> QED BY <2>5 DEF m
<1> HIDE DEF full, per, n
<1>5. ASSUME NEW p \in 1 .. full
      PROVE  LET a == (p - 1) * per
             IN  /\ p \in Nat \ {0} /\ a \in Nat /\ p * per = a + per
                 /\ b(p) = IF a + per < count THEN a + per ELSE count
                 /\ DOMAIN part(p) = 1 .. b(p) - a
                 /\ \A k \in 1 .. b(p) - a : part(p)[k] = s[a + k]
  <2> DEFINE a == (p - 1) * per
  <2>1. p \in Nat \ {0} /\ a \in Nat /\ a < count /\ p * per = a + per
    BY <1>2
  <2>2. b(p) = IF a + per < count THEN a + per ELSE count
    <3>1. p * per \in Int /\ count \in Int
      BY <1>1, <1>2, <2>1
    <3>2. b(p) = IF p * per < count THEN p * per ELSE count
      BY <3>1, OfTwo
    <3> QED BY <2>1, <3>2
  <2> DEFINE e == b(p)
  <2>3. e = IF a + per < count THEN a + per ELSE count
    BY <2>2
  <2>4. part(p) = SubSeq(s, a + 1, e)
    OBVIOUS
  <2> HIDE DEF a, e
  <2>5. e \in Nat /\ a + 1 <= e /\ e <= count
    BY <1>1, <1>2, <2>1, <2>3
  <2>6. /\ DOMAIN SubSeq(s, a + 1, e) = 1 .. e - a
        /\ \A k \in 1 .. e - a : SubSeq(s, a + 1, e)[k] = s[a + k]
    BY <2>1, <2>5
  <2> HIDE DEF part
  <2>7. /\ DOMAIN part(p) = 1 .. e - a /\ \A k \in 1 .. e - a : part(p)[k] = s[a + k]
    BY <2>4, <2>6
  <2> HIDE DEF b
  <2> QED BY <2>1, <2>2, <2>7 DEF a, e
<1>6. DOMAIN Parts(s) = 1 .. full /\ \A p \in 1 .. full : Parts(s)[p] = part(p)
  BY <1>3
<1> HIDE DEF part, b
<1>7. ASSUME NEW p \in DOMAIN Parts(s), NEW k \in DOMAIN Parts(s)[p]
      PROVE  /\ p \in Nat \ {0} /\ k \in 1 .. per
             /\ (p - 1) * per + k \in 1 .. Len(s) /\ Parts(s)[p][k] = s[(p - 1) * per + k]
  <2> DEFINE a == (p - 1) * per
  <2>1. /\ p \in Nat \ {0} /\ a \in Nat
        /\ b(p) = IF a + per < count THEN a + per ELSE count
        /\ k \in 1 .. b(p) - a /\ part(p)[k] = s[a + k] /\ Parts(s)[p] = part(p)
    BY <1>5, <1>6
  <2> HIDE DEF a
  <2>2. k \in 1 .. per /\ a + k \in 1 .. count
    BY <1>1, <1>2, <2>1
  <2> QED BY <2>1, <2>2 DEF a
<1>8. ASSUME NEW x \in 1 .. Len(s)
      PROVE  \E p \in DOMAIN Parts(s) : \E k \in DOMAIN Parts(s)[p] : (p - 1) * per + k = x
  <2> DEFINE p == (x - 1) \div per + 1
             a == (p - 1) * per
             k == x - a
  <2>1. p \in Nat \ {0} /\ k \in 1 .. per /\ x = a + k
    <3>1. x \in Nat \ {0}
      OBVIOUS
    <3> QED BY <1>2, <3>1, Grouped
  <2> HIDE DEF p, k
  <2>2. p <= full
    <3> SUFFICES ASSUME p > full PROVE FALSE
      BY <1>2, <2>1
    <3>1. p - 1 = full + (p - 1 - full) /\ p - 1 - full \in Nat
      BY <1>2, <2>1
    <3>2. a = full * per + (p - 1 - full) * per /\ (p - 1 - full) * per \in Nat
          /\ full * per \in Nat
      BY <1>2, <3>1
    <3> HIDE DEF a
    <3> QED BY <1>1, <1>4, <2>1, <3>2
  <2>3. p \in 1 .. full
    BY <1>2, <2>1, <2>2
  <2>4. /\ a \in Nat /\ b(p) = IF a + per < count THEN a + per ELSE count
        /\ DOMAIN Parts(s)[p] = 1 .. b(p) - a
    BY <1>5, <1>6, <2>3
  <2> HIDE DEF a
  <2>5. k \in 1 .. b(p) - a
    BY <1>1, <1>2, <2>1, <2>4
  <2> QED BY <1>6, <2>1, <2>3, <2>4, <2>5 DEF a
<1>9. PartsOf(s, per)
  BY <1>7, <1>8 DEF PartsOf
<1> QED BY <1>2, <1>9

(* A list without repetition is divided into parts without repetition.      *)
Divided(ps, s) ==
    /\ \A p, q \in DOMAIN ps : \A k \in DOMAIN ps[p] : \A l \in DOMAIN ps[q] :
          ps[p][k] = ps[q][l] => p = q /\ k = l
    /\ \A p \in DOMAIN ps : \A k \in DOMAIN ps[p] : ps[p][k] \in Range(s)
    /\ \A y \in Range(s) : \E p \in DOMAIN ps : \E k \in DOMAIN ps[p] : ps[p][k] = y

(* PartitionTriangles loses no triangle and repeats none.                   *)
LEMMA Parted ==
    ASSUME NEW S, NEW s \in Seq(S), Len(s) >= 2, IsInjective(s)
    PROVE  Divided(Parts(s), s)
<1>1. PICK d \in Nat \ {0} : PartsOf(s, d)
  BY PartsCover
<1>2. DOMAIN s = 1 .. Len(s)
  OBVIOUS
<1> DEFINE ps == Parts(s)
<1>3. /\ \A p \in DOMAIN ps : \A k \in DOMAIN ps[p] :
            /\ p \in Nat \ {0} /\ k \in 1 .. d
            /\ (p - 1) * d + k \in 1 .. Len(s) /\ ps[p][k] = s[(p - 1) * d + k]
      /\ \A x \in 1 .. Len(s) : \E p \in DOMAIN ps : \E k \in DOMAIN ps[p] :
            (p - 1) * d + k = x
  BY <1>1 DEF PartsOf
<1> HIDE DEF ps
<1>4. ASSUME NEW p \in DOMAIN ps, NEW q \in DOMAIN ps, NEW k \in DOMAIN ps[p],
             NEW l \in DOMAIN ps[q], ps[p][k] = ps[q][l]
      PROVE  p = q /\ k = l
  <2>1. /\ p \in Nat \ {0} /\ k \in 1 .. d /\ (p - 1) * d + k \in 1 .. Len(s)
        /\ ps[p][k] = s[(p - 1) * d + k]
    BY <1>3
  <2>2. /\ q \in Nat \ {0} /\ l \in 1 .. d /\ (q - 1) * d + l \in 1 .. Len(s)
        /\ ps[q][l] = s[(q - 1) * d + l]
    BY <1>3
  <2>3. (p - 1) * d + k = (q - 1) * d + l
    BY <1>2, <1>4, <2>1, <2>2 DEF IsInjective
  <2> DEFINE g == p - 1
             h == q - 1
  <2>4. /\ g \in Nat /\ h \in Nat /\ d \in Nat \ {0} /\ k \in 1 .. d /\ l \in 1 .. d
        /\ g * d + k = h * d + l
    BY <1>1, <2>1, <2>2, <2>3
  <2> HIDE DEF g, h
  <2>5. g = h /\ k = l
    BY <2>4, SameGroup
  <2> QED BY <2>1, <2>2, <2>5 DEF g, h
<1>5. \A p \in DOMAIN ps : \A k \in DOMAIN ps[p] : ps[p][k] \in Range(s)
  BY <1>2, <1>3 DEF Range
<1>6. ASSUME NEW y \in Range(s) PROVE \E p \in DOMAIN ps : \E k \in DOMAIN ps[p] : ps[p][k] = y
  <2>1. PICK x \in 1 .. Len(s) : y = s[x]
    BY <1>2 DEF Range
  <2>2. PICK p \in DOMAIN ps : \E k \in DOMAIN ps[p] : (p - 1) * d + k = x
    BY <1>3
  <2>3. PICK k \in DOMAIN ps[p] : (p - 1) * d + k = x
    BY <2>2
  <2>4. ps[p][k] = y
    BY <1>3, <2>1, <2>3
  <2> QED BY <2>4
<1>7. Divided(ps, s)
  BY <1>4, <1>5, <1>6 DEF Divided
<1> QED BY <1>7 DEF ps

\* A tree with one node more, which the node of its call has as a child.
Growth(ns, c, ty, new) ==
    /\ ns \in Seq(BuildNodes)
    /\ Len(ns) = Len(nodes) + 1 /\ ns[Len(nodes) + 1] = new
    /\ \A i \in 1 .. Len(nodes) :
          /\ ns[i].isLeaf = nodes[i].isLeaf /\ ns[i].tris = nodes[i].tris
          /\ ns[i].mins = nodes[i].mins /\ ns[i].maxs = nodes[i].maxs
          /\ \A s \in Slots :
                /\ ns[i].child[s] = IF c.parent = i /\ c.slot = s THEN Len(nodes) + 1
                                    ELSE nodes[i].child[s]
                /\ ns[i].type[s] = IF c.parent = i /\ c.slot = s THEN ty ELSE nodes[i].type[s]

(* A step of the build changes one child slot and adds one node.            *)
LEMMA Grows ==
    ASSUME Built(nodes), NEW c \in BuildCalls, c.parent <= Len(nodes),
           NEW new \in BuildNodes, NEW ty \in Kind
    PROVE  Growth(Append(Link(c, ty), new), c, ty, new)
<1> DEFINE p == c.parent
           q == c.slot
           n == Len(nodes)
           old == nodes[p]
           more == [old EXCEPT !.child[q] = n + 1, !.type[q] = ty]
           ls == Link(c, ty)
           ns == Append(ls, new)
<1>1. nodes \in Seq(BuildNodes) /\ n \in Nat /\ p \in Nat /\ q \in Slots /\ p <= n
  BY DEF Built, BuildCalls
<1>2. /\ ls \in Seq(BuildNodes) /\ Len(ls) = n
      /\ \A i \in 1 .. n :
            /\ ls[i].isLeaf = nodes[i].isLeaf /\ ls[i].tris = nodes[i].tris
            /\ ls[i].mins = nodes[i].mins /\ ls[i].maxs = nodes[i].maxs
            /\ \A s \in Slots :
                  /\ ls[i].child[s] = IF p = i /\ q = s THEN n + 1 ELSE nodes[i].child[s]
                  /\ ls[i].type[s] = IF p = i /\ q = s THEN ty ELSE nodes[i].type[s]
  <2>1. CASE p = 0
    <3>1. ls = nodes
      BY <2>1 DEF Link
    <3> HIDE DEF ls
    <3> QED BY <1>1, <2>1, <3>1
  <2>2. CASE p # 0
    <3>1. p \in 1 .. n /\ old \in BuildNodes
      BY <1>1, <2>2
    <3>2. ls = [nodes EXCEPT ![p] = more]
      BY <2>2 DEF Link
    <3>3. /\ more \in BuildNodes
          /\ more.isLeaf = old.isLeaf /\ more.tris = old.tris
          /\ more.mins = old.mins /\ more.maxs = old.maxs
          /\ \A s \in Slots :
                /\ more.child[s] = IF q = s THEN n + 1 ELSE old.child[s]
                /\ more.type[s] = IF q = s THEN ty ELSE old.type[s]
      <4> DEFINE D == Seq(DOMAIN tris)
                 ch == [old.child EXCEPT ![q] = n + 1]
                 tp == [old.type EXCEPT ![q] = ty]
      <4>1. BuildNodes = NodeShape(D, Coords, [Slots -> Nat], [Slots -> Kind])
        BY DEF BuildNodes, NodeShape
      <4>2. n + 1 \in Nat /\ q \in Slots /\ old \in BuildNodes
        BY <1>1, <3>1
      <4> HIDE DEF old, n, D, q, p
      <4>6. old \in NodeShape(D, Coords, [Slots -> Nat], [Slots -> Kind]) /\ n + 1 \in Nat
            /\ q \in Slots /\ ty \in Kind
        BY <4>1, <4>2
      <4>7. /\ more \in NodeShape(D, Coords, [Slots -> Nat], [Slots -> Kind])
            /\ more.isLeaf = old.isLeaf /\ more.tris = old.tris
            /\ more.child = ch /\ more.type = tp
            /\ more.mins = old.mins /\ more.maxs = old.maxs
        <5> DEFINE v == n + 1
                   N == NodeShape(D, Coords, [Slots -> Nat], [Slots -> Kind])
                   m == [old EXCEPT !.child[q] = v, !.type[q] = ty]
        <5>1. old \in N /\ v \in Nat /\ q \in Slots /\ ty \in Kind
          BY <4>6
        <5> HIDE DEF v
        <5>2. /\ m \in N /\ m.isLeaf = old.isLeaf /\ m.tris = old.tris
              /\ m.child = [old.child EXCEPT ![q] = v]
              /\ m.type = [old.type EXCEPT ![q] = ty]
              /\ m.mins = old.mins /\ m.maxs = old.maxs
          BY <5>1, Linked DEF NodeShape
        <5>3. m = more
          BY DEF v
        <5> HIDE DEF m, more, N
        <5> QED BY <5>2, <5>3 DEF v, N
      <4>3. /\ more \in BuildNodes /\ more.isLeaf = old.isLeaf /\ more.tris = old.tris
            /\ more.mins = old.mins /\ more.maxs = old.maxs
            /\ more.child = ch /\ more.type = tp
        BY <4>1, <4>7
      <4>4. old.child \in [Slots -> Nat] /\ old.type \in [Slots -> Kind]
        BY <4>1, <4>2 DEF NodeShape
      <4>5. \A s \in Slots : /\ ch[s] = IF q = s THEN n + 1 ELSE old.child[s]
                             /\ tp[s] = IF q = s THEN ty ELSE old.type[s]
        BY <4>2, <4>4
      <4> HIDE DEF more, ch, tp
      <4> QED BY <4>3, <4>5
    <3> HIDE DEF old, n, q, p, ls, more
    <3>4. /\ ls \in Seq(BuildNodes) /\ Len(ls) = n
          /\ \A i \in 1 .. n : ls[i] = IF i = p THEN more ELSE nodes[i]
      BY <1>1, <3>1, <3>2, <3>3, ExceptSeq DEF n
    <3>5. old = nodes[p]
      BY DEF old
    <3> QED BY <1>1, <3>1, <3>3, <3>4, <3>5
  <2> QED BY <2>1, <2>2
<1> HIDE DEF ls
<1>3. /\ ns \in Seq(BuildNodes) /\ Len(ns) = n + 1 /\ ns[n + 1] = new
      /\ \A i \in 1 .. n : ns[i] = ls[i]
  BY <1>1, <1>2
<1> HIDE DEF ns
<1>4. Growth(ns, c, ty, new)
  BY <1>2, <1>3 DEF Growth
<1> QED BY <1>4 DEF ns, ls

-----------------------------------------------------------------------------
\* A triangle within bounds.
Inside(t, lo, hi) ==
    \A k \in 1 .. 3 : \A a \in Axes : lo[a] <= tris[t][k][a] /\ tris[t][k][a] <= hi[a]

\* No triangle is in two places: calls still to be made and leaves.
Once(ns, C) ==
    /\ \A x, y \in C : \A k \in DOMAIN x.tris : \A l \in DOMAIN y.tris :
          x.tris[k] = y.tris[l] => x = y /\ k = l
    /\ \A i, j \in 1 .. Len(ns) : \A k \in DOMAIN ns[i].tris : \A l \in DOMAIN ns[j].tris :
          ns[i].tris[k] = ns[j].tris[l] => i = j /\ k = l
    /\ \A x \in C : \A i \in 1 .. Len(ns) : \A k \in DOMAIN x.tris : \A l \in DOMAIN ns[i].tris :
          x.tris[k] # ns[i].tris[l]

\* Every triangle is in one.
Kept(ns, C) ==
    \A t \in DOMAIN tris :
        \/ \E x \in C : \E k \in DOMAIN x.tris : x.tris[k] = t
        \/ \E i \in 1 .. Len(ns) : \E k \in DOMAIN ns[i].tris : ns[i].tris[k] = t

\* A call fills a child slot that is empty, and within the bounds of its node.
Awaited(ns, C) ==
    /\ \A x \in C : x.parent = 0 => ns = << >> /\ C = {x}
    /\ \A x \in C : x.parent # 0 =>
          /\ ns[x.parent].child[x.slot] = 0
          /\ \A k \in DOMAIN x.tris : Inside(x.tris[k], ns[x.parent].mins, ns[x.parent].maxs)
    /\ \A x, y \in C : x.parent = y.parent /\ x.slot = y.slot => x = y

\* Leaves have triangles, inner nodes children, each within the bounds.
Content(ns) ==
    \A i \in 1 .. Len(ns) :
        /\ ns[i].isLeaf => /\ ns[i].tris # << >>
                           /\ \A s \in Slots : ns[i].child[s] = 0
                           /\ \A k \in DOMAIN ns[i].tris :
                                 Inside(ns[i].tris[k], ns[i].mins, ns[i].maxs)
        /\ ~ns[i].isLeaf => ns[i].tris = << >>

Children(ns) ==
    \A i \in 1 .. Len(ns) : \A s \in Slots :
        /\ ns[i].child[s] = 0 => ns[i].type[s] = None
        /\ ns[i].child[s] # 0 =>
              /\ ns[i].child[s] \in i + 1 .. Len(ns)
              /\ ns[i].type[s] = IF ns[ns[i].child[s]].isLeaf THEN Poly3 ELSE Node
              /\ \A a \in Axes : /\ ns[i].mins[a] <= ns[ns[i].child[s]].mins[a]
                                 /\ ns[ns[i].child[s]].maxs[a] <= ns[i].maxs[a]

\* Every node but the first is a child, of one node and in one slot.
Parents(ns) ==
    /\ \A j \in 2 .. Len(ns) : \E i \in 1 .. j - 1 : \E s \in Slots : ns[i].child[s] = j
    /\ \A i, j \in 1 .. Len(ns) : \A s, r \in Slots :
          ns[i].child[s] # 0 /\ ns[i].child[s] = ns[j].child[r] => i = j /\ s = r

Grown(ns, C) ==
    /\ Once(ns, C) /\ Kept(ns, C) /\ Awaited(ns, C)
    /\ Content(ns) /\ Children(ns) /\ Parents(ns)

\* What a call had to place is in its node or with the calls it makes, once.
Passed(c, new, E) ==
    /\ \A x, y \in E : \A k \in DOMAIN x.tris : \A l \in DOMAIN y.tris :
          x.tris[k] = y.tris[l] => x = y /\ k = l
    /\ \A k, l \in DOMAIN new.tris : new.tris[k] = new.tris[l] => k = l
    /\ \A x \in E : \A k \in DOMAIN x.tris : \A l \in DOMAIN new.tris : x.tris[k] # new.tris[l]
    /\ \A x \in E : \A k \in DOMAIN x.tris : \E m \in DOMAIN c.tris : c.tris[m] = x.tris[k]
    /\ \A l \in DOMAIN new.tris : \E m \in DOMAIN c.tris : c.tris[m] = new.tris[l]
    /\ \A m \in DOMAIN c.tris : \/ \E x \in E : \E k \in DOMAIN x.tris : x.tris[k] = c.tris[m]
                                \/ \E l \in DOMAIN new.tris : new.tris[l] = c.tris[m]

(* A call that passes its triangles on leaves each in one place.            *)
LEMMA OnceGrows ==
    ASSUME nodes \in Seq(BuildNodes), NEW C, NEW c \in C, NEW ty, NEW new, NEW E,
           NEW ns, Growth(ns, c, ty, new), Passed(c, new, E), Once(nodes, C)
    PROVE  Once(ns, E \cup (C \ {c}))
<1> DEFINE n == Len(nodes)
           F == E \cup (C \ {c})
<1>1. /\ n \in Nat /\ Len(ns) = n + 1 /\ ns[n + 1] = new
      /\ \A i \in 1 .. n : ns[i].tris = nodes[i].tris
      /\ \A i \in 1 .. n + 1 : i \in 1 .. n \/ i = n + 1
  BY DEF Growth
<1>2. /\ \A x, y \in C : \A k \in DOMAIN x.tris : \A l \in DOMAIN y.tris :
            x.tris[k] = y.tris[l] => x = y /\ k = l
      /\ \A i, j \in 1 .. n : \A k \in DOMAIN nodes[i].tris : \A l \in DOMAIN nodes[j].tris :
            nodes[i].tris[k] = nodes[j].tris[l] => i = j /\ k = l
      /\ \A x \in C : \A i \in 1 .. n : \A k \in DOMAIN x.tris : \A l \in DOMAIN nodes[i].tris :
            x.tris[k] # nodes[i].tris[l]
  BY DEF Once
<1> HIDE DEF n
<1>3. ASSUME NEW x \in E, NEW y \in C \ {c}, NEW k \in DOMAIN x.tris, NEW l \in DOMAIN y.tris
      PROVE  x.tris[k] # y.tris[l]
  <2>1. PICK m \in DOMAIN c.tris : c.tris[m] = x.tris[k]
    BY DEF Passed
  <2> QED BY <1>2, <2>1
<1>4. ASSUME NEW x \in E, NEW i \in 1 .. n, NEW k \in DOMAIN x.tris,
             NEW l \in DOMAIN nodes[i].tris
      PROVE  x.tris[k] # nodes[i].tris[l]
  <2>1. PICK m \in DOMAIN c.tris : c.tris[m] = x.tris[k]
    BY DEF Passed
  <2> QED BY <1>2, <2>1
<1>5. ASSUME NEW x \in C \ {c}, NEW k \in DOMAIN x.tris, NEW l \in DOMAIN new.tris
      PROVE  x.tris[k] # new.tris[l]
  <2>1. PICK m \in DOMAIN c.tris : c.tris[m] = new.tris[l]
    BY DEF Passed
  <2> QED BY <1>2, <2>1
<1>6. ASSUME NEW i \in 1 .. n, NEW k \in DOMAIN nodes[i].tris, NEW l \in DOMAIN new.tris
      PROVE  nodes[i].tris[k] # new.tris[l]
  <2>1. PICK m \in DOMAIN c.tris : c.tris[m] = new.tris[l]
    BY DEF Passed
  <2> QED BY <1>2, <2>1
<1>7. ASSUME NEW x \in F, NEW y \in F, NEW k \in DOMAIN x.tris, NEW l \in DOMAIN y.tris,
             x.tris[k] = y.tris[l]
      PROVE  x = y /\ k = l
  <2>1. CASE x \in E /\ y \in E
    BY <1>7, <2>1 DEF Passed
  <2>2. CASE x \in E /\ y \notin E
    BY <1>3, <1>7, <2>2
  <2>3. CASE x \notin E /\ y \in E
    BY <1>3, <1>7, <2>3
  <2>4. CASE x \notin E /\ y \notin E
    BY <1>2, <1>7, <2>4
  <2> QED BY <2>1, <2>2, <2>3, <2>4
<1>8. ASSUME NEW i \in 1 .. n + 1, NEW j \in 1 .. n + 1, NEW k \in DOMAIN ns[i].tris,
             NEW l \in DOMAIN ns[j].tris, ns[i].tris[k] = ns[j].tris[l]
      PROVE  i = j /\ k = l
  <2>1. CASE i \in 1 .. n /\ j \in 1 .. n
    BY <1>1, <1>2, <1>8, <2>1
  <2>2. CASE i \in 1 .. n /\ j = n + 1
    BY <1>1, <1>6, <1>8, <2>2
  <2>3. CASE i = n + 1 /\ j \in 1 .. n
    BY <1>1, <1>6, <1>8, <2>3
  <2>4. CASE i = n + 1 /\ j = n + 1
    BY <1>1, <1>8, <2>4 DEF Passed
  <2> QED BY <1>1, <2>1, <2>2, <2>3, <2>4
<1>9. ASSUME NEW x \in F, NEW i \in 1 .. n + 1, NEW k \in DOMAIN x.tris,
             NEW l \in DOMAIN ns[i].tris
      PROVE  x.tris[k] # ns[i].tris[l]
  <2>1. CASE x \in E /\ i \in 1 .. n
    BY <1>1, <1>4, <2>1
  <2>2. CASE x \in E /\ i = n + 1
    BY <1>1, <2>2 DEF Passed
  <2>3. CASE x \notin E /\ i \in 1 .. n
    BY <1>1, <1>2, <2>3
  <2>4. CASE x \notin E /\ i = n + 1
    BY <1>1, <1>5, <2>4
  <2> QED BY <1>1, <2>1, <2>2, <2>3, <2>4
<1> QED BY <1>1, <1>7, <1>8, <1>9 DEF Once

(* And no triangle is lost.                                                *)
LEMMA KeptGrows ==
    ASSUME nodes \in Seq(BuildNodes), NEW C, NEW c \in C, NEW ty, NEW new, NEW E,
           NEW ns, Growth(ns, c, ty, new), Passed(c, new, E), Kept(nodes, C)
    PROVE  Kept(ns, E \cup (C \ {c}))
<1> DEFINE n == Len(nodes)
           F == E \cup (C \ {c})
<1>1. /\ n \in Nat /\ Len(ns) = n + 1 /\ ns[n + 1] = new
      /\ \A i \in 1 .. n : ns[i].tris = nodes[i].tris
      /\ \A i \in 1 .. n : i \in 1 .. n + 1
      /\ n + 1 \in 1 .. n + 1
  BY DEF Growth
<1> SUFFICES ASSUME NEW t \in DOMAIN tris
             PROVE  \/ \E x \in F : \E k \in DOMAIN x.tris : x.tris[k] = t
                    \/ \E i \in 1 .. n + 1 : \E k \in DOMAIN ns[i].tris : ns[i].tris[k] = t
  BY <1>1 DEF Kept
<1>2. \/ \E x \in C : \E k \in DOMAIN x.tris : x.tris[k] = t
      \/ \E i \in 1 .. n : \E k \in DOMAIN nodes[i].tris : nodes[i].tris[k] = t
  BY DEF Kept
<1> HIDE DEF n
<1>3. CASE \E x \in C \ {c} : \E k \in DOMAIN x.tris : x.tris[k] = t
  BY <1>3
<1>4. CASE \E k \in DOMAIN c.tris : c.tris[k] = t
  <2>1. PICK m \in DOMAIN c.tris : c.tris[m] = t
    BY <1>4
  <2>2. \/ \E x \in E : \E k \in DOMAIN x.tris : x.tris[k] = t
        \/ \E l \in DOMAIN new.tris : new.tris[l] = t
    BY <2>1 DEF Passed
  <2> QED BY <1>1, <2>2
<1>5. CASE \E i \in 1 .. n : \E k \in DOMAIN nodes[i].tris : nodes[i].tris[k] = t
  BY <1>1, <1>5
<1> QED BY <1>2, <1>3, <1>4, <1>5

\* What a new node is, over the triangles of a call.
Covers(c, ty, new, E) ==
    /\ \A s \in Slots : new.child[s] = 0 /\ new.type[s] = None
    /\ ty = IF new.isLeaf THEN Poly3 ELSE Node
    /\ new.isLeaf => new.tris # << >>
    /\ ~new.isLeaf => new.tris = << >>
    /\ \A k \in DOMAIN c.tris : Inside(c.tris[k], new.mins, new.maxs)
    /\ \A lo, hi \in Coords : (\A k \in DOMAIN c.tris : Inside(c.tris[k], lo, hi)) =>
          \A a \in Axes : lo[a] <= new.mins[a] /\ new.maxs[a] <= hi[a]
    /\ \A x \in E : x.parent = Len(nodes) + 1
    /\ \A x, y \in E : x.slot = y.slot => x = y

(* The calls a step makes are for children that its node does not have.     *)
LEMMA AwaitedGrows ==
    ASSUME Built(nodes), NEW C \in SUBSET BuildCalls, \A x \in C : x.parent <= Len(nodes),
           NEW c \in C, NEW ty, NEW new, NEW E \in SUBSET BuildCalls,
           NEW ns, Growth(ns, c, ty, new), Passed(c, new, E), Covers(c, ty, new, E),
           Awaited(nodes, C)
    PROVE  Awaited(ns, E \cup (C \ {c}))
<1> DEFINE n == Len(nodes)
           F == E \cup (C \ {c})
           m == n + 1
<1>1. /\ n \in Nat /\ Len(ns) = n + 1 /\ ns[m] = new
      /\ \A i \in 1 .. n :
          /\ ns[i].mins = nodes[i].mins /\ ns[i].maxs = nodes[i].maxs
          /\ \A s \in Slots : ns[i].child[s] = IF c.parent = i /\ c.slot = s THEN n + 1
                                               ELSE nodes[i].child[s]
  BY DEF Growth, Built
<1>2. \A x \in C \cup E : x.parent \in Nat /\ x.slot \in Slots
  BY DEF BuildCalls
<1>3. ASSUME NEW x \in F, x.parent = 0 PROVE ns = << >> /\ F = {x}
  <2>1. x \in C \ {c}
    BY <1>1, <1>3 DEF Covers
  <2>2. C = {x}
    BY <1>3, <2>1 DEF Awaited
  <2> QED BY <2>1, <2>2
<1>4. \A x \in E : x.parent = m /\ m # 0
  BY <1>1 DEF Covers
<1>5. ASSUME NEW x \in C \ {c}, x.parent # 0
      PROVE  x.parent \in 1 .. n /\ ~(c.parent = x.parent /\ c.slot = x.slot)
  <2>1. x.parent \in 1 .. n
    BY <1>1, <1>2, <1>5
  <2>2. c.parent = x.parent /\ c.slot = x.slot => x = c
    BY DEF Awaited
  <2> QED BY <2>1, <2>2
<1> HIDE DEF m
<1>6. ASSUME NEW x \in F, x.parent # 0
      PROVE  /\ ns[x.parent].child[x.slot] = 0
             /\ \A k \in DOMAIN x.tris :
                   Inside(x.tris[k], ns[x.parent].mins, ns[x.parent].maxs)
  <2>1. CASE x \in E
    <3>1. ns[x.parent] = new /\ x.slot \in Slots
      BY <1>1, <1>2, <1>4, <2>1
    <3>2. new.child[x.slot] = 0
      BY <3>1 DEF Covers
    <3>3. \A k \in DOMAIN x.tris : Inside(x.tris[k], new.mins, new.maxs)
      <4> TAKE k \in DOMAIN x.tris
      <4>1. PICK l \in DOMAIN c.tris : c.tris[l] = x.tris[k]
        BY <2>1 DEF Passed
      <4>2. Inside(c.tris[l], new.mins, new.maxs)
        BY DEF Covers
      <4> QED BY <4>1, <4>2
    <3> QED BY <3>1, <3>2, <3>3
  <2>2. CASE x \in C \ {c}
    <3>1. x.parent \in 1 .. n /\ ~(c.parent = x.parent /\ c.slot = x.slot) /\ x.slot \in Slots
      BY <1>2, <1>5, <1>6, <2>2
    <3> DEFINE i == x.parent
    <3>2. ns[i].mins = nodes[i].mins /\ ns[i].maxs = nodes[i].maxs
          /\ ns[i].child[x.slot] = nodes[i].child[x.slot]
      BY <1>1, <3>1
    <3>3. /\ nodes[i].child[x.slot] = 0
          /\ \A k \in DOMAIN x.tris : Inside(x.tris[k], nodes[i].mins, nodes[i].maxs)
      BY <1>6, <2>2 DEF Awaited
    <3> QED BY <3>2, <3>3
  <2> QED BY <2>1, <2>2
<1>7. ASSUME NEW x \in F, NEW y \in F, x.parent = y.parent, x.slot = y.slot PROVE x = y
  <2>1. \A z \in C : z.parent # m
    BY <1>1, <1>2 DEF m
  <2>2. CASE x \in E
    <3>1. y \in E
      BY <1>4, <1>7, <2>1, <2>2
    <3> QED BY <1>7, <2>2, <3>1 DEF Covers
  <2>3. CASE x \notin E
    <3>1. y \notin E
      BY <1>4, <1>7, <2>1, <2>3
    <3> QED BY <1>7, <2>3, <3>1 DEF Awaited
  <2> QED BY <2>2, <2>3
<1> HIDE DEF F
<1> QED BY <1>3, <1>6, <1>7 DEF Awaited, F

(* The bounds of a build node are whole, its children numbers.              *)
LEMMA NodeFields ==
    ASSUME NEW ns \in Seq(BuildNodes), NEW i \in 1 .. Len(ns)
    PROVE  /\ ns[i].isLeaf \in BOOLEAN /\ ns[i].tris \in Seq(DOMAIN tris)
           /\ ns[i].mins \in Coords /\ ns[i].maxs \in Coords
           /\ ns[i].child \in [Slots -> Nat] /\ ns[i].type \in [Slots -> Kind]
<1> DEFINE D == Seq(DOMAIN tris)
           n == ns[i]
           K == [Slots -> Kind]
           I == [Slots -> Nat]
<1>1. BuildNodes = NodeShape(D, Coords, I, K)
  BY DEF BuildNodes, NodeShape
<1>2. n \in BuildNodes
  OBVIOUS
<1> HIDE DEF D, n, K, I
<1>3. /\ n.isLeaf \in BOOLEAN /\ n.tris \in D /\ n.mins \in Coords /\ n.maxs \in Coords
      /\ n.type \in K /\ n.child \in I
  BY <1>1, <1>2 DEF NodeShape
<1> QED BY <1>3 DEF n, K, I, D

(* A new leaf has the triangles of its call, within its bounds.             *)
LEMMA ContentGrows ==
    ASSUME Built(nodes), NEW c, c.parent # 0 => ~nodes[c.parent].isLeaf, NEW ty, NEW new, NEW E,
           NEW ns, Growth(ns, c, ty, new), Passed(c, new, E), Covers(c, ty, new, E),
           Content(nodes)
    PROVE  Content(ns)
<1> DEFINE n == Len(nodes)
<1>1. /\ n \in Nat /\ Len(ns) = n + 1 /\ ns[n + 1] = new
      /\ \A i \in 1 .. n + 1 : i \in 1 .. n \/ i = n + 1
      /\ \A i \in 1 .. n : 
            /\ ns[i].isLeaf = nodes[i].isLeaf /\ ns[i].tris = nodes[i].tris
            /\ ns[i].mins = nodes[i].mins /\ ns[i].maxs = nodes[i].maxs
            /\ \A s \in Slots : ns[i].child[s] = IF c.parent = i /\ c.slot = s THEN n + 1
                                                 ELSE nodes[i].child[s]
  BY DEF Growth, Built
<1> HIDE DEF n
<1>2. ASSUME NEW i \in 1 .. n + 1, ns[i].isLeaf
      PROVE  /\ ns[i].tris # << >>
             /\ \A s \in Slots : ns[i].child[s] = 0
             /\ \A k \in DOMAIN ns[i].tris : Inside(ns[i].tris[k], ns[i].mins, ns[i].maxs)
  <2>1. CASE i = n + 1
    <3>1. \A k \in DOMAIN new.tris : Inside(new.tris[k], new.mins, new.maxs)
      <4> TAKE k \in DOMAIN new.tris
      <4>1. PICK l \in DOMAIN c.tris : c.tris[l] = new.tris[k]
        BY DEF Passed
      <4>2. Inside(c.tris[l], new.mins, new.maxs)
        BY DEF Covers
      <4> QED BY <4>1, <4>2
    <3>2. new.tris # << >> /\ \A s \in Slots : new.child[s] = 0
      BY <1>1, <1>2, <2>1 DEF Covers
    <3> QED BY <1>1, <2>1, <3>1, <3>2
  <2>2. CASE i \in 1 .. n
    <3>1. nodes[i].isLeaf /\ c.parent # i
      <4>1. nodes[i].isLeaf
        BY <1>1, <1>2, <2>2
      <4>2. i # 0
        BY <1>1, <2>2
      <4> QED BY <4>1, <4>2
    <3>2. /\ nodes[i].tris # << >>
          /\ \A s \in Slots : nodes[i].child[s] = 0
          /\ \A k \in DOMAIN nodes[i].tris :
                Inside(nodes[i].tris[k], nodes[i].mins, nodes[i].maxs)
      BY <2>2, <3>1 DEF Content, n
    <3>3. \A s \in Slots : ns[i].child[s] = 0
      BY <1>1, <2>2, <3>1, <3>2
    <3>4. ns[i].tris # << >>
      BY <1>1, <2>2, <3>2
    <3>5. \A k \in DOMAIN ns[i].tris : Inside(ns[i].tris[k], ns[i].mins, ns[i].maxs)
      BY <1>1, <2>2, <3>2
    <3> QED BY <3>3, <3>4, <3>5
  <2> QED BY <1>1, <2>1, <2>2
<1>3. ASSUME NEW i \in 1 .. n + 1, ~ns[i].isLeaf PROVE ns[i].tris = << >>
  <2>1. CASE i = n + 1
    BY <1>1, <1>3, <2>1 DEF Covers
  <2>2. CASE i \in 1 .. n
    <3>1. ~nodes[i].isLeaf
      BY <1>1, <1>3, <2>2
    <3>2. nodes[i].tris = << >>
      BY <2>2, <3>1 DEF Content, n
    <3> QED BY <1>1, <2>2, <3>2
  <2> QED BY <1>1, <2>1, <2>2
<1> QED BY <1>1, <1>2, <1>3 DEF Content

(* The new node is within the bounds of its parent.                         *)
LEMMA ChildrenGrow ==
    ASSUME Built(nodes), NEW C, NEW c \in C, c \in BuildCalls, c.parent <= Len(nodes), NEW ty,
           NEW new, NEW E,
           NEW ns, Growth(ns, c, ty, new), Covers(c, ty, new, E), Awaited(nodes, C),
           Children(nodes)
    PROVE  Children(ns)
<1> DEFINE n == Len(nodes)
           m == n + 1
<1>1. /\ n \in Nat /\ Len(ns) = m /\ ns[m] = new /\ nodes \in Seq(BuildNodes)
      /\ \A i \in 1 .. m : i \in 1 .. n \/ i = m
      /\ \A i \in 1 .. n : i \in 1 .. m
  BY DEF Growth, Built
<1>2. \A i \in 1 .. n : 
          /\ ns[i].isLeaf = nodes[i].isLeaf
          /\ ns[i].mins = nodes[i].mins /\ ns[i].maxs = nodes[i].maxs
          /\ \A s \in Slots :
                /\ ns[i].child[s] = IF c.parent = i /\ c.slot = s THEN m ELSE nodes[i].child[s]
                /\ ns[i].type[s] = IF c.parent = i /\ c.slot = s THEN ty ELSE nodes[i].type[s]
  BY DEF Growth
<1>3. c.parent \in Nat /\ c.slot \in Slots
  BY DEF BuildCalls
<1>4. m \in Nat \ {0} /\ \A i \in 1 .. n : m \in i + 1 .. m /\ i + 1 .. n \subseteq i + 1 .. m
  BY <1>1
<1>5. \A i \in 1 .. n : i # 0 /\ i + 1 .. n \subseteq 1 .. n
  BY <1>1
<1> HIDE DEF m, n
<1> SUFFICES ASSUME NEW i \in 1 .. m, NEW s \in Slots
             PROVE  /\ ns[i].child[s] = 0 => ns[i].type[s] = None
                    /\ ns[i].child[s] # 0 =>
                          /\ ns[i].child[s] \in i + 1 .. m
                          /\ ns[i].type[s] = IF ns[ns[i].child[s]].isLeaf THEN Poly3 ELSE Node
                          /\ \A a \in Axes : /\ ns[i].mins[a] <= ns[ns[i].child[s]].mins[a]
                                             /\ ns[ns[i].child[s]].maxs[a] <= ns[i].maxs[a]
  BY <1>1 DEF Children
<1>6. CASE i = m
  BY <1>1, <1>6 DEF Covers
<1>7. CASE i \in 1 .. n /\ c.parent = i /\ c.slot = s
  <2>1. ns[i].child[s] = m /\ ns[i].type[s] = ty /\ ns[m] = new
    BY <1>1, <1>2, <1>7
  <2>2. nodes[i].mins \in Coords /\ nodes[i].maxs \in Coords
    BY <1>1, <1>7, NodeFields DEF n
  <2>3. \A k \in DOMAIN c.tris : Inside(c.tris[k], nodes[i].mins, nodes[i].maxs)
    BY <1>5, <1>7 DEF Awaited
  <2>4. \A a \in Axes : nodes[i].mins[a] <= new.mins[a] /\ new.maxs[a] <= nodes[i].maxs[a]
    BY <2>2, <2>3 DEF Covers
  <2>5. m # 0 /\ m \in i + 1 .. m
    BY <1>4, <1>7
  <2>6. ty = IF new.isLeaf THEN Poly3 ELSE Node
    BY DEF Covers
  <2> QED BY <1>2, <1>7, <2>1, <2>4, <2>5, <2>6
<1>8. CASE i \in 1 .. n /\ ~(c.parent = i /\ c.slot = s)
  <2> DEFINE d == nodes[i].child[s]
  <2>1. ns[i].child[s] = d /\ ns[i].type[s] = nodes[i].type[s]
    BY <1>2, <1>8
  <2>2. /\ d = 0 => nodes[i].type[s] = None
        /\ d # 0 => /\ d \in i + 1 .. n
                    /\ nodes[i].type[s] = IF nodes[d].isLeaf THEN Poly3 ELSE Node
                    /\ \A a \in Axes : /\ nodes[i].mins[a] <= nodes[d].mins[a]
                                       /\ nodes[d].maxs[a] <= nodes[i].maxs[a]
    BY <1>8 DEF Children, n
  <2>3. d # 0 => d \in 1 .. n /\ d \in i + 1 .. m
    BY <1>4, <1>5, <1>8, <2>2
  <2> HIDE DEF d
  <2>4. d # 0 => /\ ns[d].isLeaf = nodes[d].isLeaf
                 /\ ns[d].mins = nodes[d].mins /\ ns[d].maxs = nodes[d].maxs
    BY <1>2, <2>3
  <2> QED BY <1>2, <1>8, <2>1, <2>2, <2>3, <2>4
<1> QED BY <1>1, <1>6, <1>7, <1>8

(* The new node is the child of one node, the one that called.              *)
LEMMA ParentsGrow ==
    ASSUME Built(nodes), NEW C, NEW c \in C, c \in BuildCalls, c.parent <= Len(nodes), NEW ty,
           NEW new, NEW E,
           NEW ns, Growth(ns, c, ty, new), Covers(c, ty, new, E), Awaited(nodes, C),
           Children(nodes), Parents(nodes)
    PROVE  Parents(ns)
<1> DEFINE n == Len(nodes)
           m == n + 1
<1>1. /\ n \in Nat /\ Len(ns) = m /\ ns[m] = new /\ nodes \in Seq(BuildNodes)
      /\ \A i \in 1 .. m : i \in 1 .. n \/ i = m
      /\ \A s \in Slots : new.child[s] = 0
  BY DEF Growth, Built, Covers
<1>2. \A i \in 1 .. n : \A s \in Slots :
          ns[i].child[s] = IF c.parent = i /\ c.slot = s THEN m ELSE nodes[i].child[s]
  BY DEF Growth
<1>3. c.parent \in Nat /\ c.slot \in Slots
  BY DEF BuildCalls
<1>4. \A i \in 1 .. n : \A s \in Slots : nodes[i].child[s] # m
  <2> SUFFICES ASSUME NEW i \in 1 .. n, NEW s \in Slots PROVE nodes[i].child[s] # m
    OBVIOUS
  <2>1. nodes[i].child[s] # 0 => nodes[i].child[s] \in i + 1 .. n
    BY DEF Children
  <2> QED BY <1>1, <2>1
<1>5. ASSUME NEW j \in 2 .. m
      PROVE  \E i \in 1 .. j - 1 : \E s \in Slots : ns[i].child[s] = j
  <2>1. CASE j = m
    <3>1. c.parent # 0
      <4>1. nodes # << >>
        BY <1>1, <2>1
      <4> QED BY <4>1 DEF Awaited
    <3>2. c.parent \in 1 .. n /\ c.parent \in 1 .. j - 1
      BY <1>1, <1>3, <2>1, <3>1
    <3>3. ns[c.parent].child[c.slot] = m
      BY <1>2, <1>3, <3>2
    <3> QED BY <1>3, <2>1, <3>2, <3>3
  <2>2. CASE j \in 2 .. n
    <3>1. PICK i \in 1 .. j - 1 : \E s \in Slots : nodes[i].child[s] = j
      BY <2>2 DEF Parents
    <3>2. PICK s \in Slots : nodes[i].child[s] = j
      BY <3>1
    <3>3. i \in 1 .. n /\ j # 0 /\ i # 0
      BY <1>1, <2>2
    <3>4. ~(c.parent = i /\ c.slot = s)
      BY <3>2, <3>3 DEF Awaited
    <3>5. ns[i].child[s] = j
      BY <1>2, <3>2, <3>3, <3>4
    <3> QED BY <3>5
  <2> QED BY <1>1, <2>1, <2>2
<1>6. ASSUME NEW i \in 1 .. m, NEW j \in 1 .. m, NEW s \in Slots, NEW r \in Slots,
             ns[i].child[s] # 0, ns[i].child[s] = ns[j].child[r]
      PROVE  i = j /\ s = r
  <2>1. i \in 1 .. n /\ j \in 1 .. n
    BY <1>1, <1>6
  <2> HIDE DEF m, n
  <2>2. CASE c.parent = i /\ c.slot = s
    BY <1>2, <1>4, <1>6, <2>1, <2>2
  <2>3. CASE ~(c.parent = i /\ c.slot = s)
    <3>1. ns[i].child[s] = nodes[i].child[s]
      BY <1>2, <2>1, <2>3
    <3>4. ns[j].child[r] # m
      BY <1>4, <1>6, <2>1, <3>1
    <3>2. ~(c.parent = j /\ c.slot = r)
      BY <1>2, <2>1, <3>4
    <3>3. ns[j].child[r] = nodes[j].child[r]
      BY <1>2, <2>1, <3>2
    <3>5. nodes[i].child[s] # 0 /\ nodes[i].child[s] = nodes[j].child[r] => i = j /\ s = r
      BY <2>1 DEF Parents, n
    <3> QED BY <1>6, <2>1, <3>1, <3>3, <3>5
  <2> QED BY <2>2, <2>3
<1> HIDE DEF m
<1> QED BY <1>1, <1>5, <1>6 DEF Parents

\* The bounds of a node are those of its triangles: they enclose no more.
Fits(n, ts) ==
    /\ \A k \in DOMAIN ts : Inside(ts[k], n.mins, n.maxs)
    /\ \A lo, hi \in Coords : (\A k \in DOMAIN ts : Inside(ts[k], lo, hi)) =>
          \A a \in Axes : lo[a] <= n.mins[a] /\ n.maxs[a] <= hi[a]

(* ComputeTriBounds gives a new node the tightest bounds.                   *)
LEMMA NewBounds ==
    ASSUME tris \in Soups, NEW ts \in Seq(DOMAIN tris), ts # << >>
    PROVE  Fits(LeafNode(ts), ts) /\ Fits(InnerNode(ts), ts)
<1> DEFINE S == Range(ts)
           mi == Mins(S)
           ma == Maxs(S)
<1>1. S \in SUBSET DOMAIN tris /\ S # {} /\ \A k \in DOMAIN ts : ts[k] \in S
  <2>1. \A i \in DOMAIN ts : ts[i] \in DOMAIN tris
    OBVIOUS
  <2>2. 1 \in DOMAIN ts
    OBVIOUS
  <2> QED BY <2>1, <2>2 DEF Range
<1>2. \A t \in S : \E k \in DOMAIN ts : t = ts[k]
  BY DEF Range
<1>3. /\ mi \in Coords /\ ma \in Coords
      /\ \A t \in S : \A c \in 1 .. 3 : \A a \in Axes :
            mi[a] <= tris[t][c][a] /\ tris[t][c][a] <= ma[a]
      /\ \A a \in Axes : /\ \E t \in S : \E c \in 1 .. 3 : mi[a] = tris[t][c][a]
                         /\ \E t \in S : \E c \in 1 .. 3 : ma[a] = tris[t][c][a]
  <2> HIDE DEF S
  <2> QED BY <1>1, BoundsTouch
<1>4. LeafNode(ts).mins = mi /\ LeafNode(ts).maxs = ma
  BY DEF LeafNode
<1>5. InnerNode(ts).mins = mi /\ InnerNode(ts).maxs = ma
  BY DEF InnerNode, LeafNode
<1> HIDE DEF mi, ma, S
<1>6. \A k \in DOMAIN ts : Inside(ts[k], mi, ma)
  BY <1>1, <1>3 DEF Inside
<1>7. ASSUME NEW lo \in Coords, NEW hi \in Coords, \A k \in DOMAIN ts : Inside(ts[k], lo, hi),
             NEW a \in Axes
      PROVE  lo[a] <= mi[a] /\ ma[a] <= hi[a]
  <2>1. PICK t \in S : \E c \in 1 .. 3 : mi[a] = tris[t][c][a]
    BY <1>3
  <2>2. PICK r \in S : \E c \in 1 .. 3 : ma[a] = tris[r][c][a]
    BY <1>3
  <2>3. Inside(t, lo, hi) /\ Inside(r, lo, hi)
    BY <1>2, <1>7
  <2> QED BY <2>1, <2>2, <2>3 DEF Inside
<1> QED BY <1>4, <1>5, <1>6, <1>7 DEF Fits

\* The state of the build.
Growing == BInv /\ Grown(nodes, Range(calls)) /\ IsInjective(calls)

(* The call whose turn it is, among all.                                    *)
LEMMA Turn ==
    ASSUME Growing, pc = "build"
    PROVE  /\ calls \in Seq(BuildCalls) /\ Head(calls) = calls[1]
           /\ Head(calls) \in Range(calls) /\ Range(calls) \in SUBSET BuildCalls
           /\ \A x \in Range(calls) : x.parent <= Len(nodes)
           /\ IsInjective(Head(calls).tris)
           /\ nodes \in Seq(BuildNodes) /\ Built(nodes) /\ tris \in Soups
<1>1. calls \in Seq(BuildCalls) /\ Called(calls, nodes) /\ calls # << >>
  BY DEF Growing, BInv, Called
<1>2. 1 \in 1 .. Len(calls) /\ DOMAIN calls = 1 .. Len(calls) /\ Head(calls) = calls[1]
  BY <1>1
<1>3. Head(calls) \in Range(calls) /\ Range(calls) \in SUBSET BuildCalls
  BY <1>1, <1>2 DEF Range
<1>4. \A x \in Range(calls) : x.parent <= Len(nodes)
  BY <1>1, <1>2 DEF Called, Range
<1>5. IsInjective(Head(calls).tris)
  BY <1>3 DEF Growing, Grown, Once, IsInjective
<1> QED BY <1>1, <1>2, <1>3, <1>4, <1>5 DEF Growing, BInv, Built

(* A step that passes a call's triangles on keeps the tree.                 *)
LEMMA GrownBy ==
    ASSUME Growing, pc = "build", NEW ty \in Kind, NEW new \in BuildNodes,
           NEW E \in SUBSET BuildCalls,
           Passed(Head(calls), new, E), Covers(Head(calls), ty, new, E)
    PROVE  Grown(Append(Link(Head(calls), ty), new), E \cup (Range(calls) \ {Head(calls)}))
<1> DEFINE c == Head(calls)
           C == Range(calls)
           ns == Append(Link(c, ty), new)
           F == E \cup (C \ {c})
<1>1. /\ c \in C /\ c \in BuildCalls /\ C \in SUBSET BuildCalls
      /\ \A x \in C : x.parent <= Len(nodes)
      /\ nodes \in Seq(BuildNodes) /\ Built(nodes)
      /\ c.parent <= Len(nodes) /\ (c.parent # 0 => ~nodes[c.parent].isLeaf)
  BY Turn, Current DEF Growing
<1>2. /\ Once(nodes, C) /\ Kept(nodes, C) /\ Awaited(nodes, C)
      /\ Content(nodes) /\ Children(nodes) /\ Parents(nodes)
  BY DEF Growing, Grown
<1>3. Passed(c, new, E) /\ Covers(c, ty, new, E)
  OBVIOUS
<1> HIDE DEF c, C
<1>4. Growth(ns, c, ty, new)
  BY <1>1, Grows
<1> HIDE DEF ns, F
<1>5. Once(ns, F)
  BY <1>1, <1>2, <1>3, <1>4, OnceGrows DEF F
<1>6. Kept(ns, F)
  BY <1>1, <1>2, <1>3, <1>4, KeptGrows DEF F
<1>7. Awaited(ns, F)
  BY <1>1, <1>2, <1>3, <1>4, AwaitedGrows DEF F
<1>8. Content(ns)
  BY <1>1, <1>2, <1>3, <1>4, ContentGrows
<1>9. Children(ns)
  BY <1>1, <1>2, <1>3, <1>4, ChildrenGrow
<1>10. Parents(ns)
  BY <1>1, <1>2, <1>3, <1>4, ParentsGrow
<1>11. Grown(ns, F)
  BY <1>5, <1>6, <1>7, <1>8, <1>9, <1>10 DEF Grown
<1> QED BY <1>11 DEF F, ns, c, C

(* BuildLeaf keeps the triangles of the call in the leaf.                   *)
LEMMA BuildLeafGrows ==
    ASSUME Growing, BuildLeaf
    PROVE  Grown(nodes', Range(calls')) /\ IsInjective(calls')
<1> DEFINE c == Head(calls)
           ts == c.tris
           new == LeafNode(ts)
           C == Range(calls)
<1>1. pc = "build" /\ nodes' = Append(Link(c, Poly3), new) /\ calls' = Tail(calls)
  BY DEF BuildLeaf
<1>2. /\ calls \in Seq(BuildCalls) /\ calls # << >> /\ c = calls[1]
      /\ ts \in Seq(DOMAIN tris) /\ ts # << >> /\ IsInjective(ts) /\ tris \in Soups
  BY <1>1, Turn, Current DEF Growing
<1>3. /\ new \in BuildNodes /\ new.isLeaf = TRUE /\ new.tris = ts
      /\ \A s \in Slots : new.child[s] = 0 /\ new.type[s] = None
  <2> HIDE DEF ts, c
  <2>1. Fresh(LeafNode(ts), TRUE, ts)
    BY <1>2, NewNode
  <2> QED BY <2>1 DEF Fresh
<1>4. Fits(new, ts)
  <2> HIDE DEF ts, c
  <2> QED BY <1>2, NewBounds
<1>5. Poly3 \in Kind
  BY DEF Kind
<1> DEFINE E == {x \in BuildCalls : FALSE}
<1>6. E = {} /\ E \in SUBSET BuildCalls
  OBVIOUS
<1> HIDE DEF E
<1>7. Passed(c, new, E)
  <2> HIDE DEF new
  <2> QED BY <1>2, <1>3, <1>6 DEF Passed, IsInjective
<1>8. Covers(c, Poly3, new, E)
  <2> HIDE DEF new
  <2> QED BY <1>2, <1>3, <1>4, <1>6 DEF Covers, Fits
<1>9. Grown(nodes', E \cup (C \ {c}))
  <2> HIDE DEF new
  <2> QED BY <1>1, <1>3, <1>5, <1>6, <1>7, <1>8, GrownBy
<1>10. IsInjective(Tail(calls)) /\ Range(Tail(calls)) = E \cup (C \ {c})
  <2> DEFINE es == << >>
  <2>1. es \in Seq(BuildCalls) /\ Range(es) = {} /\ IsInjective(es)
    BY DEF Range, IsInjective
  <2>2. es \o Tail(calls) = Tail(calls)
    <3>1. Tail(calls) \in Seq(BuildCalls)
      BY <1>2
    <3> QED BY <3>1, ConcatEmptySeq
  <2> HIDE DEF es
  <2>3. IsInjective(calls) /\ \A x \in Range(es) : x \notin Range(calls)
    BY <2>1 DEF Growing
  <2>4. IsInjective(es \o Tail(calls))
        /\ Range(es \o Tail(calls)) = Range(es) \cup (Range(calls) \ {calls[1]})
    BY <1>2, <2>1, <2>3, Popped
  <2> QED BY <1>2, <1>6, <2>1, <2>2, <2>4
<1> QED BY <1>1, <1>9, <1>10

\* What BuildBVH4Node calls itself with for the parts of a sorted list.
CallsFor(s, d, me) == [p \in DOMAIN Parts(s) |-> Call(Parts(s)[p], d, me, p)]

\* A list that can be divided, and an order of it.
Divisible(ts, s) ==
    ts \in Seq(DOMAIN tris) /\ IsInjective(ts) /\ Len(ts) >= 2 /\ s \in SortedOrders(ts)

\* Calls that pass a call's triangles on, to slots of a new node.
PassedOn(c, new, es, me) ==
    /\ Passed(c, new, Range(es)) /\ IsInjective(es)
    /\ \A x \in Range(es) : x.parent = me
    /\ \A x, y \in Range(es) : x.slot = y.slot => x = y

(* The calls for the parts of a list pass all its triangles on.             *)
LEMMA PartsPassed ==
    ASSUME NEW c, NEW s, Divisible(c.tris, s), NEW new, new.tris = << >>, NEW d, NEW me
    PROVE  PassedOn(c, new, CallsFor(s, d, me), me)
<1> DEFINE ps == Parts(s)
           es == [p \in DOMAIN ps |-> Call(ps[p], d, me, p)]
           ts == c.tris
<1>0. es = CallsFor(s, d, me)
  BY DEF CallsFor
<1>. /\ c.tris \in Seq(DOMAIN tris) /\ IsInjective(c.tris) /\ Len(c.tris) >= 2
     /\ s \in SortedOrders(c.tris)
  BY DEF Divisible
<1>1. s \in Seq(DOMAIN tris) /\ Len(s) = Len(ts)
  BY Order
<1>2. IsInjective(s) /\ Range(s) = Range(ts)
  BY Sorted
<1>3. Divided(ps, s)
  BY <1>1, <1>2, Parted
<1> HIDE DEF ps, ts
<1>4. \A p \in DOMAIN ps : /\ es[p] \in Range(es) /\ es[p].tris = ps[p] /\ es[p].slot = p
                           /\ es[p].parent = me
  BY DEF Call, Range
<1>5. \A x \in Range(es) : \E p \in DOMAIN ps : x = es[p]
  BY DEF Range
<1>6. DOMAIN es = DOMAIN ps
  OBVIOUS
<1> DEFINE E == Range(es)
<1>7. \A p \in DOMAIN ps : /\ es[p] \in E /\ es[p].tris = ps[p] /\ es[p].slot = p
                           /\ es[p].parent = me
  BY <1>4
<1>8. \A x \in E : \E p \in DOMAIN ps : x = es[p]
  BY <1>5
<1> HIDE DEF es, E
<1>9. /\ \A p, q \in DOMAIN ps : \A k \in DOMAIN ps[p] : \A l \in DOMAIN ps[q] :
            ps[p][k] = ps[q][l] => p = q /\ k = l
      /\ \A p \in DOMAIN ps : \A k \in DOMAIN ps[p] : ps[p][k] \in Range(ts)
      /\ \A y \in Range(ts) : \E p \in DOMAIN ps : \E k \in DOMAIN ps[p] : ps[p][k] = y
  BY <1>2, <1>3 DEF Divided
<1>10. ASSUME NEW x \in E, NEW y \in E, NEW k \in DOMAIN x.tris, NEW l \in DOMAIN y.tris,
              x.tris[k] = y.tris[l]
       PROVE  x = y /\ k = l
  <2>1. PICK p \in DOMAIN ps : x = es[p]
    BY <1>8
  <2>2. PICK q \in DOMAIN ps : y = es[q]
    BY <1>8
  <2>3. x.tris = ps[p] /\ y.tris = ps[q]
    BY <1>7, <2>1, <2>2
  <2> QED BY <1>9, <1>10, <2>1, <2>2, <2>3
<1>11. ASSUME NEW x \in E, NEW k \in DOMAIN x.tris
       PROVE  \E m \in DOMAIN ts : ts[m] = x.tris[k]
  <2>1. PICK p \in DOMAIN ps : x = es[p]
    BY <1>8
  <2>2. x.tris[k] \in Range(ts)
    BY <1>7, <1>9, <2>1
  <2> QED BY <2>2 DEF Range
<1>12. ASSUME NEW m \in DOMAIN ts
       PROVE  \E x \in E : \E k \in DOMAIN x.tris : x.tris[k] = ts[m]
  <2>1. PICK p \in DOMAIN ps : \E k \in DOMAIN ps[p] : ps[p][k] = ts[m]
    BY <1>9 DEF Range
  <2> QED BY <1>7, <2>1
<1>13. Passed(c, new, E)
  <2>1. DOMAIN new.tris = {}
    OBVIOUS
  <2> QED BY <1>10, <1>11, <1>12, <2>1 DEF Passed, ts
<1>14. IsInjective(es)
  <2>1. \A p, q \in DOMAIN ps : es[p] = es[q] => p = q
    BY <1>7
  <2> QED BY <1>6, <2>1 DEF IsInjective
<1>15. \A x, y \in E : x.slot = y.slot => x = y
  BY <1>7, <1>8
<1>16. \A x \in E : x.parent = me
  BY <1>7, <1>8
<1> QED BY <1>0, <1>13, <1>14, <1>15, <1>16 DEF E, PassedOn

(* BuildInner keeps them in the calls it makes.                             *)
LEMMA BuildInnerGrows ==
    ASSUME Growing, BuildInner
    PROVE  Grown(nodes', Range(calls')) /\ IsInjective(calls')
<1> DEFINE c == Head(calls)
           ts == c.tris
           new == InnerNode(ts)
           C == Range(calls)
           me == Len(nodes) + 1
<1>1. pc = "build" /\ nodes' = Append(Link(c, Node), new)
  BY DEF BuildInner
<1>2. /\ calls \in Seq(BuildCalls) /\ calls # << >> /\ c = calls[1]
      /\ ts \in Seq(DOMAIN tris) /\ ts # << >> /\ IsInjective(ts) /\ tris \in Soups
      /\ Len(ts) <= Capacity[MaxDepth - c.depth] /\ c.depth \in 0 .. MaxDepth
      /\ nodes \in Seq(BuildNodes) /\ \A x \in C : x.parent <= Len(nodes)
      /\ C \in SUBSET BuildCalls
  BY <1>1, Turn, Current DEF Growing
<1>3. PICK s \in SortedOrders(ts) :
          calls' = [p \in DOMAIN Parts(s) |-> Call(Parts(s)[p], c.depth + 1, me, p)] \o Tail(calls)
  BY DEF BuildInner
<1> DEFINE es == [p \in DOMAIN Parts(s) |-> Call(Parts(s)[p], c.depth + 1, me, p)]
           E == Range(es)
<1>4. Len(ts) >= 2 /\ c.depth < MaxDepth
  <2>1. ~(Len(ts) <= MaxLeaf) /\ c.depth < MaxDepth
    BY DEF BuildInner, FitsLeaf
  <2>2. Len(ts) \in Nat /\ MaxLeaf \in Nat \ {0}
    BY <1>2, LeafAssumption
  <2> HIDE DEF ts, c
  <2> QED BY <2>1, <2>2
<1>5. /\ new \in BuildNodes /\ new.isLeaf = FALSE /\ new.tris = << >>
      /\ \A k \in Slots : new.child[k] = 0 /\ new.type[k] = None
  <2> HIDE DEF ts, c
  <2>1. Fresh(InnerNode(ts), FALSE, << >>)
    BY <1>2, NewNode
  <2> QED BY <2>1 DEF Fresh
<1>6. Fits(new, ts)
  <2> HIDE DEF ts, c
  <2> QED BY <1>2, NewBounds
<1>7. Node \in Kind
  BY DEF Kind
<1>8. es \in Seq(BuildCalls)
  <2>1. s \in Seq(DOMAIN tris) /\ Len(s) = Len(ts)
    BY <1>2, Order
  <2>2. /\ c.depth \in 0 .. MaxDepth /\ c.depth < MaxDepth
        /\ Len(s) <= Capacity[MaxDepth - c.depth] /\ Len(s) >= 2 /\ me \in Nat
    BY <1>2, <1>4, <2>1
  <2> HIDE DEF me, c
  <2> QED BY <2>1, <2>2, PartCalls
<1>9. /\ Passed(c, new, E) /\ IsInjective(es)
      /\ \A x \in E : x.parent = me
      /\ \A x, y \in E : x.slot = y.slot => x = y
  <2>1. Divisible(c.tris, s)
    BY <1>2, <1>3, <1>4 DEF Divisible
  <2> DEFINE d == c.depth + 1
  <2>2. es = CallsFor(s, d, me)
    BY DEF CallsFor
  <2>3. new.tris = << >>
    BY <1>5
  <2> HIDE DEF c, new, me, es, d, E
  <2>4. Divisible(c.tris, s) /\ new.tris = << >>
    BY <2>1, <2>3
  <2>5. PassedOn(c, new, CallsFor(s, d, me), me)
    BY <2>4, PartsPassed
  <2> QED BY <2>2, <2>5 DEF E, PassedOn
<1>10. calls' = es \o Tail(calls)
  BY <1>3
<1>11. E \in SUBSET BuildCalls
  <2> HIDE DEF es
  <2> QED BY <1>8 DEF Range
<1> HIDE DEF es, E
<1>12. Covers(c, Node, new, E)
  <2> HIDE DEF new
  <2> QED BY <1>2, <1>5, <1>6, <1>9 DEF Covers, Fits
<1>13. Grown(nodes', E \cup (C \ {c}))
  <2>1. Passed(Head(calls), new, E) /\ Covers(Head(calls), Node, new, E)
    BY <1>9, <1>12
  <2> HIDE DEF new
  <2> QED BY <1>1, <1>5, <1>7, <1>11, <2>1, GrownBy
<1>14. IsInjective(calls') /\ Range(calls') = E \cup (C \ {c})
  <2>1. IsInjective(calls)
    BY DEF Growing
  <2>2. \A x \in Range(es) : x \notin Range(calls)
    <3>1. \A x \in C : x.parent # me
      <4>1. Len(nodes) \in Nat /\ \A x \in C : x.parent \in Nat
        BY <1>2 DEF BuildCalls
      <4> QED BY <1>2, <4>1
    <3> QED BY <1>9, <3>1 DEF E
  <2>3. IsInjective(es \o Tail(calls))
        /\ Range(es \o Tail(calls)) = Range(es) \cup (Range(calls) \ {calls[1]})
    BY <1>2, <1>8, <1>9, <2>1, <2>2, Popped
  <2> QED BY <1>2, <1>10, <2>3 DEF E
<1> QED BY <1>13, <1>14

-----------------------------------------------------------------------------
(* The tree to be written.                                                 *)

\* What is written in a child slot of a node; a tree of one leaf has it as its first child.
Kid(b, s) == IF ~nodes[b].isLeaf THEN nodes[b].child[s] ELSE IF s = 1 THEN b ELSE 0
KidType(c) == IF c = 0 THEN None ELSE IF nodes[c].isLeaf THEN Poly3 ELSE Node
Tops == {b \in 1 .. Len(nodes) : ~nodes[b].isLeaf \/ b = 1}

\* Every leaf, and every node but the first, is the child of one node, in one slot.
Tree ==
    /\ Len(nodes) \in Nat /\ 1 \in Tops
    /\ \A b \in Tops : \A s \in Slots : Kid(b, s) \in 0 .. Len(nodes)
    /\ \A b, d \in Tops : \A s, r \in Slots :
          Kid(b, s) # 0 /\ Kid(b, s) = Kid(d, r) => b = d /\ s = r
    /\ \A c \in 1 .. Len(nodes) : nodes[c].isLeaf \/ c # 1 =>
          \E b \in Tops : \E s \in Slots : Kid(b, s) = c /\ (nodes[c].isLeaf \/ b < c)
    /\ \A b \in Tops : \A s \in Slots :
          LET c == Kid(b, s)
          IN  c # 0 =>
                /\ ~nodes[c].isLeaf => c \in Tops /\ b < c
                /\ \A a \in Axes : /\ nodes[b].mins[a] <= nodes[c].mins[a]
                                   /\ nodes[c].maxs[a] <= nodes[b].maxs[a]
    /\ \A b \in Tops : ~nodes[b].isLeaf =>
          \A s \in Slots : nodes[b].type[s] = KidType(nodes[b].child[s])
    /\ \A b \in Tops : \A s \in Slots :
          Kid(b, s) # 0 /\ ~nodes[Kid(b, s)].isLeaf => ~nodes[b].isLeaf

(* A built tree is one.                                                     *)
LEMMA TreeBuilt ==
    ASSUME BInv, Grown(nodes, {}), nodes # << >>
    PROVE  Tree
<1> DEFINE n == Len(nodes)
<1>1. /\ nodes \in Seq(BuildNodes) /\ n \in Nat \ {0} /\ Built(nodes)
      /\ Content(nodes) /\ Children(nodes) /\ Parents(nodes)
  BY DEF BInv, Built, Grown
<1>2. \A i \in 1 .. n : /\ nodes[i].isLeaf \in BOOLEAN
                        /\ nodes[i].mins \in Coords /\ nodes[i].maxs \in Coords
                        /\ nodes[i].child \in [Slots -> Nat] /\ nodes[i].type \in [Slots -> Kind]
  BY <1>1, NodeFields
<1>3. \A i \in 1 .. n : \A s \in Slots :
        /\ nodes[i].child[s] = 0 => nodes[i].type[s] = None
        /\ nodes[i].child[s] # 0 =>
              /\ nodes[i].child[s] \in i + 1 .. n
              /\ nodes[i].type[s] = IF nodes[nodes[i].child[s]].isLeaf THEN Poly3 ELSE Node
              /\ \A a \in Axes : /\ nodes[i].mins[a] <= nodes[nodes[i].child[s]].mins[a]
                                 /\ nodes[nodes[i].child[s]].maxs[a] <= nodes[i].maxs[a]
  BY <1>1 DEF Children
<1>4. \A i \in 1 .. n : nodes[i].isLeaf => \A s \in Slots : nodes[i].child[s] = 0
  BY <1>1 DEF Content
<1>5. /\ \A j \in 2 .. n : \E i \in 1 .. j - 1 : \E s \in Slots : nodes[i].child[s] = j
      /\ \A i, j \in 1 .. n : \A s, r \in Slots :
            nodes[i].child[s] # 0 /\ nodes[i].child[s] = nodes[j].child[r] => i = j /\ s = r
  BY <1>1 DEF Parents
<1> HIDE DEF n
<1>6. nodes[1].isLeaf => n = 1
  <2> SUFFICES ASSUME nodes[1].isLeaf, n # 1 PROVE FALSE
    OBVIOUS
  <2>1. 2 \in 2 .. n /\ 1 \in 1 .. n
    BY <1>1
  <2>2. PICK i \in 1 .. 1 : \E s \in Slots : nodes[i].child[s] = 2
    BY <1>5, <2>1
  <2> QED BY <1>4, <2>1, <2>2
<1>7. /\ 1 \in Tops /\ \A b \in Tops : b \in 1 .. n
      /\ \A b \in 1 .. n : ~nodes[b].isLeaf => b \in Tops
      /\ \A b \in Tops : nodes[b].isLeaf => b = 1 /\ n = 1
  BY <1>1, <1>6 DEF Tops, n
<1>8. \A b \in Tops : /\ ~nodes[b].isLeaf => \A s \in Slots : Kid(b, s) = nodes[b].child[s]
                      /\ nodes[b].isLeaf =>
                            \A s \in Slots : Kid(b, s) = IF s = 1 THEN 1 ELSE 0
  BY <1>7 DEF Kid
<1>9. \A b \in Tops : \A s \in Slots : Kid(b, s) \in 0 .. n
  <2> SUFFICES ASSUME NEW b \in Tops, NEW s \in Slots PROVE Kid(b, s) \in 0 .. n
    OBVIOUS
  <2>1. CASE nodes[b].isLeaf
    BY <1>7, <1>8, <2>1
  <2>2. CASE ~nodes[b].isLeaf
    <3>1. nodes[b].child[s] \in Nat /\ b \in 1 .. n
      BY <1>2, <1>7
    <3>2. nodes[b].child[s] # 0 => nodes[b].child[s] \in b + 1 .. n
      BY <1>3, <3>1
    <3> QED BY <1>1, <1>8, <2>2, <3>1, <3>2
  <2> QED BY <2>1, <2>2
<1>10. \A b, d \in Tops : \A s, r \in Slots :
          Kid(b, s) # 0 /\ Kid(b, s) = Kid(d, r) => b = d /\ s = r
  <2> TAKE b, d \in Tops
  <2> TAKE s, r \in Slots
  <2> HAVE Kid(b, s) # 0 /\ Kid(b, s) = Kid(d, r)
  <2>1. CASE n = 1
    <3>1. b = 1 /\ d = 1
      BY <1>7, <2>1
    <3>2. CASE nodes[1].isLeaf
      BY <1>7, <1>8, <3>1, <3>2
    <3>3. CASE ~nodes[1].isLeaf
      BY <1>5, <1>7, <1>8, <3>1, <3>3
    <3> QED BY <3>2, <3>3
  <2>2. CASE n # 1
    BY <1>5, <1>7, <1>8, <2>2
  <2> QED BY <2>1, <2>2
<1>11. ASSUME NEW c \in 1 .. n, nodes[c].isLeaf \/ c # 1
       PROVE  \E b \in Tops : \E s \in Slots : Kid(b, s) = c /\ (nodes[c].isLeaf \/ b < c)
  <2>1. CASE c = 1
    <3>1. nodes[1].isLeaf /\ 1 \in Slots
      BY <1>11, <2>1 DEF Slots
    <3>2. Kid(1, 1) = 1
      BY <1>7, <1>8, <3>1
    <3> QED BY <1>7, <2>1, <3>1, <3>2
  <2>2. CASE c # 1
    <3>1. c \in 2 .. n
      BY <1>1, <2>2
    <3>2. PICK i \in 1 .. c - 1 : \E s \in Slots : nodes[i].child[s] = c
      BY <1>5, <3>1
    <3>3. i \in 1 .. n /\ i < c
      BY <1>1, <3>1
    <3>4. ~nodes[i].isLeaf
      BY <1>4, <3>1, <3>2, <3>3
    <3> QED BY <1>7, <1>8, <3>2, <3>3, <3>4
  <2> QED BY <2>1, <2>2
<1>12. ASSUME NEW b \in Tops, NEW s \in Slots, NEW c, c = Kid(b, s), c # 0
       PROVE  /\ ~nodes[c].isLeaf => c \in Tops /\ b < c
              /\ \A a \in Axes : /\ nodes[b].mins[a] <= nodes[c].mins[a]
                                 /\ nodes[c].maxs[a] <= nodes[b].maxs[a]
              /\ ~nodes[c].isLeaf => ~nodes[b].isLeaf
  <2>1. CASE nodes[b].isLeaf
    <3>1. c = b /\ b \in 1 .. n
      BY <1>7, <1>8, <1>12, <2>1
    <3>2. \A a \in Axes : nodes[b].mins[a] \in Int /\ nodes[b].maxs[a] \in Int
      BY <1>2, <3>1 DEF Coords
    <3> QED BY <2>1, <3>1, <3>2
  <2>2. CASE ~nodes[b].isLeaf
    <3>1. c = nodes[b].child[s] /\ b \in 1 .. n
      BY <1>7, <1>8, <1>12, <2>2
    <3>2. /\ c \in b + 1 .. n
          /\ \A a \in Axes : /\ nodes[b].mins[a] <= nodes[c].mins[a]
                             /\ nodes[c].maxs[a] <= nodes[b].maxs[a]
      BY <1>3, <1>12, <3>1
    <3>3. c \in 1 .. n /\ b < c
      BY <1>1, <3>1, <3>2
    <3> QED BY <1>7, <2>2, <3>2, <3>3
  <2> QED BY <2>1, <2>2
<1>13. ASSUME NEW b \in Tops, ~nodes[b].isLeaf, NEW s \in Slots
       PROVE  nodes[b].type[s] = KidType(nodes[b].child[s])
  BY <1>3, <1>7, <1>13 DEF KidType
<1> QED BY <1>1, <1>7, <1>9, <1>10, <1>11, <1>12, <1>13 DEF Tree, n

\* Every triangle is in one leaf, which has some, at one place, and encloses them.
Filled ==
    /\ \A c \in 1 .. Len(nodes) :
          /\ nodes[c].tris \in Seq(DOMAIN tris) /\ Len(nodes[c].tris) \in 0 .. MaxLeaf
          /\ nodes[c].isLeaf <=> Len(nodes[c].tris) # 0
          /\ nodes[c].mins \in Coords /\ nodes[c].maxs \in Coords
          /\ \A k \in 1 .. Len(nodes[c].tris) :
                Inside(nodes[c].tris[k], nodes[c].mins, nodes[c].maxs)
    /\ \A i, j \in 1 .. Len(nodes) :
          \A k \in 1 .. Len(nodes[i].tris) : \A l \in 1 .. Len(nodes[j].tris) :
              nodes[i].tris[k] = nodes[j].tris[l] => i = j /\ k = l
    /\ \A t \in DOMAIN tris : \E i \in 1 .. Len(nodes) :
          \E k \in 1 .. Len(nodes[i].tris) : nodes[i].tris[k] = t

(* So are those of a built tree.                                            *)
LEMMA TreeFilled ==
    ASSUME BInv, Grown(nodes, {})
    PROVE  Filled
<1> DEFINE n == Len(nodes)
<1>1. /\ nodes \in Seq(BuildNodes) /\ Built(nodes) /\ MaxLeaf \in Nat
      /\ Content(nodes) /\ Once(nodes, {}) /\ Kept(nodes, {})
  BY LeafAssumption DEF BInv, Built, Grown
<1>2. \A c \in 1 .. n :
        /\ nodes[c].isLeaf \in BOOLEAN /\ nodes[c].tris \in Seq(DOMAIN tris)
        /\ Len(nodes[c].tris) \in Nat /\ DOMAIN nodes[c].tris = 1 .. Len(nodes[c].tris)
        /\ nodes[c].mins \in Coords /\ nodes[c].maxs \in Coords
  <2> TAKE c \in 1 .. n
  <2>1. /\ nodes[c].isLeaf \in BOOLEAN /\ nodes[c].tris \in Seq(DOMAIN tris)
        /\ nodes[c].mins \in Coords /\ nodes[c].maxs \in Coords
    BY <1>1, NodeFields
  <2> QED BY <2>1
<1> HIDE DEF n
<1>3. \A c \in 1 .. n : Len(nodes[c].tris) <= MaxLeaf
  BY <1>1 DEF Built, n
<1>4. ASSUME NEW c \in 1 .. n
      PROVE  /\ nodes[c].isLeaf <=> Len(nodes[c].tris) # 0
             /\ \A k \in 1 .. Len(nodes[c].tris) :
                   Inside(nodes[c].tris[k], nodes[c].mins, nodes[c].maxs)
  <2>1. CASE nodes[c].isLeaf
    <3>1. nodes[c].tris # << >> /\ \A k \in DOMAIN nodes[c].tris :
             Inside(nodes[c].tris[k], nodes[c].mins, nodes[c].maxs)
      BY <1>1, <2>1 DEF Content, n
    <3>2. Len(nodes[c].tris) # 0
      BY <1>2, <3>1, EmptySeq
    <3> QED BY <1>2, <2>1, <3>1, <3>2
  <2>2. CASE ~nodes[c].isLeaf
    <3>1. nodes[c].tris = << >>
      BY <1>1, <2>2 DEF Content, n
    <3>2. Len(nodes[c].tris) = 0
      BY <3>1
    <3> QED BY <2>2, <3>2
  <2> QED BY <1>2, <2>1, <2>2
<1>5. \A i, j \in 1 .. n : \A k \in 1 .. Len(nodes[i].tris) : \A l \in 1 .. Len(nodes[j].tris) :
         nodes[i].tris[k] = nodes[j].tris[l] => i = j /\ k = l
  BY <1>1, <1>2 DEF Once, n
<1>6. \A t \in DOMAIN tris : \E i \in 1 .. n : \E k \in 1 .. Len(nodes[i].tris) :
         nodes[i].tris[k] = t
  BY <1>1, <1>2 DEF Kept, n
<1>7. \A c \in 1 .. n : Len(nodes[c].tris) \in 0 .. MaxLeaf
  BY <1>1, <1>2, <1>3
<1> QED BY <1>2, <1>4, <1>5, <1>6, <1>7 DEF Filled, n

-----------------------------------------------------------------------------
(* What has been written of it.  em has the build node of every written      *)
(* node, tr the triangle of every three packed vertices, P the calls that    *)
(* are still to be made.                                                   *)

\* A call will fill the child slot.
Pend(P, i, s) == \E x \in P : x.parent = i /\ x.slot = s

\* The words at x are a leaf's, and lead to the vertices of its triangles.
Held(ls, tr, x, c) ==
    \E o \in 0 .. Len(tr) :
        LET n == Len(nodes[c].tris)
        IN  /\ o + n <= Len(tr) /\ \A k \in 1 .. n : tr[o + k] = nodes[c].tris[k]
            /\ x + n + 1 <= Len(ls)
            /\ \A k \in 1 .. n + 1 : ls[x + k] = LeafWords(n, 3 * o)[k]

\* A build node is written once, the first one first.
Ordered(bs, em) ==
    /\ em \in Seq(Tops) /\ Len(em) = Len(bs) /\ Len(em) \in Nat
    /\ \A i, j \in 1 .. Len(em) : em[i] = em[j] => i = j
    /\ Len(em) # 0 => em[1] = 1

\* A written node has the types and the packed bounds of its children.
Drawn(bs, em) ==
    \A i \in 1 .. Len(bs) : \A s \in Slots :
        LET c == Kid(em[i], s)
        IN  /\ bs[i].type[s] = KidType(c)
            /\ c # 0 => /\ bs[i].mins[s] = PackMins(nodes[c].mins)
                        /\ bs[i].maxs[s] = PackMaxs(nodes[c].maxs)

\* Its indices are those of its children's words and nodes.
Indices(bs, ls, em, tr, P) ==
    \A i \in 1 .. Len(bs) : \A s \in Slots :
        LET c == Kid(em[i], s)
            x == bs[i].index[s]
        IN  c # 0 /\ ~Pend(P, i, s) =>
              IF nodes[c].isLeaf THEN Held(ls, tr, x, c)
              ELSE x + 1 \in i + 1 .. Len(bs) /\ em[x + 1] = c

\* A call is for a child of a written node, or the first of all.
Waiting(bs, em, P) ==
    /\ P \in SUBSET EmitCalls
    /\ Len(bs) = 0 => P # {}
    /\ \A x \in P : x.parent = 0 => x.build = 1 /\ Len(bs) = 0 /\ P = {x}
    /\ \A x \in P : x.parent # 0 =>
          x.parent \in 1 .. Len(bs) /\ Kid(em[x.parent], x.slot) = x.build /\ x.build # 0

\* Every written node but the first is a child of an earlier one.
Reached(bs, em, P) ==
    \A j \in 2 .. Len(bs) : \E i \in 1 .. j - 1 : \E s \in Slots :
        Kid(em[i], s) = em[j] /\ ~Pend(P, i, s)

\* The vertices are those of the triangles of written leaves, once each.
Taken(em, tr, P) ==
    /\ tr \in Seq(DOMAIN tris) /\ Len(tr) \in Nat
    /\ \A q, r \in 1 .. Len(tr) : tr[q] = tr[r] => q = r
    /\ \A q \in 1 .. Len(tr) : \E i \in 1 .. Len(em) : \E s \in Slots :
          /\ ~Pend(P, i, s) /\ Kid(em[i], s) # 0
          /\ \E k \in 1 .. Len(nodes[Kid(em[i], s)].tris) : nodes[Kid(em[i], s)].tris[k] = tr[q]

Mapped(bs, ls, em, tr, P) ==
    /\ Ordered(bs, em) /\ Drawn(bs, em) /\ Indices(bs, ls, em, tr, P)
    /\ Waiting(bs, em, P) /\ Reached(bs, em, P) /\ Taken(em, tr, P)

(* With a call that has been made, its child slot is no longer to be filled. *)
LEMMA PendLess ==
    ASSUME NEW bs, NEW em, NEW P, Waiting(bs, em, P), NEW e \in P, e.parent # 0, NEW i, NEW s
    PROVE  Pend(P \ {e}, i, s) <=> Pend(P, i, s) /\ ~(i = e.parent /\ s = e.slot)
<1>1. /\ P \in SUBSET EmitCalls
      /\ \A x \in P : x.parent # 0 => Kid(em[x.parent], x.slot) = x.build
  BY DEF Waiting
<1>2. ASSUME NEW x \in P, x.parent = e.parent, x.slot = e.slot PROVE x = e
  <2>1. x.build = e.build
    BY <1>1, <1>2
  <2>2. x \in EmitCalls /\ e \in EmitCalls
    BY <1>1
  <2> QED BY <1>2, <2>1, <2>2 DEF EmitCalls
<1> QED BY <1>2 DEF Pend

(* The header of a leaf and its words, one by one.                          *)
LEMMA WordsAre ==
    ASSUME NEW n \in Nat, NEW b \in Nat
    PROVE  /\ LeafWords(n, b) \in Seq(Words) /\ Len(LeafWords(n, b)) = n + 1
           /\ LeafWords(n, b)[1] = [num |-> n - 1, base |-> (b \div BaseUnit) % BaseField]
           /\ \A i \in 1 .. n : LeafWords(n, b)[i + 1] =
                 [offset |-> (b + 3 * (i - 1)
                                - (IF i = 1 THEN BaseUnit * (b \div BaseUnit) ELSE b + 3 * (i - 2)))
                             % (2 * BaseUnit),
                  d1 |-> 0, d2 |-> 1]
<1> DEFINE head == [num |-> n - 1, base |-> (b \div BaseUnit) % BaseField]
           off(i) == (b + 3 * (i - 1)
                       - (IF i = 1 THEN BaseUnit * (b \div BaseUnit) ELSE b + 3 * (i - 2)))
                     % (2 * BaseUnit)
           wd(i) == [offset |-> off(i), d1 |-> 0, d2 |-> 1]
           word == [i \in 1 .. n |-> wd(i)]
           V == {head} \cup {word[i] : i \in 1 .. n}
<1>1. LeafWords(n, b) \in Seq(Words)
  BY WordsOf
<1>2. LeafWords(n, b) = <<head>> \o word
  BY DEF LeafWords
<1>3. word \in Seq(V) /\ Len(word) = n /\ \A i \in 1 .. n : word[i] = wd(i)
  <2> HIDE DEF head, wd
  <2> QED OBVIOUS
<1>4. <<head>> \in Seq(V) /\ Len(<<head>>) = 1 /\ <<head>>[1] = head
  <2> HIDE DEF word
  <2> QED BY DEF V
<1> HIDE DEF head, wd, word, V
<1>5. Len(<<head>> \o word) = n + 1 /\ (<<head>> \o word)[1] = head
      /\ \A i \in 1 .. n : (<<head>> \o word)[i + 1] = word[i]
  BY <1>3, <1>4
<1>6. Len(LeafWords(n, b)) = n + 1 /\ LeafWords(n, b)[1] = head
      /\ \A i \in 1 .. n : LeafWords(n, b)[i + 1] = wd(i)
  BY <1>2, <1>3, <1>5
<1> QED BY <1>1, <1>6 DEF head, wd

(* What is written later leaves a leaf as it is.                            *)
LEMMA HeldGrows ==
    ASSUME NEW S, NEW T, NEW ls \in Seq(S), NEW l2 \in Seq(S), NEW tr \in Seq(T), NEW t2 \in Seq(T),
           NEW x \in Nat, NEW c \in 1 .. Len(nodes), Filled, Held(ls, tr, x, c)
    PROVE  Held(ls \o l2, tr \o t2, x, c)
<1> DEFINE n == Len(nodes[c].tris)
           la == ls \o l2
           ta == tr \o t2
<1>1. n \in Nat
  BY LeafAssumption DEF Filled
<1>2. /\ Len(la) = Len(ls) + Len(l2) /\ Len(ls) \in Nat /\ Len(l2) \in Nat
      /\ \A k \in 1 .. Len(ls) : la[k] = ls[k]
  BY ConcatProperties
<1>3. /\ Len(ta) = Len(tr) + Len(t2) /\ Len(tr) \in Nat /\ Len(t2) \in Nat
      /\ \A k \in 1 .. Len(tr) : ta[k] = tr[k]
  BY ConcatProperties
<1> HIDE DEF n, la, ta
<1>4. PICK o \in 0 .. Len(tr) :
         /\ o + n <= Len(tr) /\ \A k \in 1 .. n : tr[o + k] = nodes[c].tris[k]
         /\ x + n + 1 <= Len(ls)
         /\ \A k \in 1 .. n + 1 : ls[x + k] = LeafWords(n, 3 * o)[k]
  BY DEF Held, n
<1>5. o \in 0 .. Len(ta) /\ o + n <= Len(ta) /\ x + n + 1 <= Len(la)
  BY <1>1, <1>2, <1>3, <1>4
<1>6. \A k \in 1 .. n : ta[o + k] = nodes[c].tris[k]
  <2> TAKE k \in 1 .. n
  <2>1. o + k \in 1 .. Len(tr)
    BY <1>1, <1>3, <1>4
  <2> QED BY <1>3, <1>4, <2>1
<1>7. \A k \in 1 .. n + 1 : la[x + k] = LeafWords(n, 3 * o)[k]
  <2> TAKE k \in 1 .. n + 1
  <2>1. x + k \in 1 .. Len(ls)
    BY <1>1, <1>2, <1>4
  <2> QED BY <1>2, <1>4, <2>1
<1>8. Held(la, ta, x, c)
  BY <1>5, <1>6, <1>7 DEF Held, n
<1> QED BY <1>8 DEF la, ta

(* What EmitPoly3Leaf writes leads to the leaf's triangles.                 *)
LEMMA HeldNew ==
    ASSUME NEW ls \in Seq(Words), NEW tr \in Seq(DOMAIN tris), NEW c \in 1 .. Len(nodes), Filled,
           NEW n, n = Len(nodes[c].tris), NEW ws, ws = LeafWords(n, 3 * Len(tr))
    PROVE  Held(ls \o ws, tr \o nodes[c].tris, Len(ls), c)
<1> DEFINE t2 == nodes[c].tris
           la == ls \o ws
           ta == tr \o t2
           T == DOMAIN tris
<1>1. t2 \in Seq(T) /\ n \in Nat /\ n = Len(t2)
  BY LeafAssumption DEF Filled
<1>2. Len(tr) \in Nat /\ 3 * Len(tr) \in Nat /\ Len(ls) \in Nat
  OBVIOUS
<1>3. ws \in Seq(Words) /\ Len(ws) = n + 1
  BY <1>1, <1>2, WordsAre
<1> HIDE DEF t2, T
<1>4. tr \in Seq(T)
  BY DEF T
<1>5. /\ Len(la) = Len(ls) + n + 1
      /\ \A k \in 1 .. n + 1 : la[Len(ls) + k] = ws[k]
  BY <1>1, <1>2, <1>3
<1>6. /\ Len(ta) = Len(tr) + n
      /\ \A k \in 1 .. n : ta[Len(tr) + k] = t2[k]
  BY <1>1, <1>2, <1>4
<1> HIDE DEF la, ta
<1>7. Len(tr) \in 0 .. Len(ta) /\ Len(tr) + n <= Len(ta) /\ Len(ls) + n + 1 <= Len(la)
  BY <1>1, <1>2, <1>5, <1>6
<1>8. \A k \in 1 .. n + 1 : la[Len(ls) + k] = LeafWords(n, 3 * Len(tr))[k]
  BY <1>5
<1>9. Held(la, ta, Len(ls), c)
  <2> DEFINE o == Len(tr)
  <2>1. o \in 0 .. Len(ta)
    BY <1>7
  <2>2. /\ o + n <= Len(ta) /\ \A k \in 1 .. n : ta[o + k] = nodes[c].tris[k]
        /\ Len(ls) + n + 1 <= Len(la)
        /\ \A k \in 1 .. n + 1 : la[Len(ls) + k] = LeafWords(n, 3 * o)[k]
    BY <1>6, <1>7, <1>8 DEF t2
  <2> HIDE DEF o
  <2> QED BY <2>1, <2>2 DEF Held
<1> QED BY <1>9 DEF la, ta, t2

(* The vertices of two lists of triangles in a row.                         *)
LEMMA VertsJoin ==
    ASSUME NEW tr \in Seq(DOMAIN tris), NEW ts \in Seq(DOMAIN tris)
    PROVE  LeafVerts(tr \o ts) = LeafVerts(tr) \o LeafVerts(ts)
<1> DEFINE F == DOMAIN tris
           ta == tr \o ts
           m == Len(tr)
           n == Len(ts)
           C(i, t) == Packed(CASE i % 3 = 1 -> t[1] [] i % 3 = 2 -> t[3] [] i % 3 = 0 -> t[2])
<1>1. tr \in Seq(F) /\ ts \in Seq(F)
  OBVIOUS
<1> HIDE DEF F
<1>2. /\ m \in Nat /\ n \in Nat /\ Len(ta) = m + n
      /\ \A k \in 1 .. m : ta[k] = tr[k]
      /\ \A k \in 1 .. n : ta[m + k] = ts[k]
  BY <1>1
<1> HIDE DEF ta, m, n, C
<1>3. /\ LeafVerts(ta) = [i \in 1 .. 3 * Len(ta) |-> C(i, tris[ta[(i + 2) \div 3]])]
      /\ LeafVerts(tr) = [i \in 1 .. 3 * m |-> C(i, tris[tr[(i + 2) \div 3]])]
      /\ LeafVerts(ts) = [i \in 1 .. 3 * n |-> C(i, tris[ts[(i + 2) \div 3]])]
  BY DEF LeafVerts, C, m, n
<1> DEFINE A == [i \in 1 .. 3 * m |-> C(i, tris[tr[(i + 2) \div 3]])]
           B == [i \in 1 .. 3 * n |-> C(i, tris[ts[(i + 2) \div 3]])]
           V == {A[i] : i \in 1 .. 3 * m} \cup {B[i] : i \in 1 .. 3 * n}
<1>4. /\ A \in Seq(V) /\ B \in Seq(V) /\ Len(A) = 3 * m /\ Len(B) = 3 * n
  <2>1. (\A i \in 1 .. 3 * m : A[i] \in V) /\ \A i \in 1 .. 3 * n : B[i] \in V
    OBVIOUS
  <2> HIDE DEF V
  <2>2. A \in [1 .. 3 * m -> V] /\ B \in [1 .. 3 * n -> V]
    BY <2>1
  <2> HIDE DEF A, B
  <2>3. 3 * m \in Nat /\ 3 * n \in Nat
    BY <1>2
  <2> DEFINE a == 3 * m
             b == 3 * n
  <2>4. a \in Nat /\ b \in Nat /\ A \in [1 .. a -> V] /\ B \in [1 .. b -> V]
    BY <2>2, <2>3
  <2> HIDE DEF a, b
  <2>5. /\ A \in Seq(V) /\ B \in Seq(V) /\ Len(A) = a /\ Len(B) = b
    BY <2>4
  <2> QED BY <2>5 DEF a, b
<1>5. \A i \in 1 .. 3 * m : A[i] = C(i, tris[ta[(i + 2) \div 3]])
  <2> TAKE i \in 1 .. 3 * m
  <2>1. (i + 2) \div 3 \in 1 .. m
    BY <1>2
  <2>2. ta[(i + 2) \div 3] = tr[(i + 2) \div 3]
    BY <1>2, <2>1
  <2> QED BY <2>2
<1>6. \A i \in 1 .. 3 * n : B[i] = C(3 * m + i, tris[ta[(3 * m + i + 2) \div 3]])
  <2> TAKE i \in 1 .. 3 * n
  <2>1. (i + 2) \div 3 \in 1 .. n /\ (3 * m + i + 2) \div 3 = m + (i + 2) \div 3
    BY <1>2
  <2>2. ta[(3 * m + i + 2) \div 3] = ts[(i + 2) \div 3]
    BY <1>2, <2>1
  <2>3. (3 * m + i) % 3 = i % 3
    BY <1>2
  <2> QED BY <2>2, <2>3 DEF C
<1>7. /\ A \o B \in Seq(V) /\ Len(A \o B) = 3 * m + 3 * n
      /\ \A i \in 1 .. 3 * m : (A \o B)[i] = A[i]
      /\ \A i \in 1 .. 3 * n : (A \o B)[3 * m + i] = B[i]
  <2> DEFINE a == 3 * m
             b == 3 * n
  <2>1. a \in Nat /\ b \in Nat /\ A \in Seq(V) /\ B \in Seq(V) /\ Len(A) = a /\ Len(B) = b
    BY <1>2, <1>4
  <2> HIDE DEF A, B, V, a, b
  <2>2. /\ A \o B \in Seq(V) /\ Len(A \o B) = a + b
        /\ \A i \in 1 .. a : (A \o B)[i] = A[i]
        /\ \A i \in 1 .. b : (A \o B)[a + i] = B[i]
    <3>1. /\ A \o B \in Seq(V) /\ Len(A \o B) = Len(A) + Len(B)
          /\ \A i \in 1 .. Len(A) + Len(B) :
                (A \o B)[i] = IF i <= Len(A) THEN A[i] ELSE B[i - Len(A)]
      BY <2>1, ConcatProperties
    <3>2. \A i \in 1 .. a : i \in 1 .. a + b /\ i <= a
      BY <2>1
    <3>3. \A i \in 1 .. b : a + i \in 1 .. a + b /\ ~(a + i <= a) /\ a + i - a = i
      BY <2>1
    <3> DEFINE AB == A \o B
    <3> HIDE DEF AB
    <3>4. /\ AB \in Seq(V) /\ Len(AB) = a + b
          /\ \A i \in 1 .. a + b : AB[i] = IF i <= a THEN A[i] ELSE B[i - a]
      BY <2>1, <3>1 DEF AB
    <3>6. \A i \in 1 .. a : AB[i] = A[i]
      BY <3>2, <3>4
    <3>7. ASSUME NEW i \in 1 .. b PROVE AB[a + i] = B[i]
      <4> DEFINE j == a + i
      <4>1. j \in 1 .. a + b /\ ~(j <= a) /\ j - a = i
        BY <2>1
      <4> HIDE DEF j
      <4>2. AB[j] = B[j - a]
        BY <3>4, <4>1
      <4>3. AB[j] = B[i]
        BY <4>1, <4>2
      <4> QED BY <4>3 DEF j
    <3>5. (\A i \in 1 .. a : AB[i] = A[i]) /\ \A i \in 1 .. b : AB[a + i] = B[i]
      BY <3>6, <3>7
    <3> QED BY <3>4, <3>5 DEF AB
  <2> QED BY <2>2 DEF a, b
<1> HIDE DEF A, B, V
<1> DEFINE L == [i \in 1 .. 3 * Len(ta) |-> C(i, tris[ta[(i + 2) \div 3]])]
           R == A \o B
<1>8. /\ DOMAIN L = 1 .. 3 * m + 3 * n /\ L = [i \in DOMAIN L |-> L[i]]
      /\ \A i \in DOMAIN L : L[i] = C(i, tris[ta[(i + 2) \div 3]])
  BY <1>2
<1>9. R \in Seq(V) /\ DOMAIN R = 1 .. 3 * m + 3 * n /\ R = [i \in DOMAIN R |-> R[i]]
  <2> HIDE DEF R
  <2>1. R \in Seq(V) /\ Len(R) = 3 * m + 3 * n
    BY <1>7 DEF R
  <2> QED BY <2>1
<1> HIDE DEF L, R
<1>10. \A i \in 1 .. 3 * m + 3 * n : L[i] = R[i]
  <2> TAKE i \in 1 .. 3 * m + 3 * n
  <2>1. CASE i <= 3 * m
    BY <1>2, <1>5, <1>7, <1>8, <2>1 DEF R
  <2>2. CASE ~(i <= 3 * m)
    <3> DEFINE j == i - 3 * m
    <3>1. j \in 1 .. 3 * n /\ i = 3 * m + j
      BY <1>2, <2>2
    <3> HIDE DEF j
    <3>2. R[i] = B[j]
      BY <1>7, <3>1 DEF R
    <3>3. B[j] = C(i, tris[ta[(i + 2) \div 3]])
      BY <1>6, <3>1
    <3> QED BY <1>8, <3>2, <3>3
  <2> QED BY <2>1, <2>2
<1>11. L = R
  BY <1>8, <1>9, <1>10
<1> QED BY <1>3, <1>11 DEF L, R, A, B, ta

\* The child slot is the only one that is filled.
Filling(P, P2, p, q) == \A i : \A s \in Slots : Pend(P2, i, s) <=> Pend(P, i, s) /\ ~(i = p /\ s = q)

(* The triangles of a leaf that is written are new.                         *)
LEMMA TakenGrows ==
    ASSUME Tree, Filled, NEW bs, NEW em, NEW tr, NEW P, NEW P2, Ordered(bs, em), Taken(em, tr, P),
           NEW p \in 1 .. Len(em), NEW q \in Slots, NEW c, c = Kid(em[p], q), c # 0,
           Pend(P, p, q), Filling(P, P2, p, q)
    PROVE  Taken(em, tr \o nodes[c].tris, P2)
<1> DEFINE t2 == nodes[c].tris
           ta == tr \o t2
           T == DOMAIN tris
           m == Len(tr)
           n == Len(t2)
<1>1. /\ em \in Seq(Tops) /\ \A i \in 1 .. Len(em) : em[i] \in Tops
      /\ \A i, j \in 1 .. Len(em) : em[i] = em[j] => i = j
  BY DEF Ordered
<1>2. c \in 1 .. Len(nodes)
  BY <1>1 DEF Tree
<1>3. t2 \in Seq(T) /\ tr \in Seq(T)
  BY <1>2 DEF Filled, Taken
<1> HIDE DEF T, t2
<1>4. /\ ta \in Seq(T) /\ Len(ta) = m + n /\ m \in Nat /\ n \in Nat
      /\ \A k \in 1 .. m : ta[k] = tr[k]
      /\ \A k \in 1 .. n : ta[m + k] = t2[k]
  BY <1>3
<1>5. /\ \A x, y \in 1 .. m : tr[x] = tr[y] => x = y
      /\ \A x \in 1 .. m : \E i \in 1 .. Len(em) : \E s \in Slots :
          /\ ~Pend(P, i, s) /\ Kid(em[i], s) # 0
          /\ \E k \in 1 .. Len(nodes[Kid(em[i], s)].tris) : nodes[Kid(em[i], s)].tris[k] = tr[x]
  BY DEF Taken
<1>6. \A i, j \in 1 .. Len(nodes) :
          \A k \in 1 .. Len(nodes[i].tris) : \A l \in 1 .. Len(nodes[j].tris) :
              nodes[i].tris[k] = nodes[j].tris[l] => i = j /\ k = l
  BY DEF Filled
<1>7. \A k, l \in 1 .. n : t2[k] = t2[l] => k = l
  BY <1>2, <1>6 DEF t2
<1>8. ASSUME NEW x \in 1 .. m, NEW l \in 1 .. n, tr[x] = t2[l] PROVE FALSE
  <2>1. PICK i \in 1 .. Len(em), s \in Slots :
          /\ ~Pend(P, i, s) /\ Kid(em[i], s) # 0
          /\ \E k \in 1 .. Len(nodes[Kid(em[i], s)].tris) : nodes[Kid(em[i], s)].tris[k] = tr[x]
    BY <1>5
  <2>6. em[i] \in Tops /\ em[p] \in Tops
    BY <1>1
  <2> DEFINE d == Kid(em[i], s)
  <2>7. d \in 0 .. Len(nodes) /\ Len(nodes) \in Nat
    BY <2>6 DEF Tree
  <2>2. d \in 1 .. Len(nodes) /\ em[i] \in Tops /\ em[p] \in Tops
    BY <2>1, <2>6, <2>7
  <2>8. PICK k \in 1 .. Len(nodes[d].tris) : nodes[d].tris[k] = tr[x]
    BY <2>1
  <2>9. nodes[d].tris[k] = nodes[c].tris[l] /\ l \in 1 .. Len(nodes[c].tris)
    BY <1>8, <2>8 DEF t2
  <2> HIDE DEF d
  <2>10. d = c
    BY <1>2, <1>6, <2>2, <2>9
  <2>3. Kid(em[i], s) = c
    BY <2>10 DEF d
  <2>4. em[i] = em[p] /\ s = q
    <3>1. Kid(em[i], s) # 0 /\ Kid(em[i], s) = Kid(em[p], q)
      BY <2>1, <2>3
    <3>2. \A b, g \in Tops : \A u, r \in Slots :
             Kid(b, u) # 0 /\ Kid(b, u) = Kid(g, r) => b = g /\ u = r
      BY DEF Tree
    <3> QED BY <2>6, <3>1, <3>2
  <2>5. i = p
    BY <1>1, <2>4
  <2> QED BY <2>1, <2>4, <2>5
<1> HIDE DEF ta, m, n
<1>9. \A x \in 1 .. m + n : x \in 1 .. m \/ \E l \in 1 .. n : x = m + l
  <2> TAKE x \in 1 .. m + n
  <2>1. CASE ~(x \in 1 .. m)
    <3>1. x - m \in 1 .. n /\ x = m + (x - m)
      BY <1>4, <2>1
    <3> QED BY <3>1
  <2> QED BY <2>1
<1>10. ASSUME NEW x \in 1 .. m + n, NEW y \in 1 .. m + n, ta[x] = ta[y] PROVE x = y
  <2>1. CASE x \in 1 .. m /\ y \in 1 .. m
    BY <1>4, <1>5, <1>10, <2>1
  <2>2. CASE x \in 1 .. m /\ y \notin 1 .. m
    <3>1. PICK l \in 1 .. n : y = m + l
      BY <1>9, <2>2
    <3> QED BY <1>4, <1>8, <1>10, <2>2, <3>1
  <2>3. CASE x \notin 1 .. m /\ y \in 1 .. m
    <3>1. PICK l \in 1 .. n : x = m + l
      BY <1>9, <2>3
    <3>2. tr[y] = t2[l]
      BY <1>4, <1>10, <2>3, <3>1
    <3> QED BY <1>8, <2>3, <3>2
  <2>4. CASE x \notin 1 .. m /\ y \notin 1 .. m
    <3>1. PICK k \in 1 .. n : x = m + k
      BY <1>9, <2>4
    <3>2. PICK l \in 1 .. n : y = m + l
      BY <1>9, <2>4
    <3>3. t2[k] = t2[l]
      BY <1>4, <1>10, <3>1, <3>2
    <3> QED BY <1>7, <3>1, <3>2, <3>3
  <2> QED BY <2>1, <2>2, <2>3, <2>4
<1>11. ASSUME NEW x \in 1 .. m + n
       PROVE  \E i \in 1 .. Len(em) : \E s \in Slots :
                /\ ~Pend(P2, i, s) /\ Kid(em[i], s) # 0
                /\ \E k \in 1 .. Len(nodes[Kid(em[i], s)].tris) :
                      nodes[Kid(em[i], s)].tris[k] = ta[x]
  <2>1. CASE x \in 1 .. m
    <3>1. PICK i \in 1 .. Len(em), s \in Slots :
          /\ ~Pend(P, i, s) /\ Kid(em[i], s) # 0
          /\ \E k \in 1 .. Len(nodes[Kid(em[i], s)].tris) : nodes[Kid(em[i], s)].tris[k] = tr[x]
      BY <1>5, <2>1
    <3>2. ~Pend(P2, i, s) /\ ta[x] = tr[x]
      BY <1>4, <2>1, <3>1 DEF Filling
    <3> QED BY <3>1, <3>2
  <2>2. CASE x \notin 1 .. m
    <3>1. PICK l \in 1 .. n : x = m + l
      BY <1>9, <2>2
    <3>2. ta[x] = nodes[Kid(em[p], q)].tris[l] /\ l \in 1 .. Len(nodes[Kid(em[p], q)].tris)
      BY <1>4, <3>1 DEF t2, n
    <3>3. ~Pend(P2, p, q) /\ Kid(em[p], q) # 0
      BY DEF Filling
    <3> QED BY <3>2, <3>3
  <2> QED BY <2>1, <2>2
<1>12. Taken(em, ta, P2)
  <2>1. ta \in Seq(DOMAIN tris) /\ Len(ta) \in Nat
    BY <1>4 DEF T
  <2> QED BY <1>4, <1>10, <1>11, <2>1 DEF Taken
<1> QED BY <1>12 DEF ta, t2

\* The first nodes of b2 are those of bs, with another index in one slot.
Relinked(bs, b2, p, q, v) ==
    /\ Len(bs) \in Nat
    /\ \A i \in 1 .. Len(bs) : \A s \in Slots :
          /\ bs[i].index[s] \in Nat
          /\ b2[i].type[s] = bs[i].type[s]
          /\ b2[i].mins[s] = bs[i].mins[s] /\ b2[i].maxs[s] = bs[i].maxs[s]
          /\ b2[i].index[s] = IF i = p /\ s = q THEN v ELSE bs[i].index[s]

\* A call fills one child slot.
Fills(bs, em, P, e) ==
    /\ e.parent \in 1 .. Len(bs) /\ e.slot \in Slots /\ e.build # 0
    /\ Kid(em[e.parent], e.slot) = e.build
    /\ Pend(P, e.parent, e.slot) /\ Filling(P, P \ {e}, e.parent, e.slot)

(* A call that is for a child slot fills it.                                *)
LEMMA CallFills ==
    ASSUME NEW bs, NEW em, NEW P, Waiting(bs, em, P), NEW e \in P, e.parent # 0
    PROVE  Fills(bs, em, P, e)
<1>1. e \in EmitCalls
  BY DEF Waiting
<1>2. e.slot \in Slots
  BY <1>1 DEF EmitCalls
<1>3. Pend(P, e.parent, e.slot)
  BY DEF Pend
<1>4. Filling(P, P \ {e}, e.parent, e.slot)
  BY PendLess DEF Filling
<1> QED BY <1>2, <1>3, <1>4 DEF Waiting, Fills

(* EmitPoly3Leaf for a child keeps what has been written.                   *)
LEMMA LeafStep ==
    ASSUME Tree, Filled, NEW bs, NEW ls \in Seq(Words), NEW em, NEW tr, NEW P,
           Mapped(bs, ls, em, tr, P),
           NEW e \in P, e.parent # 0, nodes[e.build].isLeaf,
           NEW b2, Len(b2) = Len(bs), Relinked(bs, b2, e.parent, e.slot, Len(ls)),
           NEW ws, ws = LeafWords(Len(nodes[e.build].tris), 3 * Len(tr))
    PROVE  Mapped(b2, ls \o ws, em, tr \o nodes[e.build].tris, P \ {e})
<1> DEFINE p == e.parent
           q == e.slot
           c == e.build
           P2 == P \ {e}
           la == ls \o ws
           ta == tr \o nodes[c].tris
<1>1. /\ Ordered(bs, em) /\ Drawn(bs, em) /\ Indices(bs, ls, em, tr, P)
      /\ Waiting(bs, em, P) /\ Reached(bs, em, P) /\ Taken(em, tr, P)
  BY DEF Mapped
<1>2. /\ p \in 1 .. Len(bs) /\ q \in Slots /\ c # 0 /\ Kid(em[p], q) = c
      /\ Pend(P, p, q) /\ Filling(P, P2, p, q)
  BY <1>1, CallFills DEF Fills
<1>3. /\ em \in Seq(Tops) /\ Len(em) = Len(bs) /\ Len(em) \in Nat
      /\ \A i \in 1 .. Len(em) : em[i] \in Tops
      /\ \A i, j \in 1 .. Len(em) : em[i] = em[j] => i = j
  BY <1>1 DEF Ordered
<1>4. /\ tr \in Seq(DOMAIN tris) /\ ls \in Seq(Words) /\ Len(ls) \in Nat
      /\ Len(bs) \in Nat /\ Len(b2) = Len(bs) /\ nodes[c].isLeaf
      /\ Relinked(bs, b2, p, q, Len(ls))
  BY <1>1 DEF Taken, Relinked
<1>5. c \in 1 .. Len(nodes)
  <2>1. c \in 0 .. Len(nodes) /\ Len(nodes) \in Nat
    BY <1>2, <1>3 DEF Tree
  <2> QED BY <1>2, <2>1
<1>6. /\ nodes[c].tris \in Seq(DOMAIN tris) /\ Len(nodes[c].tris) \in Nat
      /\ 3 * Len(tr) \in Nat
  <2>1. nodes[c].tris \in Seq(DOMAIN tris) /\ Len(tr) \in Nat
    BY <1>1, <1>5 DEF Filled, Taken
  <2> HIDE DEF c
  <2> QED BY <2>1
<1>7. ws \in Seq(Words) /\ Held(la, ta, Len(ls), c)
  <2>1. ws \in Seq(Words)
    BY <1>6, WordsAre
  <2> HIDE DEF c
  <2>2. ws = LeafWords(Len(nodes[c].tris), 3 * Len(tr))
    BY DEF c
  <2> QED BY <1>4, <1>5, <2>1, <2>2, HeldNew
<1>8. \A x \in Nat : \A d \in 1 .. Len(nodes) : Held(ls, tr, x, d) => Held(la, ta, x, d)
  <2> DEFINE T == DOMAIN tris
             t2 == nodes[c].tris
  <2> SUFFICES ASSUME NEW x \in Nat, NEW d \in 1 .. Len(nodes), Held(ls, tr, x, d)
               PROVE  Held(la, ta, x, d)
    OBVIOUS
  <2>1. tr \in Seq(T) /\ t2 \in Seq(T)
    BY <1>4, <1>6
  <2> HIDE DEF T, t2
  <2>2. Held(ls \o ws, tr \o t2, x, d)
    BY <1>4, <1>7, <2>1, HeldGrows
  <2> QED BY <2>2 DEF t2
<1>9. Taken(em, ta, P2)
  <2>1. p \in 1 .. Len(em) /\ q \in Slots /\ c = Kid(em[p], q)
    BY <1>2, <1>3
  <2> HIDE DEF p, q, c, P2
  <2> QED BY <1>1, <1>2, <2>1, TakenGrows
<1> HIDE DEF p, q, c, P2, la, ta
<1>10. Ordered(b2, em)
  BY <1>1, <1>4 DEF Ordered
<1>11. Drawn(b2, em)
  <2> SUFFICES ASSUME NEW i \in 1 .. Len(bs), NEW s \in Slots, NEW d, d = Kid(em[i], s)
               PROVE  /\ b2[i].type[s] = KidType(d)
                      /\ d # 0 => /\ b2[i].mins[s] = PackMins(nodes[d].mins)
                                  /\ b2[i].maxs[s] = PackMaxs(nodes[d].maxs)
    BY <1>4 DEF Drawn
  <2>1. /\ bs[i].type[s] = KidType(d)
        /\ d # 0 => /\ bs[i].mins[s] = PackMins(nodes[d].mins)
                    /\ bs[i].maxs[s] = PackMaxs(nodes[d].maxs)
    BY <1>1 DEF Drawn
  <2>2. /\ b2[i].type[s] = bs[i].type[s]
        /\ b2[i].mins[s] = bs[i].mins[s] /\ b2[i].maxs[s] = bs[i].maxs[s]
    BY <1>4 DEF Relinked
  <2> QED BY <2>1, <2>2
<1>12. Indices(b2, la, em, ta, P2)
  <2> SUFFICES ASSUME NEW i \in 1 .. Len(bs), NEW s \in Slots, NEW d, d = Kid(em[i], s),
                      d # 0, ~Pend(P2, i, s), NEW x, x = b2[i].index[s]
               PROVE  IF nodes[d].isLeaf THEN Held(la, ta, x, d)
                      ELSE x + 1 \in i + 1 .. Len(b2) /\ em[x + 1] = d
    BY <1>4 DEF Indices
  <2>1. CASE i = p /\ s = q
    <3>1. d = c /\ x = Len(ls)
      BY <1>2, <1>4, <2>1 DEF Relinked
    <3> QED BY <1>4, <1>7, <3>1
  <2>2. CASE ~(i = p /\ s = q)
    <3>1. ~Pend(P, i, s)
      BY <1>2, <2>2 DEF Filling
    <3>2. x = bs[i].index[s] /\ x \in Nat
      BY <1>4, <2>2 DEF Relinked
    <3>3. d \in 1 .. Len(nodes)
      <4>1. d \in 0 .. Len(nodes) /\ Len(nodes) \in Nat
        BY <1>3 DEF Tree
      <4> QED BY <4>1
    <3>4. IF nodes[d].isLeaf THEN Held(ls, tr, x, d)
          ELSE x + 1 \in i + 1 .. Len(bs) /\ em[x + 1] = d
      BY <1>1, <3>1, <3>2 DEF Indices
    <3> QED BY <1>4, <1>8, <3>2, <3>3, <3>4
  <2> QED BY <2>1, <2>2
<1>13. Waiting(b2, em, P2)
  <2>1. P2 \in SUBSET P
    BY DEF P2
  <2>2. Len(b2) # 0
    BY <1>2, <1>4
  <2>3. \A x \in P : x.parent # 0
    BY <1>1, <1>4, <2>2 DEF Waiting
  <2> QED BY <1>1, <1>4, <2>1, <2>2, <2>3 DEF Waiting
<1>14. Reached(b2, em, P2)
  <2> SUFFICES ASSUME NEW j \in 2 .. Len(bs)
               PROVE  \E i \in 1 .. j - 1 : \E s \in Slots :
                          Kid(em[i], s) = em[j] /\ ~Pend(P2, i, s)
    BY <1>4 DEF Reached
  <2>1. PICK i \in 1 .. j - 1, s \in Slots : Kid(em[i], s) = em[j] /\ ~Pend(P, i, s)
    BY <1>1 DEF Reached
  <2>2. ~Pend(P2, i, s)
    BY <1>2, <2>1 DEF Filling
  <2> QED BY <2>1, <2>2
<1>15. Mapped(b2, la, em, ta, P2)
  BY <1>9, <1>10, <1>11, <1>12, <1>13, <1>14 DEF Mapped
<1> QED BY <1>15 DEF la, ta, P2, c

(* EmitBVH4Nodes for a tree of one leaf.                                   *)
LEMMA RootStep ==
    ASSUME Tree, Filled, NEW bs, NEW ls \in Seq(Words), NEW em, NEW tr, NEW P,
           Mapped(bs, ls, em, tr, P),
           NEW e \in P, e.parent = 0, nodes[1].isLeaf,
           NEW b2, Len(b2) = 1,
           \A s \in Slots : b2[1].type[s] = IF s = 1 THEN Poly3 ELSE None,
           b2[1].index[1] = Len(ls),
           b2[1].mins[1] = PackMins(nodes[1].mins), b2[1].maxs[1] = PackMaxs(nodes[1].maxs),
           NEW ws, ws = LeafWords(Len(nodes[1].tris), 3 * Len(tr))
    PROVE  Mapped(b2, ls \o ws, <<1>>, tr \o nodes[1].tris, {})
<1> DEFINE la == ls \o ws
           ts == nodes[1].tris
           ta == tr \o ts
           e2 == <<1>>
           T == DOMAIN tris
<1>1. /\ Ordered(bs, em) /\ Waiting(bs, em, P) /\ Taken(em, tr, P)
  BY DEF Mapped
<1>2. Len(em) = 0
  BY <1>1 DEF Waiting, Ordered
<1>3. Len(tr) = 0 /\ tr \in Seq(T)
  <2>1. Len(tr) \in Nat /\ tr \in Seq(T) /\ \A x \in 1 .. Len(tr) : \E i \in 1 .. Len(em) : TRUE
    BY <1>1 DEF Taken
  <2>2. \A x \in 1 .. Len(tr) : FALSE
    BY <1>2, <2>1
  <2>3. Len(tr) # 0 => 1 \in 1 .. Len(tr)
    BY <2>1
  <2> QED BY <2>1, <2>2, <2>3
<1>4. /\ 1 \in Tops /\ 1 \in 1 .. Len(nodes) /\ Len(nodes) \in Nat /\ 1 \in Slots
      /\ \A s \in Slots : Kid(1, s) = IF s = 1 THEN 1 ELSE 0
  <2>1. 1 \in Tops /\ Len(nodes) \in Nat /\ 1 \in Slots
    BY DEF Tree, Slots
  <2>2. 1 \in 1 .. Len(nodes)
    BY <2>1 DEF Tops
  <2>3. \A s \in Slots : Kid(1, s) = IF s = 1 THEN 1 ELSE 0
    BY DEF Kid
  <2> QED BY <2>1, <2>2, <2>3
<1>5. ts \in Seq(T) /\ Len(ts) \in Nat /\ \A k, l \in 1 .. Len(ts) : ts[k] = ts[l] => k = l
  <2>1. ts \in Seq(T)
    BY <1>4 DEF Filled
  <2>2. \A k, l \in 1 .. Len(ts) : ts[k] = ts[l] => k = l
    BY <1>4 DEF Filled
  <2> HIDE DEF ts
  <2> QED BY <2>1, <2>2
<1>6. Held(la, ta, Len(ls), 1)
  <2>1. tr \in Seq(DOMAIN tris) /\ 1 \in 1 .. Len(nodes) /\ Filled
    BY <1>3, <1>4
  <2> DEFINE n == Len(nodes[1].tris)
  <2>2. n = Len(nodes[1].tris) /\ ws = LeafWords(n, 3 * Len(tr))
    OBVIOUS
  <2> HIDE DEF n
  <2> QED BY <2>1, <2>2, HeldNew
<1>7. ta = ts
  <2> HIDE DEF T, ts
  <2>1. tr = << >>
    BY <1>3, EmptySeq
  <2> QED BY <1>5, <2>1, ConcatEmptySeq
<1>8. /\ e2 \in Seq(Tops) /\ Len(e2) = 1 /\ e2[1] = 1
      /\ \A i \in 1 .. 1 : i = 1
  BY <1>4
<1> HIDE DEF la, ta, e2, ts
<1>9. Ordered(b2, e2)
  BY <1>8 DEF Ordered
<1>10. Drawn(b2, e2)
  <2> SUFFICES ASSUME NEW s \in Slots, NEW d, d = Kid(1, s)
               PROVE  /\ b2[1].type[s] = KidType(d)
                      /\ d # 0 => /\ b2[1].mins[s] = PackMins(nodes[d].mins)
                                  /\ b2[1].maxs[s] = PackMaxs(nodes[d].maxs)
    BY <1>8 DEF Drawn
  <2>1. CASE s = 1
    BY <1>4, <2>1 DEF KidType
  <2>2. CASE s # 1
    BY <1>4, <2>2 DEF KidType
  <2> QED BY <2>1, <2>2
<1>11. \A i, s : ~Pend({}, i, s)
  BY DEF Pend
<1>12. Indices(b2, la, e2, ta, {})
  <2> SUFFICES ASSUME NEW s \in Slots, NEW d, d = Kid(1, s), d # 0, NEW x, x = b2[1].index[s]
               PROVE  IF nodes[d].isLeaf THEN Held(la, ta, x, d)
                      ELSE x + 1 \in 1 + 1 .. Len(b2) /\ e2[x + 1] = d
    BY <1>8 DEF Indices
  <2>1. d = 1 /\ s = 1
    BY <1>4
  <2> QED BY <1>6, <2>1
<1>13. Waiting(b2, e2, {})
  BY DEF Waiting
<1>14. Reached(b2, e2, {})
  BY DEF Reached
<1>15. Taken(e2, ta, {})
  <2>1. \A x \in 1 .. Len(ts) : \E i \in 1 .. 1 : \E s \in Slots :
          /\ ~Pend({}, i, s) /\ Kid(e2[i], s) # 0
          /\ \E k \in 1 .. Len(nodes[Kid(e2[i], s)].tris) : nodes[Kid(e2[i], s)].tris[k] = ts[x]
    <3> TAKE x \in 1 .. Len(ts)
    <3>1. ~Pend({}, 1, 1) /\ Kid(e2[1], 1) = 1
      BY <1>4, <1>8, <1>11
    <3>2. nodes[1].tris[x] = ts[x] /\ x \in 1 .. Len(nodes[1].tris)
      BY DEF ts
    <3>3. 1 \in 1 .. 1 /\ 1 \in Slots
      BY <1>4
    <3> QED BY <3>1, <3>2, <3>3
  <2>2. ts \in Seq(DOMAIN tris) /\ Len(ts) \in Nat /\ Len(e2) = 1
    BY <1>5, <1>8
  <2>3. \A k, l \in 1 .. Len(ts) : ts[k] = ts[l] => k = l
    BY <1>5
  <2>4. Taken(e2, ts, {})
    <3>1. \A x \in 1 .. Len(ts) : \E i \in 1 .. Len(e2) : \E s \in Slots :
            /\ ~Pend({}, i, s) /\ Kid(e2[i], s) # 0
            /\ \E k \in 1 .. Len(nodes[Kid(e2[i], s)].tris) :
                  nodes[Kid(e2[i], s)].tris[k] = ts[x]
      BY <2>1, <2>2
    <3> QED BY <2>2, <2>3, <3>1 DEF Taken
  <2> QED BY <1>7, <2>4
<1>16. Mapped(b2, la, e2, ta, {})
  BY <1>9, <1>10, <1>12, <1>13, <1>14, <1>15 DEF Mapped
<1> QED BY <1>16 DEF la, ta, e2, ts

\* The calls of an inner node for its children.
Visiting(K, c, me) ==
    /\ K \in SUBSET EmitCalls
    /\ \A x \in K : x.parent = me /\ x.build = nodes[c].child[x.slot] /\ x.build # 0
    /\ \A s \in Slots : nodes[c].child[s] # 0 => \E x \in K : x.slot = s

(* EmitBVH4Nodes for an inner node.                                        *)
LEMMA InnerStep ==
    ASSUME Tree, NEW bs, NEW ls, NEW em, NEW tr, NEW P, Mapped(bs, ls, em, tr, P),
           NEW e \in P, e.build \in 1 .. Len(nodes), ~nodes[e.build].isLeaf,
           NEW m, m = Len(bs), NEW b2, Len(b2) = m + 1,
           Relinked(bs, b2, e.parent, e.slot, m),
           \A s \in Slots : /\ b2[m + 1].type[s] = nodes[e.build].type[s]
                            /\ b2[m + 1].mins[s] = PackMins(ChildMins(e.build, s))
                            /\ b2[m + 1].maxs[s] = PackMaxs(ChildMaxs(e.build, s)),
           NEW K, Visiting(K, e.build, m + 1)
    PROVE  Mapped(b2, ls, Append(em, e.build), tr, K \cup (P \ {e}))
<1> DEFINE p == e.parent
           q == e.slot
           c == e.build
           P2 == K \cup (P \ {e})
           e2 == Append(em, c)
           n == m + 1
<1>1. /\ Ordered(bs, em) /\ Drawn(bs, em) /\ Indices(bs, ls, em, tr, P)
      /\ Waiting(bs, em, P) /\ Reached(bs, em, P) /\ Taken(em, tr, P)
  BY DEF Mapped
<1>2. /\ em \in Seq(Tops) /\ Len(em) = m /\ m \in Nat
      /\ \A i \in 1 .. m : em[i] \in Tops
      /\ \A i, j \in 1 .. m : em[i] = em[j] => i = j
      /\ m # 0 => em[1] = 1
  BY <1>1 DEF Ordered
<1>3. p = 0 => c = 1 /\ m = 0 /\ P = {e}
  BY <1>1 DEF Waiting
<1>4. p # 0 => /\ p \in 1 .. m /\ q \in Slots /\ c # 0 /\ Kid(em[p], q) = c
               /\ Pend(P, p, q) /\ Filling(P, P \ {e}, p, q)
  <2> SUFFICES ASSUME e.parent # 0
               PROVE  /\ p \in 1 .. Len(bs) /\ q \in Slots /\ c # 0 /\ Kid(em[p], q) = c
                      /\ Pend(P, p, q) /\ Filling(P, P \ {e}, p, q)
    OBVIOUS
  <2>1. Waiting(bs, em, P)
    BY <1>1
  <2>2. Fills(bs, em, P, e)
    BY <2>1, CallFills
  <2> QED BY <2>2 DEF Fills
<1>5. c \in Tops /\ (p # 0 => c # 1)
  <2>1. CASE p = 0
    BY <1>3, <2>1 DEF Tree
  <2>2. CASE p # 0
    <3>1. em[p] \in Tops
      BY <1>2, <1>4, <2>2
    <3>2. c \in Tops /\ em[p] < c
      BY <1>4, <2>2, <3>1 DEF Tree
    <3>3. em[p] \in 1 .. Len(nodes) /\ c \in 1 .. Len(nodes) /\ Len(nodes) \in Nat
      BY <3>1, <3>2 DEF Tops, Tree
    <3> QED BY <3>2, <3>3
  <2> QED BY <2>1, <2>2
<1>6. /\ K \in SUBSET EmitCalls
      /\ \A x \in K : x.parent = n /\ x.build = Kid(c, x.slot) /\ x.build # 0
      /\ \A s \in Slots : Kid(c, s) # 0 => \E x \in K : x.slot = s
      /\ \A s \in Slots : Kid(c, s) = nodes[c].child[s]
  BY DEF Visiting, Kid
<1>7. /\ Relinked(bs, b2, p, q, m) /\ Len(b2) = n /\ Len(bs) = m
      /\ \A s \in Slots : /\ b2[n].type[s] = nodes[c].type[s]
                          /\ b2[n].mins[s] = PackMins(ChildMins(c, s))
                          /\ b2[n].maxs[s] = PackMaxs(ChildMaxs(c, s))
      /\ ~nodes[c].isLeaf
  OBVIOUS
<1>8. /\ e2 \in Seq(Tops) /\ Len(e2) = n /\ e2[n] = c /\ \A i \in 1 .. m : e2[i] = em[i]
  BY <1>2, <1>5
<1>9. n \in Nat \ {0} /\ \A i \in 1 .. n : i \in 1 .. m \/ i = n
  BY <1>2
<1>10. \A i \in 1 .. m : i \in 1 .. n /\ i # n
  BY <1>2
<1>11. \A i \in 1 .. m : \A s \in Slots :
          Pend(P2, i, s) <=> Pend(P, i, s) /\ ~(i = p /\ s = q)
  <2> SUFFICES ASSUME NEW i \in 1 .. m, NEW s \in Slots
               PROVE  Pend(P2, i, s) <=> Pend(P, i, s) /\ ~(i = p /\ s = q)
    OBVIOUS
  <2>1. \A x \in K : x.parent # i
    BY <1>6, <1>10
  <2>2. Pend(P2, i, s) <=> Pend(P \ {e}, i, s)
    BY <2>1 DEF Pend
  <2>3. p # 0
    BY <1>3
  <2> QED BY <1>4, <2>2, <2>3 DEF Filling
<1>12. \A s \in Slots : Kid(c, s) # 0 => Pend(P2, n, s)
  <2> SUFFICES ASSUME NEW s \in Slots, Kid(c, s) # 0 PROVE Pend(P2, n, s)
    OBVIOUS
  <2>1. PICK x \in K : x.slot = s
    BY <1>6
  <2>2. x \in P2 /\ x.parent = n
    BY <1>6
  <2> QED BY <2>1, <2>2 DEF Pend
<1>13. \A x \in P \ {e} : /\ x \in EmitCalls /\ x.parent # 0 /\ x.parent \in 1 .. m
                          /\ Kid(em[x.parent], x.slot) = x.build /\ x.build # 0
  <2> TAKE x \in P \ {e}
  <2>1. x.parent # 0
    BY <1>1 DEF Waiting
  <2> QED BY <1>1, <2>1 DEF Waiting
<1> HIDE DEF p, q, c, P2, e2, n
<1>14. \A i \in 1 .. m : em[i] # c
  <2> SUFFICES ASSUME NEW i \in 1 .. m, em[i] = c PROVE FALSE
    OBVIOUS
  <2>1. p # 0 /\ m # 0
    BY <1>2, <1>3
  <2>2. CASE i = 1
    BY <1>2, <1>5, <2>1, <2>2
  <2>3. CASE i # 1
    <3>1. i \in 2 .. Len(bs) /\ \A j \in 1 .. i - 1 : j \in 1 .. m
      BY <1>2, <1>7, <2>3
    <3>2. PICK j \in 1 .. i - 1, s \in Slots : Kid(em[j], s) = em[i] /\ ~Pend(P, j, s)
      BY <1>1, <3>1 DEF Reached
    <3>3. em[j] \in Tops /\ em[p] \in Tops /\ j \in 1 .. m /\ p \in 1 .. m
      BY <1>2, <1>4, <2>1, <3>1
    <3>4. Kid(em[j], s) # 0 /\ Kid(em[j], s) = Kid(em[p], q) /\ q \in Slots
      BY <1>4, <2>1, <3>2
    <3>5. em[j] = em[p] /\ s = q
      <4>1. \A b, g \in Tops : \A u, r \in Slots :
               Kid(b, u) # 0 /\ Kid(b, u) = Kid(g, r) => b = g /\ u = r
        BY DEF Tree
      <4> QED BY <3>3, <3>4, <4>1
    <3>6. j = p
      BY <1>2, <3>3, <3>5
    <3> QED BY <1>4, <2>1, <3>2, <3>5, <3>6
  <2> QED BY <2>2, <2>3
<1>15. Ordered(b2, e2)
  <2>1. \A i, j \in 1 .. n : e2[i] = e2[j] => i = j
    BY <1>2, <1>8, <1>9, <1>14
  <2>2. e2[1] = 1
    <3>1. CASE m = 0
      <4>1. p = 0 /\ n = 1
        BY <1>4, <3>1 DEF n
      <4> QED BY <1>3, <1>8, <4>1
    <3>2. CASE m # 0
      <4>1. 1 \in 1 .. m
        BY <1>2, <3>2
      <4> QED BY <1>2, <1>8, <3>2, <4>1
    <3> QED BY <3>1, <3>2
  <2> QED BY <1>7, <1>8, <1>9, <2>1, <2>2 DEF Ordered
<1>16. Drawn(b2, e2)
  <2> SUFFICES ASSUME NEW i \in 1 .. n, NEW s \in Slots, NEW d, d = Kid(e2[i], s)
               PROVE  /\ b2[i].type[s] = KidType(d)
                      /\ d # 0 => /\ b2[i].mins[s] = PackMins(nodes[d].mins)
                                  /\ b2[i].maxs[s] = PackMaxs(nodes[d].maxs)
    BY <1>7 DEF Drawn
  <2>1. CASE i \in 1 .. m
    <3>1. d = Kid(em[i], s) /\ i \in 1 .. Len(bs)
      BY <1>7, <1>8, <2>1
    <3>2. /\ bs[i].type[s] = KidType(d)
          /\ d # 0 => /\ bs[i].mins[s] = PackMins(nodes[d].mins)
                      /\ bs[i].maxs[s] = PackMaxs(nodes[d].maxs)
      BY <1>1, <3>1 DEF Drawn
    <3>3. /\ b2[i].type[s] = bs[i].type[s]
          /\ b2[i].mins[s] = bs[i].mins[s] /\ b2[i].maxs[s] = bs[i].maxs[s]
      BY <1>7, <3>1 DEF Relinked
    <3> QED BY <3>2, <3>3
  <2>2. CASE i = n
    <3>1. d = nodes[c].child[s]
      BY <1>6, <1>8, <2>2
    <3>2. nodes[c].type[s] = KidType(nodes[c].child[s])
      BY <1>5, <1>7 DEF Tree
    <3>3. d # 0 => ChildMins(c, s) = nodes[d].mins /\ ChildMaxs(c, s) = nodes[d].maxs
      BY <3>1 DEF ChildMins, ChildMaxs
    <3> QED BY <1>7, <2>2, <3>1, <3>2, <3>3
  <2> QED BY <1>9, <2>1, <2>2
<1>17. Indices(b2, ls, e2, tr, P2)
  <2> SUFFICES ASSUME NEW i \in 1 .. n, NEW s \in Slots, NEW d, d = Kid(e2[i], s),
                      d # 0, ~Pend(P2, i, s), NEW x, x = b2[i].index[s]
               PROVE  IF nodes[d].isLeaf THEN Held(ls, tr, x, d)
                      ELSE x + 1 \in i + 1 .. Len(b2) /\ e2[x + 1] = d
    BY <1>7 DEF Indices
  <2>1. i \in 1 .. m /\ d = Kid(em[i], s) /\ i \in 1 .. Len(bs)
    BY <1>7, <1>8, <1>9, <1>12
  <2>2. CASE i = p /\ s = q
    <3>1. x = m
      BY <1>7, <2>1, <2>2 DEF Relinked
    <3>2. p # 0
      BY <2>1, <2>2, <1>2
    <3>3. d = c
      BY <1>4, <2>1, <2>2, <3>2
    <3>4. x + 1 = n /\ n \in i + 1 .. n
      BY <1>2, <2>1, <3>1 DEF n
    <3> QED BY <1>7, <1>8, <3>3, <3>4
  <2>3. CASE ~(i = p /\ s = q)
    <3>1. ~Pend(P, i, s)
      BY <1>11, <2>1, <2>3
    <3>2. x = bs[i].index[s] /\ x \in Nat
      BY <1>7, <2>1, <2>3 DEF Relinked
    <3>3. IF nodes[d].isLeaf THEN Held(ls, tr, x, d)
          ELSE x + 1 \in i + 1 .. Len(bs) /\ em[x + 1] = d
      BY <1>1, <2>1, <3>1, <3>2 DEF Indices
    <3>4. CASE nodes[d].isLeaf
      BY <3>3, <3>4
    <3>5. CASE ~nodes[d].isLeaf
      <4> DEFINE y == x + 1
      <4>1. y \in i + 1 .. m /\ em[y] = d
        BY <1>7, <3>3, <3>5
      <4>2. y \in 1 .. m /\ y \in i + 1 .. n
        BY <1>2, <2>1, <4>1 DEF n
      <4> HIDE DEF y
      <4>3. y \in i + 1 .. Len(b2) /\ e2[y] = d
        BY <1>7, <1>8, <4>1, <4>2
      <4> QED BY <3>5, <4>3 DEF y
    <3> QED BY <3>4, <3>5
  <2> QED BY <2>2, <2>3
<1>18. Waiting(b2, e2, P2)
  <2>1. P2 \in SUBSET EmitCalls
    BY <1>6, <1>13 DEF P2
  <2>2. \A x \in P2 : x.parent # 0 /\ x.parent \in 1 .. n
                      /\ Kid(e2[x.parent], x.slot) = x.build /\ x.build # 0
    <3> TAKE x \in P2
    <3>1. CASE x \in K
      <4>1. x.parent = n /\ x.build = Kid(c, x.slot) /\ x.build # 0
        BY <1>6, <3>1
      <4>2. n \in 1 .. n
        BY <1>9
      <4> QED BY <1>8, <1>9, <4>1, <4>2
    <3>2. CASE x \in P \ {e}
      BY <1>8, <1>10, <1>13, <3>2
    <3> QED BY <3>1, <3>2 DEF P2
  <2> QED BY <1>7, <1>9, <2>1, <2>2 DEF Waiting
<1>19. Reached(b2, e2, P2)
  <2> SUFFICES ASSUME NEW j \in 2 .. n
               PROVE  \E i \in 1 .. j - 1 : \E s \in Slots :
                          Kid(e2[i], s) = e2[j] /\ ~Pend(P2, i, s)
    BY <1>7 DEF Reached
  <2>1. CASE j \in 1 .. m
    <3>1. j \in 2 .. Len(bs) /\ \A i \in 1 .. j - 1 : i \in 1 .. m
      BY <1>2, <1>7, <2>1
    <3>2. PICK i \in 1 .. j - 1, s \in Slots : Kid(em[i], s) = em[j] /\ ~Pend(P, i, s)
      BY <1>1, <3>1 DEF Reached
    <3>3. ~Pend(P2, i, s) /\ e2[i] = em[i] /\ e2[j] = em[j]
      BY <1>8, <1>11, <2>1, <3>1, <3>2
    <3> QED BY <3>2, <3>3
  <2>2. CASE j = n
    <3>1. m # 0
      BY <1>2, <2>2 DEF n
    <3>2. p # 0
      BY <1>3, <3>1
    <3>3. p \in 1 .. m /\ q \in Slots /\ Kid(em[p], q) = c
      BY <1>4, <3>2
    <3>4. ~Pend(P2, p, q) /\ e2[p] = em[p] /\ e2[j] = c
      BY <1>8, <1>11, <2>2, <3>3
    <3>5. p \in 1 .. j - 1
      BY <1>2, <2>2, <3>3 DEF n
    <3> QED BY <3>3, <3>4, <3>5
  <2>3. j \in 1 .. n
    BY <1>9
  <2> QED BY <1>9, <2>1, <2>2, <2>3
<1>20. Taken(e2, tr, P2)
  <2> SUFFICES ASSUME NEW x \in 1 .. Len(tr)
               PROVE  \E i \in 1 .. n : \E s \in Slots :
                        /\ ~Pend(P2, i, s) /\ Kid(e2[i], s) # 0
                        /\ \E k \in 1 .. Len(nodes[Kid(e2[i], s)].tris) :
                              nodes[Kid(e2[i], s)].tris[k] = tr[x]
    BY <1>1, <1>8 DEF Taken
  <2>1. PICK i \in 1 .. m, s \in Slots :
            /\ ~Pend(P, i, s) /\ Kid(em[i], s) # 0
            /\ \E k \in 1 .. Len(nodes[Kid(em[i], s)].tris) :
                  nodes[Kid(em[i], s)].tris[k] = tr[x]
    <3>1. \A z \in 1 .. Len(tr) : \E i \in 1 .. Len(em) : \E s \in Slots :
              /\ ~Pend(P, i, s) /\ Kid(em[i], s) # 0
              /\ \E k \in 1 .. Len(nodes[Kid(em[i], s)].tris) :
                    nodes[Kid(em[i], s)].tris[k] = tr[z]
      BY <1>1 DEF Taken
    <3>2. Len(em) = m
      BY <1>2
    <3> QED BY <3>1, <3>2
  <2>2. ~Pend(P2, i, s) /\ e2[i] = em[i] /\ i \in 1 .. n
    BY <1>8, <1>10, <1>11, <2>1
  <2> QED BY <2>1, <2>2
<1>21. Mapped(b2, ls, e2, tr, P2)
  BY <1>15, <1>16, <1>17, <1>18, <1>19, <1>20 DEF Mapped
<1> QED BY <1>21 DEF e2, P2, c

(* Two lists in a row that have nothing twice.                              *)
LEMMA Joined ==
    ASSUME NEW S, NEW q \in Seq(S), NEW r \in Seq(S), IsInjective(q), IsInjective(r),
           \A x \in Range(q) : x \notin Range(r)
    PROVE  /\ q \o r \in Seq(S) /\ IsInjective(q \o r)
           /\ Range(q \o r) = Range(q) \cup Range(r)
<1> DEFINE m == Len(q)
           n == Len(r)
           t == q \o r
<1>1. /\ m \in Nat /\ n \in Nat /\ DOMAIN q = 1 .. m /\ DOMAIN r = 1 .. n
      /\ \A x, y \in 1 .. m : q[x] = q[y] => x = y
      /\ \A x, y \in 1 .. n : r[x] = r[y] => x = y
      /\ \A x \in 1 .. m : \A y \in 1 .. n : q[x] # r[y]
  <2>1. m \in Nat /\ n \in Nat /\ DOMAIN q = 1 .. m /\ DOMAIN r = 1 .. n
    OBVIOUS
  <2> HIDE DEF m, n
  <2>2. /\ \A x, y \in 1 .. m : q[x] = q[y] => x = y
        /\ \A x, y \in 1 .. n : r[x] = r[y] => x = y
    BY <2>1 DEF IsInjective
  <2>3. /\ \A x \in 1 .. m : q[x] \in Range(q)
        /\ \A x \in 1 .. n : r[x] \in Range(r)
    BY <2>1 DEF Range
  <2>4. \A x \in 1 .. m : \A y \in 1 .. n : q[x] # r[y]
    BY <2>3
  <2> QED BY <2>1, <2>2, <2>4
<1>2. /\ t \in Seq(S) /\ DOMAIN t = 1 .. m + n
      /\ \A i \in 1 .. m + n : t[i] = IF i <= m THEN q[i] ELSE r[i - m]
  <2>1. /\ t \in Seq(S) /\ Len(t) = Len(q) + Len(r)
        /\ \A i \in 1 .. Len(q) + Len(r) : t[i] = IF i <= Len(q) THEN q[i] ELSE r[i - Len(q)]
    BY ConcatProperties
  <2> HIDE DEF t
  <2> QED BY <2>1
<1> HIDE DEF m, n, t
<1>3. \A i \in 1 .. m + n : \/ i \in 1 .. m /\ t[i] = q[i]
                            \/ i \notin 1 .. m /\ i - m \in 1 .. n /\ t[i] = r[i - m]
  BY <1>1, <1>2
<1>4. \A i \in 1 .. m : i \in 1 .. m + n /\ t[i] = q[i]
  BY <1>1, <1>2
<1>5. \A i \in 1 .. n : \E j \in 1 .. m + n : t[j] = r[i]
  <2> TAKE i \in 1 .. n
  <2> DEFINE j == m + i
  <2>1. j \in 1 .. m + n /\ ~(j <= m) /\ j - m = i
    BY <1>1
  <2> HIDE DEF j
  <2>2. t[j] = r[j - m]
    BY <1>2, <2>1
  <2> QED BY <2>1, <2>2
<1>6. ASSUME NEW i \in 1 .. m + n, NEW j \in 1 .. m + n, t[i] = t[j] PROVE i = j
  <2>1. CASE i \in 1 .. m /\ j \in 1 .. m
    BY <1>1, <1>3, <1>6, <2>1
  <2>2. CASE i \in 1 .. m /\ j \notin 1 .. m
    BY <1>1, <1>3, <1>6, <2>2
  <2>3. CASE i \notin 1 .. m /\ j \in 1 .. m
    <3>1. i - m \in 1 .. n /\ t[i] = r[i - m] /\ t[j] = q[j]
      BY <1>3, <2>3
    <3> QED BY <1>1, <1>6, <2>3, <3>1
  <2>4. CASE i \notin 1 .. m /\ j \notin 1 .. m
    <3>1. /\ i - m \in 1 .. n /\ t[i] = r[i - m]
          /\ j - m \in 1 .. n /\ t[j] = r[j - m]
      BY <1>3, <2>4
    <3>2. i - m = j - m
      BY <1>1, <1>6, <3>1
    <3> QED BY <1>1, <3>2
  <2> QED BY <2>1, <2>2, <2>3, <2>4
<1>7. IsInjective(t)
  BY <1>2, <1>6 DEF IsInjective
<1>8. Range(t) = Range(q) \cup Range(r)
  <2>1. Range(t) = {t[i] : i \in 1 .. m + n} /\ Range(q) = {q[i] : i \in 1 .. m}
        /\ Range(r) = {r[i] : i \in 1 .. n}
    BY <1>1, <1>2 DEF Range
  <2>2. \A i \in 1 .. m + n : t[i] \in {q[k] : k \in 1 .. m} \cup {r[k] : k \in 1 .. n}
    BY <1>3
  <2>3. /\ \A i \in 1 .. m : q[i] \in {t[k] : k \in 1 .. m + n}
        /\ \A i \in 1 .. n : r[i] \in {t[k] : k \in 1 .. m + n}
    <3>1. \A i \in 1 .. m : q[i] \in {t[k] : k \in 1 .. m + n}
      BY <1>4
    <3> QED BY <1>5, <3>1
  <2> QED BY <2>1, <2>2, <2>3
<1> QED BY <1>2, <1>7, <1>8 DEF t

(* The calls of an inner node, all different, one for each child.           *)
LEMMA VisitsAre ==
    ASSUME BInv, NEW b \in 1 .. Len(nodes), NEW me \in Nat \ {0}, NEW es,
           es = VisitOf(b, me, 1) \o VisitOf(b, me, 2) \o VisitOf(b, me, 3) \o VisitOf(b, me, 4)
    PROVE  es \in Seq(EmitCalls) /\ IsInjective(es) /\ Visiting(Range(es), b, me)
<1> DEFINE V(s) == VisitOf(b, me, s)
           R(s) == {e \in EmitCalls : e.slot = s /\ e.parent = me
                                       /\ e.build = nodes[b].child[s] /\ e.build # 0}
<1>1. nodes[b].child \in [Slots -> Nat]
  BY ChildBounds
<1>2. \A s \in Slots : /\ V(s) \in Seq(EmitCalls) /\ IsInjective(V(s))
                       /\ \A x \in Range(V(s)) : x \in R(s)
                       /\ nodes[b].child[s] # 0 => \E x \in Range(V(s)) : x.slot = s
  <2> SUFFICES ASSUME NEW s \in Slots
               PROVE  /\ V(s) \in Seq(EmitCalls) /\ IsInjective(V(s))
                      /\ \A x \in Range(V(s)) : x \in R(s)
                      /\ nodes[b].child[s] # 0 => \E x \in Range(V(s)) : x.slot = s
    OBVIOUS
  <2>1. CASE nodes[b].child[s] = 0
    <3>1. V(s) = << >>
      BY <2>1 DEF VisitOf
    <3>2. << >> \in Seq(EmitCalls) /\ IsInjective(<< >>) /\ Range(<< >>) = {}
      BY DEF IsInjective, Range
    <3> HIDE DEF V, R
    <3> QED BY <2>1, <3>1, <3>2
  <2>2. CASE nodes[b].child[s] # 0
    <3> DEFINE c == nodes[b].child[s]
               e == [build |-> c, parent |-> me, slot |-> s]
    <3>1. V(s) = <<e>>
      BY <2>2 DEF VisitOf
    <3>2. c \in Nat /\ c # 0
      BY <1>1, <2>2
    <3> HIDE DEF c
    <3>3. e \in EmitCalls /\ e.slot = s /\ e.parent = me /\ e.build = c
      BY <3>2 DEF EmitCalls
    <3>4. e \in R(s) /\ e \in EmitCalls /\ e.slot = s
      BY <3>2, <3>3 DEF c
    <3> HIDE DEF e, V, R
    <3>5. <<e>> \in Seq(EmitCalls) /\ IsInjective(<<e>>) /\ Range(<<e>>) = {e}
      BY <3>4 DEF IsInjective, Range
    <3> QED BY <3>1, <3>4, <3>5
  <2> QED BY <2>1, <2>2
<1>3. \A s, r \in Slots : s # r => \A x \in R(s) : x \notin R(r)
  OBVIOUS
<1> DEFINE A == V(1)
           B == V(2)
           C == V(3)
           D == V(4)
<1>4. /\ A \in Seq(EmitCalls) /\ IsInjective(A) /\ \A x \in Range(A) : x \in R(1)
      /\ B \in Seq(EmitCalls) /\ IsInjective(B) /\ \A x \in Range(B) : x \in R(2)
      /\ C \in Seq(EmitCalls) /\ IsInjective(C) /\ \A x \in Range(C) : x \in R(3)
      /\ D \in Seq(EmitCalls) /\ IsInjective(D) /\ \A x \in Range(D) : x \in R(4)
  <2>1. 1 \in Slots /\ 2 \in Slots /\ 3 \in Slots /\ 4 \in Slots
    BY DEF Slots
  <2> HIDE DEF V, R
  <2> QED BY <1>2, <2>1
<1>5. /\ \A x \in R(1) : x \notin R(2) /\ x \notin R(3) /\ x \notin R(4)
      /\ \A x \in R(2) : x \notin R(3) /\ x \notin R(4)
      /\ \A x \in R(3) : x \notin R(4)
  OBVIOUS
<1> HIDE DEF A, B, C, D, R
<1>6. /\ A \o B \in Seq(EmitCalls) /\ IsInjective(A \o B)
      /\ Range(A \o B) = Range(A) \cup Range(B)
  BY <1>4, <1>5, Joined
<1> DEFINE AB == A \o B
<1>7. /\ AB \in Seq(EmitCalls) /\ IsInjective(AB)
      /\ \A x \in Range(AB) : x \notin Range(C)
  BY <1>4, <1>5, <1>6
<1>8. Range(AB) = Range(A) \cup Range(B)
  BY <1>6
<1> HIDE DEF AB
<1>9. /\ AB \o C \in Seq(EmitCalls) /\ IsInjective(AB \o C)
      /\ Range(AB \o C) = Range(AB) \cup Range(C)
  BY <1>4, <1>7, Joined
<1> DEFINE ABC == AB \o C
<1>10. /\ ABC \in Seq(EmitCalls) /\ IsInjective(ABC)
       /\ Range(ABC) = Range(A) \cup Range(B) \cup Range(C)
  BY <1>8, <1>9
<1>11. \A x \in Range(ABC) : x \notin Range(D)
  BY <1>4, <1>5, <1>10
<1> HIDE DEF ABC
<1>12. /\ ABC \o D \in Seq(EmitCalls) /\ IsInjective(ABC \o D)
       /\ Range(ABC \o D) = Range(ABC) \cup Range(D)
  BY <1>4, <1>10, <1>11, Joined
<1>13. es = ABC \o D
  BY DEF ABC, AB, A, B, C, D
<1>14. Range(es) = Range(A) \cup Range(B) \cup Range(C) \cup Range(D)
  BY <1>10, <1>12, <1>13
<1>15. Visiting(Range(es), b, me)
  <2>1. \A x \in Range(es) : x \in R(1) \/ x \in R(2) \/ x \in R(3) \/ x \in R(4)
    BY <1>4, <1>14
  <2>2. \A x \in Range(es) : /\ x \in EmitCalls /\ x.parent = me
                             /\ x.build = nodes[b].child[x.slot] /\ x.build # 0
    BY <2>1 DEF R
  <2>3. ASSUME NEW s \in Slots, nodes[b].child[s] # 0 PROVE \E x \in Range(es) : x.slot = s
    <3>1. PICK x \in Range(V(s)) : x.slot = s
      BY <1>2, <2>3
    <3>2. s = 1 \/ s = 2 \/ s = 3 \/ s = 4
      BY DEF Slots
    <3>3. x \in Range(es)
      BY <1>14, <3>1, <3>2 DEF A, B, C, D
    <3> QED BY <3>1, <3>3
  <2> QED BY <2>2, <2>3 DEF Visiting
<1> QED BY <1>12, <1>13, <1>15

(* Points are packed as long as the frame stays.                            *)
LEMMA PackStays ==
    ASSUME frame' = frame, NEW CONSTANT v
    PROVE  PackMins(v)' = PackMins(v) /\ PackMaxs(v)' = PackMaxs(v) /\ Packed(v)' = Packed(v)
<1>1. Scale' = Scale /\ Den' = Den
  <2>1. Extent' = Extent
    BY DEF Extent
  <2> QED BY <2>1 DEF Scale, Den
<1>2. ASSUME NEW CONSTANT w, NEW CONSTANT a PROVE Num(w, a)' = Num(w, a)
  BY <1>1 DEF Num
<1>3. PackMins(v)' = PackMins(v) /\ PackMaxs(v)' = PackMaxs(v)
  <2>1. ASSUME NEW CONSTANT a \in Axes
        PROVE  Floor(v[a], a)' = Floor(v[a], a) /\ Ceil(v[a], a)' = Ceil(v[a], a)
    <3>1. Num(v[a], a)' = Num(v[a], a)
      BY <1>2
    <3> QED BY <1>1, <3>1 DEF Floor, Ceil, Clamp
  <2>2. /\ PackMins(v)' = [a \in Axes |-> Floor(v[a], a)']
        /\ PackMaxs(v)' = [a \in Axes |-> Ceil(v[a], a)']
    BY DEF PackMins, PackMaxs
  <2>3. /\ PackMins(v) = [a \in Axes |-> Floor(v[a], a)]
        /\ PackMaxs(v) = [a \in Axes |-> Ceil(v[a], a)]
    BY DEF PackMins, PackMaxs
  <2> QED BY <2>1, <2>2, <2>3
<1>4. Packed(v)' = Packed(v)
  <2>1. ASSUME NEW CONSTANT a \in Axes PROVE Truncate(v[a], a)' = Truncate(v[a], a)
    <3>1. Num(v[a], a)' = Num(v[a], a)
      BY <1>2
    <3> QED BY <1>1, <3>1 DEF Truncate, Clamp
  <2>2. Packed(v)' = [a \in Axes |-> Truncate(v[a], a)']
    BY DEF Packed
  <2>3. Packed(v) = [a \in Axes |-> Truncate(v[a], a)]
    BY DEF Packed
  <2> QED BY <2>1, <2>2, <2>3
<1> QED BY <1>3, <1>4

(* So are the vertices of triangles.                                        *)
LEMMA VertsStay ==
    ASSUME frame' = frame, tris' = tris, NEW CONSTANT ts
    PROVE  LeafVerts(ts)' = LeafVerts(ts)
<1> DEFINE n == 3 * Len(ts)
<1>1. ASSUME NEW CONSTANT i \in 1 .. n
      PROVE  (LET t == tris[ts[(i + 2) \div 3]]
              IN  Packed(CASE i % 3 = 1 -> t[1] [] i % 3 = 2 -> t[3] [] i % 3 = 0 -> t[2]))'
             = LET t == tris[ts[(i + 2) \div 3]]
               IN  Packed(CASE i % 3 = 1 -> t[1] [] i % 3 = 2 -> t[3] [] i % 3 = 0 -> t[2])
  <2> SUFFICES ASSUME NEW CONSTANT t, t = tris[ts[(i + 2) \div 3]],
                      NEW CONSTANT v,
                      v = CASE i % 3 = 1 -> t[1] [] i % 3 = 2 -> t[3] [] i % 3 = 0 -> t[2]
               PROVE  Packed(v)' = Packed(v)
    OBVIOUS
  <2> QED BY PackStays
<1>2. LeafVerts(ts)' = [i \in 1 .. n |->
          (LET t == tris[ts[(i + 2) \div 3]]
           IN  Packed(CASE i % 3 = 1 -> t[1] [] i % 3 = 2 -> t[3] [] i % 3 = 0 -> t[2]))']
  BY DEF LeafVerts
<1>3. LeafVerts(ts) = [i \in 1 .. n |->
          LET t == tris[ts[(i + 2) \div 3]]
          IN  Packed(CASE i % 3 = 1 -> t[1] [] i % 3 = 2 -> t[3] [] i % 3 = 0 -> t[2])]
  BY DEF LeafVerts
<1> QED BY <1>1, <1>2, <1>3

(* What is written depends on the tree, which does not change.              *)
LEMMA MappedStays ==
    ASSUME NEW CONSTANT bs, NEW CONSTANT ls, NEW CONSTANT em, NEW CONSTANT tr, NEW CONSTANT P,
           tris' = tris, frame' = frame, nodes' = nodes, Mapped(bs, ls, em, tr, P)
    PROVE  Mapped(bs, ls, em, tr, P)'
<1>1. Ordered(bs, em)'
  <2>1. Tops' = Tops
    BY DEF Tops
  <2> QED BY <2>1 DEF Mapped, Ordered
<1>10. ASSUME NEW CONSTANT b, NEW CONSTANT s PROVE Kid(b, s)' = Kid(b, s)
  BY DEF Kid
<1>2. Drawn(bs, em)'
  <2> SUFFICES ASSUME NEW CONSTANT i \in 1 .. Len(bs), NEW CONSTANT s \in Slots,
                      NEW CONSTANT c, c = Kid(em[i], s)
               PROVE  /\ bs[i].type[s] = KidType(c)'
                      /\ c # 0 => /\ bs[i].mins[s] = PackMins(nodes[c].mins)'
                                  /\ bs[i].maxs[s] = PackMaxs(nodes[c].maxs)'
    BY <1>10 DEF Drawn
  <2>1. /\ bs[i].type[s] = KidType(c)
        /\ c # 0 => /\ bs[i].mins[s] = PackMins(nodes[c].mins)
                    /\ bs[i].maxs[s] = PackMaxs(nodes[c].maxs)
    BY DEF Mapped, Drawn
  <2>2. KidType(c)' = KidType(c)
    BY DEF KidType
  <2>3. ASSUME NEW CONSTANT lo, lo = nodes[c].mins, NEW CONSTANT hi, hi = nodes[c].maxs
        PROVE  PackMins(nodes[c].mins)' = PackMins(lo) /\ PackMaxs(nodes[c].maxs)' = PackMaxs(hi)
    <3>1. PackMins(lo)' = PackMins(lo) /\ PackMaxs(hi)' = PackMaxs(hi)
      BY PackStays
    <3>2. (nodes[c].mins)' = lo /\ (nodes[c].maxs)' = hi
      BY <2>3
    <3>3. PackMins(nodes[c].mins)' = PackMins(lo)' /\ PackMaxs(nodes[c].maxs)' = PackMaxs(hi)'
      BY <3>2 DEF PackMins, PackMaxs
    <3> QED BY <3>1, <3>3
  <2> QED BY <2>1, <2>2, <2>3
<1>11. ASSUME NEW CONSTANT x, NEW CONSTANT c, Held(ls, tr, x, c) PROVE Held(ls, tr, x, c)'
  BY <1>11 DEF Held
<1>3. Indices(bs, ls, em, tr, P)'
  <2> SUFFICES ASSUME NEW CONSTANT i \in 1 .. Len(bs), NEW CONSTANT s \in Slots,
                      NEW CONSTANT c, c = Kid(em[i], s), c # 0, ~Pend(P, i, s),
                      NEW CONSTANT x, x = bs[i].index[s]
               PROVE  IF (nodes[c].isLeaf)' THEN Held(ls, tr, x, c)'
                      ELSE x + 1 \in i + 1 .. Len(bs) /\ em[x + 1] = c
    BY <1>10 DEF Indices
  <2>1. IF nodes[c].isLeaf THEN Held(ls, tr, x, c)
        ELSE x + 1 \in i + 1 .. Len(bs) /\ em[x + 1] = c
    BY DEF Mapped, Indices
  <2>2. Held(ls, tr, x, c) => Held(ls, tr, x, c)'
    BY <1>11
  <2>3. (nodes[c].isLeaf)' = nodes[c].isLeaf
    OBVIOUS
  <2> QED BY <2>1, <2>2, <2>3
<1>4. Waiting(bs, em, P)'
  BY DEF Mapped, Waiting, Kid, EmitCalls
<1>5. Reached(bs, em, P)'
  BY DEF Mapped, Reached, Kid
<1>6. Taken(em, tr, P)'
  BY DEF Mapped, Taken, Kid
<1> QED BY <1>1, <1>2, <1>3, <1>4, <1>5, <1>6 DEF Mapped

-----------------------------------------------------------------------------
(* Every step.                                                             *)

\* What has been written follows the tree.
Laid ==
    /\ IsInjective(emits)
    /\ pc = "build" => Len(bvh) = 0 /\ leaves = << >> /\ verts = << >>
    /\ pc # "build" => \E em, tr : Mapped(bvh, leaves, em, tr, Range(emits))
                                   /\ verts = LeafVerts(tr)
CInv == Growing /\ Laid

(* The tree stays as it is where a step keeps the nodes and calls.          *)
LEMMA GrowingNext ==
    ASSUME BInv', tris' = tris, Grown(nodes', Range(calls')), IsInjective(calls')
    PROVE  Growing'
<1>1. ASSUME NEW CONSTANT ns, NEW CONSTANT C, Grown(ns, C) PROVE Grown(ns, C)'
  <2>1. ASSUME NEW CONSTANT t, NEW CONSTANT lo, NEW CONSTANT hi
        PROVE  Inside(t, lo, hi)' = Inside(t, lo, hi)
    BY DEF Inside
  <2>2. Once(ns, C)' /\ Kept(ns, C)' /\ Children(ns)' /\ Parents(ns)'
    BY <1>1 DEF Grown, Once, Kept, Children, Parents
  <2>3. Awaited(ns, C)' /\ Content(ns)'
    BY <1>1 DEF Grown, Awaited, Content, Inside
  <2> QED BY <2>2, <2>3 DEF Grown
<1>2. Grown(nodes, Range(calls))'
  <2> SUFFICES ASSUME NEW CONSTANT ns, ns = nodes', NEW CONSTANT C, C = Range(calls')
               PROVE  Grown(nodes, Range(calls))'
    OBVIOUS
  <2>1. Grown(ns, C)'
    BY <1>1
  <2>2. nodes' = ns /\ Range(calls)' = C
    BY DEF Range
  <2> QED BY <2>1, <2>2
<1>3. IsInjective(calls)'
  BY DEF IsInjective
<1> QED BY <1>2, <1>3 DEF Growing

(* What has been written, after a step.                                     *)
LEMMA LaidNext ==
    ASSUME tris' = tris, frame' = frame, nodes' = nodes, IsInjective(emits'), pc' # "build",
           NEW CONSTANT em, NEW CONSTANT tr, Mapped(bvh', leaves', em, tr, Range(emits')),
           verts' = LeafVerts(tr)
    PROVE  Laid'
<1> SUFFICES ASSUME NEW CONSTANT b2, b2 = bvh', NEW CONSTANT l2, l2 = leaves',
                    NEW CONSTANT P2, P2 = Range(emits')
             PROVE  Laid'
  OBVIOUS
<1>1. Mapped(b2, l2, em, tr, P2)'
  BY MappedStays
<1>2. bvh' = b2 /\ leaves' = l2 /\ Range(emits)' = P2
  BY DEF Range
<1>3. Mapped(bvh, leaves, em, tr, Range(emits))'
  BY <1>1, <1>2
<1>4. (verts = LeafVerts(tr))'
  <2>1. LeafVerts(tr)' = LeafVerts(tr)
    BY VertsStay
  <2> QED BY <2>1
<1>5. IsInjective(emits)'
  BY DEF IsInjective
<1> QED BY <1>3, <1>4, <1>5 DEF Laid

(* At the start all triangles are in one call.                              *)
LEMMA InitCInv == ASSUME Init PROVE CInv
<1> DEFINE all == [i \in DOMAIN tris |-> i]
           c == Call(all, 0, 0, 1)
<1>1. BInv
  BY InitBInv
<1>2. /\ pc = "build" /\ calls = <<c>> /\ nodes = << >> /\ emits = << >>
      /\ bvh = << >> /\ leaves = << >> /\ verts = << >>
  BY DEF Init
<1>3. /\ c.tris = all /\ c.parent = 0 /\ DOMAIN all = DOMAIN tris
      /\ \A t \in DOMAIN tris : all[t] = t
  BY DEF Call
<1> HIDE DEF all, c
<1>4. Range(calls) = {c} /\ IsInjective(calls)
  BY <1>2 DEF Range, IsInjective
<1>5. Len(nodes) = 0
  BY <1>2
<1>6. Once(nodes, {c})
  <2>1. \A k, l \in DOMAIN c.tris : c.tris[k] = c.tris[l] => k = l
    BY <1>3
  <2> QED BY <1>5, <2>1 DEF Once
<1>7. Kept(nodes, {c})
  BY <1>3 DEF Kept
<1>8. Awaited(nodes, {c})
  BY <1>2, <1>3 DEF Awaited
<1>9. Content(nodes) /\ Children(nodes) /\ Parents(nodes)
  BY <1>5 DEF Content, Children, Parents
<1>10. Growing
  BY <1>1, <1>4, <1>6, <1>7, <1>8, <1>9 DEF Growing, Grown
<1>11. Laid
  <2>1. IsInjective(emits) /\ Len(bvh) = 0
    BY <1>2 DEF IsInjective
  <2> QED BY <1>2, <2>1 DEF Laid
<1> QED BY <1>10, <1>11 DEF CInv

(* When the tree is built, nothing has been written.                        *)
LEMMA BuiltLaid ==
    ASSUME pc' = "emit", emits' = FirstEmit, bvh' = bvh, leaves' = leaves, verts' = verts,
           Len(bvh) = 0, leaves = << >>, verts = << >>, bvh \in Seq(OutNodes)
    PROVE  Laid'
<1> DEFINE e == [build |-> 1, parent |-> 0, slot |-> 1]
           P == {e}
           b == << >>
<1>1. IsInjective(emits)' /\ Range(emits)' = P
  <2>1. emits' = <<e>>
    BY DEF FirstEmit
  <2> HIDE DEF e
  <2> QED BY <2>1 DEF IsInjective, Range
<1>2. e \in EmitCalls' /\ e.parent = 0 /\ e.build = 1
  BY DEF EmitCalls, Slots
<1> HIDE DEF e
<1>3. bvh' = b /\ Len(b) = 0
  BY EmptySeq
<1>4. Ordered(b, b)' /\ Drawn(b, b)' /\ Reached(b, b, P)'
  BY <1>3 DEF Ordered, Drawn, Reached
<1>5. Indices(b, b, b, b, P)' /\ Taken(b, b, P)'
  BY <1>3 DEF Indices, Taken
<1>6. Waiting(b, b, P)'
  BY <1>2, <1>3 DEF Waiting
<1>7. Mapped(b, b, b, b, P)'
  BY <1>4, <1>5, <1>6 DEF Mapped
<1>8. (verts = LeafVerts(b))'
  <2>1. verts' = << >>
    OBVIOUS
  <2>2. LeafVerts(b)' = << >>
    BY DEF LeafVerts
  <2> QED BY <2>1, <2>2
<1>9. (\E em, tr : Mapped(bvh, leaves, em, tr, Range(emits)) /\ verts = LeafVerts(tr))'
  <2>1. Mapped(bvh, leaves, b, b, Range(emits))'
    BY <1>1, <1>3, <1>7
  <2> QED BY <1>8, <2>1
<1> QED BY <1>1, <1>9 DEF Laid

(* A step that builds keeps the invariant.                                  *)
LEMMA BuildCInv == ASSUME CInv, BuildLeaf \/ BuildInner PROVE CInv'
<1>1. /\ BInv /\ Growing /\ pc = "build" /\ emits = << >>
      /\ tris' = tris /\ bvh' = bvh /\ leaves' = leaves /\ verts' = verts
      /\ Len(bvh) = 0 /\ leaves = << >> /\ verts = << >> /\ bvh \in Seq(OutNodes)
  BY DEF CInv, Growing, BInv, Written, Laid, BuildLeaf, BuildInner
<1>2. BInv'
  BY <1>1, NextBInv DEF Next
<1>3. Grown(nodes', Range(calls')) /\ IsInjective(calls')
  BY <1>1, BuildLeafGrows, BuildInnerGrows
<1>4. Growing'
  BY <1>1, <1>2, <1>3, GrowingNext
<1>5. \/ pc' = "build" /\ emits' = emits
      \/ pc' = "emit" /\ emits' = FirstEmit
  BY <1>1 DEF BuildLeaf, BuildInner, AfterBuild
<1>6. Laid'
  <2>1. CASE pc' = "build" /\ emits' = emits
    <3>1. IsInjective(emits)'
      BY <1>1, <2>1 DEF IsInjective
    <3>2. (Len(bvh) = 0 /\ leaves = << >> /\ verts = << >>)'
      BY <1>1
    <3> QED BY <2>1, <3>1, <3>2 DEF Laid
  <2>2. CASE pc' = "emit" /\ emits' = FirstEmit
    BY <1>1, <2>2, BuiltLaid
  <2> QED BY <1>5, <2>1, <2>2
<1> QED BY <1>4, <1>6 DEF CInv

(* The fields of a written node.                                            *)
LEMMA OutFields ==
    ASSUME NEW bs \in Seq(OutNodes), NEW i \in 1 .. Len(bs), NEW s \in Slots
    PROVE  /\ bs[i].type[s] \in Kind /\ bs[i].index[s] \in Nat
           /\ bs[i].mins[s] \in Corner16 /\ bs[i].maxs[s] \in Corner16
<1> DEFINE n == bs[i]
           T == [Slots -> Kind]
           I == [Slots -> Nat]
           C == [Slots -> Corner16]
<1>1. n \in OutNodes
  OBVIOUS
<1>2. OutNodes = OutShape(T, I, C)
  BY DEF OutNodes, OutShape
<1> HIDE DEF n, T, I, C
<1>3. n.type \in T /\ n.index \in I /\ n.mins \in C /\ n.maxs \in C
  BY <1>1, <1>2 DEF OutShape
<1> QED BY <1>3 DEF n, T, I, C

\* An index is noted in a slot.
Noted(bs, b2, p, q, v) ==
    /\ bs \in Seq(OutNodes) /\ p \in 1 .. Len(bs) /\ q \in Slots /\ v \in Nat
    /\ b2 = [bs EXCEPT ![p].index[q] = v]

(* A new index in one slot leaves the rest of the nodes as they are.        *)
LEMMA Relinks ==
    ASSUME NEW bs, NEW p, NEW q, NEW v, NEW b2, Noted(bs, b2, p, q, v)
    PROVE  Relinked(bs, b2, p, q, v) /\ Len(b2) = Len(bs) /\ b2 \in Seq(OutNodes)
<1> /\ bs \in Seq(OutNodes) /\ p \in 1 .. Len(bs) /\ q \in Slots /\ v \in Nat
    /\ b2 = [bs EXCEPT ![p].index[q] = v]
  BY DEF Noted
<1> DEFINE old == bs[p]
           ix == [old.index EXCEPT ![q] = v]
           new == [old EXCEPT !.index = ix]
           T == [Slots -> Kind]
           I == [Slots -> Nat]
           C == [Slots -> Corner16]
<1>1. b2 = [bs EXCEPT ![p] = new]
  OBVIOUS
<1>2. old \in OutNodes /\ Len(bs) \in Nat
  OBVIOUS
<1>3. OutNodes = OutShape(T, I, C)
  BY DEF OutNodes, OutShape
<1>4. old.index \in I
  <2> HIDE DEF old, T, I, C
  <2> QED BY <1>2, <1>3 DEF OutShape
<1>5. ix \in I /\ \A s \in Slots : ix[s] = IF s = q THEN v ELSE old.index[s]
  BY <1>4
<1>6. new \in OutNodes /\ new.index = ix
      /\ new.type = old.type /\ new.mins = old.mins /\ new.maxs = old.maxs
  <2> HIDE DEF old, T, I, C, ix
  <2> QED BY <1>2, <1>3, <1>5 DEF OutShape
<1>7. old = bs[p]
  OBVIOUS
<1>8. \A i \in 1 .. Len(bs) : \A s \in Slots : bs[i].index[s] \in Nat
  BY OutFields
<1> HIDE DEF old, ix, new
<1> DEFINE cs == [bs EXCEPT ![p] = new]
<1>9. /\ b2 \in Seq(OutNodes) /\ Len(b2) = Len(bs)
      /\ \A i \in 1 .. Len(bs) : b2[i] = IF i = p THEN new ELSE bs[i]
  <2>1. /\ cs \in Seq(OutNodes) /\ Len(cs) = Len(bs)
        /\ \A i \in 1 .. Len(bs) : cs[i] = IF i = p THEN new ELSE bs[i]
    BY <1>2, <1>6, ExceptSeq
  <2>2. b2 = cs
    BY <1>1
  <2> HIDE DEF cs
  <2> QED BY <2>1, <2>2
<1>10. Relinked(bs, b2, p, q, v)
  <2> SUFFICES ASSUME NEW i \in 1 .. Len(bs), NEW s \in Slots
               PROVE  /\ bs[i].index[s] \in Nat
                      /\ b2[i].type[s] = bs[i].type[s]
                      /\ b2[i].mins[s] = bs[i].mins[s] /\ b2[i].maxs[s] = bs[i].maxs[s]
                      /\ b2[i].index[s] = IF i = p /\ s = q THEN v ELSE bs[i].index[s]
    BY <1>2 DEF Relinked
  <2>1. CASE i = p
    BY <1>5, <1>6, <1>7, <1>8, <1>9, <2>1
  <2>2. CASE i # p
    BY <1>8, <1>9, <2>2
  <2> QED BY <2>1, <2>2
<1> QED BY <1>9, <1>10

(* A leaf is written whole: it has no more triangles than are written.      *)
LEMMA WholeLeaf ==
    ASSUME Filled, NEW c \in 1 .. Len(nodes)
    PROVE  LeafTris(c) = nodes[c].tris
<1> DEFINE ts == nodes[c].tris
           n == Len(ts)
           T == DOMAIN tris
<1>1. ts \in Seq(T) /\ n \in 0 .. MaxLeaf /\ MaxLeaf \in Nat
  BY LeafAssumption DEF Filled
<1>2. LeafTris(c) = SubSeq(ts, 1, Min({n, MaxLeaf}))
  BY DEF LeafTris
<1> HIDE DEF n
<1>3. Min({n, MaxLeaf}) = n
  <2>1. n \in Int /\ MaxLeaf \in Int /\ n <= MaxLeaf
    BY <1>1
  <2>2. Min({n, MaxLeaf}) = IF n < MaxLeaf THEN n ELSE MaxLeaf
    BY <2>1, OfTwo
  <2> QED BY <2>1, <2>2
<1> HIDE DEF ts, T
<1>4. SubSeq(ts, 1, n) = ts
  <2>1. ts \in Seq(T) /\ n = Len(ts)
    BY <1>1 DEF n
  <2> QED BY <2>1
<1> QED BY <1>2, <1>3, <1>4 DEF ts

(* The packed vertices are three for each triangle.                         *)
LEMMA VertsCount ==
    ASSUME NEW tr \in Seq(DOMAIN tris)
    PROVE  Len(LeafVerts(tr)) = 3 * Len(tr)
<1> DEFINE F(i) == LET t == tris[tr[(i + 2) \div 3]]
                   IN  Packed(CASE i % 3 = 1 -> t[1] [] i % 3 = 2 -> t[3] [] i % 3 = 0 -> t[2])
           n == 3 * Len(tr)
           f == [i \in 1 .. n |-> F(i)]
           V == {F(i) : i \in 1 .. n}
<1>1. LeafVerts(tr) = f
  BY DEF LeafVerts
<1>2. n \in Nat
  OBVIOUS
<1> HIDE DEF F, n
<1>3. f \in [1 .. n -> V]
  OBVIOUS
<1> HIDE DEF f, V
<1>4. f \in Seq(V) /\ Len(f) = n
  BY <1>2, <1>3
<1> QED BY <1>1, <1>4 DEF n

\* The state of a step that writes.
Emission(em, tr) ==
    /\ BInv /\ Tree /\ Filled /\ pc = "emit" /\ IsInjective(emits)
    /\ Mapped(bvh, leaves, em, tr, Range(emits)) /\ verts = LeafVerts(tr)

(* There is what has been written so far.                                   *)
LEMMA Emitted ==
    ASSUME CInv, pc = "emit"
    PROVE  \E em, tr : Emission(em, tr)
<1>1. BInv /\ Grown(nodes, Range(calls)) /\ Laid
  BY DEF CInv, Growing
<1>2. nodes # << >> /\ calls = << >>
  BY <1>1 DEF BInv
<1>3. Range(calls) = {}
  BY <1>2 DEF Range
<1>4. Tree /\ Filled
  BY <1>1, <1>2, <1>3, TreeBuilt, TreeFilled
<1> QED BY <1>1, <1>4 DEF Laid, Emission

(* What a leaf adds, in terms of its triangles.                             *)
LEMMA LeafAdds ==
    ASSUME NEW em, NEW tr, Emission(em, tr), NEW c \in 1 .. Len(nodes), EmitLeafData(c),
           NEW ws, ws = LeafWords(Len(nodes[c].tris), 3 * Len(tr))
    PROVE  /\ leaves' = leaves \o ws /\ verts' = LeafVerts(tr \o nodes[c].tris)
           /\ leaves \in Seq(Words) /\ Len(leaves) \in Nat
<1>1. Filled /\ verts = LeafVerts(tr) /\ tr \in Seq(DOMAIN tris) /\ leaves \in Seq(Words)
  BY DEF Emission, Mapped, Taken, BInv, Written
<1>2. LeafTris(c) = nodes[c].tris /\ nodes[c].tris \in Seq(DOMAIN tris)
  BY <1>1, WholeLeaf DEF Filled
<1>3. Len(verts) = 3 * Len(tr)
  BY <1>1, VertsCount
<1>4. leaves' = leaves \o ws /\ verts' = verts \o LeafVerts(nodes[c].tris)
  BY <1>2, <1>3 DEF EmitLeafData
<1>5. LeafVerts(tr \o nodes[c].tris) = LeafVerts(tr) \o LeafVerts(nodes[c].tris)
  BY <1>1, <1>2, VertsJoin
<1>6. Len(leaves) \in Nat
  BY <1>1
<1> QED BY <1>1, <1>4, <1>5, <1>6

(* A step that writes leaves the tree as it is.                             *)
LEMMA TreeStays ==
    ASSUME CInv, [Next]_vars, tris' = tris, nodes' = nodes, calls' = calls
    PROVE  Growing'
<1>1. BInv /\ Grown(nodes, Range(calls)) /\ IsInjective(calls)
  BY DEF CInv, Growing
<1>2. BInv'
  BY <1>1, NextBInv
<1>3. Grown(nodes', Range(calls')) /\ IsInjective(calls')
  BY <1>1
<1> QED BY <1>2, <1>3, GrowingNext

(* The call whose turn it is to write, among all.                           *)
LEMMA WriterAmong ==
    ASSUME BInv, pc = "emit", IsInjective(emits)
    PROVE  /\ Head(emits) \in Range(emits)
           /\ IsInjective(Tail(emits)) /\ Range(Tail(emits)) = Range(emits) \ {Head(emits)}
<1>1. emits \in Seq(EmitCalls) /\ emits # << >> /\ Head(emits) = emits[1]
  BY Writer
<1>2. 1 \in DOMAIN emits
  BY <1>1
<1> DEFINE es == << >>
<1>3. es \in Seq(EmitCalls) /\ Range(es) = {} /\ IsInjective(es)
  BY DEF Range, IsInjective
<1>4. es \o Tail(emits) = Tail(emits)
  <2>1. Tail(emits) \in Seq(EmitCalls)
    BY <1>1
  <2> QED BY <2>1, ConcatEmptySeq
<1> HIDE DEF es
<1>5. \A x \in Range(es) : x \notin Range(emits)
  BY <1>3
<1>6. IsInjective(es \o Tail(emits))
      /\ Range(es \o Tail(emits)) = Range(es) \cup (Range(emits) \ {emits[1]})
  BY <1>1, <1>3, <1>5, Popped
<1> QED BY <1>1, <1>2, <1>3, <1>4, <1>6 DEF Range

(* EmitRootLeaf keeps the invariant.                                        *)
LEMMA EmitRootLeafCInv == ASSUME CInv, EmitRootLeaf PROVE CInv'
<1> DEFINE b == nodes[1]
           n == [type |-> [s \in Slots |-> IF s = 1 THEN Poly3 ELSE None],
                 index |-> [s \in Slots |-> IF s = 1 THEN Len(leaves) ELSE 0],
                 mins |-> [s \in Slots |-> PackMins(IF s = 1 THEN b.mins ELSE b.maxs)],
                 maxs |-> [s \in Slots |-> PackMaxs(IF s = 1 THEN b.maxs ELSE b.mins)]]
           e == Head(emits)
           c1 == 1
<1>1. /\ pc = "emit" /\ e.parent = 0 /\ b.isLeaf /\ EmitLeafData(1)
      /\ bvh' = <<n>> /\ emits' = Tail(emits) /\ pc' # "build"
      /\ tris' = tris /\ frame' = frame /\ calls' = calls /\ nodes' = nodes
  BY DEF EmitRootLeaf, AfterEmit
<1>2. Growing'
  BY <1>1, TreeStays DEF Next
<1>3. PICK em, tr : Emission(em, tr)
  BY <1>1, Emitted
<1>4. /\ BInv /\ Tree /\ Filled /\ IsInjective(emits)
      /\ Mapped(bvh, leaves, em, tr, Range(emits))
  BY <1>3 DEF Emission
<1>5. /\ e \in Range(emits) /\ IsInjective(emits') /\ Range(emits') = Range(emits) \ {e}
  BY <1>1, <1>4, WriterAmong
<1>6. Range(emits') = {}
  <2>1. Range(emits) = {e}
    BY <1>1, <1>4, <1>5 DEF Mapped, Waiting
  <2> QED BY <1>5, <2>1
<1>7. 1 \in 1 .. Len(nodes) /\ 1 \in Slots
  BY <1>4 DEF Tree, Tops, Slots
<1> DEFINE ws == LeafWords(Len(nodes[1].tris), 3 * Len(tr))
<1>8. /\ leaves' = leaves \o ws /\ verts' = LeafVerts(tr \o nodes[1].tris)
      /\ leaves \in Seq(Words)
  BY <1>1, <1>3, <1>7, LeafAdds
<1>9. /\ bvh'[1] = n /\ Len(bvh') = 1
  <2> HIDE DEF n
  <2> QED BY <1>1
<1>10. /\ \A s \in Slots : n.type[s] = IF s = 1 THEN Poly3 ELSE None
       /\ n.index[1] = Len(leaves)
       /\ n.mins[1] = PackMins(nodes[1].mins) /\ n.maxs[1] = PackMaxs(nodes[1].maxs)
  BY <1>7
<1> HIDE DEF n, ws, e
<1>11. Mapped(bvh', leaves', <<1>>, tr \o nodes[1].tris, Range(emits'))
  <2> DEFINE P == Range(emits)
             b2 == bvh'
  <2>1. Mapped(bvh, leaves, em, tr, P) /\ e \in P /\ e.parent = 0 /\ nodes[1].isLeaf
    BY <1>1, <1>4, <1>5
  <2>2. /\ Len(b2) = 1 /\ \A s \in Slots : b2[1].type[s] = IF s = 1 THEN Poly3 ELSE None
        /\ b2[1].index[1] = Len(leaves)
        /\ b2[1].mins[1] = PackMins(nodes[1].mins) /\ b2[1].maxs[1] = PackMaxs(nodes[1].maxs)
    BY <1>9, <1>10
  <2>3. ws = LeafWords(Len(nodes[1].tris), 3 * Len(tr))
    BY DEF ws
  <2> HIDE DEF P, b2
  <2>4. Mapped(b2, leaves \o ws, <<1>>, tr \o nodes[1].tris, {})
    BY <1>4, <1>8, <2>1, <2>2, <2>3, RootStep
  <2> QED BY <1>6, <1>8, <2>4 DEF b2
<1>12. Laid'
  <2> SUFFICES ASSUME NEW CONSTANT t2, t2 = tr \o nodes[1].tris PROVE Laid'
    OBVIOUS
  <2> DEFINE e2 == <<1>>
  <2>1. Mapped(bvh', leaves', e2, t2, Range(emits')) /\ verts' = LeafVerts(t2)
    BY <1>8, <1>11
  <2> HIDE DEF e2
  <2> QED BY <1>1, <1>5, <2>1, LaidNext DEF e2
<1> QED BY <1>2, <1>12 DEF CInv

(* EmitLeafChild keeps the invariant.                                       *)
LEMMA EmitLeafChildCInv == ASSUME CInv, EmitLeafChild PROVE CInv'
<1> DEFINE e == Head(emits)
           c == e.build
           b2 == [bvh EXCEPT ![e.parent].index[e.slot] = Len(leaves)]
<1>1. /\ pc = "emit" /\ e.parent # 0 /\ nodes[c].isLeaf /\ EmitLeafData(c)
      /\ bvh' = b2 /\ emits' = Tail(emits) /\ pc' # "build"
      /\ tris' = tris /\ frame' = frame /\ calls' = calls /\ nodes' = nodes
  BY DEF EmitLeafChild, AfterEmit
<1>2. Growing'
  BY <1>1, TreeStays DEF Next
<1>3. PICK em, tr : Emission(em, tr)
  BY <1>1, Emitted
<1>4. /\ BInv /\ Tree /\ Filled /\ IsInjective(emits)
      /\ Mapped(bvh, leaves, em, tr, Range(emits))
  BY <1>3 DEF Emission
<1>5. /\ e \in Range(emits) /\ IsInjective(emits') /\ Range(emits') = Range(emits) \ {e}
  BY <1>1, <1>4, WriterAmong
<1>6. /\ c \in 1 .. Len(nodes) /\ e.slot \in Slots /\ e.parent \in Nat /\ e.parent <= Len(bvh)
  BY <1>1, <1>4, Writer
<1> HIDE DEF e, c
<1> DEFINE ws == LeafWords(Len(nodes[c].tris), 3 * Len(tr))
<1>7. /\ leaves' = leaves \o ws /\ verts' = LeafVerts(tr \o nodes[c].tris)
      /\ leaves \in Seq(Words) /\ Len(leaves) \in Nat
  BY <1>1, <1>3, <1>6, LeafAdds
<1>8. Relinked(bvh, b2, e.parent, e.slot, Len(leaves)) /\ Len(b2) = Len(bvh)
  <2> DEFINE p == e.parent
             q == e.slot
             v == Len(leaves)
  <2>1. bvh \in Seq(OutNodes) /\ p \in 1 .. Len(bvh) /\ q \in Slots /\ v \in Nat
    BY <1>1, <1>4, <1>6, <1>7 DEF BInv, Written
  <2>2. b2 = [bvh EXCEPT ![p].index[q] = v]
    OBVIOUS
  <2> HIDE DEF p, q, v, b2
  <2>4. Noted(bvh, b2, p, q, v)
    BY <2>1, <2>2 DEF Noted
  <2>3. Relinked(bvh, b2, p, q, v) /\ Len(b2) = Len(bvh)
    BY <2>4, Relinks
  <2> QED BY <2>3 DEF p, q, v
<1> HIDE DEF b2
<1>9. Mapped(bvh', leaves', em, tr \o nodes[c].tris, Range(emits'))
  <2> DEFINE P == Range(emits)
  <2>1. /\ Mapped(bvh, leaves, em, tr, P) /\ e \in P /\ e.parent # 0 /\ nodes[e.build].isLeaf
        /\ leaves \in Seq(Words) /\ Len(b2) = Len(bvh)
        /\ Relinked(bvh, b2, e.parent, e.slot, Len(leaves))
        /\ ws = LeafWords(Len(nodes[e.build].tris), 3 * Len(tr))
    BY <1>1, <1>4, <1>5, <1>7, <1>8 DEF ws, c
  <2> HIDE DEF P, ws
  <2>2. Mapped(b2, leaves \o ws, em, tr \o nodes[e.build].tris, P \ {e})
    BY <1>4, <2>1, LeafStep
  <2> QED BY <1>1, <1>5, <1>7, <2>2 DEF P, c
<1>10. Laid'
  <2> SUFFICES ASSUME NEW CONSTANT t2, t2 = tr \o nodes[c].tris PROVE Laid'
    OBVIOUS
  <2>1. Mapped(bvh', leaves', em, t2, Range(emits')) /\ verts' = LeafVerts(t2)
    BY <1>7, <1>9
  <2> QED BY <1>1, <1>5, <2>1, LaidNext
<1> QED BY <1>2, <1>10 DEF CInv

(* EmitInner keeps the invariant.                                           *)
LEMMA EmitInnerCInv == ASSUME CInv, EmitInner PROVE CInv'
<1> DEFINE e == Head(emits)
           c == e.build
           linked == IF e.parent = 0 THEN bvh
                     ELSE [bvh EXCEPT ![e.parent].index[e.slot] = Len(bvh)]
           m == Len(bvh)
           V(s) == IF nodes[c].child[s] = 0 THEN << >>
                   ELSE <<[build |-> nodes[c].child[s], parent |-> m + 1, slot |-> s]>>
           n == [type |-> nodes[c].type, index |-> [s \in Slots |-> 0],
                 mins |-> [s \in Slots |-> PackMins(ChildMins(c, s))],
                 maxs |-> [s \in Slots |-> PackMaxs(ChildMaxs(c, s))]]
           b2 == Append(linked, n)
           es == V(1) \o V(2) \o V(3) \o V(4)
<1>1. /\ pc = "emit" /\ ~nodes[c].isLeaf /\ bvh' = b2 /\ emits' = es \o Tail(emits) /\ pc' = pc
      /\ tris' = tris /\ frame' = frame /\ calls' = calls /\ nodes' = nodes
      /\ leaves' = leaves /\ verts' = verts
  BY DEF EmitInner
<1>2. Growing'
  BY <1>1, TreeStays DEF Next
<1>3. PICK em, tr : Emission(em, tr)
  BY <1>1, Emitted
<1>4. /\ BInv /\ Tree /\ Filled /\ IsInjective(emits)
      /\ Mapped(bvh, leaves, em, tr, Range(emits)) /\ verts = LeafVerts(tr)
      /\ bvh \in Seq(OutNodes) /\ m \in Nat
  BY <1>3 DEF Emission, BInv, Written
<1>5. /\ e \in Range(emits) /\ Range(Tail(emits)) = Range(emits) \ {e}
  BY <1>1, <1>4, WriterAmong
<1>6. /\ c \in 1 .. Len(nodes) /\ e.slot \in Slots /\ e.parent \in Nat /\ e.parent <= m
      /\ emits \in Seq(EmitCalls) /\ emits # << >> /\ e = emits[1]
  BY <1>1, <1>4, Writer
<1>7. /\ es \in Seq(EmitCalls) /\ IsInjective(es) /\ Visiting(Range(es), c, m + 1)
  <2> DEFINE me == m + 1
  <2>1. es = VisitOf(c, me, 1) \o VisitOf(c, me, 2) \o VisitOf(c, me, 3) \o VisitOf(c, me, 4)
    BY DEF VisitOf
  <2>2. me \in Nat \ {0}
    BY <1>4
  <2> HIDE DEF es, me, c
  <2>3. es \in Seq(EmitCalls) /\ IsInjective(es) /\ Visiting(Range(es), c, me)
    BY <1>4, <1>6, <2>1, <2>2, VisitsAre
  <2> QED BY <2>3 DEF me
<1> HIDE DEF e, c, es, V
<1>8. IsInjective(emits') /\ Range(emits') = Range(es) \cup (Range(emits) \ {e})
  <2>1. \A x \in Range(es) : x.parent = m + 1
    BY <1>7 DEF Visiting
  <2>2. \A x \in Range(emits) : x.parent # m + 1
    <3> SUFFICES ASSUME NEW x \in Range(emits), x.parent = m + 1 PROVE FALSE
      OBVIOUS
    <3>1. PICK k \in 1 .. Len(emits) : x = emits[k]
      BY <1>6 DEF Range
    <3>2. emits[k].parent <= m
      BY <1>4, <3>1 DEF BInv, Emitting
    <3> QED BY <1>4, <3>1, <3>2
  <2>3. \A x \in Range(es) : x \notin Range(emits)
    BY <2>1, <2>2
  <2>4. IsInjective(es \o Tail(emits))
        /\ Range(es \o Tail(emits)) = Range(es) \cup (Range(emits) \ {emits[1]})
    BY <1>4, <1>6, <1>7, <2>3, Popped
  <2> QED BY <1>1, <1>6, <2>4
<1>9. linked \in Seq(OutNodes) /\ Len(linked) = m /\ Relinked(bvh, linked, e.parent, e.slot, m)
  <2>1. CASE e.parent = 0
    <3>1. linked = bvh
      BY <2>1
    <3>2. \A i \in 1 .. Len(bvh) : \A s \in Slots : bvh[i].index[s] \in Nat /\ i # 0
      BY <1>4, OutFields
    <3> HIDE DEF linked
    <3> QED BY <1>4, <2>1, <3>1, <3>2 DEF Relinked
  <2>2. CASE e.parent # 0
    <3> DEFINE p == e.parent
               q == e.slot
    <3>1. bvh \in Seq(OutNodes) /\ p \in 1 .. Len(bvh) /\ q \in Slots /\ m \in Nat
      BY <1>4, <1>6, <2>2
    <3>2. linked = [bvh EXCEPT ![p].index[q] = m]
      BY <2>2
    <3> HIDE DEF p, q, linked, m
    <3>3. Noted(bvh, linked, p, q, m)
      BY <3>1, <3>2 DEF Noted
    <3>4. Relinked(bvh, linked, p, q, m) /\ Len(linked) = Len(bvh) /\ linked \in Seq(OutNodes)
      BY <3>3, Relinks
    <3> QED BY <3>4 DEF p, q, m
  <2> QED BY <2>1, <2>2
<1> HIDE DEF linked
<1>10. \A s \in Slots : /\ n.type[s] = nodes[c].type[s]
                        /\ n.mins[s] = PackMins(ChildMins(c, s))
                        /\ n.maxs[s] = PackMaxs(ChildMaxs(c, s))
  OBVIOUS
<1> HIDE DEF n
<1>11. Relinked(bvh, b2, e.parent, e.slot, m) /\ Len(b2) = m + 1 /\ b2[m + 1] = n
  <2>1. Len(b2) = m + 1 /\ b2[m + 1] = n /\ \A i \in 1 .. Len(bvh) : b2[i] = linked[i]
    BY <1>4, <1>9
  <2> HIDE DEF b2
  <2> QED BY <1>4, <1>9, <2>1 DEF Relinked
<1> HIDE DEF b2
<1>12. Mapped(bvh', leaves', Append(em, c), tr, Range(emits'))
  <2> DEFINE P == Range(emits)
             K == Range(es)
  <2>1. /\ Mapped(bvh, leaves, em, tr, P) /\ e \in P /\ e.build \in 1 .. Len(nodes)
        /\ ~nodes[e.build].isLeaf /\ m = Len(bvh) /\ Len(b2) = m + 1
        /\ Relinked(bvh, b2, e.parent, e.slot, m)
        /\ \A s \in Slots : /\ b2[m + 1].type[s] = nodes[e.build].type[s]
                            /\ b2[m + 1].mins[s] = PackMins(ChildMins(e.build, s))
                            /\ b2[m + 1].maxs[s] = PackMaxs(ChildMaxs(e.build, s))
        /\ Visiting(K, e.build, m + 1)
    BY <1>1, <1>4, <1>5, <1>6, <1>7, <1>10, <1>11 DEF c
  <2> HIDE DEF P, K, m
  <2>2. Mapped(b2, leaves, Append(em, e.build), tr, K \cup (P \ {e}))
    BY <1>4, <2>1, InnerStep
  <2> QED BY <1>1, <1>8, <2>2 DEF P, K, c
<1>13. Laid'
  <2> SUFFICES ASSUME NEW CONSTANT e2, e2 = Append(em, c) PROVE Laid'
    OBVIOUS
  <2>1. Mapped(bvh', leaves', e2, tr, Range(emits')) /\ verts' = LeafVerts(tr)
    BY <1>1, <1>4, <1>12
  <2> QED BY <1>1, <1>8, <2>1, LaidNext
<1> QED BY <1>2, <1>13 DEF CInv

(* Serialize, and a step that changes nothing, keep the invariant.          *)
LEMMA RestCInv == ASSUME CInv, Serialize \/ UNCHANGED vars PROVE CInv'
<1>1. /\ tris' = tris /\ frame' = frame /\ calls' = calls /\ nodes' = nodes
      /\ emits' = emits /\ bvh' = bvh /\ leaves' = leaves /\ verts' = verts
      /\ (pc' = "build" <=> pc = "build")
  BY DEF Serialize, vars
<1>2. Growing'
  BY <1>1, TreeStays DEF Next
<1>3. IsInjective(emits')
  BY <1>1 DEF CInv, Laid
<1>4. CASE pc = "build"
  <2>1. (Len(bvh) = 0 /\ leaves = << >> /\ verts = << >>)' /\ pc' = "build"
    BY <1>1, <1>4 DEF CInv, Laid
  <2>2. IsInjective(emits)'
    BY <1>3 DEF IsInjective
  <2> QED BY <1>2, <2>1, <2>2 DEF CInv, Laid
<1>5. CASE pc # "build"
  <2>1. PICK em, tr : Mapped(bvh, leaves, em, tr, Range(emits)) /\ verts = LeafVerts(tr)
    BY <1>5 DEF CInv, Laid
  <2>2. Mapped(bvh', leaves', em, tr, Range(emits')) /\ verts' = LeafVerts(tr)
    BY <1>1, <2>1
  <2>3. Laid'
    BY <1>1, <1>3, <1>5, <2>2, LaidNext
  <2> QED BY <1>2, <2>3 DEF CInv
<1> QED BY <1>4, <1>5

(* Every step keeps the invariant.                                          *)
LEMMA NextCInv == ASSUME CInv, [Next]_vars PROVE CInv'
BY BuildCInv, EmitRootLeafCInv, EmitLeafChildCInv, EmitInnerCInv, RestCInv DEF Next

-----------------------------------------------------------------------------
(* What is read.                                                           *)

\* The tree is written.
Finished(em, tr) ==
    /\ BInv /\ Tree /\ Filled /\ Mapped(bvh, leaves, em, tr, {}) /\ verts = LeafVerts(tr)

(* At the end it is.                                                        *)
LEMMA Finishes ==
    ASSUME CInv, pc \in {"serialize", "done"}
    PROVE  \E em, tr : Finished(em, tr)
<1>1. BInv /\ Grown(nodes, Range(calls)) /\ Laid
  BY DEF CInv, Growing
<1>2. nodes # << >> /\ calls = << >> /\ emits = << >>
  BY <1>1 DEF BInv
<1>3. Range(calls) = {} /\ Range(emits) = {}
  BY <1>2 DEF Range
<1>4. Tree /\ Filled
  BY <1>1, <1>2, <1>3, TreeBuilt, TreeFilled
<1> QED BY <1>1, <1>3, <1>4 DEF Laid, Finished

(* The triangles whose vertices are written are no more than there are.     *)
LEMMA TakenFew ==
    ASSUME tris \in Soups, NEW em, NEW tr, NEW P, Taken(em, tr, P)
    PROVE  Len(tr) <= Len(tris) /\ Len(tr) \in Nat /\ Len(tris) \in Nat
<1> DEFINE m == Len(tr)
           n == Len(tris)
           f == [x \in 1 .. m |-> tr[x]]
<1>1. /\ m \in Nat /\ tr \in Seq(DOMAIN tris) /\ \A x, y \in 1 .. m : tr[x] = tr[y] => x = y
  BY DEF Taken
<1>2. n \in Nat /\ DOMAIN tris = 1 .. n
  BY Soup
<1> HIDE DEF m, n
<1>3. \A x \in 1 .. m : tr[x] \in 1 .. n
  BY <1>1, <1>2 DEF m
<1>4. f \in Injection(1 .. m, 1 .. n)
  BY <1>1, <1>3 DEF Injection, IsInjective
<1>5. 1 \in Int /\ m \in Int /\ n \in Int
  BY <1>1, <1>2
<1>6. /\ IsFiniteSet(1 .. m) /\ Cardinality(1 .. m) = IF 1 > m THEN 0 ELSE m - 1 + 1
      /\ IsFiniteSet(1 .. n) /\ Cardinality(1 .. n) = IF 1 > n THEN 0 ELSE n - 1 + 1
  BY <1>5, FS_Interval
<1>7. Cardinality(1 .. m) = m /\ Cardinality(1 .. n) = n
  BY <1>1, <1>2, <1>6
<1>8. Cardinality(1 .. m) <= Cardinality(1 .. n)
  BY <1>4, <1>6, FS_Injection
<1> QED BY <1>1, <1>2, <1>7, <1>8 DEF m, n

(* Where the vertices of a triangle are.                                    *)
LEMMA VertsAt ==
    ASSUME NEW tr \in Seq(DOMAIN tris), verts = LeafVerts(tr), NEW q \in 1 .. Len(tr),
           NEW t, t = tris[tr[q]]
    PROVE  /\ VertAt(3 * (q - 1)) = Packed(t[1])
           /\ VertAt(3 * (q - 1) + 1) = Packed(t[3])
           /\ VertAt(3 * (q - 1) + 2) = Packed(t[2])
<1> DEFINE F(i) == LET u == tris[tr[(i + 2) \div 3]]
                   IN  Packed(CASE i % 3 = 1 -> u[1] [] i % 3 = 2 -> u[3] [] i % 3 = 0 -> u[2])
           n == 3 * Len(tr)
           a == 3 * (q - 1) + 1
           b == 3 * (q - 1) + 2
           c == 3 * (q - 1) + 3
<1>1. DOMAIN verts = 1 .. n /\ \A i \in 1 .. n : verts[i] = F(i)
  BY DEF LeafVerts
<1>2. Len(tr) \in Nat
  OBVIOUS
<1>3. a \in 1 .. n /\ (a + 2) \div 3 = q /\ a % 3 = 1
  BY <1>2
<1>4. b \in 1 .. n /\ (b + 2) \div 3 = q /\ b % 3 = 2
  BY <1>2
<1>5. c \in 1 .. n /\ (c + 2) \div 3 = q /\ c % 3 = 0
  BY <1>2
<1>6. a = 3 * (q - 1) + 1 /\ b = 3 * (q - 1) + 1 + 1 /\ c = 3 * (q - 1) + 2 + 1
  BY <1>2
<1> HIDE DEF a, b, c, n
<1>7. F(a) = Packed(t[1])
  BY <1>3
<1>8. F(b) = Packed(t[3])
  BY <1>4
<1>9. F(c) = Packed(t[2])
  BY <1>5
<1> HIDE DEF F
<1> QED BY <1>1, <1>3, <1>4, <1>5, <1>6, <1>7, <1>8, <1>9 DEF VertAt

(* The offsets of a leaf's words.                                           *)
LEMMA Offsets ==
    ASSUME NEW v \in Nat, v < BaseUnit * BaseField
    PROVE  /\ (v \div BaseUnit) % BaseField = v \div BaseUnit /\ v \div BaseUnit \in Nat
           /\ (v + 3 * (1 - 1) - BaseUnit * (v \div BaseUnit)) % (2 * BaseUnit)
                 = v - BaseUnit * (v \div BaseUnit)
           /\ \A i \in Nat : (v + 3 * (i - 1) - (v + 3 * (i - 2))) % (2 * BaseUnit) = 3
<1> DEFINE q == v \div BaseUnit
           r == v - BaseUnit * q
<1>1. BaseUnit \in Nat \ {0, 1} /\ BaseField \in Nat \ {0}
  BY BaseAssumption
<1>2. q \in Nat /\ q * BaseUnit <= v /\ v < q * BaseUnit + BaseUnit
  BY <1>1, Division
<1> HIDE DEF q
<1>3. r \in 0 .. BaseUnit - 1
  <2> DEFINE p == q * BaseUnit
  <2>1. p \in Nat /\ BaseUnit * q = p
    BY <1>1, <1>2
  <2>2. r = v - p
    BY <2>1
  <2> HIDE DEF p, r
  <2> QED BY <1>1, <1>2, <2>1, <2>2 DEF p
<1>4. q < BaseField
  <2> SUFFICES ASSUME BaseField <= q PROVE FALSE
    BY <1>1, <1>2
  <2>1. q = BaseField + (q - BaseField) /\ q - BaseField \in Nat
    BY <1>1, <1>2
  <2> DEFINE d == q - BaseField
  <2>2. q = BaseField + d /\ d \in Nat
    BY <2>1
  <2> HIDE DEF d
  <2>3. q * BaseUnit = BaseUnit * BaseField + d * BaseUnit /\ d * BaseUnit \in Nat
        /\ BaseUnit * BaseField \in Nat /\ q * BaseUnit \in Nat
    BY <1>1, <2>2
  <2> QED BY <1>2, <2>3
<1>5. q % BaseField = q
  BY <1>1, <1>2, <1>4
<1>6. v + 3 * (1 - 1) - BaseUnit * q = r
  <2>1. BaseUnit * q \in Nat
    BY <1>1, <1>2
  <2> QED BY <2>1
<1> HIDE DEF r
<1>7. r % (2 * BaseUnit) = r
  BY <1>1, <1>3
<1>8. \A i \in Nat : (v + 3 * (i - 1) - (v + 3 * (i - 2))) % (2 * BaseUnit) = 3
  <2> TAKE i \in Nat
  <2>1. v + 3 * (i - 1) - (v + 3 * (i - 2)) = 3
    OBVIOUS
  <2>2. 3 % (2 * BaseUnit) = 3
    BY <1>1
  <2> QED BY <2>1, <2>2
<1> QED BY <1>2, <1>5, <1>6, <1>7, <1>8 DEF q, r

\* The packed vertices of a triangle in the order the engine wants.
Winding(t) == <<Packed(tris[t][1]), Packed(tris[t][3]), Packed(tris[t][2])>>

\* The words at x are those of n triangles, whose vertices start with v.
Worded(x, n, v) ==
    /\ n \in Nat \ {0} /\ v \in Nat /\ v \div BaseUnit \in Nat
    /\ leaves[x + 1].num = n - 1 /\ leaves[x + 1].base = v \div BaseUnit
    /\ \A i \in 1 .. n : /\ leaves[x + 1 + i].d1 = 0 /\ leaves[x + 1 + i].d2 = 1
                         /\ leaves[x + 1 + i].offset =
                               IF i = 1 THEN v - BaseUnit * (v \div BaseUnit) ELSE 3

\* The same words, as they are held.
Wording(tr, x, c, n, v, o) ==
    /\ n = Len(nodes[c].tris) /\ o \in 0 .. Len(tr) /\ o + n <= Len(tr) /\ v = 3 * o
    /\ \A k \in 1 .. n + 1 : leaves[x + k] = LeafWords(n, v)[k]

(* What a leaf's words say, one by one.                                     *)
LEMMA WordsSay ==
    ASSUME NEW em, NEW tr, Finished(em, tr), NEW x \in Nat, NEW c \in 1 .. Len(nodes),
           nodes[c].isLeaf, NEW n, NEW v, NEW o, Wording(tr, x, c, n, v, o)
    PROVE  Worded(x, n, v)
<1> /\ n = Len(nodes[c].tris) /\ o \in 0 .. Len(tr) /\ o + n <= Len(tr) /\ v = 3 * o
    /\ \A k \in 1 .. n + 1 : leaves[x + k] = LeafWords(n, v)[k]
  BY DEF Wording
<1> DEFINE q == v \div BaseUnit
           w == LeafWords(n, v)
<1>1. BInv /\ Filled /\ Taken(em, tr, {})
  BY DEF Finished, Mapped
<1>2. n \in Nat \ {0} /\ MaxLeaf \in Nat
  BY <1>1, LeafAssumption DEF Filled
<1>3. tris \in Soups /\ 3 * Len(tris) <= BaseUnit * BaseField
  BY <1>1, FieldAssumption DEF BInv
<1>4. Len(tr) <= Len(tris) /\ Len(tr) \in Nat /\ Len(tris) \in Nat
  BY <1>1, <1>3, TakenFew
<1>5. v \in Nat /\ v < BaseUnit * BaseField
  <2>1. v < 3 * Len(tris) /\ v \in Nat
    BY <1>2, <1>4
  <2>2. BaseUnit * BaseField \in Nat
    BY BaseAssumption
  <2> QED BY <1>3, <1>4, <2>1, <2>2
<1>6. /\ q % BaseField = q /\ q \in Nat
      /\ (v + 3 * (1 - 1) - BaseUnit * q) % (2 * BaseUnit) = v - BaseUnit * q
      /\ \A i \in Nat : (v + 3 * (i - 1) - (v + 3 * (i - 2))) % (2 * BaseUnit) = 3
  BY <1>5, Offsets
<1>7. /\ w[1] = [num |-> n - 1, base |-> q % BaseField]
      /\ \A i \in 1 .. n : w[i + 1] =
             [offset |-> (v + 3 * (i - 1)
                            - (IF i = 1 THEN BaseUnit * q ELSE v + 3 * (i - 2)))
                         % (2 * BaseUnit),
              d1 |-> 0, d2 |-> 1]
  BY <1>2, <1>5, WordsAre
<1> HIDE DEF q, w
<1>8. leaves[x + 1] = w[1]
  BY <1>2 DEF w
<1>9. leaves[x + 1].num = n - 1 /\ leaves[x + 1].base = q
  BY <1>6, <1>7, <1>8
<1>10. ASSUME NEW i \in 1 .. n
       PROVE  /\ leaves[x + 1 + i].d1 = 0 /\ leaves[x + 1 + i].d2 = 1
              /\ leaves[x + 1 + i].offset = IF i = 1 THEN v - BaseUnit * q ELSE 3
  <2>1. i + 1 \in 1 .. n + 1 /\ x + 1 + i = x + (i + 1) /\ i \in Nat
    BY <1>2
  <2>2. leaves[x + 1 + i] = w[i + 1]
    BY <2>1 DEF w
  <2>3. CASE i = 1
    <3>1. w[i + 1] = [offset |-> (v + 3 * (1 - 1) - BaseUnit * q) % (2 * BaseUnit),
                      d1 |-> 0, d2 |-> 1]
      BY <1>7, <2>3
    <3> QED BY <1>6, <2>2, <2>3, <3>1
  <2>4. CASE i # 1
    <3>1. w[i + 1] = [offset |-> (v + 3 * (i - 1) - (v + 3 * (i - 2))) % (2 * BaseUnit),
                      d1 |-> 0, d2 |-> 1]
      BY <1>7, <2>4
    <3>2. (v + 3 * (i - 1) - (v + 3 * (i - 2))) % (2 * BaseUnit) = 3
      BY <1>6, <2>1
    <3> QED BY <2>2, <2>4, <3>1, <3>2
  <2> QED BY <2>3, <2>4
<1> QED BY <1>2, <1>5, <1>6, <1>9, <1>10 DEF q, Worded

\* The sums of the offsets from a leaf's header on, as ReadLeaf builds them.
SumsFrom(index) ==
    LET header == leaves[index + 1]
        base[i \in 0..(header.num + 1)] ==
            IF i = 0 THEN header.base * BaseUnit
            ELSE base[i - 1] + leaves[index + 1 + i].offset
    IN  base

(* The running sums that the engine builds from them.                       *)
LEMMA Sums ==
    ASSUME NEW x \in Nat, NEW n, NEW v, Worded(x, n, v)
    PROVE  \A i \in 1 .. n : SumsFrom(x)[i] = v + 3 * (i - 1)
<1> DEFINE q == v \div BaseUnit
<1>1. /\ n \in Nat \ {0} /\ v \in Nat /\ q \in Nat
      /\ leaves[x + 1].num = n - 1 /\ leaves[x + 1].base = q
      /\ \A i \in 1 .. n : leaves[x + 1 + i].offset = IF i = 1 THEN v - BaseUnit * q ELSE 3
  BY DEF Worded
<1> HIDE DEF q
<1> USE <1>1
<1> DEFINE fun(g) == [i \in 0 .. (leaves[x + 1].num + 1) |->
                         IF i = 0 THEN leaves[x + 1].base * BaseUnit
                         ELSE g[i - 1] + leaves[x + 1 + i].offset]
           r == q * BaseUnit
           h == [i \in 0 .. n |-> IF i = 0 THEN r ELSE v + 3 * (i - 1)]
           b == SumsFrom(x)
           S == {i \in 0 .. n : b[i] = h[i]}
<1>2. leaves[x + 1].num + 1 = n
  OBVIOUS
<1>3. r \in Nat /\ r = BaseUnit * q /\ leaves[x + 1].base * BaseUnit = r
  BY BaseAssumption
<1>4. \A g : fun(g) = [i \in 0 .. n |-> IF i = 0 THEN r
                                        ELSE g[i - 1] + leaves[x + 1 + i].offset]
  BY <1>2, <1>3
<1>5. \A i \in 1 .. n : leaves[x + 1 + i].offset = IF i = 1 THEN v - r ELSE 3
  BY <1>3
<1> HIDE DEF r, fun
<1>6. \A i \in 1 .. n : i - 1 \in 0 .. n /\ i \in 0 .. n
                        /\ h[i - 1] + leaves[x + 1 + i].offset = h[i]
  <2> TAKE i \in 1 .. n
  <2>1. i - 1 \in 0 .. n /\ i \in 0 .. n /\ h[i] = v + 3 * (i - 1)
    OBVIOUS
  <2>2. CASE i = 1
    BY <1>3, <1>5, <2>1, <2>2
  <2>3. CASE i # 1
    <3>1. h[i - 1] = v + 3 * (i - 1 - 1)
      BY <2>1, <2>3
    <3> QED BY <1>5, <2>1, <2>3, <3>1
  <2> QED BY <2>2, <2>3
<1>7. h = fun(h)
  <2>1. \A i \in 0 .. n : h[i] = IF i = 0 THEN r ELSE h[i - 1] + leaves[x + 1 + i].offset
    <3> TAKE i \in 0 .. n
    <3>1. CASE i = 0
      BY <3>1
    <3>2. CASE i # 0
      <4>1. i \in 1 .. n
        BY <3>2
      <4> HIDE DEF h
      <4> QED BY <1>6, <3>2, <4>1
    <3> QED BY <3>1, <3>2
  <2>2. h = [i \in 0 .. n |-> h[i]]
    OBVIOUS
  <2> HIDE DEF h
  <2> QED BY <1>4, <2>1, <2>2
<1>8. b = fun(b)
  <2>1. b = CHOOSE g : g = fun(g)
    BY DEF SumsFrom, fun
  <2> HIDE DEF h, b
  <2> QED BY <1>7, <2>1
<1> HIDE DEF b
<1>9. \A i \in 0 .. n : b[i] = IF i = 0 THEN r ELSE b[i - 1] + leaves[x + 1 + i].offset
  BY <1>4, <1>8
<1>10. 0 \in S
  BY <1>9
<1>11. \A i \in 0 .. n - 1 : i \in S => i + 1 \in S
  <2> SUFFICES ASSUME NEW i \in 0 .. n - 1, i \in S PROVE i + 1 \in S
    OBVIOUS
  <2> DEFINE j == i + 1
  <2>1. j \in 1 .. n /\ j - 1 = i /\ j # 0 /\ j \in 0 .. n
    OBVIOUS
  <2> HIDE DEF j, h
  <2>2. b[j] = h[j - 1] + leaves[x + 1 + j].offset
    BY <1>9, <2>1
  <2>3. b[j] = h[j]
    BY <1>6, <2>1, <2>2
  <2> QED BY <2>1, <2>3 DEF j
<1> HIDE DEF S
<1>12. 0 .. n \subseteq S
  BY <1>10, <1>11, InductionTo
<1>13. \A i \in 1 .. n : b[i] = v + 3 * (i - 1)
  BY <1>12 DEF S
<1> QED BY <1>13 DEF b

(* A leaf's words and the vertices they lead to give its triangles.         *)
LEMMA ReadIs ==
    ASSUME NEW em, NEW tr, Finished(em, tr), NEW x \in Nat,
           NEW c \in 1 .. Len(nodes), nodes[c].isLeaf, Held(leaves, tr, x, c)
    PROVE  ReadLeaf(x) = [k \in 1 .. Len(nodes[c].tris) |-> Winding(nodes[c].tris[k])]
<1> DEFINE n == Len(nodes[c].tris)
<1>1. PICK o \in 0 .. Len(tr) :
         /\ o + n <= Len(tr) /\ \A k \in 1 .. n : tr[o + k] = nodes[c].tris[k]
         /\ x + n + 1 <= Len(leaves)
         /\ \A k \in 1 .. n + 1 : leaves[x + k] = LeafWords(n, 3 * o)[k]
  BY DEF Held
<1> DEFINE v == 3 * o
           b == SumsFrom(x)
<1>2. Worded(x, n, v)
  <2>1. Wording(tr, x, c, n, v, o)
    BY <1>1 DEF Wording
  <2> HIDE DEF n, v
  <2> QED BY <2>1, WordsSay
<1>3. \A i \in 1 .. n : b[i] = v + 3 * (i - 1)
  <2> HIDE DEF n, v
  <2> QED BY <1>2, Sums
<1>4. n \in Nat \ {0} /\ leaves[x + 1].num = n - 1
       /\ \A i \in 1 .. n : leaves[x + 1 + i].d1 = 0 /\ leaves[x + 1 + i].d2 = 1
  BY <1>2 DEF Worded
<1>5. ReadLeaf(x) = [i \in 1 .. (leaves[x + 1].num + 1) |->
            <<VertAt(b[i]), VertAt(b[i] + 1 + leaves[x + 1 + i].d1),
              VertAt(b[i] + 1 + leaves[x + 1 + i].d2)>>]
  <2> HIDE DEF n, v
  <2> QED BY DEF ReadLeaf, SumsFrom
<1>6. tr \in Seq(DOMAIN tris) /\ verts = LeafVerts(tr) /\ Len(tr) \in Nat
  BY DEF Finished, Mapped, Taken
<1> HIDE DEF n, b
<1>7. ASSUME NEW i \in 1 .. n
      PROVE  <<VertAt(b[i]), VertAt(b[i] + 1 + leaves[x + 1 + i].d1),
               VertAt(b[i] + 1 + leaves[x + 1 + i].d2)>> = Winding(nodes[c].tris[i])
  <2> DEFINE p == o + i
             t == tris[tr[p]]
             z == b[i]
  <2>1. p \in 1 .. Len(tr) /\ tr[p] = nodes[c].tris[i]
    <3>1. o \in Nat /\ n \in Nat /\ o + n <= Len(tr) /\ Len(tr) \in Nat
      BY <1>1, <1>4, <1>6
    <3>2. tr[o + i] = nodes[c].tris[i]
      BY <1>1
    <3> QED BY <3>1, <3>2
  <2>2. z \in Nat /\ z = 3 * (p - 1)
    <3>1. z = v + 3 * (i - 1)
      BY <1>3
    <3>2. i \in Nat \ {0} /\ o \in Nat
      BY <1>4, <1>6
    <3> HIDE DEF z
    <3> QED BY <3>1, <3>2
  <2> HIDE DEF p, v, z
  <2>3. /\ VertAt(3 * (p - 1)) = Packed(t[1]) /\ VertAt(3 * (p - 1) + 1) = Packed(t[3])
        /\ VertAt(3 * (p - 1) + 2) = Packed(t[2])
    <3>1. p \in 1 .. Len(tr) /\ t = tris[tr[p]]
      BY <2>1
    <3> HIDE DEF t
    <3> QED BY <1>6, <3>1, VertsAt
  <2>4. z + 1 + leaves[x + 1 + i].d1 = 3 * (p - 1) + 1
        /\ z + 1 + leaves[x + 1 + i].d2 = 3 * (p - 1) + 2
    <3>1. leaves[x + 1 + i].d1 = 0 /\ leaves[x + 1 + i].d2 = 1
      BY <1>4
    <3>2. p \in Nat
      BY <1>6, <2>1
    <3> QED BY <2>2, <3>1, <3>2
  <2>5. Winding(nodes[c].tris[i]) = <<Packed(t[1]), Packed(t[3]), Packed(t[2])>>
    BY <2>1 DEF Winding
  <2> HIDE DEF t
  <2> QED BY <2>2, <2>3, <2>4, <2>5 DEF z
<1>8. leaves[x + 1].num + 1 = n
  BY <1>4
<1> HIDE DEF v
<1> QED BY <1>5, <1>7, <1>8 DEF n

-----------------------------------------------------------------------------
(* What is found.                                                          *)

\* A set of nodes that no slot leads out of.
Closed(T) == \A k \in T : \A s \in Slots : Leads(k, s) => bvh[k].index[s] + 1 \in T
\* The nodes under a node, and their leaf slots.
Desc(i) == {j \in 1..Len(bvh) : \A T \in SUBSET (1..Len(bvh)) : i \in T /\ Closed(T) => j \in T}
LeavesUnder(i) == {p \in (1..Len(bvh)) \X Slots : p[1] \in Desc(i) /\ bvh[p[1]].type[p[2]] = Poly3}

\* What LeafSlots takes from one slot, when g has the rest.
Under(g, i, s) ==
    IF Leads(i, s) THEN g[bvh[i].index[s] + 1]
    ELSE IF bvh[i].type[s] = Poly3 THEN {<<i, s>>} ELSE {}

(* The nodes under a node: itself, and those under the nodes it leads to.   *)
LEMMA DescSteps ==
    ASSUME NEW i \in 1 .. Len(bvh), Len(bvh) \in Nat
    PROVE  /\ i \in Desc(i)
           /\ \A s \in Slots : Leads(i, s) =>
                  /\ bvh[i].index[s] + 1 \in 1 .. Len(bvh)
                  /\ Desc(bvh[i].index[s] + 1) \subseteq Desc(i)
           /\ \A j \in Desc(i) : j = i \/ \E s \in Slots :
                  Leads(i, s) /\ j \in Desc(bvh[i].index[s] + 1)
<1> DEFINE N == Len(bvh)
           to(k, s) == bvh[k].index[s] + 1
<1>1. \A k \in 1 .. N : \A s \in Slots : Leads(k, s) => to(k, s) \in 1 .. N
  BY DEF Leads
<1>2. \A k \in 1 .. N : k \in Desc(k)
  BY DEF Desc
<1>3. \A k \in 1 .. N : \A j \in Desc(k) : \A s \in Slots : Leads(j, s) => to(j, s) \in Desc(k)
  BY <1>1 DEF Desc, Closed
<1>4. \A s \in Slots : Leads(i, s) => Desc(to(i, s)) \subseteq Desc(i)
  BY <1>1 DEF Desc, Closed
<1>5. ASSUME NEW j \in Desc(i), j # i
      PROVE  \E s \in Slots : Leads(i, s) /\ j \in Desc(to(i, s))
  <2> DEFINE D == {k \in 1 .. N : \E s \in Slots : Leads(i, s) /\ k \in Desc(to(i, s))}
             T == {i} \cup D
  <2>1. T \in SUBSET (1 .. N) /\ i \in T
    OBVIOUS
  <2>2. ASSUME NEW k \in T, NEW s \in Slots, Leads(k, s) PROVE to(k, s) \in T
    <3>1. CASE k = i
      BY <1>1, <1>2, <2>2, <3>1
    <3>2. CASE k # i
      <4>1. PICK r \in Slots : Leads(i, r) /\ k \in Desc(to(i, r))
        BY <3>2
      <4>2. to(i, r) \in 1 .. N /\ k \in 1 .. N
        BY <1>1, <4>1 DEF Desc
      <4>3. to(k, s) \in Desc(to(i, r)) /\ to(k, s) \in 1 .. N
        <5> DEFINE d == to(i, r)
        <5>1. d \in 1 .. N /\ k \in Desc(d)
          BY <4>1, <4>2
        <5> HIDE DEF d
        <5>2. to(k, s) \in Desc(d)
          BY <1>3, <2>2, <5>1
        <5> QED BY <1>1, <2>2, <4>2, <5>2 DEF d
      <4> QED BY <4>1, <4>3
    <3> QED BY <3>1, <3>2
  <2>3. Closed(T)
    BY <2>2 DEF Closed
  <2> HIDE DEF T
  <2>4. j \in T
    BY <2>1, <2>3 DEF Desc
  <2> QED BY <1>5, <2>4 DEF T
<1> QED BY <1>1, <1>2, <1>4, <1>5

(* So the leaf slots under a node are its own and those under the next.     *)
LEMMA LeavesUnderIs ==
    ASSUME NEW i \in 1 .. Len(bvh), Len(bvh) \in Nat, NEW g,
           \A k \in (i + 1)..Len(bvh) : g[k] = LeavesUnder(k)
    PROVE  UNION {Under(g, i, s) : s \in Slots} = LeavesUnder(i)
<1> DEFINE N == Len(bvh)
           to(s) == bvh[i].index[s] + 1
           U == UNION {Under(g, i, s) : s \in Slots}
<1>1. /\ i \in Desc(i)
      /\ \A s \in Slots : Leads(i, s) => to(s) \in 1 .. N /\ Desc(to(s)) \subseteq Desc(i)
      /\ \A j \in Desc(i) : j = i \/ \E s \in Slots : Leads(i, s) /\ j \in Desc(to(s))
  BY DescSteps
<1>2. \A s \in Slots : Leads(i, s) => g[to(s)] = LeavesUnder(to(s)) /\ bvh[i].type[s] # Poly3
  BY DEF Leads, Node, Poly3
<1>3. \A s \in Slots : Under(g, i, s) = IF bvh[i].type[s] = Poly3 THEN {<<i, s>>}
                                        ELSE IF Leads(i, s) THEN LeavesUnder(to(s)) ELSE {}
  BY <1>2 DEF Under
<1>4. ASSUME NEW p \in U PROVE p \in LeavesUnder(i)
  <2>1. PICK s \in Slots : p \in Under(g, i, s)
    OBVIOUS
  <2>2. CASE bvh[i].type[s] = Poly3
    <3>1. p = <<i, s>>
      BY <1>3, <2>1, <2>2
    <3> QED BY <1>1, <2>2, <3>1 DEF LeavesUnder
  <2>3. CASE bvh[i].type[s] # Poly3
    <3>1. Leads(i, s) /\ p \in LeavesUnder(to(s))
      BY <1>3, <2>1, <2>3
    <3> QED BY <1>1, <3>1 DEF LeavesUnder
  <2> QED BY <2>2, <2>3
<1>5. ASSUME NEW p \in LeavesUnder(i) PROVE p \in U
  <2>1. /\ p \in (1 .. N) \X Slots /\ p[1] \in Desc(i) /\ bvh[p[1]].type[p[2]] = Poly3
        /\ p = <<p[1], p[2]>> /\ p[2] \in Slots
    BY DEF LeavesUnder
  <2>2. CASE p[1] = i
    <3>1. p \in Under(g, i, p[2])
      BY <1>3, <2>1, <2>2
    <3> QED BY <2>1, <3>1
  <2>3. CASE p[1] # i
    <3>1. PICK s \in Slots : Leads(i, s) /\ p[1] \in Desc(to(s))
      BY <1>1, <2>1, <2>3
    <3>2. p \in LeavesUnder(to(s))
      BY <2>1, <3>1 DEF LeavesUnder
    <3>3. p \in Under(g, i, s)
      BY <1>2, <1>3, <3>1, <3>2
    <3> QED BY <3>3
  <2> QED BY <2>2, <2>3
<1> QED BY <1>4, <1>5

(* These are the leaf slots that the engine finds.                          *)
LEMMA LeafSlotsAre ==
    ASSUME Len(bvh) \in Nat
    PROVE  \A i \in 1 .. Len(bvh) : LeafSlots[i] = LeavesUnder(i)
<1> DEFINE N == Len(bvh)
           fun(g) == [i \in 1 .. N |-> UNION {Under(g, i, s) : s \in Slots}]
           h == [i \in 1 .. N |-> LeavesUnder(i)]
           b == LeafSlots
           S == {n \in 0 .. N : \A k \in (N - n + 1)..N : b[k] = LeavesUnder(k)}
<1>1. b = CHOOSE g : g = fun(g)
  BY DEF LeafSlots, Under
<1>2. h = fun(h)
  <2>1. \A i \in 1 .. N : UNION {Under(h, i, s) : s \in Slots} = LeavesUnder(i)
    <3> TAKE i \in 1 .. N
    <3>1. \A k \in (i + 1)..N : h[k] = LeavesUnder(k)
      OBVIOUS
    <3> HIDE DEF h
    <3> QED BY <3>1, LeavesUnderIs
  <2> QED BY <2>1
<1>3. b = fun(b)
  <2> HIDE DEF h, fun, b
  <2> QED BY <1>1, <1>2
<1> HIDE DEF b, h
<1>4. \A i \in 1 .. N : b[i] = UNION {Under(b, i, s) : s \in Slots}
  <2> DEFINE F(g, i) == UNION {Under(g, i, s) : s \in Slots}
  <2>1. b = [i \in 1 .. N |-> F(b, i)]
    BY <1>3
  <2> HIDE DEF F
  <2>2. \A i \in 1 .. N : b[i] = F(b, i)
    BY <2>1
  <2> QED BY <2>2 DEF F
<1> HIDE DEF fun
<1>5. 0 \in S
  OBVIOUS
<1>6. ASSUME NEW n \in 0 .. N - 1, n \in S PROVE n + 1 \in S
  <2> DEFINE i == N - n
  <2>1. i \in 1 .. N /\ n + 1 \in 0 .. N /\ N - (n + 1) + 1 = i
    OBVIOUS
  <2>2. \A k \in (i + 1)..N : b[k] = LeavesUnder(k)
    BY <1>6
  <2> HIDE DEF i
  <2>3. b[i] = LeavesUnder(i)
    <3>1. UNION {Under(b, i, s) : s \in Slots} = LeavesUnder(i)
      BY <2>1, <2>2, LeavesUnderIs
    <3> QED BY <1>4, <2>1, <3>1
  <2>4. \A k \in i .. N : k = i \/ k \in (i + 1)..N
    BY <2>1
  <2>5. \A k \in i .. N : b[k] = LeavesUnder(k)
    BY <2>2, <2>3, <2>4
  <2> QED BY <2>1, <2>5
<1> HIDE DEF S
<1>7. 0 .. N \subseteq S
  BY <1>5, <1>6, InductionTo
<1>8. N \in S
  BY <1>7
<1>9. \A k \in (N - N + 1)..N : b[k] = LeavesUnder(k)
  BY <1>8 DEF S
<1> QED BY <1>9 DEF b

-----------------------------------------------------------------------------
(* Rounding keeps the order.                                               *)

(* Division by a positive number keeps the order of what is divided, and    *)
(* rounds down.                                                            *)
LEMMA DivRises ==
    ASSUME NEW x \in Int, NEW y \in Int, x <= y, NEW d \in Nat \ {0}
    PROVE  x \div d <= y \div d /\ x \div d <= -((-x) \div d)
<1> DEFINE q == x \div d
           p == y \div d
           r == (-x) \div d
<1>1. /\ q \in Int /\ q * d <= x /\ x < q * d + d
      /\ p \in Int /\ p * d <= y /\ y < p * d + d
      /\ r \in Int /\ r * d <= -x
  OBVIOUS
<1> HIDE DEF q, p, r
<1>2. q <= p
  <2> SUFFICES ASSUME q > p PROVE FALSE
    BY <1>1
  <2>1. PICK e \in Nat : q = p + 1 + e
    <3>1. q - p - 1 \in Nat /\ q = p + 1 + (q - p - 1)
      BY <1>1
    <3> QED BY <3>1
  <2>2. q * d = p * d + d + e * d /\ e * d \in Nat /\ p * d \in Int
    BY <1>1, <2>1
  <2> QED BY <1>1, <2>2
<1>3. q <= -r
  <2> SUFFICES ASSUME q > -r PROVE FALSE
    BY <1>1
  <2>1. PICK e \in Nat : q = e + 1 - r
    <3>1. q + r - 1 \in Nat /\ q = (q + r - 1) + 1 - r
      BY <1>1
    <3> QED BY <3>1
  <2>2. q * d = e * d + d - r * d /\ e * d \in Nat /\ r * d \in Int
    BY <1>1, <2>1
  <2> QED BY <1>1, <2>2
<1> QED BY <1>2, <1>3 DEF q, p, r

(* So does clamping.                                                       *)
LEMMA ClampRises ==
    ASSUME NEW x \in Int, NEW y \in Int, x <= y
    PROVE  Clamp(x) <= Clamp(y)
<1>1. Int16Max \in Nat
  BY PackAssumption
<1>2. ASSUME NEW z \in Int
      PROVE  Clamp(z) = IF z < -Int16Max - 1 THEN -Int16Max - 1
                        ELSE IF Int16Max < z THEN Int16Max ELSE z
  <2> DEFINE m == Min({Int16Max, z})
  <2>1. m \in Int /\ m = IF Int16Max < z THEN Int16Max ELSE z
    <3>1. Int16Max \in Int
      BY <1>1
    <3> QED BY <3>1, OfTwo
  <2>2. Clamp(z) = IF -Int16Max - 1 < m THEN m ELSE -Int16Max - 1
    <3>1. -Int16Max - 1 \in Int
      BY <1>1
    <3>2. Clamp(z) = Max({-Int16Max - 1, m})
      BY DEF Clamp
    <3> HIDE DEF m
    <3> QED BY <2>1, <3>1, <3>2, OfTwo
  <2> HIDE DEF m
  <2> QED BY <1>1, <2>1, <2>2
<1> QED BY <1>1, <1>2

(* What is rounded outwards encloses what is truncated.                     *)
LEMMA Outwards ==
    ASSUME Framed, NEW a \in Axes, NEW w \in Int, NEW z \in Int, w <= z
    PROVE  Floor(w, a) <= Truncate(z, a) /\ Truncate(w, a) <= Ceil(z, a)
<1> DEFINE x == Num(w, a)
           y == Num(z, a)
           f == frame.mins[a] + frame.maxs[a]
           k == Scale[1]
           d == Den
           T(v) == IF v >= 0 THEN v \div d ELSE -((-v) \div d)
<1>1. f \in Int /\ k \in Nat \ {0} /\ d \in Nat \ {0}
  <2>1. frame.mins[a] \in Int /\ frame.maxs[a] \in Int
    BY DEF Framed, Coords
  <2> QED BY <2>1, ScaleIs
<1>2. x = (2 * w - f) * k /\ y = (2 * z - f) * k
  BY DEF Num
<1>3. /\ Floor(w, a) = Clamp(x \div d) /\ Truncate(z, a) = Clamp(T(y))
      /\ Truncate(w, a) = Clamp(T(x)) /\ Ceil(z, a) = Clamp(-((-y) \div d))
  BY DEF Floor, Truncate, Ceil
<1> HIDE DEF x, y, f, k, d
<1>4. x \in Int /\ y \in Int /\ x <= y
  <2> DEFINE e == z - w
  <2>1. e \in Nat /\ z = w + e
    OBVIOUS
  <2> HIDE DEF e
  <2>2. y = x + 2 * e * k /\ 2 * e * k \in Nat /\ x \in Int
    BY <1>1, <1>2, <2>1
  <2> QED BY <2>2
<1>5. -x \in Int /\ -y \in Int /\ -y <= -x
  BY <1>4
<1> DEFINE xl == x \div d
           xu == (-x) \div d
           yl == y \div d
           yu == (-y) \div d
<1>6. /\ xl \in Int /\ xu \in Int /\ yl \in Int /\ yu \in Int
      /\ xl <= yl /\ xl <= -xu /\ yl <= -yu /\ yu <= xu
  <2>1. xl \in Int /\ xu \in Int /\ yl \in Int /\ yu \in Int
    BY <1>1, <1>4, <1>5, Whole
  <2>2. xl <= yl /\ xl <= -xu
    BY <1>1, <1>4, DivRises
  <2>3. y <= y
    BY <1>4
  <2>4. yl <= -yu
    BY <1>1, <1>4, <2>3, DivRises
  <2>5. yu <= xu
    BY <1>1, <1>5, DivRises
  <2> QED BY <2>1, <2>2, <2>4, <2>5
<1>7. T(x) = (IF x >= 0 THEN xl ELSE -xu) /\ T(y) = (IF y >= 0 THEN yl ELSE -yu)
  OBVIOUS
<1> HIDE DEF xl, xu, yl, yu, T
<1>8. /\ T(x) \in Int /\ T(y) \in Int /\ -yu \in Int
      /\ xl <= T(y) /\ T(x) <= -yu
  BY <1>4, <1>6, <1>7
<1>9. Clamp(xl) <= Clamp(T(y)) /\ Clamp(T(x)) <= Clamp(-yu)
  BY <1>6, <1>8, ClampRises
<1> QED BY <1>3, <1>9 DEF xl, yu

-----------------------------------------------------------------------------
\* A slot of a written node stands for c.
Stands(em, i, s, c) ==
    /\ em[i] \in Tops /\ c \in 0 .. Len(nodes)
    /\ bvh[i].type[s] = Poly3 <=> c # 0 /\ nodes[c].isLeaf
    /\ Leads(i, s) <=> c # 0 /\ ~nodes[c].isLeaf
    /\ Leads(i, s) => bvh[i].index[s] + 1 \in 1 .. Len(bvh) /\ em[bvh[i].index[s] + 1] = c
    /\ c # 0 => /\ bvh[i].mins[s] = PackMins(nodes[c].mins)
                /\ bvh[i].maxs[s] = PackMaxs(nodes[c].maxs)
    /\ c # 0 /\ nodes[c].isLeaf =>
          ReadAt(<<i, s>>) = [k \in 1 .. Len(nodes[c].tris) |-> Winding(nodes[c].tris[k])]

(* What is written in a slot stands for the child there.                    *)
LEMMA SlotIs ==
    ASSUME NEW em, NEW tr, Finished(em, tr), NEW i \in 1 .. Len(bvh), NEW s \in Slots,
           NEW c, c = Kid(em[i], s)
    PROVE  Stands(em, i, s, c)
<1> DEFINE x == bvh[i].index[s]
<1>1. /\ BInv /\ Tree /\ Ordered(bvh, em) /\ Drawn(bvh, em)
      /\ Indices(bvh, leaves, em, tr, {})
  BY DEF Finished, Mapped
<1>2. bvh \in Seq(OutNodes) /\ Len(bvh) \in Nat
  BY <1>1 DEF BInv, Written
<1>3. x \in Nat
  BY <1>2, OutFields
<1>4. em[i] \in Tops
  BY <1>1, <1>2 DEF Ordered
<1>5. c \in 0 .. Len(nodes) /\ Len(nodes) \in Nat
  BY <1>1, <1>4 DEF Tree
<1>6. /\ bvh[i].type[s] = KidType(c)
      /\ c # 0 => /\ bvh[i].mins[s] = PackMins(nodes[c].mins)
                  /\ bvh[i].maxs[s] = PackMaxs(nodes[c].maxs)
  BY <1>1 DEF Drawn
<1>7. c # 0 => IF nodes[c].isLeaf THEN Held(leaves, tr, x, c)
               ELSE x + 1 \in i + 1 .. Len(bvh) /\ em[x + 1] = c
  BY <1>1 DEF Indices, Pend
<1> HIDE DEF x
<1>8. bvh[i].type[s] = Poly3 <=> c # 0 /\ nodes[c].isLeaf
  BY <1>6 DEF KidType, None, Poly3, Node
<1>9. Leads(i, s) <=> c # 0 /\ ~nodes[c].isLeaf
  BY <1>6, <1>7 DEF KidType, None, Poly3, Node, Leads, x
<1>10. Leads(i, s) => x + 1 \in 1 .. Len(bvh) /\ em[x + 1] = c
  <2> SUFFICES ASSUME Leads(i, s) PROVE x + 1 \in 1 .. Len(bvh) /\ em[x + 1] = c
    OBVIOUS
  <2>1. x + 1 \in i + 1 .. Len(bvh) /\ em[x + 1] = c
    BY <1>7, <1>9
  <2> QED BY <1>2, <1>3, <2>1
<1>11. ASSUME c # 0, nodes[c].isLeaf
       PROVE  ReadAt(<<i, s>>) = [k \in 1 .. Len(nodes[c].tris) |-> Winding(nodes[c].tris[k])]
  <2>1. c \in 1 .. Len(nodes) /\ Held(leaves, tr, x, c)
    BY <1>5, <1>7, <1>11
  <2>2. ReadLeaf(x) = [k \in 1 .. Len(nodes[c].tris) |-> Winding(nodes[c].tris[k])]
    BY <1>3, <1>11, <2>1, ReadIs
  <2>3. ReadAt(<<i, s>>) = ReadLeaf(x)
    BY DEF ReadAt, x
  <2> QED BY <2>2, <2>3
<1> QED BY <1>4, <1>5, <1>6, <1>8, <1>9, <1>10, <1>11 DEF x, Stands

(* A leaf under a node lies within the bounds of every node above it.       *)
LEMMA LeafWithin ==
    ASSUME NEW em, NEW tr, Finished(em, tr), NEW i \in 1 .. Len(bvh), NEW s \in Slots,
           NEW c, c = Kid(em[i], s),
           NEW p, p \in IF bvh[i].type[s] = Poly3 THEN {<<i, s>>}
                        ELSE IF Leads(i, s) THEN LeafSlots[bvh[i].index[s] + 1] ELSE {}
    PROVE  /\ c \in 1 .. Len(nodes) /\ p \in (1 .. Len(bvh)) \X Slots
           /\ bvh[p[1]].type[p[2]] = Poly3
           /\ \A a \in Axes : /\ nodes[c].mins[a] <= nodes[Kid(em[p[1]], p[2])].mins[a]
                              /\ nodes[Kid(em[p[1]], p[2])].maxs[a] <= nodes[c].maxs[a]
<1> DEFINE n == Len(nodes)
           N == Len(bvh)
           kid(k, r) == Kid(em[k], r)
           to == bvh[i].index[s] + 1
           In(b) == \A a \in Axes : /\ nodes[c].mins[a] <= nodes[b].mins[a]
                                    /\ nodes[b].maxs[a] <= nodes[c].maxs[a]
           T == {k \in 1 .. N : In(em[k])}
<1>1. Tree /\ Filled /\ N \in Nat
  BY DEF Finished, BInv, Written
<1>2. \A b \in 1 .. n : nodes[b].mins \in Coords /\ nodes[b].maxs \in Coords
  BY <1>1 DEF Filled
<1>3. \A b \in 1 .. n : \A a \in Axes : nodes[b].mins[a] \in Int /\ nodes[b].maxs[a] \in Int
  BY <1>2 DEF Coords
<1>4. \A b \in Tops : b \in 1 .. n
  BY DEF Tops
<1>5. ASSUME NEW b \in Tops, NEW r \in Slots, NEW d, d = Kid(b, r), d # 0
      PROVE  d \in 1 .. n /\ \A a \in Axes : /\ nodes[b].mins[a] <= nodes[d].mins[a]
                                             /\ nodes[d].maxs[a] <= nodes[b].maxs[a]
  <2>1. d \in 0 .. n /\ n \in Nat
    BY <1>1, <1>5 DEF Tree
  <2>2. \A a \in Axes : nodes[b].mins[a] <= nodes[d].mins[a] /\ nodes[d].maxs[a] <= nodes[b].maxs[a]
    BY <1>1, <1>5 DEF Tree
  <2> QED BY <1>5, <2>1, <2>2
<1>6. ASSUME NEW k \in 1 .. N, NEW r \in Slots, NEW d, d = kid(k, r)
      PROVE  /\ em[k] \in Tops /\ d \in 0 .. n
             /\ bvh[k].type[r] = Poly3 <=> d # 0 /\ nodes[d].isLeaf
             /\ Leads(k, r) => d # 0 /\ bvh[k].index[r] + 1 \in 1 .. N
                                     /\ em[bvh[k].index[r] + 1] = d
  <2>1. Stands(em, k, r, d)
    BY <1>6, SlotIs
  <2> QED BY <2>1 DEF Stands
<1>7. p \in IF bvh[i].type[s] = Poly3 THEN {<<i, s>>}
            ELSE IF Leads(i, s) THEN LeafSlots[to] ELSE {}
  OBVIOUS
<1> HIDE DEF n, N
<1>8. c # 0 /\ c \in 1 .. n
  <2>1. bvh[i].type[s] = Poly3 \/ Leads(i, s)
    BY <1>7
  <2>2. c # 0 /\ c \in 0 .. n
    BY <1>6, <2>1 DEF N
  <2> QED BY <2>2
<1>9. In(c)
  BY <1>3, <1>8
<1>10. ASSUME NEW k \in 1 .. N, In(em[k]), NEW r \in Slots, NEW d, d = kid(k, r), d # 0
       PROVE  In(d)
  <2>1. em[k] \in Tops /\ em[k] \in 1 .. n
    BY <1>4, <1>6
  <2>2. d \in 1 .. n /\ \A a \in Axes : /\ nodes[em[k]].mins[a] <= nodes[d].mins[a]
                                        /\ nodes[d].maxs[a] <= nodes[em[k]].maxs[a]
    BY <1>5, <1>10, <2>1
  <2> SUFFICES ASSUME NEW a \in Axes
               PROVE  nodes[c].mins[a] <= nodes[d].mins[a] /\ nodes[d].maxs[a] <= nodes[c].maxs[a]
    OBVIOUS
  <2> DEFINE b == em[k]
  <2>3. /\ nodes[b].mins[a] \in Int /\ nodes[b].maxs[a] \in Int
        /\ nodes[c].mins[a] \in Int /\ nodes[c].maxs[a] \in Int
        /\ nodes[d].mins[a] \in Int /\ nodes[d].maxs[a] \in Int
    BY <1>3, <1>8, <2>1, <2>2
  <2>4. nodes[c].mins[a] <= nodes[b].mins[a] /\ nodes[b].maxs[a] <= nodes[c].maxs[a]
    BY <1>10
  <2>5. nodes[b].mins[a] <= nodes[d].mins[a] /\ nodes[d].maxs[a] <= nodes[b].maxs[a]
    BY <2>2
  <2> HIDE DEF b
  <2> QED BY <2>3, <2>4, <2>5
<1>11. p \in (1 .. N) \X Slots /\ bvh[p[1]].type[p[2]] = Poly3 /\ In(kid(p[1], p[2]))
  <2>1. CASE bvh[i].type[s] = Poly3
    <3>1. p = <<i, s>>
      BY <1>7, <2>1
    <3> HIDE DEF In
    <3> QED BY <1>9, <2>1, <3>1 DEF N
  <2>2. CASE bvh[i].type[s] # Poly3
    <3>1. Leads(i, s) /\ p \in LeafSlots[to]
      BY <1>7, <2>2
    <3>2. to \in 1 .. N /\ em[to] = c
      BY <1>6, <3>1 DEF N
    <3> HIDE DEF to, In
    <3>3. LeafSlots[to] = LeavesUnder(to)
      BY <1>1, <3>2, LeafSlotsAre DEF N
    <3>4. p \in (1 .. N) \X Slots /\ p[1] \in Desc(to) /\ bvh[p[1]].type[p[2]] = Poly3
      BY <3>1, <3>3 DEF LeavesUnder, N
    <3>5. T \in SUBSET (1 .. N) /\ to \in T
      BY <1>9, <3>2
    <3>6. Closed(T)
      <4> SUFFICES ASSUME NEW k \in T, NEW r \in Slots, Leads(k, r)
                   PROVE  bvh[k].index[r] + 1 \in T
        BY DEF Closed
      <4> DEFINE d == kid(k, r)
      <4>1. k \in 1 .. N /\ In(em[k]) /\ d = kid(k, r)
        OBVIOUS
      <4>2. d # 0 /\ bvh[k].index[r] + 1 \in 1 .. N /\ em[bvh[k].index[r] + 1] = d
        BY <1>6, <4>1
      <4> HIDE DEF d, kid
      <4>3. In(d)
        BY <1>10, <4>1, <4>2
      <4> QED BY <4>2, <4>3
    <3> HIDE DEF T
    <3>7. p[1] \in T
      BY <3>4, <3>5, <3>6 DEF Desc, N
    <3>8. p[1] \in 1 .. N /\ In(em[p[1]]) /\ p[2] \in Slots
      BY <3>4, <3>7 DEF T
    <3> DEFINE e == kid(p[1], p[2])
    <3>9. e = kid(p[1], p[2])
      OBVIOUS
    <3>10. e # 0
      BY <1>6, <3>4, <3>8
    <3> HIDE DEF e, kid
    <3>11. In(e)
      BY <1>10, <3>8, <3>9, <3>10
    <3> QED BY <3>4, <3>9, <3>11
  <2> QED BY <2>1, <2>2
<1> QED BY <1>8, <1>11 DEF n, N

(* What the rays that hit a child can hit lies within its packed bounds.    *)
LEMMA Enclosed ==
    ASSUME CInv
    PROVE  BoundsEnclose
<1> SUFFICES ASSUME pc \in {"serialize", "done"}, NEW i \in DOMAIN bvh, NEW s \in Slots,
                    NEW p \in IF bvh[i].type[s] = Poly3 THEN {<<i, s>>}
                              ELSE IF Leads(i, s) THEN LeafSlots[bvh[i].index[s] + 1] ELSE {},
                    NEW t \in Range(ReadAt(p)), NEW v \in Range(t), NEW a \in Axes
             PROVE  bvh[i].mins[s][a] <= v[a] /\ v[a] <= bvh[i].maxs[s][a]
  BY DEF BoundsEnclose
<1>1. PICK em, tr : Finished(em, tr)
  BY Finishes
<1>2. BInv /\ Filled /\ Framed /\ tris \in Soups /\ bvh \in Seq(OutNodes)
  BY <1>1 DEF Finished, BInv, Written
<1>3. i \in 1 .. Len(bvh)
  BY <1>2
<1> DEFINE c == Kid(em[i], s)
           d == Kid(em[p[1]], p[2])
<1>4. /\ c \in 1 .. Len(nodes) /\ p \in (1 .. Len(bvh)) \X Slots
      /\ bvh[p[1]].type[p[2]] = Poly3
      /\ \A b \in Axes : /\ nodes[c].mins[b] <= nodes[d].mins[b]
                         /\ nodes[d].maxs[b] <= nodes[c].maxs[b]
  BY <1>1, <1>3, LeafWithin
<1>5. /\ p[1] \in 1 .. Len(bvh) /\ p[2] \in Slots /\ p = <<p[1], p[2]>>
      /\ c = Kid(em[i], s) /\ d = Kid(em[p[1]], p[2])
  BY <1>4
<1> HIDE DEF c, d
<1>6. c # 0 /\ bvh[i].mins[s] = PackMins(nodes[c].mins) /\ bvh[i].maxs[s] = PackMaxs(nodes[c].maxs)
  <2>1. c # 0
    BY <1>4
  <2>2. Stands(em, i, s, c)
    BY <1>1, <1>3, <1>5, SlotIs
  <2> QED BY <2>1, <2>2 DEF Stands
<1>7. /\ d \in 0 .. Len(nodes) /\ d # 0 /\ nodes[d].isLeaf
      /\ ReadAt(p) = [k \in 1 .. Len(nodes[d].tris) |-> Winding(nodes[d].tris[k])]
  <2>1. Stands(em, p[1], p[2], d)
    BY <1>1, <1>5, SlotIs
  <2>2. d # 0 /\ nodes[d].isLeaf /\ d \in 0 .. Len(nodes)
    BY <1>4, <2>1 DEF Stands
  <2>3. ReadAt(<<p[1], p[2]>>) =
            [k \in 1 .. Len(nodes[d].tris) |-> Winding(nodes[d].tris[k])]
    BY <2>1, <2>2 DEF Stands
  <2> QED BY <1>5, <2>2, <2>3
<1>8. d \in 1 .. Len(nodes)
  BY <1>7
<1>9. PICK k \in 1 .. Len(nodes[d].tris) : t = Winding(nodes[d].tris[k])
  BY <1>7 DEF Range
<1> DEFINE x == nodes[d].tris[k]
<1>10. /\ x \in DOMAIN tris /\ Inside(x, nodes[d].mins, nodes[d].maxs)
       /\ nodes[c].mins \in Coords /\ nodes[c].maxs \in Coords
       /\ nodes[d].mins \in Coords /\ nodes[d].maxs \in Coords
  <2>1. /\ nodes[c].mins \in Coords /\ nodes[c].maxs \in Coords
        /\ nodes[d].mins \in Coords /\ nodes[d].maxs \in Coords
        /\ nodes[d].tris \in Seq(DOMAIN tris)
        /\ Inside(nodes[d].tris[k], nodes[d].mins, nodes[d].maxs)
    BY <1>2, <1>4, <1>8, <1>9 DEF Filled
  <2> QED BY <1>9, <2>1
<1>11. t = Winding(x)
  BY <1>9
<1> HIDE DEF x
<1>12. PICK q \in 1 .. 3 : v = Packed(tris[x][q])
  <2>1. t = <<Packed(tris[x][1]), Packed(tris[x][3]), Packed(tris[x][2])>>
    BY <1>11 DEF Winding
  <2>2. DOMAIN t = 1 .. 3
    BY <2>1
  <2>3. PICK r \in 1 .. 3 : v = t[r]
    BY <2>2 DEF Range
  <2> QED BY <2>1, <2>3
<1> DEFINE w == tris[x][q][a]
           lo == nodes[c].mins[a]
           hi == nodes[c].maxs[a]
<1>13. w \in Int /\ lo \in Int /\ hi \in Int /\ nodes[d].mins[a] \in Int /\ nodes[d].maxs[a] \in Int
  <2>1. tris \in Seq(Triangles)
    BY <1>2, Soup
  <2>2. tris[x] \in Triangles
    BY <1>10, <2>1
  <2> QED BY <1>10, <1>12, <2>2 DEF Coords, Triangles
<1>14. nodes[d].mins[a] <= w /\ w <= nodes[d].maxs[a]
  BY <1>10 DEF Inside
<1>15. lo <= w /\ w <= hi
  <2>1. lo <= nodes[d].mins[a] /\ nodes[d].maxs[a] <= hi
    BY <1>4
  <2> HIDE DEF w, lo, hi
  <2> QED BY <1>13, <1>14, <2>1
<1>16. v[a] = Truncate(w, a) /\ bvh[i].mins[s][a] = Floor(lo, a) /\ bvh[i].maxs[s][a] = Ceil(hi, a)
  BY <1>6, <1>12 DEF Packed, PackMins, PackMaxs
<1> HIDE DEF w, lo, hi
<1>17. Floor(lo, a) <= Truncate(w, a) /\ Truncate(w, a) <= Ceil(hi, a)
  BY <1>2, <1>13, <1>15, Outwards
<1> QED BY <1>16, <1>17

(* A function that takes a set to a finite one, one to one, counts it.      *)
LEMMA SameSize ==
    ASSUME NEW A, NEW B, IsFiniteSet(B), NEW f \in [A -> B],
           \A x, y \in A : f[x] = f[y] => x = y, \A b \in B : \E x \in A : f[x] = b
    PROVE  Cardinality(A) = Cardinality(B)
<1>1. f \in Bijection(A, B)
  BY DEF Bijection, Injection, Surjection, IsInjective
<1>2. ExistsBijection(A, B)
  BY <1>1, Fun_ExistsBij
<1>3. ExistsBijection(B, A)
  BY <1>2, Fun_ExistsBijSymmetric
<1> QED BY <1>3, FS_Bijection

-----------------------------------------------------------------------------
(* Nothing is missed.                                                      *)

(* All written nodes are under the first.                                   *)
LEMMA FirstAbove ==
    ASSUME NEW em, NEW tr, Finished(em, tr)
    PROVE  Len(bvh) \in Nat \ {0} /\ em[1] = 1 /\ Desc(1) = 1 .. Len(bvh)
<1> DEFINE N == Len(bvh)
           S == {n \in 0 .. N : \A k \in 1 .. n : k \in Desc(1)}
<1>1. /\ Ordered(bvh, em) /\ Waiting(bvh, em, {}) /\ Reached(bvh, em, {}) /\ N \in Nat
  BY DEF Finished, Mapped, BInv, Written
<1>2. N # 0
  BY <1>1 DEF Waiting
<1>3. /\ em[1] = 1 /\ \A i \in 1 .. N : em[i] \in Tops
      /\ \A i, j \in 1 .. N : em[i] = em[j] => i = j
  BY <1>1, <1>2 DEF Ordered
<1>4. 1 \in Desc(1) /\ 1 \in 1 .. N
  BY <1>1, <1>2 DEF Desc
<1>5. \A j \in 2 .. N : \E i \in 1 .. j - 1 : \E s \in Slots : Kid(em[i], s) = em[j]
  BY <1>1 DEF Reached
<1>6. ASSUME NEW i \in Desc(1), NEW s \in Slots, Leads(i, s), bvh[i].index[s] + 1 \in 1 .. N
      PROVE  bvh[i].index[s] + 1 \in Desc(1)
  BY <1>6 DEF Desc, Closed
<1> HIDE DEF N
<1>7. 0 \in S
  BY <1>1
<1>8. ASSUME NEW n \in 0 .. N - 1, n \in S PROVE n + 1 \in S
  <2> DEFINE j == n + 1
  <2>1. j \in 1 .. N /\ \A k \in 1 .. j : k = j \/ k \in 1 .. n
    BY <1>1
  <2>2. \A k \in 1 .. n : k \in Desc(1)
    BY <1>8
  <2>3. j \in Desc(1)
    <3>1. CASE n = 0
      BY <1>4, <3>1
    <3>2. CASE n # 0
      <4>1. j \in 2 .. N /\ j # 1 /\ j - 1 = n
        BY <1>1, <3>2
      <4> HIDE DEF j
      <4>2. PICK i \in 1 .. n : \E s \in Slots : Kid(em[i], s) = em[j]
        BY <1>5, <4>1
      <4>3. PICK s \in Slots : Kid(em[i], s) = em[j]
        BY <4>2
      <4>4. i \in 1 .. N /\ i \in Desc(1)
        BY <1>1, <2>2, <4>2
      <4>5. em[j] \in Tops /\ em[j] # 1
        BY <1>3, <1>4, <2>1, <4>1
      <4>6. em[j] # 0 /\ ~nodes[em[j]].isLeaf
        BY <4>5 DEF Tops
      <4>7. Stands(em, i, s, em[j])
        BY <4>3, <4>4, SlotIs DEF N
      <4>8. Leads(i, s) /\ bvh[i].index[s] + 1 \in 1 .. N /\ em[bvh[i].index[s] + 1] = em[j]
        BY <4>6, <4>7 DEF Stands, N
      <4>9. bvh[i].index[s] + 1 = j
        BY <1>3, <2>1, <4>8
      <4>10. bvh[i].index[s] + 1 \in Desc(1)
        BY <1>6, <4>4, <4>8
      <4> QED BY <4>9, <4>10
    <3> QED BY <3>1, <3>2
  <2> HIDE DEF j
  <2>4. \A k \in 1 .. j : k \in Desc(1)
    BY <2>1, <2>2, <2>3
  <2>5. j \in 0 .. N
    BY <2>1
  <2>6. j \in S
    BY <2>4, <2>5
  <2> QED BY <2>6 DEF j
<1> HIDE DEF S
<1>9. 0 .. N \subseteq S
  BY <1>1, <1>7, <1>8, InductionTo
<1>10. N \in S
  BY <1>1, <1>9
<1>11. \A k \in 1 .. N : k \in Desc(1)
  BY <1>10 DEF S
<1>12. \A k \in Desc(1) : k \in 1 .. N
  BY DEF Desc, N
<1>13. Desc(1) = 1 .. N
  BY <1>11, <1>12
<1> QED BY <1>1, <1>2, <1>3, <1>13 DEF N

(* Every node that is to be written is.                                     *)
LEMMA TopsWritten ==
    ASSUME NEW em, NEW tr, Finished(em, tr), NEW b \in Tops
    PROVE  \E i \in 1 .. Len(bvh) : em[i] = b
<1> DEFINE n == Len(nodes)
           N == Len(bvh)
           S == {m \in 0 .. n : \A d \in Tops : d <= m => \E i \in 1 .. N : em[i] = d}
<1>1. Tree /\ n \in Nat /\ N \in Nat \ {0} /\ em[1] = 1
  BY FirstAbove DEF Finished, Tree
<1>2. \A d \in Tops : d \in 1 .. n
  BY DEF Tops
<1>3. ASSUME NEW c \in Tops, c # 1
      PROVE  \E d \in Tops : \E s \in Slots : Kid(d, s) = c /\ d < c
  <2>1. c \in 1 .. n /\ ~nodes[c].isLeaf
    BY <1>3 DEF Tops
  <2> QED BY <1>1, <1>3, <2>1 DEF Tree
<1>4. ASSUME NEW i \in 1 .. N, NEW s \in Slots, NEW c \in Tops, c # 1, Kid(em[i], s) = c
      PROVE  \E j \in 1 .. N : em[j] = c
  <2>1. c # 0 /\ ~nodes[c].isLeaf
    BY <1>4 DEF Tops
  <2>2. Stands(em, i, s, c)
    BY <1>4, SlotIs
  <2> QED BY <2>1, <2>2 DEF Stands
<1> HIDE DEF n, N
<1>5. 0 \in S
  BY <1>1, <1>2
<1>6. ASSUME NEW m \in 0 .. n - 1, m \in S PROVE m + 1 \in S
  <2>1. m \in Nat /\ m + 1 \in 0 .. n
    BY <1>1
  <2>2. \A d \in Tops : d <= m => \E i \in 1 .. N : em[i] = d
    BY <1>6
  <2>3. ASSUME NEW c \in Tops, c <= m + 1 PROVE \E i \in 1 .. N : em[i] = c
    <3>1. CASE c = 1
      <4>1. 1 \in 1 .. N
        BY <1>1
      <4> QED BY <1>1, <3>1, <4>1
    <3>2. CASE c # 1
      <4>1. PICK d \in Tops : \E s \in Slots : Kid(d, s) = c /\ d < c
        BY <1>3, <3>2
      <4>2. d <= m
        BY <1>2, <2>1, <2>3, <4>1
      <4>3. PICK i \in 1 .. N : em[i] = d
        BY <2>2, <4>2
      <4> QED BY <1>4, <3>2, <4>1, <4>3
    <3> QED BY <3>1, <3>2
  <2> QED BY <2>1, <2>3
<1> HIDE DEF S
<1>7. 0 .. n \subseteq S
  BY <1>1, <1>5, <1>6, InductionTo
<1>8. n \in S
  BY <1>1, <1>7
<1>9. b <= n
  BY <1>1, <1>2
<1> QED BY <1>8, <1>9 DEF S, N

-----------------------------------------------------------------------------
(* Every triangle is found, once.                                          *)

\* The leaf that a slot leads to.
LeafAt(em, p) == Kid(em[p[1]], p[2])

\* The leaf slots lead to the leaves of the build tree, one slot to each.
Listed(em) ==
    /\ \A p \in LeafSlots[1] :
          /\ LeafAt(em, p) \in 1 .. Len(nodes) /\ nodes[LeafAt(em, p)].isLeaf
          /\ ReadAt(p) = [k \in 1 .. Len(nodes[LeafAt(em, p)].tris)
                             |-> Winding(nodes[LeafAt(em, p)].tris[k])]
    /\ \A p, q \in LeafSlots[1] : LeafAt(em, p) = LeafAt(em, q) => p = q
    /\ \A c \in 1 .. Len(nodes) : nodes[c].isLeaf => \E p \in LeafSlots[1] : LeafAt(em, p) = c

(* At the end they do.                                                     *)
LEMMA SlotsListed ==
    ASSUME NEW em, NEW tr, Finished(em, tr)
    PROVE  Listed(em)
<1> DEFINE n == Len(nodes)
           N == Len(bvh)
           L == LeafSlots[1]
<1>1. Tree /\ n \in Nat /\ N \in Nat \ {0} /\ Desc(1) = 1 .. N /\ Ordered(bvh, em)
  BY FirstAbove DEF Finished, Tree, Mapped
<1>2. L = {p \in (1 .. N) \X Slots : bvh[p[1]].type[p[2]] = Poly3}
  <2>1. 1 \in 1 .. N
    BY <1>1
  <2>2. L = LeavesUnder(1)
    BY <1>1, <2>1, LeafSlotsAre
  <2>3. \A p \in (1 .. N) \X Slots : p[1] \in 1 .. N
    OBVIOUS
  <2> HIDE DEF L
  <2> QED BY <1>1, <2>2, <2>3 DEF LeavesUnder
<1> HIDE DEF L, n, N
<1>3. ASSUME NEW p \in L
      PROVE  /\ p[1] \in 1 .. N /\ p[2] \in Slots /\ p = <<p[1], p[2]>>
             /\ em[p[1]] \in Tops /\ LeafAt(em, p) \in 1 .. n /\ nodes[LeafAt(em, p)].isLeaf
             /\ ReadAt(p) = [k \in 1 .. Len(nodes[LeafAt(em, p)].tris)
                                |-> Winding(nodes[LeafAt(em, p)].tris[k])]
  <2> DEFINE c == LeafAt(em, p)
  <2>1. /\ p[1] \in 1 .. N /\ p[2] \in Slots /\ p = <<p[1], p[2]>>
        /\ bvh[p[1]].type[p[2]] = Poly3 /\ c = Kid(em[p[1]], p[2])
    BY <1>2 DEF LeafAt
  <2> HIDE DEF c
  <2>2. Stands(em, p[1], p[2], c)
    BY <2>1, SlotIs DEF N
  <2>3. em[p[1]] \in Tops /\ c \in 0 .. n /\ c # 0 /\ nodes[c].isLeaf
    BY <2>1, <2>2 DEF Stands, n
  <2>4. ReadAt(<<p[1], p[2]>>) = [k \in 1 .. Len(nodes[c].tris) |-> Winding(nodes[c].tris[k])]
    BY <2>2, <2>3 DEF Stands
  <2>5. c \in 1 .. n
    BY <1>1, <2>3
  <2> QED BY <2>1, <2>3, <2>4, <2>5 DEF c
<1>4. ASSUME NEW p \in L, NEW q \in L, LeafAt(em, p) = LeafAt(em, q) PROVE p = q
  <2>1. /\ p[1] \in 1 .. N /\ p[2] \in Slots /\ p = <<p[1], p[2]>> /\ em[p[1]] \in Tops
        /\ q[1] \in 1 .. N /\ q[2] \in Slots /\ q = <<q[1], q[2]>> /\ em[q[1]] \in Tops
        /\ LeafAt(em, p) \in 1 .. n
    BY <1>3
  <2>2. Kid(em[p[1]], p[2]) = Kid(em[q[1]], q[2]) /\ Kid(em[p[1]], p[2]) # 0
    BY <1>1, <1>4, <2>1 DEF LeafAt
  <2>3. em[p[1]] = em[q[1]] /\ p[2] = q[2]
    BY <1>1, <2>1, <2>2 DEF Tree
  <2>4. p[1] = q[1]
    BY <1>1, <2>1, <2>3 DEF Ordered, N
  <2> QED BY <2>1, <2>3, <2>4
<1>5. ASSUME NEW c \in 1 .. n, nodes[c].isLeaf PROVE \E p \in L : LeafAt(em, p) = c
  <2>1. PICK b \in Tops : \E s \in Slots : Kid(b, s) = c
    BY <1>1, <1>5 DEF Tree, n
  <2>2. PICK s \in Slots : Kid(b, s) = c
    BY <2>1
  <2>3. PICK i \in 1 .. N : em[i] = b
    BY TopsWritten DEF N
  <2>4. Stands(em, i, s, c)
    BY <2>2, <2>3, SlotIs DEF N
  <2>5. c # 0
    BY <1>1
  <2>6. bvh[i].type[s] = Poly3
    BY <1>5, <2>4, <2>5 DEF Stands
  <2> DEFINE p == <<i, s>>
  <2>7. p \in L /\ LeafAt(em, p) = c
    BY <1>2, <2>2, <2>3, <2>6 DEF LeafAt
  <2> QED BY <2>7
<1> QED BY <1>3, <1>4, <1>5 DEF Listed, L, n

\* What the engine finds, and the triangle behind it.
Found == UNION {{<<p, i, ReadAt(p)[i]>> : i \in DOMAIN ReadAt(p)} : p \in LeafSlots[1]}
TriOf(em, x) == nodes[LeafAt(em, x[1])].tris[x[2]]

(* Triangles are found with the winding the engine wants, each of them once. *)
LEMMA FoundIs ==
    ASSUME NEW em, NEW tr, Finished(em, tr)
    PROVE  /\ \A x \in Found : /\ TriOf(em, x) \in DOMAIN tris /\ Len(x) = 3
                               /\ x[3] = Winding(TriOf(em, x))
           /\ \A x, y \in Found : TriOf(em, x) = TriOf(em, y) => x = y
           /\ \A t \in DOMAIN tris : \E x \in Found : TriOf(em, x) = t
<1> DEFINE n == Len(nodes)
           L == LeafSlots[1]
           size(c) == Len(nodes[c].tris)
           at(p) == LeafAt(em, p)
<1>1. Filled /\ Listed(em)
  BY SlotsListed DEF Finished
<1>2. /\ \A p \in L : /\ at(p) \in 1 .. n
                      /\ ReadAt(p) = [k \in 1 .. size(at(p)) |-> Winding(nodes[at(p)].tris[k])]
      /\ \A p, q \in L : at(p) = at(q) => p = q
      /\ \A c \in 1 .. n : nodes[c].isLeaf => \E p \in L : at(p) = c
  BY <1>1 DEF Listed
<1>3. \A c \in 1 .. n : /\ nodes[c].tris \in Seq(DOMAIN tris) /\ size(c) \in Nat
                        /\ nodes[c].isLeaf <=> size(c) # 0
  BY <1>1, LeafAssumption DEF Filled
<1>4. \A i, j \in 1 .. n : \A k \in 1 .. size(i) : \A l \in 1 .. size(j) :
          nodes[i].tris[k] = nodes[j].tris[l] => i = j /\ k = l
  BY <1>1 DEF Filled
<1>5. \A t \in DOMAIN tris : \E i \in 1 .. n : \E k \in 1 .. size(i) : nodes[i].tris[k] = t
  BY <1>1 DEF Filled
<1> HIDE DEF n, L
<1>6. ASSUME NEW p \in L, NEW k \in 1 .. size(at(p)) PROVE nodes[at(p)].tris[k] \in DOMAIN tris
  <2> DEFINE c == at(p)
  <2>1. c \in 1 .. n /\ k \in 1 .. size(c)
    BY <1>2
  <2> HIDE DEF c
  <2>2. nodes[c].tris[k] \in DOMAIN tris
    BY <1>3, <2>1
  <2> QED BY <2>2 DEF c
<1>7. \A x : x \in Found <=> \E p \in L : \E k \in 1 .. size(at(p)) :
                                 x = <<p, k, Winding(nodes[at(p)].tris[k])>>
  <2>1. \A p \in L : /\ DOMAIN ReadAt(p) = 1 .. size(at(p))
                     /\ \A k \in 1 .. size(at(p)) : ReadAt(p)[k] = Winding(nodes[at(p)].tris[k])
    BY <1>2
  <2>2. \A x : x \in Found <=> \E p \in L : \E k \in DOMAIN ReadAt(p) : x = <<p, k, ReadAt(p)[k]>>
    BY DEF Found, L
  <2>3. ASSUME NEW x, NEW p \in L
        PROVE  (\E k \in DOMAIN ReadAt(p) : x = <<p, k, ReadAt(p)[k]>>)
                  <=> \E k \in 1 .. size(at(p)) : x = <<p, k, Winding(nodes[at(p)].tris[k])>>
    <3> DEFINE m == size(at(p))
               W(k) == Winding(nodes[at(p)].tris[k])
               R == ReadAt(p)
    <3>1. DOMAIN R = 1 .. m /\ \A k \in 1 .. m : R[k] = W(k)
      BY <2>1
    <3> HIDE DEF m, W, R
    <3>2. (\E k \in DOMAIN R : x = <<p, k, R[k]>>) <=> \E k \in 1 .. m : x = <<p, k, W(k)>>
      BY <3>1
    <3> QED BY <3>2 DEF m, W, R
  <2> HIDE DEF at, size
  <2> QED BY <2>2, <2>3
<1>8. ASSUME NEW x \in Found
      PROVE  /\ x[1] \in L /\ x[2] \in 1 .. size(at(x[1])) /\ TriOf(em, x) \in DOMAIN tris
             /\ Len(x) = 3 /\ x = <<x[1], x[2], x[3]>> /\ x[3] = Winding(TriOf(em, x))
  <2>1. PICK p \in L : \E k \in 1 .. size(at(p)) : x = <<p, k, Winding(nodes[at(p)].tris[k])>>
    BY <1>7
  <2>2. PICK k \in 1 .. size(at(p)) : x = <<p, k, Winding(nodes[at(p)].tris[k])>>
    BY <2>1
  <2>3. nodes[at(p)].tris[k] \in DOMAIN tris
    BY <1>6
  <2> DEFINE w == Winding(nodes[at(p)].tris[k])
  <2>4. x = <<p, k, w>> /\ w = Winding(nodes[at(p)].tris[k])
    BY <2>2
  <2> HIDE DEF w
  <2>5. x[1] = p /\ x[2] = k /\ x[3] = w /\ Len(x) = 3
    BY <2>4
  <2>6. TriOf(em, x) = nodes[at(p)].tris[k]
    BY <2>5 DEF TriOf
  <2> HIDE DEF at, size
  <2> QED BY <2>2, <2>3, <2>4, <2>5, <2>6
<1>9. ASSUME NEW x \in Found, NEW y \in Found, TriOf(em, x) = TriOf(em, y) PROVE x = y
  <2> DEFINE c == at(x[1])
             d == at(y[1])
  <2>1. /\ x[1] \in L /\ x[2] \in 1 .. size(c) /\ x = <<x[1], x[2], x[3]>>
        /\ y[1] \in L /\ y[2] \in 1 .. size(d) /\ y = <<y[1], y[2], y[3]>>
        /\ x[3] = Winding(TriOf(em, x)) /\ y[3] = Winding(TriOf(em, y))
    BY <1>8
  <2>2. c \in 1 .. n /\ d \in 1 .. n
    BY <1>2, <2>1
  <2>3. nodes[c].tris[x[2]] = nodes[d].tris[y[2]]
    BY <1>9 DEF TriOf
  <2> HIDE DEF c, d, size
  <2>4. c = d /\ x[2] = y[2]
    BY <1>4, <2>1, <2>2, <2>3
  <2>5. x[1] = y[1]
    BY <1>2, <2>1, <2>4 DEF c, d
  <2>6. x[3] = y[3]
    BY <1>9, <2>1
  <2> QED BY <2>1, <2>4, <2>5, <2>6
<1>10. ASSUME NEW t \in DOMAIN tris PROVE \E x \in Found : TriOf(em, x) = t
  <2>1. PICK c \in 1 .. n : \E k \in 1 .. size(c) : nodes[c].tris[k] = t
    BY <1>5
  <2>2. PICK k \in 1 .. size(c) : nodes[c].tris[k] = t
    BY <2>1
  <2>3. size(c) \in Nat /\ size(c) # 0
    BY <1>3, <2>2
  <2>4. PICK p \in L : at(p) = c
    BY <1>2, <1>3, <2>3
  <2> DEFINE x == <<p, k, Winding(nodes[at(p)].tris[k])>>
  <2>5. x \in Found
    BY <1>7, <2>2, <2>4
  <2>6. x[1] = p /\ x[2] = k
    OBVIOUS
  <2> HIDE DEF x
  <2>7. TriOf(em, x) = t
    BY <2>2, <2>4, <2>6 DEF TriOf
  <2> QED BY <2>5, <2>7
<1> QED BY <1>8, <1>9, <1>10

(* So as many are found of any kind as there are.                           *)
LEMMA FoundCount ==
    ASSUME NEW em, NEW tr, Finished(em, tr), NEW W \in SUBSET DOMAIN tris
    PROVE  Cardinality({x \in Found : TriOf(em, x) \in W}) = Cardinality(W)
<1> DEFINE A == {x \in Found : TriOf(em, x) \in W}
           f == [x \in A |-> TriOf(em, x)]
<1>1. /\ \A x, y \in Found : TriOf(em, x) = TriOf(em, y) => x = y
      /\ \A t \in DOMAIN tris : \E x \in Found : TriOf(em, x) = t
  BY FoundIs
<1>2. \A x \in A : x \in Found /\ TriOf(em, x) \in W
  OBVIOUS
<1>3. f \in [A -> W] /\ \A x \in A : f[x] = TriOf(em, x)
  BY <1>2
<1>4. \A x, y \in A : f[x] = f[y] => x = y
  BY <1>1, <1>2, <1>3
<1>5. \A t \in W : \E x \in A : f[x] = t
  <2> TAKE t \in W
  <2>1. PICK x \in Found : TriOf(em, x) = t
    BY <1>1
  <2>2. x \in A
    BY <2>1
  <2> HIDE DEF f, A
  <2> QED BY <1>3, <2>1, <2>2
<1>6. IsFiniteSet(W)
  <2>1. DOMAIN tris = 1 .. Len(tris) /\ Len(tris) \in Int
    BY Soup DEF Finished, BInv
  <2>2. IsFiniteSet(DOMAIN tris)
    <3>1. 1 \in Int
      OBVIOUS
    <3>2. IsFiniteSet(1 .. Len(tris))
      BY <2>1, <3>1, FS_Interval
    <3> QED BY <2>1, <3>2
  <2> QED BY <2>2, FS_Subset
<1> HIDE DEF A, f
<1>7. Cardinality(A) = Cardinality(W)
  BY <1>3, <1>4, <1>5, <1>6, SameSize
<1> QED BY <1>7 DEF A

(* What is wanted with a given winding is as many triangles as have it.     *)
LEMMA WantedCount ==
    ASSUME tris \in Soups, NEW w
    PROVE  LET wanted == {<<t, Winding(t)>> : t \in DOMAIN tris}
           IN  Cardinality({x \in wanted : x[Len(x)] = w})
                  = Cardinality({t \in DOMAIN tris : Winding(t) = w})
<1> DEFINE wanted == {<<t, Winding(t)>> : t \in DOMAIN tris}
           A == {x \in wanted : x[Len(x)] = w}
           B == {t \in DOMAIN tris : Winding(t) = w}
           f == [x \in A |-> x[1]]
<1>1. \A x \in wanted : x = <<x[1], Winding(x[1])>> /\ x[1] \in DOMAIN tris /\ x[Len(x)] = Winding(x[1])
  <2> SUFFICES ASSUME NEW t \in DOMAIN tris, NEW x, x = <<t, Winding(t)>>
               PROVE  x = <<x[1], Winding(x[1])>> /\ x[1] \in DOMAIN tris /\ x[Len(x)] = Winding(x[1])
    OBVIOUS
  <2> DEFINE z == Winding(t)
  <2>1. x = <<t, z>> /\ z = Winding(t)
    OBVIOUS
  <2> HIDE DEF z
  <2>2. x[1] = t /\ x[2] = z /\ Len(x) = 2
    BY <2>1
  <2> QED BY <2>1, <2>2
<1>2. \A t \in DOMAIN tris : <<t, Winding(t)>> \in wanted
  OBVIOUS
<1> HIDE DEF wanted
<1>3. f \in [A -> B] /\ \A x \in A : f[x] = x[1]
  BY <1>1
<1>4. \A x, y \in A : f[x] = f[y] => x = y
  BY <1>1
<1>5. \A t \in B : \E x \in A : f[x] = t
  <2> TAKE t \in B
  <2> DEFINE z == Winding(t)
             x == <<t, z>>
  <2>1. x \in wanted /\ z = w
    BY <1>2
  <2> HIDE DEF z
  <2>2. x[1] = t /\ x[2] = z /\ Len(x) = 2
    OBVIOUS
  <2> HIDE DEF x
  <2>3. x \in A
    BY <2>1, <2>2
  <2> HIDE DEF A, f
  <2> QED BY <1>3, <2>2, <2>3
<1>6. IsFiniteSet(B)
  <2>1. DOMAIN tris = 1 .. Len(tris) /\ Len(tris) \in Int /\ 1 \in Int
    BY Soup
  <2>2. IsFiniteSet(1 .. Len(tris))
    BY <2>1, FS_Interval
  <2>3. B \in SUBSET (1 .. Len(tris))
    BY <2>1
  <2> HIDE DEF B
  <2> QED BY <2>2, <2>3, FS_Subset
<1> HIDE DEF A, B, f
<1>7. Cardinality(A) = Cardinality(B)
  BY <1>3, <1>4, <1>5, <1>6, SameSize
<1> QED BY <1>7 DEF A, B, wanted

(* Every triangle is found as often as it is wanted.                        *)
LEMMA FoundOnce ==
    ASSUME CInv
    PROVE  EveryTriangleOnce
<1> SUFFICES ASSUME pc \in {"serialize", "done"} PROVE EveryTriangleOnce
  BY DEF EveryTriangleOnce
<1>1. PICK em, tr : Finished(em, tr)
  BY Finishes
<1>2. tris \in Soups
  BY <1>1 DEF Finished, BInv
<1>3. \A x \in Found : /\ TriOf(em, x) \in DOMAIN tris /\ Len(x) = 3
                       /\ x[3] = Winding(TriOf(em, x))
  BY <1>1, FoundIs
<1> DEFINE wanted == {<<t, Winding(t)>> : t \in DOMAIN tris}
<1>4. Cardinality(Found) = Len(tris)
  <2>1. Found = {x \in Found : TriOf(em, x) \in DOMAIN tris}
    BY <1>3
  <2>2. Cardinality(Found) = Cardinality(DOMAIN tris)
    BY <1>1, <2>1, FoundCount
  <2>3. DOMAIN tris = 1 .. Len(tris) /\ Len(tris) \in Nat
    BY <1>2, Soup
  <2>4. 1 \in Int /\ Len(tris) \in Int
    BY <2>3
  <2>5. Cardinality(1 .. Len(tris)) = IF 1 > Len(tris) THEN 0 ELSE Len(tris) - 1 + 1
    BY <2>4, FS_Interval
  <2>6. Cardinality(1 .. Len(tris)) = Len(tris)
    BY <2>3, <2>5
  <2> QED BY <2>2, <2>3, <2>6
<1>5. ASSUME NEW w
      PROVE  Cardinality({x \in Found : x[Len(x)] = w}) = Cardinality({x \in wanted : x[Len(x)] = w})
  <2> DEFINE W == {t \in DOMAIN tris : Winding(t) = w}
  <2>1. {x \in Found : x[Len(x)] = w} = {x \in Found : TriOf(em, x) \in W}
    BY <1>3
  <2>2. W \in SUBSET DOMAIN tris
    OBVIOUS
  <2>3. Cardinality({x \in wanted : x[Len(x)] = w}) = Cardinality(W)
    BY <1>2, WantedCount
  <2> HIDE DEF W
  <2>4. Cardinality({x \in Found : TriOf(em, x) \in W}) = Cardinality(W)
    BY <1>1, <2>2, FoundCount
  <2> QED BY <2>1, <2>3, <2>4
<1> QED BY <1>4, <1>5 DEF EveryTriangleOnce, Found, Winding

(* Whatever the triangles, the engine finds each of them once, with its     *)
(* winding, in the tree that is written (PartitionTriangles, EmitBVH4Nodes,  *)
(* EmitPoly3Leaf).                                                         *)
THEOREM EveryTriangleOnceHolds == Spec => []EveryTriangleOnce
<1>1. Init => CInv
  BY InitCInv
<1>2. CInv /\ [Next]_vars => CInv'
  BY NextCInv
<1>3. CInv => EveryTriangleOnce
  BY FoundOnce
<1> QED BY <1>1, <1>2, <1>3, PTL DEF Spec

(* And whatever lies under a child lies within its packed bounds, at every   *)
(* level (PackBoundsToInt16, EmitPackedVertex).                             *)
THEOREM BoundsEncloseHolds == Spec => []BoundsEnclose
<1>1. Init => CInv
  BY InitCInv
<1>2. CInv /\ [Next]_vars => CInv'
  BY NextCInv
<1>3. CInv => BoundsEnclose
  BY Enclosed
<1> QED BY <1>1, <1>2, <1>3, PTL DEF Spec
=============================================================================
