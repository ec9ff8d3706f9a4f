-------------------------- MODULE RmdlLayout_proofs --------------------------
(***************************************************************************)
(* The image of an .rmdl for every compiled model, every address of the     *)
(* buffer and every size of the structs: what the converters write never    *)
(* overlaps, stays inside the length the header states and is aligned, and  *)
(* each field that waits for a string is a field of a struct that was       *)
(* written, and waits for one string only.  And what a reader of the         *)
(* finished file looks for, it finds by the offsets of the file alone.       *)
(*                                                                         *)
(* The argument is one about slices: a converter fills the slice from the   *)
(* cursor it finds to the cursor it leaves.  A slice is made of smaller     *)
(* ones: structs at their ranks, slices one behind the other, a family of   *)
(* slices of different lengths.  As a converter only stores behind the      *)
(* cursor and in fields of the header of its own, a part of the model that   *)
(* can be followed when its converter is done can be followed to the end.    *)
(***************************************************************************)
EXTENDS RmdlLayout, NatLemmas, FiniteSetTheorems, SequenceTheorems

\* The regions rs are disjoint, aligned, and lie between a and b.
Placed(rs, a, b) ==
    /\ a \in Nat /\ b \in Nat /\ a <= b
    /\ \A r \in rs : /\ r.at \in Nat /\ r.size \in Nat
                     /\ a <= r.at /\ r.at + r.size <= b
                     /\ r.what[1] \notin PackedKinds => r.at % 4 = 0
    /\ \A r, q \in rs : r # q => r.at + r.size <= q.at \/ q.at + q.size <= r.at

\* The fields gs that wait for strings are fields of the structs rs.
Waiting(gs, rs) ==
    /\ \A g \in gs : /\ g.at \in Nat /\ g.string \in Strings
                     /\ \E r \in rs : r.at = g.at /\ r.size > 0
    /\ \A g, h \in gs : g.at = h.at /\ g.field = h.field => g = h

\* Each x of S has a struct of rs of its own, the one at at[x].
Owned(rs, S, at) ==
    /\ at \in [S -> Nat]
    /\ \A x, y \in S : at[x] = at[y] => x = y
    /\ \A x \in S : \E r \in rs : r.at = at[x] /\ r.size > 0

\* gs gives the field of each of these structs the string str[x].
Each(gs, rs, S, at, field, str) ==
    /\ Owned(rs, S, at)
    /\ str \in [S -> Strings]
    /\ \A g \in gs : \E x \in S : g = Reg(at[x], field, str[x])

Stored(is) == \A k \in DOMAIN is : k[1] \in Nat /\ is[k] \in Int

LInv ==
    /\ pc \in Stages /\ old \in Models /\ baseAddr \in BaseAddrs
    /\ pc = "header" => pos = 0
    /\ pc # "done" => pos % 4 = 0
    /\ Placed(regions, 0, pos)
    /\ Waiting(regs, regions)
    /\ Stored(ints)
    /\ pc = "done" => ints[<<0, "length">>] = pos

-----------------------------------------------------------------------------
(* Arithmetic.                                                              *)

(* What has a smaller rank ends before what has a larger one begins.        *)
LEMMA RankBefore ==
    ASSUME NEW i \in Nat, NEW j \in Nat, NEW size \in Nat, i < j
    PROVE  i * size + size <= j * size /\ i * size \in Nat /\ j * size \in Nat
OBVIOUS

(* Multiples of an aligned size are aligned.                                *)
LEMMA RankAligned ==
    ASSUME NEW i \in Nat, NEW size \in Nat, size % 4 = 0
    PROVE  (i * size) % 4 = 0 /\ i * size \in Nat
<1>1. PICK q \in Nat : size = 4 * q
  OBVIOUS
<1> DEFINE m == i * q
<1>2. m \in Nat /\ i * size = 4 * m
  BY <1>1
<1> HIDE DEF m
<1> QED BY <1>2

(* Aligning moves the cursor forward, to a multiple of 4 of the file.       *)
LEMMA AlignedUp ==
    ASSUME baseAddr \in BaseAddrs, NEW p \in Nat
    PROVE  /\ AlignData(p, 4) \in Nat /\ AlignData(p, 4) >= p /\ AlignData(p, 4) % 4 = 0
           /\ AlignData(p, 64) \in Nat /\ AlignData(p, 64) >= p /\ AlignData(p, 64) % 4 = 0
<1>1. baseAddr \in Nat /\ baseAddr % 4 = 0
  BY LayoutAssumption
<1> QED BY <1>1 DEF AlignData

(* The sum of the first numbers of a sequence.                              *)
LEMMA SumToIs ==
    ASSUME NEW f \in Seq(Nat)
    PROVE  /\ SumTo(f, 0) = 0
           /\ \A i \in 0 .. Len(f) : SumTo(f, i) \in Nat
           /\ \A i \in 1 .. Len(f) : SumTo(f, i) = SumTo(f, i - 1) + f[i]
<1> DEFINE N == Len(f)
           step == [k \in 1 .. N |-> [v \in Nat |-> v + f[k]]]
           fun(g) == [k \in 0 .. N |-> IF k = 0 THEN 0 ELSE g[k - 1] + f[k]]
<1>1. N \in Nat /\ \A k \in 1 .. N : f[k] \in Nat
  OBVIOUS
<1>2. step \in Steps(Nat, N)
  BY <1>1 DEF Steps
<1>3. \A k \in 1 .. N : \A v \in Nat : step[k][v] = v + f[k]
  OBVIOUS
<1> HIDE DEF step
<1>4. PICK h : Recursive(h, Nat, N, 0, step)
  BY <1>1, <1>2, Recursion
<1>5. /\ h \in [0 .. N -> Nat]
      /\ \A k \in 0 .. N : h[k] = IF k = 0 THEN 0 ELSE step[k][h[k - 1]]
  BY <1>4 DEF Recursive
<1>6. h = fun(h)
  <2> SUFFICES ASSUME NEW k \in 0 .. N
               PROVE  h[k] = IF k = 0 THEN 0 ELSE h[k - 1] + f[k]
    BY <1>5
  <2>1. CASE k = 0
    BY <1>5, <2>1
  <2>2. CASE k # 0
    <3>1. k \in 1 .. N /\ k - 1 \in 0 .. N
      BY <1>1, <2>2
    <3>2. h[k - 1] \in Nat
      BY <1>5, <3>1
    <3>3. h[k] = step[k][h[k - 1]]
      BY <1>5, <2>2
    <3> QED BY <1>3, <2>2, <3>1, <3>2, <3>3
  <2> QED BY <2>1, <2>2
<1> DEFINE sum == CHOOSE g : g = fun(g)
<1>7. sum = fun(sum)
  BY <1>6
<1>8. \A k : SumTo(f, k) = sum[k]
  BY DEF SumTo
<1>9. \A k \in 0 .. N : sum[k] = IF k = 0 THEN 0 ELSE sum[k - 1] + f[k]
  <2> DEFINE s2 == sum
  <2>1. s2 = fun(s2)
    BY <1>7
  <2> HIDE DEF s2
  <2>2. \A k \in 0 .. N : s2[k] = IF k = 0 THEN 0 ELSE s2[k - 1] + f[k]
    BY <1>1, <2>1
  <2> QED BY <2>2 DEF s2
<1> HIDE DEF sum, fun
<1> DEFINE S == {k \in 0 .. N : sum[k] \in Nat}
<1>10. 0 \in S
  BY <1>1, <1>9
<1>11. \A k \in 0 .. N - 1 : k \in S => k + 1 \in S
  <2> SUFFICES ASSUME NEW k \in 0 .. N - 1, k \in S PROVE k + 1 \in S
    OBVIOUS
  <2>1. k + 1 \in 0 .. N /\ k + 1 # 0 /\ k + 1 - 1 = k /\ k + 1 \in 1 .. N
    BY <1>1
  <2>2. sum[k + 1] = sum[k] + f[k + 1]
    BY <1>9, <2>1
  <2> QED BY <1>1, <2>1, <2>2
<1> HIDE DEF S
<1>12. 0 .. N \subseteq S
  BY <1>1, <1>10, <1>11, InductionTo
<1>13. \A k \in 0 .. N : sum[k] \in Nat
  BY <1>12 DEF S
<1>14. \A k \in 0 .. N : /\ SumTo(f, k) \in Nat
                        /\ SumTo(f, k) = IF k = 0 THEN 0 ELSE SumTo(f, k - 1) + f[k]
  BY <1>8, <1>9, <1>13
<1> QED BY <1>1, <1>14

(* Such sums grow.                                                          *)
LEMMA SumToGrows ==
    ASSUME NEW f \in Seq(Nat), NEW i \in 0 .. Len(f), NEW j \in i .. Len(f)
    PROVE  SumTo(f, i) <= SumTo(f, j)
<1> DEFINE N == Len(f) - i
           S == {k \in 0 .. N : SumTo(f, i) <= SumTo(f, i + k)}
<1>1. N \in Nat /\ Len(f) \in Nat /\ i \in Nat /\ SumTo(f, i) \in Nat
  BY SumToIs
<1>2. 0 \in S
  BY <1>1
<1>3. \A k \in 0 .. N - 1 : k \in S => k + 1 \in S
  <2> SUFFICES ASSUME NEW k \in 0 .. N - 1, k \in S PROVE k + 1 \in S
    OBVIOUS
  <2>1. i + k + 1 \in 1 .. Len(f) /\ i + k \in 0 .. Len(f) /\ i + k + 1 - 1 = i + k
        /\ i + (k + 1) = i + k + 1
    BY <1>1
  <2>2. SumTo(f, i + k + 1) = SumTo(f, i + k) + f[i + k + 1] /\ f[i + k + 1] \in Nat
        /\ SumTo(f, i + k) \in Nat
    BY <2>1, SumToIs
  <2> QED BY <1>1, <2>1, <2>2
<1> HIDE DEF S
<1>4. 0 .. N \subseteq S
  BY <1>1, <1>2, <1>3, InductionTo
<1>5. j - i \in 0 .. N /\ i + (j - i) = j
  BY <1>1
<1> QED BY <1>4, <1>5 DEF S

(* The j-th of the f[i] things of the i-th group has a rank of its own among *)
(* the things of all groups.                                                *)
LEMMA GroupRank ==
    ASSUME NEW f \in Seq(Nat), NEW i \in 1 .. Len(f), NEW j \in 1 .. f[i]
    PROVE  /\ SumTo(f, i - 1) + j - 1 \in Nat
           /\ SumTo(f, i - 1) + j - 1 < SumTo(f, Len(f))
           /\ \A k \in 1 .. Len(f) : \A l \in 1 .. f[k] :
                 SumTo(f, i - 1) + j - 1 = SumTo(f, k - 1) + l - 1 => i = k /\ j = l
<1>1. /\ Len(f) \in Nat
      /\ \A k \in 1 .. Len(f) : /\ f[k] \in Nat /\ SumTo(f, k - 1) \in Nat /\ SumTo(f, k) \in Nat
                                /\ SumTo(f, k) = SumTo(f, k - 1) + f[k]
  BY SumToIs, SMTT(20)
<1>2. \A k \in 1 .. Len(f), m \in 1 .. Len(f) : k < m => SumTo(f, k) <= SumTo(f, m - 1)
  <2> TAKE k \in 1 .. Len(f), m \in 1 .. Len(f)
  <2> HAVE k < m
  <2>1. k \in 0 .. Len(f) /\ m - 1 \in k .. Len(f)
    BY <1>1
  <2> QED BY <2>1, SumToGrows
<1>3. SumTo(f, i) <= SumTo(f, Len(f)) /\ SumTo(f, Len(f)) \in Nat
  <2>1. i \in 0 .. Len(f) /\ Len(f) \in i .. Len(f)
    BY <1>1
  <2> QED BY <1>1, <2>1, SumToGrows, SumToIs
<1>4. ASSUME NEW k \in 1 .. Len(f), NEW l \in 1 .. f[k],
             SumTo(f, i - 1) + j - 1 = SumTo(f, k - 1) + l - 1
      PROVE  i = k /\ j = l
  <2>1. CASE i < k
    <3> DEFINE a == SumTo(f, i - 1)
               b == SumTo(f, k - 1)
               size == f[i]
    <3>1. SumTo(f, i) <= b
      BY <1>2, <2>1
    <3>2. SumTo(f, i) = a + size /\ a \in Nat /\ size \in Nat /\ b \in Nat
      BY <1>1
    <3>3. j \in Nat /\ l \in Nat /\ j <= size /\ l >= 1
      BY <1>1
    <3>4. a + j - 1 = b + l - 1
      BY <1>4
    <3> HIDE DEF a, b, size
    <3> QED BY <3>1, <3>2, <3>3, <3>4
  <2>2. CASE k < i
    <3> DEFINE a == SumTo(f, k - 1)
               b == SumTo(f, i - 1)
               size == f[k]
    <3>1. SumTo(f, k) <= b
      BY <1>2, <2>2
    <3>2. SumTo(f, k) = a + size /\ a \in Nat /\ size \in Nat /\ b \in Nat
      BY <1>1
    <3>3. l \in Nat /\ j \in Nat /\ l <= size /\ j >= 1
      BY <1>1
    <3>4. a + l - 1 = b + j - 1
      BY <1>4
    <3> HIDE DEF a, b, size
    <3> QED BY <3>1, <3>2, <3>3, <3>4
  <2>3. CASE i = k
    BY <1>1, <1>4, <2>3
  <2> QED BY <1>1, <2>1, <2>2, <2>3
<1>5. /\ SumTo(f, i - 1) + j - 1 \in Nat
      /\ SumTo(f, i - 1) + j - 1 < SumTo(f, Len(f))
  <2>1. /\ SumTo(f, i - 1) \in Nat /\ f[i] \in Nat /\ j \in 1 .. f[i]
        /\ SumTo(f, i) = SumTo(f, i - 1) + f[i]
    BY <1>1
  <2> QED BY <1>3, <2>1, SMTT(20)
<1> QED BY <1>4, <1>5

-----------------------------------------------------------------------------
(* Slices.                                                                  *)

(* Two slices, one behind the other, are a slice.                           *)
LEMMA PlacedJoin ==
    ASSUME NEW R, NEW Q, NEW a, NEW b, NEW c, Placed(R, a, b), Placed(Q, b, c)
    PROVE  Placed(R \cup Q, a, c)
<1>1. a \in Nat /\ b \in Nat /\ c \in Nat /\ a <= b /\ b <= c /\ a <= c
  BY DEF Placed
<1>2. ASSUME NEW r \in R \cup Q
      PROVE  /\ r.at \in Nat /\ r.size \in Nat /\ a <= r.at /\ r.at + r.size <= c
             /\ r.what[1] \notin PackedKinds => r.at % 4 = 0
  BY <1>1 DEF Placed
<1>3. ASSUME NEW r \in R \cup Q, NEW q \in R \cup Q, r # q
      PROVE  r.at + r.size <= q.at \/ q.at + q.size <= r.at
  <2>1. CASE r \in R /\ q \in R
    BY <1>3, <2>1 DEF Placed
  <2>2. CASE r \in Q /\ q \in Q
    BY <1>3, <2>2 DEF Placed
  <2>3. CASE r \in R /\ q \in Q
    BY <1>1, <2>3 DEF Placed
  <2>4. CASE r \in Q /\ q \in R
    BY <1>1, <2>4 DEF Placed
  <2> QED BY <2>1, <2>2, <2>3, <2>4
<1> QED BY <1>1, <1>2, <1>3 DEF Placed

(* A slice with bytes to spare before it and behind it is a slice.          *)
LEMMA PlacedWider ==
    ASSUME NEW R, NEW a, NEW b, NEW c \in Nat, NEW d \in Nat, c <= a, b <= d, Placed(R, a, b)
    PROVE  Placed(R, c, d)
<1>1. a \in Nat /\ b \in Nat /\ c <= d
  BY DEF Placed
<1>2. ASSUME NEW r \in R
      PROVE  /\ r.at \in Nat /\ r.size \in Nat /\ c <= r.at /\ r.at + r.size <= d
             /\ r.what[1] \notin PackedKinds => r.at % 4 = 0
  BY <1>1 DEF Placed
<1> QED BY <1>1, <1>2 DEF Placed

(* A slice with bytes to spare behind it.                                   *)
LEMMA PlacedTo ==
    ASSUME NEW R, NEW a, NEW b, NEW d \in Nat, b <= d, Placed(R, a, b)
    PROVE  Placed(R, a, d)
<1>1. a \in Nat /\ a <= a
  BY DEF Placed
<1> QED BY <1>1, PlacedWider

(* A slice with nothing in it.                                              *)
LEMMA PlacedNone ==
    ASSUME NEW a \in Nat, NEW b \in Nat, a <= b
    PROVE  Placed({}, a, b)
BY DEF Placed

(* A slice with one struct in it.                                           *)
LEMMA PlacedOne ==
    ASSUME NEW a \in Nat, NEW size \in Nat, NEW what,
           what[1] \notin PackedKinds => a % 4 = 0
    PROVE  Placed({Region(a, size, what)}, a, a + size)
<1> DEFINE r == Region(a, size, what)
<1>1. r.at = a /\ r.size = size /\ r.what = what
  BY DEF Region
<1>2. a + size \in Nat /\ a <= a + size
  OBVIOUS
<1> HIDE DEF r
<1>3. Placed({r}, a, a + size)
  BY <1>1, <1>2 DEF Placed
<1> QED BY <1>3 DEF r

(* Structs of one size, at ranks below n that differ from each other.       *)
LEMMA RankedPlaced ==
    ASSUME NEW S, NEW rank \in [S -> Nat], NEW n \in Nat, NEW size \in Nat, NEW a \in Nat,
           NEW what, NEW R,
           \A x \in S : rank[x] < n,
           \A x, y \in S : rank[x] = rank[y] => x = y,
           \A r \in R : \E x \in S : r = Region(a + rank[x] * size, size, what[x]),
           \A x \in S : what[x][1] \notin PackedKinds => a % 4 = 0 /\ size % 4 = 0
    PROVE  Placed(R, a, a + n * size)
<1>1. n * size \in Nat /\ a + n * size \in Nat
  <2> QED BY RankAligned
<1>2. ASSUME NEW x \in S
      PROVE  /\ rank[x] * size \in Nat /\ rank[x] * size + size <= n * size
             /\ what[x][1] \notin PackedKinds => (a + rank[x] * size) % 4 = 0
  <2>1. rank[x] \in Nat /\ rank[x] < n
    OBVIOUS
  <2>2. rank[x] * size \in Nat /\ rank[x] * size + size <= n * size
    BY <2>1, RankBefore
  <2>3. ASSUME a % 4 = 0, size % 4 = 0 PROVE (a + rank[x] * size) % 4 = 0
    <3> DEFINE m == rank[x] * size
    <3>1. m \in Nat /\ m % 4 = 0
      BY <2>1, <2>3, RankAligned
    <3> HIDE DEF m
    <3>2. (a + m) % 4 = 0
      BY <2>3, <3>1
    <3> QED BY <3>2 DEF m
  <2> QED BY <2>2, <2>3
<1> DEFINE at(x) == a + rank[x] * size
<1>3. ASSUME NEW r \in R
      PROVE  \E x \in S : r.at = at(x) /\ r.size = size /\ r.what = what[x] /\ r = Region(at(x), size, what[x])
  BY DEF Region
<1>4. ASSUME NEW r \in R
      PROVE  /\ r.at \in Nat /\ r.size \in Nat /\ a <= r.at /\ r.at + r.size <= a + n * size
             /\ r.what[1] \notin PackedKinds => r.at % 4 = 0
  <2>1. PICK x \in S : r.at = at(x) /\ r.size = size /\ r.what = what[x]
    BY <1>3
  <2> DEFINE m == rank[x] * size
             l == n * size
  <2>2. m \in Nat /\ l \in Nat /\ m + size <= l /\ r.at = a + m
        /\ (what[x][1] \notin PackedKinds => (a + m) % 4 = 0)
    BY <1>1, <1>2, <2>1
  <2> HIDE DEF m, l
  <2>3. r.at \in Nat /\ a <= r.at /\ r.at + size <= a + l
    BY <2>2
  <2> QED BY <2>1, <2>2, <2>3 DEF l
<1>5. ASSUME NEW r \in R, NEW q \in R, r # q
      PROVE  r.at + r.size <= q.at \/ q.at + q.size <= r.at
  <2>1. PICK x \in S : r.at = at(x) /\ r.size = size /\ r = Region(at(x), size, what[x])
    BY <1>3
  <2>2. PICK y \in S : q.at = at(y) /\ q.size = size /\ q = Region(at(y), size, what[y])
    BY <1>3
  <2>3. rank[x] \in Nat /\ rank[y] \in Nat /\ rank[x] # rank[y]
    BY <1>5, <2>1, <2>2
  <2>4. rank[x] < rank[y] \/ rank[y] < rank[x]
    BY <2>3
  <2> DEFINE l == rank[x] * size
             m == rank[y] * size
  <2>5. l \in Nat /\ m \in Nat /\ (l + size <= m \/ m + size <= l)
        /\ r.at = a + l /\ q.at = a + m
    BY <2>1, <2>2, <2>3, <2>4, RankBefore
  <2> HIDE DEF l, m
  <2> QED BY <2>1, <2>2, <2>5
<1>6. a <= a + n * size
  BY <1>1
<1> QED BY <1>1, <1>4, <1>5, <1>6 DEF Placed

(* Such structs as Laid builds them.                                        *)
LEMMA LaidPlaced ==
    ASSUME NEW S, NEW rank \in [S -> Nat], NEW n \in Nat, NEW size \in Nat, NEW a \in Nat,
           NEW kind,
           \A x \in S : rank[x] < n,
           \A x, y \in S : rank[x] = rank[y] => x = y,
           kind \notin PackedKinds => a % 4 = 0 /\ size % 4 = 0
    PROVE  Placed(Laid(kind, size, a, rank), a, a + n * size)
<1> DEFINE what == [x \in S |-> <<kind, x>>]
           R == Laid(kind, size, a, rank)
<1>1. \A r \in R : \E x \in S : r = Region(a + rank[x] * size, size, what[x])
  BY DEF Laid
<1>2. \A x \in S : what[x][1] = kind
  OBVIOUS
<1> HIDE DEF what, R
<1>3. Placed(R, a, a + n * size)
  BY <1>1, <1>2, RankedPlaced
<1> QED BY <1>3 DEF R

(* The indices of an array rank its elements.                               *)
LEMMA IndicesRank ==
    ASSUME NEW n \in Nat
    PROVE  /\ Indices(n) \in [1 .. n -> Nat]
           /\ \A i \in 1 .. n : Indices(n)[i] = i - 1 /\ Indices(n)[i] < n
           /\ \A i, j \in 1 .. n : Indices(n)[i] = Indices(n)[j] => i = j
BY DEF Indices

(* An array of structs.                                                     *)
LEMMA ArrayPlaced ==
    ASSUME NEW kind \in Kinds, NEW n \in Nat, NEW a \in Nat, a % 4 = 0
    PROVE  /\ Placed(ArrayOf(kind, a, n), a, a + n * SizeOf[kind])
           /\ n * SizeOf[kind] \in Nat /\ (a + n * SizeOf[kind]) % 4 = 0
<1>1. SizeOf[kind] \in Nat /\ SizeOf[kind] % 4 = 0
  BY LayoutAssumption
<1>2. Placed(ArrayOf(kind, a, n), a, a + n * SizeOf[kind])
  BY <1>1, IndicesRank, LaidPlaced DEF ArrayOf
<1> DEFINE m == n * SizeOf[kind]
<1>3. m \in Nat /\ m % 4 = 0
  BY <1>1, RankAligned
<1> HIDE DEF m
<1>4. (a + m) % 4 = 0
  BY <1>3
<1> QED BY <1>2, <1>3, <1>4 DEF m

(* A family of slices, one behind the other, is a slice.                    *)
LEMMA FamilyPlaced ==
    ASSUME NEW n \in Nat, NEW s \in [0 .. n -> Nat], NEW R,
           \A i \in 1 .. n : Placed(R[i], s[i - 1], s[i])
    PROVE  Placed(UNION {R[i] : i \in 1 .. n}, s[0], s[n])
<1> DEFINE U(k) == UNION {R[i] : i \in 1 .. k}
           T == {k \in 0 .. n : Placed(U(k), s[0], s[k])}
<1>1. 0 \in T
  <2>1. U(0) = {}
    OBVIOUS
  <2>2. s[0] \in Nat /\ s[0] <= s[0]
    OBVIOUS
  <2>3. Placed({}, s[0], s[0])
    BY <2>2, PlacedNone
  <2>4. Placed(U(0), s[0], s[0])
    BY <2>1, <2>3
  <2> HIDE DEF U
  <2> QED BY <2>4
<1>2. ASSUME NEW k \in 0 .. n - 1, k \in T PROVE k + 1 \in T
  <2>1. k + 1 \in 1 .. n /\ k + 1 - 1 = k /\ k + 1 \in 0 .. n
    OBVIOUS
  <2>2. U(k + 1) = U(k) \cup R[k + 1]
    <3>1. 1 .. (k + 1) = (1 .. k) \cup {k + 1}
      <4>1. k \in Nat
        OBVIOUS
      <4>2. \A i \in 1 .. (k + 1) : i \in 1 .. k \/ i = k + 1
        BY <4>1
      <4>3. k + 1 \in 1 .. (k + 1) /\ \A i \in 1 .. k : i \in 1 .. (k + 1)
        BY <4>1
      <4> QED BY <4>2, <4>3
    <3> QED BY <3>1
  <2>3. Placed(U(k), s[0], s[k]) /\ Placed(R[k + 1], s[k], s[k + 1])
    BY <1>2, <2>1
  <2> HIDE DEF U
  <2>4. Placed(U(k + 1), s[0], s[k + 1])
    BY <2>2, <2>3, PlacedJoin
  <2> QED BY <2>1, <2>4
<1>3. \A k \in 0 .. n - 1 : k \in T => k + 1 \in T
  BY <1>2
<1> HIDE DEF T
<1>4. 0 .. n \subseteq T
  BY <1>1, <1>3, InductionTo
<1>5. n \in T
  BY <1>4
<1> QED BY <1>5 DEF T

-----------------------------------------------------------------------------
(* Fields that wait for strings.                                            *)

(* One field of a struct that was written.                                  *)
LEMMA WaitsOne ==
    ASSUME NEW a \in Nat, NEW field, NEW s \in Strings, NEW rs, NEW r \in rs, r.at = a, r.size > 0
    PROVE  Waiting({Reg(a, field, s)}, rs) /\ \A g \in {Reg(a, field, s)} : g.field = field
<1> DEFINE g == Reg(a, field, s)
<1>1. g.at = a /\ g.field = field /\ g.string = s
  BY DEF Reg
<1> HIDE DEF g
<1>2. Waiting({g}, rs)
  BY <1>1 DEF Waiting
<1> QED BY <1>1, <1>2 DEF g

(* Structs of one size at different ranks have different addresses.         *)
LEMMA RankedApart ==
    ASSUME NEW S, NEW rank \in [S -> Nat], NEW size \in Nat, size > 0, NEW a \in Nat,
           \A x, y \in S : rank[x] = rank[y] => x = y
    PROVE  /\ \A x \in S : a + rank[x] * size \in Nat
           /\ \A x, y \in S : a + rank[x] * size = a + rank[y] * size => x = y
<1> DEFINE at(x) == a + rank[x] * size
<1>1. ASSUME NEW x \in S PROVE at(x) \in Nat
  <2> DEFINE m == rank[x] * size
  <2>1. m \in Nat
    <3>1. rank[x] \in Nat
      OBVIOUS
    <3> QED BY <3>1, RankBefore
  <2> HIDE DEF m
  <2>2. a + m \in Nat
    BY <2>1
  <2> QED BY <2>2 DEF m
<1>2. ASSUME NEW x \in S, NEW y \in S, at(x) = at(y) PROVE x = y
  <2> DEFINE l == rank[x] * size
             m == rank[y] * size
  <2>1. rank[x] \in Nat /\ rank[y] \in Nat
    OBVIOUS
  <2>2. l \in Nat /\ m \in Nat
        /\ (rank[x] < rank[y] => l + size <= m) /\ (rank[y] < rank[x] => m + size <= l)
    <3>1. l \in Nat
      BY <2>1, RankBefore
    <3>2. m \in Nat
      BY <2>1, RankBefore
    <3>3. rank[x] < rank[y] => l + size <= m
      BY <2>1, RankBefore
    <3>4. rank[y] < rank[x] => m + size <= l
      BY <2>1, RankBefore
    <3> QED BY <3>1, <3>2, <3>3, <3>4
  <2>3. a + l = a + m
    BY <1>2
  <2> HIDE DEF l, m
  <2>4. rank[x] = rank[y]
    BY <2>1, <2>2, <2>3
  <2> QED BY <2>4
<1> HIDE DEF at
<1>3. (\A x \in S : at(x) \in Nat) /\ \A x, y \in S : at(x) = at(y) => x = y
  BY <1>1, <1>2
<1> QED BY <1>3 DEF at

(* A field of each of several structs.                                      *)
LEMMA EachWaits ==
    ASSUME NEW S, NEW at, NEW field, NEW str, NEW gs, NEW rs, Each(gs, rs, S, at, field, str)
    PROVE  Waiting(gs, rs) /\ \A g \in gs : g.field = field
<1> USE DEF Each, Owned
<1>1. ASSUME NEW g \in gs
      PROVE  \E x \in S : g.at = at[x] /\ g.field = field /\ g.string = str[x]
                          /\ g = Reg(at[x], field, str[x])
  BY DEF Reg
<1>2. ASSUME NEW g \in gs
      PROVE  g.at \in Nat /\ g.string \in Strings /\ \E r \in rs : r.at = g.at /\ r.size > 0
  BY <1>1
<1>3. ASSUME NEW g \in gs, NEW h \in gs, g.at = h.at PROVE g = h
  <2>1. PICK x \in S : g.at = at[x] /\ g = Reg(at[x], field, str[x])
    BY <1>1
  <2>2. PICK y \in S : h.at = at[y] /\ h = Reg(at[y], field, str[y])
    BY <1>1
  <2>3. x = y
    BY <1>3, <2>1, <2>2
  <2> QED BY <2>1, <2>2, <2>3
<1>4. Waiting(gs, rs)
  BY <1>2, <1>3 DEF Waiting
<1> QED BY <1>1, <1>4

(* Fields of different names.                                               *)
LEMMA WaitsJoin ==
    ASSUME NEW G, NEW G2, NEW rs, Waiting(G, rs), Waiting(G2, rs),
           \A g \in G : \A h \in G2 : g.field # h.field
    PROVE  Waiting(G \cup G2, rs)
BY DEF Waiting

-----------------------------------------------------------------------------
(* Ints.                                                                    *)

(* What two stores store, together.                                         *)
LEMMA StoredJoin ==
    ASSUME NEW f, NEW g, Stored(f), Stored(g)
    PROVE  Stored(f ++ g)
BY DEF Stored, ++

(* Nothing stored.                                                          *)
LEMMA StoredNone == Stored(<< >>)
BY DEF Stored

(* A field of the header, or of another struct.                             *)
LEMMA StoredOne ==
    ASSUME NEW field, NEW v \in Int
    PROVE  Stored(HdrInt(field, v)) /\ \A a \in Nat : Stored(StructInt(a, field, v))
<1>1. ASSUME NEW a \in Nat PROVE Stored(StructInt(a, field, v))
  <2>1. \A k \in DOMAIN StructInt(a, field, v) : k = <<a, field>> /\ StructInt(a, field, v)[k] = v
    BY DEF StructInt
  <2>2. <<a, field>>[1] = a
    OBVIOUS
  <2> QED BY <2>1, <2>2 DEF Stored
<1>2. HdrInt(field, v) = StructInt(0, field, v)
  BY DEF HdrInt, StructInt
<1> QED BY <1>1, <1>2

(* One more field of the header, or of another struct.                      *)
LEMMA StoredAlso ==
    ASSUME NEW f, Stored(f), NEW field, NEW v \in Int
    PROVE  Stored(f ++ HdrInt(field, v)) /\ \A a \in Nat : Stored(f ++ StructInt(a, field, v))
BY StoredOne, StoredJoin

(* A field of each struct.                                                  *)
LEMMA StoredOver ==
    ASSUME NEW S, NEW at \in [S -> Nat], NEW v \in [S -> Int], NEW field
    PROVE  Stored(IntsOver(at, field, v))
<1> DEFINE is == IntsOver(at, field, v)
<1>1. DOMAIN is = {<<at[x], field>> : x \in S}
  BY DEF IntsOver
<1>2. ASSUME NEW k \in DOMAIN is PROVE k[1] \in Nat /\ is[k] \in Int
  <2>1. PICK x \in S : k = <<at[x], field>>
    BY <1>1
  <2>2. k[1] = at[x]
    BY <2>1
  <2>3. is[k] = v[CHOOSE y \in S : at[y] = k[1]]
    BY DEF IntsOver
  <2>4. (CHOOSE y \in S : at[y] = k[1]) \in S
    BY <2>2
  <2> QED BY <2>2, <2>3, <2>4
<1> HIDE DEF is
<1>3. Stored(is)
  BY <1>2 DEF Stored
<1> QED BY <1>3 DEF is

-----------------------------------------------------------------------------
(* A converter that fills the slice from the cursor it finds to the cursor  *)
(* it leaves, for structs of its own, keeps the invariant.                  *)
LEMMA Adds ==
    ASSUME LInv, NEW next \in Stages, NEW to, NEW rs, NEW is, NEW gs,
           Write(next, to, rs, is, gs),
           Placed(rs, pos, to), Waiting(gs, rs), Stored(is),
           next # "header", next # "done" => to % 4 = 0,
           next = "done" => <<0, "length">> \in DOMAIN is /\ is[<<0, "length">>] = to
    PROVE  LInv'
<1>1. pc' = next /\ pos' = to /\ regions' = regions \cup rs /\ ints' = is ++ ints
      /\ regs' = regs \cup gs /\ old' = old /\ baseAddr' = baseAddr
  BY DEF Write
<1>2. /\ old \in Models /\ baseAddr \in BaseAddrs /\ Placed(regions, 0, pos)
      /\ Waiting(regs, regions) /\ Stored(ints)
  BY DEF LInv
<1>3. Placed(regions \cup rs, 0, to)
  BY <1>2, PlacedJoin
<1>4. Waiting(regs \cup gs, regions \cup rs)
  <2>1. ASSUME NEW g \in regs \cup gs
        PROVE  g.at \in Nat /\ g.string \in Strings
               /\ \E r \in regions \cup rs : r.at = g.at /\ r.size > 0
    BY <1>2 DEF Waiting
  <2>2. \A g \in regs : g.at < pos
    <3> SUFFICES ASSUME NEW g \in regs PROVE g.at < pos
      OBVIOUS
    <3>1. PICK r \in regions : r.at = g.at /\ r.size > 0
      BY <1>2 DEF Waiting
    <3>2. r.at \in Nat /\ r.size \in Nat /\ r.at + r.size <= pos /\ pos \in Nat
      BY <1>2 DEF Placed
    <3> QED BY <3>1, <3>2
  <2>3. \A g \in gs : pos <= g.at
    BY DEF Waiting, Placed
  <2>4. pos \in Nat
    BY <1>2 DEF Placed
  <2>5. ASSUME NEW g \in regs \cup gs, NEW h \in regs \cup gs, g.at = h.at, g.field = h.field
        PROVE  g = h
    <3>1. g.at \in Nat
      BY <2>1
    <3>2. CASE g \in regs /\ h \in regs
      BY <1>2, <2>5, <3>2 DEF Waiting
    <3>3. CASE g \in gs /\ h \in gs
      BY <2>5, <3>3 DEF Waiting
    <3>4. CASE g \in regs /\ h \in gs
      BY <2>2, <2>3, <2>4, <2>5, <3>1, <3>4
    <3>5. CASE g \in gs /\ h \in regs
      BY <2>2, <2>3, <2>4, <2>5, <3>1, <3>5
    <3> QED BY <3>2, <3>3, <3>4, <3>5
  <2> QED BY <2>1, <2>5 DEF Waiting
<1>5. Stored(is ++ ints)
  BY <1>2, StoredJoin
<1>6. next = "done" => (is ++ ints)[<<0, "length">>] = to
  BY DEF ++
<1> QED BY <1>1, <1>2, <1>3, <1>4, <1>5, <1>6 DEF LInv

(* A converter with nothing to write keeps it.                              *)
LEMMA SkipKeeps ==
    ASSUME LInv, pc # "done", NEW next \in Stages \ {"header", "done"}, Skip(next)
    PROVE  LInv'
BY DEF LInv, Skip

-----------------------------------------------------------------------------
(* What a compiled model is made of.                                        *)
LEMMA Compiled ==
    ASSUME old \in Models
    PROVE  /\ old.name \in Strings
           /\ old.bones \in Seq([name : Strings, proctype : Int, procindex : Int])
           /\ old.attachments \in Seq(Strings) /\ old.hitboxsets \in Seq(Seq(Strings))
           /\ old.bodyparts \in Seq(Seq(Nat)) /\ old.poseparams \in Nat
           /\ old.rui \in Seq([name : Strings, parents : Nat, vertices : Nat, faces : Nat])
           /\ old.textures \in Seq(Strings) /\ old.skins \in Int \X Int /\ old.xforms \in Nat
           /\ old.bvh \in Nat
BY LayoutAssumption DEF CompiledModels

(* The state a converter starts from.                                       *)
LEMMA Before ==
    ASSUME LInv, pc # "done"
    PROVE  old \in Models /\ baseAddr \in BaseAddrs /\ pos \in Nat /\ pos % 4 = 0
BY DEF LInv, Placed

(* Sizes of structs.                                                        *)
LEMMA Sizes ==
    \A k \in Kinds : SizeOf[k] \in Nat /\ SizeOf[k] > 0 /\ SizeOf[k] % 4 = 0
<1> SUFFICES ASSUME NEW k \in Kinds
             PROVE  SizeOf[k] \in Nat /\ SizeOf[k] > 0 /\ SizeOf[k] % 4 = 0
  OBVIOUS
<1>1. SizeOf[k] \in Nat \ {0} /\ SizeOf[k] % 4 = 0
  BY LayoutAssumption
<1> QED BY <1>1

(* The structs of an array have addresses of their own.                     *)
LEMMA ArrayAddresses ==
    ASSUME NEW kind \in Kinds, NEW n \in Nat, NEW a \in Nat
    PROVE  Owned(ArrayOf(kind, a, n), 1 .. n, ElementsAt(kind, a, n))
<1> DEFINE at == ElementsAt(kind, a, n)
<1>1. SizeOf[kind] \in Nat /\ SizeOf[kind] > 0
  BY Sizes
<1> DEFINE rank == Indices(n)
           S == 1 .. n
           size == SizeOf[kind]
<1>2. rank \in [S -> Nat] /\ \A x, y \in S : rank[x] = rank[y] => x = y
  BY IndicesRank
<1>3. \A i \in S : at[i] = a + rank[i] * size
  BY IndicesRank DEF ElementsAt
<1>4. ASSUME NEW x \in S PROVE \E r \in ArrayOf(kind, a, n) : r.at = at[x] /\ r.size > 0
  <2> DEFINE r == Region(a + rank[x] * size, size, <<kind, x>>)
  <2>1. r \in ArrayOf(kind, a, n)
    BY <1>2 DEF ArrayOf, Laid
  <2>2. r.at = a + rank[x] * size /\ r.size > 0
    BY <1>1 DEF Region
  <2> QED BY <1>3, <2>1, <2>2
<1>5. at = [x \in S |-> at[x]]
  BY DEF ElementsAt
<1>6. size \in Nat /\ size > 0
  BY <1>1
<1> HIDE DEF rank, S, size
<1>7. (\A x \in S : a + rank[x] * size \in Nat)
      /\ \A x, y \in S : a + rank[x] * size = a + rank[y] * size => x = y
  BY <1>2, <1>6, RankedApart
<1>8. (\A x \in S : at[x] \in Nat) /\ (\A x, y \in S : at[x] = at[y] => x = y)
  <2>1. ASSUME NEW x \in S PROVE at[x] \in Nat
    BY <1>3, <1>7
  <2>2. ASSUME NEW x \in S, NEW y \in S, at[x] = at[y] PROVE x = y
    <3>1. a + rank[x] * size = a + rank[y] * size
      BY <1>3, <2>2
    <3> QED BY <1>7, <3>1
  <2> QED BY <2>1, <2>2
<1>9. at \in [S -> Nat]
  BY <1>5, <1>8
<1>10. \A x \in S : \E r \in ArrayOf(kind, a, n) : r.at = at[x] /\ r.size > 0
  BY <1>4
<1> HIDE DEF at
<1> QED BY <1>8, <1>9, <1>10 DEF Owned, S, at

-----------------------------------------------------------------------------
(* The converters.                                                          *)

(* The header is written first, at the front of the buffer.                 *)
LEMMA HeaderKeeps == LInv /\ WriteHeader => LInv'
<1> SUFFICES ASSUME LInv, WriteHeader PROVE LInv'
  OBVIOUS
<1> DEFINE size == SizeOf["studiohdr"]
           rs == {Region(0, size, <<"studiohdr">>)}
           gs == {Reg(0, "sznameindex", old.name), Reg(0, "surfacepropindex", ""),
                  Reg(0, "unkStringOffset", "")}
<1>1. pc = "header" /\ pos = 0 /\ old \in Models
  BY DEF WriteHeader, LInv
<1>2. size \in Nat /\ size > 0 /\ size % 4 = 0 /\ 0 + size = size
  BY Sizes DEF Kinds
<1>3. Placed(rs, pos, size)
  <2>1. 0 \in Nat /\ 0 % 4 = 0
    OBVIOUS
  <2>2. Placed(rs, 0, 0 + size)
    BY <1>2, <2>1, PlacedOne
  <2> QED BY <1>1, <1>2, <2>2
<1>4. Waiting(gs, rs)
  <2>1. old.name \in Strings /\ "" \in Strings /\ 0 \in Nat
    BY <1>1, Compiled, LayoutAssumption
  <2> DEFINE r == Region(0, size, <<"studiohdr">>)
             G == {Reg(0, "sznameindex", old.name)}
             G2 == {Reg(0, "surfacepropindex", "")}
             I == {Reg(0, "unkStringOffset", "")}
  <2>2. r \in rs /\ r.at = 0 /\ r.size > 0
    BY <1>2 DEF Region
  <2> HIDE DEF rs, r
  <2>3. Waiting(G, rs) /\ \A g \in G : g.field = "sznameindex"
    BY <2>1, <2>2, WaitsOne
  <2>4. Waiting(G2, rs) /\ \A g \in G2 : g.field = "surfacepropindex"
    BY <2>1, <2>2, WaitsOne
  <2>5. Waiting(I, rs) /\ \A g \in I : g.field = "unkStringOffset"
    BY <2>1, <2>2, WaitsOne
  <2>6. gs = G \cup G2 \cup I
    OBVIOUS
  <2> HIDE DEF gs, G, G2, I
  <2>7. Waiting(G \cup G2, rs)
    BY <2>3, <2>4, WaitsJoin
  <2>8. Waiting(G \cup G2 \cup I, rs)
    BY <2>3, <2>4, <2>5, <2>7, WaitsJoin
  <2> QED BY <2>6, <2>8
<1> DEFINE i1 == HdrInt("numbones", Len(old.bones))
           i2 == i1 ++ HdrInt("numhitboxsets", Len(old.hitboxsets))
           i3 == i2 ++ HdrInt("numtextures", Len(old.textures))
           i4 == i3 ++ HdrInt("numbodyparts", Len(old.bodyparts))
           i5 == i4 ++ HdrInt("numlocalattachments", Len(old.attachments))
           i6 == i5 ++ HdrInt("bvhOffset", 0)
           i7 == i6 ++ HdrInt("uiPanelCount", 0)
           i8 == i7 ++ HdrInt("procBoneCount", 0)
           i9 == i8 ++ HdrInt("linearboneindex", 0)
           i10 == i9 ++ HdrInt("length", 0)
<1>5. Stored(i10)
  <2>1. /\ Len(old.bones) \in Int /\ Len(old.hitboxsets) \in Int /\ Len(old.textures) \in Int
        /\ Len(old.bodyparts) \in Int /\ Len(old.attachments) \in Int /\ 0 \in Int
    BY <1>1, Compiled
  <2>2. Stored(i1)
    BY <2>1, StoredOne
  <2>3. Stored(i2)
    BY <2>1, <2>2, StoredAlso
  <2>4. Stored(i3)
    BY <2>1, <2>3, StoredAlso
  <2>5. Stored(i4)
    BY <2>1, <2>4, StoredAlso
  <2>6. Stored(i5)
    BY <2>1, <2>5, StoredAlso
  <2>7. Stored(i6)
    BY <2>1, <2>6, StoredAlso
  <2>8. Stored(i7)
    BY <2>1, <2>7, StoredAlso
  <2>9. Stored(i8)
    BY <2>1, <2>8, StoredAlso
  <2>10. Stored(i9)
    BY <2>1, <2>9, StoredAlso
  <2>11. Stored(i10)
    BY <2>1, <2>10, StoredAlso
  <2> QED BY <2>11
<1>6. Write("bones", size, rs, i10, gs)
  BY DEF WriteHeader
<1> HIDE DEF size, rs, gs, i10
<1> QED BY <1>2, <1>3, <1>4, <1>5, <1>6, Adds DEF Stages

(* An array, and the cursor aligned behind it.                              *)
LEMMA ArraySlice ==
    ASSUME baseAddr \in BaseAddrs, NEW kind \in Kinds, NEW n \in Nat, NEW a \in Nat, a % 4 = 0
    PROVE  /\ Placed(ArrayOf(kind, a, n), a, AlignData(a + n * SizeOf[kind], 4))
           /\ AlignData(a + n * SizeOf[kind], 4) \in Nat
           /\ AlignData(a + n * SizeOf[kind], 4) % 4 = 0
           /\ a + n * SizeOf[kind] <= AlignData(a + n * SizeOf[kind], 4)
<1> DEFINE e == a + n * SizeOf[kind]
<1>1. Placed(ArrayOf(kind, a, n), a, e) /\ e \in Nat
  BY ArrayPlaced DEF Placed
<1> HIDE DEF e
<1>2. AlignData(e, 4) \in Nat /\ e <= AlignData(e, 4) /\ AlignData(e, 4) % 4 = 0
  BY <1>1, AlignedUp
<1>3. Placed(ArrayOf(kind, a, n), a, AlignData(e, 4))
  BY <1>1, <1>2, PlacedTo
<1> QED BY <1>2, <1>3 DEF e

(* The attachments.                                                         *)
LEMMA AttachmentsKeeps == LInv /\ ConvertAttachments => LInv'
<1> SUFFICES ASSUME LInv, ConvertAttachments PROVE LInv'
  OBVIOUS
<1> DEFINE n == Len(old.attachments)
           Att == ElementsAt("attachment", pos, n)
           to == AlignData(pos + n * SizeOf["attachment"], 4)
           rs == ArrayOf("attachment", pos, n)
           is == HdrInt("localattachmentindex", pos)
           gs == {Reg(Att[i], "sznameindex", old.attachments[i]) : i \in 1 .. n}
<1>1. /\ pc = "attachments" /\ old \in Models /\ baseAddr \in BaseAddrs /\ pos \in Nat
      /\ pos % 4 = 0
  BY Before DEF ConvertAttachments
<1>2. n \in Nat /\ old.attachments \in [1 .. n -> Strings]
  BY <1>1, Compiled
<1>3. Placed(rs, pos, to) /\ to % 4 = 0
  BY <1>1, <1>2, ArraySlice DEF Kinds
<1>4. Waiting(gs, rs)
  <2>1. Owned(rs, 1 .. n, Att)
    BY <1>1, <1>2, ArrayAddresses DEF Kinds
  <2> HIDE DEF Att
  <2>2. Each(gs, rs, 1 .. n, Att, "sznameindex", old.attachments)
    BY <1>2, <2>1 DEF Each
  <2> QED BY <2>2, EachWaits
<1>5. Stored(is)
  BY <1>1, StoredOne
<1>6. Skip("hitboxes") \/ Write("hitboxes", to, rs, is, gs)
  BY DEF ConvertAttachments
<1> HIDE DEF n, to, rs, is, gs
<1>7. "hitboxes" \in Stages \ {"header", "done"}
  BY DEF Stages
<1> QED BY <1>1, <1>3, <1>4, <1>5, <1>6, <1>7, Adds, SkipKeeps

(* The table of bones by name.                                              *)
LEMMA BoneByNameKeeps == LInv /\ ConvertBoneByName => LInv'
<1> SUFFICES ASSUME LInv, ConvertBoneByName PROVE LInv'
  OBVIOUS
<1> DEFINE n == Len(old.bones)
           to == AlignData(pos + n, 4)
           rs == {Region(pos, n, <<"bonetablebyname">>)}
           is == HdrInt("bonetablebynameindex", pos)
<1>1. /\ pc = "bonebyname" /\ old \in Models /\ baseAddr \in BaseAddrs /\ pos \in Nat
      /\ pos % 4 = 0
  BY Before DEF ConvertBoneByName
<1>2. n \in Nat /\ pos + n \in Nat
  BY <1>1, Compiled
<1>3. to \in Nat /\ pos + n <= to /\ to % 4 = 0
  BY <1>1, <1>2, AlignedUp
<1>4. Placed(rs, pos, pos + n)
  BY <1>1, <1>2, PlacedOne
<1>5. Waiting({}, rs) /\ Stored(is)
  BY <1>1, StoredOne DEF Waiting
<1>6. Write("sequence", to, rs, is, {})
  BY DEF ConvertBoneByName
<1>7. "sequence" \in Stages
  BY DEF Stages
<1> HIDE DEF n, to, rs, is
<1>8. Placed(rs, pos, to)
  BY <1>1, <1>2, <1>3, <1>4, PlacedTo
<1> QED BY <1>3, <1>5, <1>6, <1>7, <1>8, Adds

(* The pose parameters.                                                     *)
LEMMA PoseParamsKeeps == LInv /\ ConvertPoseParams => LInv'
<1> SUFFICES ASSUME LInv, ConvertPoseParams PROVE LInv'
  OBVIOUS
<1> DEFINE n == old.poseparams
           Pose == ElementsAt("poseparam", pos, n)
           to == IF n = 0 THEN pos ELSE AlignData(pos + n * SizeOf["poseparam"], 4)
           rs == ArrayOf("poseparam", pos, n)
           i1 == HdrInt("ikchainindex", to) ++ HdrInt("numlocalposeparameters", n)
           i2 == IF n = 0 THEN << >> ELSE HdrInt("localposeparamindex", pos)
           gs == {Reg(Pose[i], "sznameindex", "pose") : i \in 1 .. n}
<1>1. /\ pc = "poseparams" /\ old \in Models /\ baseAddr \in BaseAddrs /\ pos \in Nat
      /\ pos % 4 = 0
  BY Before DEF ConvertPoseParams
<1>2. n \in Nat
  BY <1>1, Compiled
<1>3. Placed(rs, pos, to) /\ to % 4 = 0 /\ to \in Nat
  <2>1. CASE n = 0
    <3>1. rs = {}
      BY <2>1 DEF ArrayOf, Laid, Indices
    <3> QED BY <1>1, <2>1, <3>1, PlacedNone
  <2>2. CASE n # 0
    BY <1>1, <1>2, <2>2, ArraySlice DEF Kinds
  <2> QED BY <2>1, <2>2
<1>4. Waiting(gs, rs)
  <2> DEFINE str == [i \in 1 .. n |-> "pose"]
  <2>1. str \in [1 .. n -> Strings]
    BY LayoutAssumption
  <2>2. Owned(rs, 1 .. n, Pose)
    BY <1>1, <1>2, ArrayAddresses DEF Kinds
  <2> HIDE DEF Pose
  <2>3. \A g \in gs : \E i \in 1 .. n : g = Reg(Pose[i], "sznameindex", str[i])
    OBVIOUS
  <2>4. Each(gs, rs, 1 .. n, Pose, "sznameindex", str)
    BY <2>1, <2>2, <2>3 DEF Each
  <2> QED BY <2>4, EachWaits
<1>5. Stored(i1 ++ i2)
  <2> HIDE DEF to
  <2>1. Stored(HdrInt("ikchainindex", to))
    BY <1>3, StoredOne
  <2>2. Stored(i1)
    BY <1>2, <2>1, StoredAlso
  <2>3. Stored(i2)
    BY <1>1, StoredOne, StoredNone
  <2> QED BY <2>2, <2>3, StoredJoin
<1>6. Write("rui", to, rs, i1 ++ i2, gs)
  BY DEF ConvertPoseParams
<1> HIDE DEF n, to, rs, i1, i2, gs
<1>7. "rui" \in Stages
  BY DEF Stages
<1> QED BY <1>1, <1>3, <1>4, <1>5, <1>6, <1>7, Adds

(* The source bone transforms.                                              *)
LEMMA SrcBoneTransformsKeeps == LInv /\ ConvertSrcBoneTransforms => LInv'
<1> SUFFICES ASSUME LInv, ConvertSrcBoneTransforms PROVE LInv'
  OBVIOUS
<1> DEFINE n == old.xforms
           Xform == ElementsAt("srcbonetransform", pos, n)
           to == AlignData(pos + n * SizeOf["srcbonetransform"], 4)
           rs == ArrayOf("srcbonetransform", pos, n)
           is == HdrInt("numsrcbonetransform", n) ++ HdrInt("srcbonetransformindex", pos)
           gs == {Reg(Xform[i], "sznameindex", "bone") : i \in 1 .. n}
<1>1. /\ pc = "xforms" /\ old \in Models /\ baseAddr \in BaseAddrs /\ pos \in Nat
      /\ pos % 4 = 0
  BY Before DEF ConvertSrcBoneTransforms
<1>2. n \in Nat
  BY <1>1, Compiled
<1>3. Placed(rs, pos, to) /\ to % 4 = 0 /\ to \in Nat
  BY <1>1, <1>2, ArraySlice DEF Kinds
<1>4. Waiting(gs, rs)
  <2> DEFINE str == [i \in 1 .. n |-> "bone"]
  <2>1. str \in [1 .. n -> Strings]
    BY LayoutAssumption
  <2>2. Owned(rs, 1 .. n, Xform)
    BY <1>1, <1>2, ArrayAddresses DEF Kinds
  <2> HIDE DEF Xform
  <2>3. \A g \in gs : \E i \in 1 .. n : g = Reg(Xform[i], "sznameindex", str[i])
    OBVIOUS
  <2>4. Each(gs, rs, 1 .. n, Xform, "sznameindex", str)
    BY <2>1, <2>2, <2>3 DEF Each
  <2> QED BY <2>4, EachWaits
<1>5. Stored(is)
  <2>1. Stored(HdrInt("numsrcbonetransform", n))
    BY <1>2, StoredOne
  <2> QED BY <1>1, <2>1, StoredAlso
<1>6. Skip("linearbones") \/ Write("linearbones", to, rs, is, gs)
  BY DEF ConvertSrcBoneTransforms
<1> HIDE DEF n, to, rs, is, gs
<1>7. "linearbones" \in Stages \ {"header", "done"}
  BY DEF Stages
<1> QED BY <1>1, <1>3, <1>4, <1>5, <1>6, <1>7, Adds, SkipKeeps

(* The key values.                                                          *)
LEMMA KeyValuesKeeps == LInv /\ WriteKeyValues => LInv'
<1> SUFFICES ASSUME LInv, WriteKeyValues PROVE LInv'
  OBVIOUS
<1> DEFINE padded == 2 * ((KeyValueLen + 1) \div 2)
           to == AlignData(pos + padded, 4)
           rs == {Region(pos, padded, <<"keyvalues">>)}
           is == HdrInt("keyvalueindex", pos) ++ HdrInt("keyvaluesize", padded)
<1>1. /\ pc = "keyvalues" /\ old \in Models /\ baseAddr \in BaseAddrs /\ pos \in Nat
      /\ pos % 4 = 0
  BY Before DEF WriteKeyValues
<1>2. padded \in Nat
  BY DEF KeyValueLen
<1>3. Write("xforms", to, rs, is, {})
  BY DEF WriteKeyValues
<1> HIDE DEF padded
<1>4. pos + padded \in Nat
  BY <1>1, <1>2
<1>5. to \in Nat /\ pos + padded <= to /\ to % 4 = 0
  BY <1>1, <1>4, AlignedUp
<1>6. Placed(rs, pos, pos + padded)
  BY <1>1, <1>2, PlacedOne
<1>7. Stored(is)
  <2>1. Stored(HdrInt("keyvalueindex", pos))
    BY <1>1, StoredOne
  <2> QED BY <1>2, <2>1, StoredAlso
<1>8. Waiting({}, rs)
  BY DEF Waiting
<1>9. "xforms" \in Stages
  BY DEF Stages
<1> HIDE DEF to, rs, is
<1>10. Placed(rs, pos, to)
  BY <1>1, <1>5, <1>6, PlacedTo
<1> QED BY <1>3, <1>5, <1>7, <1>8, <1>9, <1>10, Adds

(* The default sequence and its animation.                                  *)
LEMMA SequenceKeeps == LInv /\ WriteDefaultSequence => LInv'
<1> SUFFICES ASSUME LInv, WriteDefaultSequence PROVE LInv'
  OBVIOUS
<1> DEFINE n == Len(old.bones)
           s == SizeOf["seqdesc"]
           w == 4 * n
           d == SizeOf["animdesc"]
           weights == pos + s
           blend == weights + w
           anim == blend + 4
           to == AlignData(anim + d, 4)
           R == {Region(pos, s, <<"seqdesc">>)}
           W == {Region(weights, w, <<"weightlist">>)}
           B == {Region(blend, 4, <<"blends">>)}
           A == {Region(anim, d, <<"animdesc">>)}
           rs == R \cup W \cup B \cup A
           G == {Reg(pos, "szlabelindex", "@ref")}
           G2 == {Reg(pos, "szactivitynameindex", "")}
           I == {Reg(anim, "sznameindex", "")}
           gs == G \cup G2 \cup I
           i1 == HdrInt("localseqindex", pos) ++ HdrInt("numlocalseq", 1)
           i2 == i1 ++ StructInt(pos, "weightlistindex", s)
           i3 == i2 ++ StructInt(pos, "animindexindex", blend - pos)
           i4 == i3 ++ StructInt(blend, "blend", (blend - pos) + 4)
           i5 == i4 ++ StructInt(pos, "unused0", anim + d - pos)
<1>1. /\ pc = "sequence" /\ old \in Models /\ baseAddr \in BaseAddrs /\ pos \in Nat
      /\ pos % 4 = 0
  BY Before DEF WriteDefaultSequence
<1>2. n \in Nat
  BY <1>1, Compiled
<1>3. s \in Nat /\ s > 0 /\ s % 4 = 0 /\ d \in Nat /\ d > 0 /\ w \in Nat /\ w % 4 = 0
  <2>1. s \in Nat /\ s > 0 /\ s % 4 = 0 /\ d \in Nat /\ d > 0
    BY Sizes DEF Kinds
  <2> HIDE DEF n
  <2>2. w \in Nat /\ w % 4 = 0
    BY <1>2
  <2> QED BY <2>1, <2>2
<1>4. /\ weights \in Nat /\ weights % 4 = 0 /\ blend \in Nat /\ blend % 4 = 0
      /\ anim \in Nat /\ anim % 4 = 0 /\ anim + d \in Nat
  <2> HIDE DEF s, w, d
  <2>1. weights \in Nat /\ weights % 4 = 0
    BY <1>1, <1>3
  <2>2. blend \in Nat /\ blend % 4 = 0
    <3> HIDE DEF weights
    <3> QED BY <1>3, <2>1
  <2>3. anim \in Nat /\ anim % 4 = 0
    <3> HIDE DEF blend
    <3> QED BY <2>2
  <2> QED BY <1>3, <2>1, <2>2, <2>3
<1>5. to \in Nat /\ anim + d <= to /\ to % 4 = 0
  <2> HIDE DEF anim, d
  <2> QED BY <1>1, <1>4, AlignedUp
<1>6. Write("bodyparts", to, rs, i5, gs)
  <2>1. rs = {Region(pos, s, <<"seqdesc">>), Region(weights, w, <<"weightlist">>),
              Region(blend, 4, <<"blends">>), Region(anim, d, <<"animdesc">>)}
    OBVIOUS
  <2>2. gs = {Reg(pos, "szlabelindex", "@ref"), Reg(pos, "szactivitynameindex", ""),
              Reg(anim, "sznameindex", "")}
    OBVIOUS
  <2> HIDE DEF rs, gs
  <2> QED BY <2>1, <2>2 DEF WriteDefaultSequence
<1>7. Stored(i5)
  <2> HIDE DEF blend, anim, s, d
  <2>1. Stored(HdrInt("localseqindex", pos))
    BY <1>1, StoredOne
  <2>2. Stored(i1)
    BY <2>1, StoredAlso
  <2>3. Stored(i2)
    <3>1. s \in Int
      BY <1>3
    <3> QED BY <1>1, <2>2, <3>1, StoredAlso
  <2>4. Stored(i3)
    <3>1. blend - pos \in Int
      BY <1>1, <1>4
    <3> QED BY <1>1, <2>3, <3>1, StoredAlso
  <2>5. Stored(i4)
    <3>1. (blend - pos) + 4 \in Int
      BY <1>1, <1>4
    <3> QED BY <1>4, <2>4, <3>1, StoredAlso
  <2> QED
    <3>1. anim + d - pos \in Int
      BY <1>1, <1>3, <1>4
    <3> QED BY <1>1, <2>5, <3>1, StoredAlso
<1>8. Placed(R, pos, weights) /\ Placed(W, weights, blend) /\ Placed(B, blend, anim)
      /\ Placed(A, anim, anim + d)
  <2> HIDE DEF s, w, d
  <2>1. Placed(R, pos, weights)
    BY <1>1, <1>3, PlacedOne
  <2>2. Placed(W, weights, blend)
    <3> HIDE DEF weights
    <3> QED BY <1>3, <1>4, PlacedOne
  <2>3. Placed(B, blend, anim)
    <3> HIDE DEF blend
    <3> QED BY <1>4, PlacedOne
  <2>4. Placed(A, anim, anim + d)
    <3> HIDE DEF anim
    <3> QED BY <1>3, <1>4, PlacedOne
  <2> QED BY <2>1, <2>2, <2>3, <2>4
<1>9. \E r \in R : r.at = pos /\ r.size > 0
  BY <1>3 DEF Region
<1>10. \E r \in A : r.at = anim /\ r.size > 0
  BY <1>3 DEF Region
<1> HIDE DEF s, w, d, weights, blend, anim, R, W, B, A, to, i5
<1>11. Placed(rs, pos, to)
  <2>1. Placed(R \cup W, pos, blend)
    BY <1>8, PlacedJoin
  <2>2. Placed(R \cup W \cup B, pos, anim)
    BY <1>8, <2>1, PlacedJoin
  <2>3. Placed(rs, pos, anim + d)
    BY <1>8, <2>2, PlacedJoin
  <2> HIDE DEF rs
  <2> QED BY <1>5, <2>3, PlacedTo
<1>12. Waiting(gs, rs)
  <2>1. "@ref" \in Strings /\ "" \in Strings
    BY LayoutAssumption
  <2>2. PICK r \in rs : r.at = pos /\ r.size > 0
    BY <1>9
  <2>3. PICK q \in rs : q.at = anim /\ q.size > 0
    BY <1>10
  <2> HIDE DEF rs
  <2>4. Waiting(G, rs) /\ \A g \in G : g.field = "szlabelindex"
    BY <1>1, <2>1, <2>2, WaitsOne
  <2>5. Waiting(G2, rs) /\ \A g \in G2 : g.field = "szactivitynameindex"
    BY <1>1, <2>1, <2>2, WaitsOne
  <2>6. Waiting(I, rs) /\ \A g \in I : g.field = "sznameindex"
    BY <1>4, <2>1, <2>3, WaitsOne
  <2> HIDE DEF G, G2, I
  <2>7. Waiting(G \cup G2, rs)
    BY <2>4, <2>5, WaitsJoin
  <2> QED BY <2>4, <2>5, <2>6, <2>7, WaitsJoin
<1>13. "bodyparts" \in Stages
  BY DEF Stages
<1> HIDE DEF rs, gs
<1> QED BY <1>5, <1>6, <1>7, <1>11, <1>12, <1>13, Adds

(* The textures, their material types and the cdtexture.                    *)
LEMMA TexturesKeeps == LInv /\ ConvertTextures => LInv'
<1> SUFFICES ASSUME LInv, ConvertTextures PROVE LInv'
  OBVIOUS
<1> DEFINE n == Len(old.textures)
           end == pos + n * SizeOf["texture"]
           types == AlignData(end, 4)
           cd == AlignData(types + n, 4)
           T == ArrayOf("texture", pos, n)
           Y == {Region(types, n, <<"materialtypes">>)}
           C == {Region(cd, 4, <<"cdtexture">>)}
           rs == T \cup Y \cup C
           G == TextureNames(pos)
           G2 == {Reg(cd, "cdtexture", "")}
           i1 == HdrInt("textureindex", pos) ++ HdrInt("materialtypesindex", types)
           i2 == i1 ++ HdrInt("cdtextureindex", cd)
           i3 == i2 ++ HdrInt("numcdtextures", 1)
<1>1. /\ pc = "textures" /\ old \in Models /\ baseAddr \in BaseAddrs /\ pos \in Nat
      /\ pos % 4 = 0
  BY Before DEF ConvertTextures
<1>2. n \in Nat /\ old.textures \in [1 .. n -> Strings]
  BY <1>1, Compiled
<1>3. Write("skins", cd + 4, rs, i3, G \cup G2)
  <2>1. rs = T \cup {Region(types, n, <<"materialtypes">>), Region(cd, 4, <<"cdtexture">>)}
    OBVIOUS
  <2> HIDE DEF rs
  <2> QED BY <2>1 DEF ConvertTextures
<1>4. Placed(T, pos, types) /\ types \in Nat /\ types % 4 = 0
  BY <1>1, <1>2, ArraySlice DEF Kinds
<1>5. Owned(T, 1 .. n, ElementsAt("texture", pos, n))
  BY <1>1, <1>2, ArrayAddresses DEF Kinds
<1>6. \A g \in G : \E i \in 1 .. n :
          g = Reg(ElementsAt("texture", pos, n)[i], "sznameindex", old.textures[i])
  BY DEF TextureNames
<1> HIDE DEF n, end, types, T, G
<1>7. types + n \in Nat
  BY <1>2, <1>4
<1>8. cd \in Nat /\ types + n <= cd /\ cd % 4 = 0
  BY <1>1, <1>7, AlignedUp
<1>9. Placed(Y, types, cd)
  <2>1. Placed(Y, types, types + n)
    BY <1>2, <1>4, PlacedOne
  <2> HIDE DEF Y, cd
  <2> QED BY <1>8, <2>1, PlacedTo
<1>10. Placed(C, cd, cd + 4) /\ \E r \in C : r.at = cd /\ r.size > 0
  <2> HIDE DEF cd
  <2>1. Placed(C, cd, cd + 4)
    BY <1>8, PlacedOne
  <2> QED BY <2>1 DEF Region
<1>11. (cd + 4) % 4 = 0
  <2> HIDE DEF cd
  <2> QED BY <1>8
<1> HIDE DEF cd, Y, C
<1>12. Placed(rs, pos, cd + 4)
  <2>1. Placed(T \cup Y, pos, cd)
    BY <1>4, <1>9, PlacedJoin
  <2> QED BY <1>10, <2>1, PlacedJoin
<1>13. Waiting(G \cup G2, rs)
  <2>1. Each(G, rs, 1 .. n, ElementsAt("texture", pos, n), "sznameindex", old.textures)
    <3>1. Owned(rs, 1 .. n, ElementsAt("texture", pos, n))
      BY <1>5 DEF Owned
    <3> QED BY <1>2, <1>6, <3>1 DEF Each
  <2>2. Waiting(G, rs) /\ \A g \in G : g.field = "sznameindex"
    BY <2>1, EachWaits
  <2>3. Waiting(G2, rs) /\ \A g \in G2 : g.field = "cdtexture"
    <3>1. "" \in Strings
      BY LayoutAssumption
    <3>2. PICK r \in rs : r.at = cd /\ r.size > 0
      BY <1>10
    <3> HIDE DEF rs
    <3> QED BY <1>8, <3>1, <3>2, WaitsOne
  <2> HIDE DEF G2, rs
  <2> QED BY <2>2, <2>3, WaitsJoin
<1>14. Stored(i3)
  <2>1. Stored(HdrInt("textureindex", pos))
    BY <1>1, StoredOne
  <2>2. Stored(i1)
    BY <1>4, <2>1, StoredAlso
  <2>3. Stored(i2)
    BY <1>8, <2>2, StoredAlso
  <2> QED BY <2>3, StoredAlso
<1>15. "skins" \in Stages
  BY DEF Stages
<1> HIDE DEF G2, rs, i3
<1> QED BY <1>3, <1>11, <1>12, <1>13, <1>14, <1>15, Adds

(* The skin table and the names of the families.                            *)
LEMMA SkinsKeeps == LInv /\ ConvertSkins => LInv'
<1> SUFFICES ASSUME LInv, ConvertSkins PROVE LInv'
  OBVIOUS
<1> DEFINE ref == old.skins[1]
           fam == old.skins[2]
           bytes == 2 * ref * fam
           names == AlignData(pos + bytes, 4)
           end == SkinNamesEnd(names, fam)
           to == AlignData(end, 4)
           K == {Region(pos, bytes, <<"skins">>)}
           N == Laid("skinname", 4, names, Indices(fam - 1))
           gs == {Reg(names + (i - 1) * 4, "skinname", "skin") : i \in 1 .. (fam - 1)}
           i1 == HdrInt("skinindex", pos) ++ HdrInt("numskinref", ref)
           i2 == i1 ++ HdrInt("numskinfamilies", fam)
<1>1. /\ pc = "skins" /\ old \in Models /\ baseAddr \in BaseAddrs /\ pos \in Nat
      /\ pos % 4 = 0
  BY Before DEF ConvertSkins
<1>2. "keyvalues" \in Stages \ {"header", "done"}
  BY DEF Stages
<1>3. CASE Skip("keyvalues")
  BY <1>1, <1>2, <1>3, SkipKeeps
<1>4. CASE ~(ref <= 0 \/ fam <= 0)
  <2>1. ref \in Nat /\ fam \in Nat /\ fam >= 1
    <3>1. old.skins \in Int \X Int
      BY <1>1, Compiled
    <3> QED BY <1>4, <3>1
  <2>2. bytes \in Nat
    BY <2>1
  <2>3. Write("keyvalues", to, K \cup N, i2, gs)
    BY <1>4 DEF ConvertSkins
  <2> HIDE DEF bytes
  <2>4. pos + bytes \in Nat
    BY <1>1, <2>2
  <2>5. names \in Nat /\ pos + bytes <= names /\ names % 4 = 0
    BY <1>1, <2>4, AlignedUp
  <2>6. Placed(K, pos, names)
    <3>1. Placed(K, pos, pos + bytes)
      BY <1>1, <2>2, PlacedOne
    <3> HIDE DEF K, names
    <3> QED BY <2>5, <3>1, PlacedTo
  <2> HIDE DEF names, K
  <2>7. fam - 1 \in Nat /\ end = names + (fam - 1) * 4 /\ end \in Nat
    BY <2>1, <2>5 DEF SkinNamesEnd
  <2>8. Placed(N, names, end)
    <3> DEFINE m == fam - 1
               rank == Indices(m)
    <3>1. /\ rank \in [1 .. m -> Nat] /\ \A i \in 1 .. m : rank[i] < m
          /\ \A i, j \in 1 .. m : rank[i] = rank[j] => i = j
      BY <2>7, IndicesRank
    <3> HIDE DEF rank, m, end
    <3>2. 4 \in Nat /\ 4 % 4 = 0 /\ m \in Nat
      BY <2>7 DEF m
    <3>3. N = Laid("skinname", 4, names, rank)
      BY DEF rank, m
    <3>4. Placed(N, names, names + m * 4)
      BY <2>5, <3>1, <3>2, <3>3, LaidPlaced
    <3> QED BY <2>7, <3>4 DEF m
  <2>9. to \in Nat /\ end <= to /\ to % 4 = 0
    <3> HIDE DEF end
    <3> QED BY <1>1, <2>7, AlignedUp
  <2>10. Waiting(gs, K \cup N)
    <3> DEFINE S == 1 .. (fam - 1)
               at == [i \in S |-> names + (i - 1) * 4]
               str == [i \in S |-> "skin"]
    <3>1. at \in [S -> Nat] /\ (\A x, y \in S : at[x] = at[y] => x = y)
      <4>1. \A x \in S : x \in Nat /\ x >= 1
        BY <2>7
      <4>2. \A x \in S : at[x] = names + (x - 1) * 4
        OBVIOUS
      <4>3. at = [x \in S |-> at[x]]
        OBVIOUS
      <4>4. names \in Nat
        BY <2>5
      <4> HIDE DEF at, S
      <4> QED
        BY <4>1, <4>2, <4>3, <4>4
    <3>2. str \in [S -> Strings]
      BY LayoutAssumption
    <3>3. \A x \in S : \E r \in N : r.at = at[x] /\ r.size > 0
      <4> TAKE x \in S
      <4> DEFINE r == Region(names + Indices(fam - 1)[x] * 4, 4, <<"skinname", x>>)
      <4>1. r \in N /\ Indices(fam - 1)[x] = x - 1
        BY DEF Laid, Indices
      <4> QED BY <4>1 DEF Region
    <3>4. \A g \in gs : \E x \in S : g = Reg(at[x], "skinname", str[x])
      OBVIOUS
    <3> HIDE DEF S, at, str, gs, N
    <3>5. Owned(K \cup N, S, at)
      BY <3>1, <3>3 DEF Owned
    <3>6. Each(gs, K \cup N, S, at, "skinname", str)
      BY <3>2, <3>4, <3>5 DEF Each
    <3> QED BY <3>6, EachWaits
  <2>11. Stored(i2)
    <3>1. Stored(HdrInt("skinindex", pos))
      BY <1>1, StoredOne
    <3>2. Stored(i1)
      BY <2>1, <3>1, StoredAlso
    <3> QED BY <2>1, <3>2, StoredAlso
  <2> HIDE DEF end, to, N, gs, i2
  <2>12. Placed(K \cup N, pos, end)
    BY <2>6, <2>8, PlacedJoin
  <2>13. Placed(K \cup N, pos, to)
    BY <2>9, <2>12, PlacedTo
  <2> QED BY <1>2, <2>3, <2>9, <2>10, <2>11, <2>13, Adds
<1> QED BY <1>3, <1>4 DEF ConvertSkins

(* The arrays of the linear bones, as multiples of the number of bones, do   *)
(* not overlap.                                                             *)
LEMMA LinearApart ==
    /\ \A a \in LinearArrays : /\ LinearElem[a] \in Nat /\ LinearBefore[a] \in Nat
                               /\ LinearBefore[a] % 4 = 0
                               /\ LinearBefore[a] + LinearElem[a] <= 96
    /\ \A a, b \in LinearArrays : a # b =>
          \/ LinearBefore[a] + LinearElem[a] <= LinearBefore[b]
          \/ LinearBefore[b] + LinearElem[b] <= LinearBefore[a]
<1>1. LinearArrays = {"flagsindex", "parentindex", "posindex", "quatindex", "rotindex",
                      "posetoboneindex"}
  BY DEF LinearArrays, LinearElem
<1> QED BY <1>1 DEF LinearElem, LinearBefore

(* A bound on a sum of two is a bound on the sum of the multiples.          *)
LEMMA Multiples ==
    ASSUME NEW n \in Nat, NEW a \in Nat, NEW b \in Nat, NEW c \in Nat, a + b <= c
    PROVE  n * a \in Nat /\ n * b \in Nat /\ n * c \in Nat /\ n * a + n * b <= n * c
<1>1. PICK d \in Nat : c = a + b + d
  <2>1. c - (a + b) \in Nat /\ c = a + b + (c - (a + b))
    OBVIOUS
  <2> QED BY <2>1
<1>2. n * c = n * a + n * b + n * d /\ n * a \in Nat /\ n * b \in Nat /\ n * d \in Nat
  BY <1>1
<1> QED BY <1>2

(* The linear bones: the new header and the arrays copied behind it.        *)
LEMMA LinearBonesKeeps == LInv /\ ConvertLinearBones => LInv'
<1> SUFFICES ASSUME LInv, ConvertLinearBones PROVE LInv'
  OBVIOUS
<1> DEFINE n == Len(old.bones)
           h == SizeOf["linearbone"]
           o == SizeOf["oldlinearbone"]
           data == pos + h
           end == data + (OldLinearIndex("posetoboneindex") + n * 48) - IndexAdjust
           to == AlignData(end, 4)
           B == {Region(pos, h, <<"linearbone">>)}
           A == {Region(data + OldLinearIndex(a) - o, n * LinearElem[a], <<"linear", a>>) :
                    a \in LinearArrays}
           ix == [k \in {pos} \X LinearArrays |-> NewLinearIndex(k[2])]
           is == HdrInt("linearboneindex", pos) ++ ix
<1>1. /\ pc = "linearbones" /\ old \in Models /\ baseAddr \in BaseAddrs /\ pos \in Nat
      /\ pos % 4 = 0
  BY Before DEF ConvertLinearBones
<1>2. n \in Nat
  BY <1>1, Compiled
<1>3. h \in Nat /\ h % 4 = 0 /\ o \in Nat
  BY Sizes DEF Kinds
<1>4. Skip("strings") \/ Write("strings", to, B \cup A, is, {})
  BY DEF ConvertLinearBones
<1>5. "strings" \in Stages \ {"header", "done"}
  BY DEF Stages
<1>6. data \in Nat /\ data % 4 = 0
  <2> HIDE DEF h
  <2> QED BY <1>1, <1>3
<1>7. /\ \A a \in LinearArrays : OldLinearIndex(a) = o + n * LinearBefore[a]
      /\ IndexAdjust = o - h
      /\ "posetoboneindex" \in LinearArrays /\ LinearBefore["posetoboneindex"] = 48
  BY DEF OldLinearIndex, IndexAdjust, LinearArrays, LinearElem, LinearBefore
<1>8. end \in Nat /\ data + n * 96 <= end /\ n * 96 \in Nat
  <2>1. end = data + ((o + n * 48) + n * 48) - (o - h)
    BY <1>7
  <2> HIDE DEF end, data, o, h, n
  <2> QED BY <1>2, <1>3, <1>6, <2>1
<1>9. to \in Nat /\ end <= to /\ to % 4 = 0
  <2> HIDE DEF end
  <2> QED BY <1>1, <1>8, AlignedUp
<1>10. Placed(B, pos, data)
  <2> HIDE DEF h
  <2> QED BY <1>1, <1>3, PlacedOne
<1>11. ASSUME NEW r \in A
       PROVE  \E a \in LinearArrays : /\ r = Region(data + n * LinearBefore[a], n * LinearElem[a], <<"linear", a>>)
                                      /\ r.at = data + n * LinearBefore[a]
                                      /\ r.size = n * LinearElem[a]
  <2>1. PICK a \in LinearArrays :
            r = Region(data + OldLinearIndex(a) - o, n * LinearElem[a], <<"linear", a>>)
    OBVIOUS
  <2> DEFINE m == n * LinearBefore[a]
  <2>2. m \in Nat
    BY <1>2, LinearApart, RankAligned
  <2>3. data + OldLinearIndex(a) - o = data + m
    <3>1. OldLinearIndex(a) = o + m
      BY <1>7
    <3> HIDE DEF m, data, o
    <3> QED BY <1>3, <1>6, <2>2, <3>1
  <2> QED BY <2>1, <2>3 DEF Region
<1> HIDE DEF data, h, o, end, A, B
<1>12. ASSUME NEW r \in A
       PROVE  /\ r.at \in Nat /\ r.size \in Nat /\ data <= r.at /\ r.at + r.size <= end
              /\ r.at % 4 = 0
  <2>1. PICK a \in LinearArrays : r.at = data + n * LinearBefore[a] /\ r.size = n * LinearElem[a]
    BY <1>11
  <2>2. LinearElem[a] \in Nat /\ LinearBefore[a] \in Nat /\ LinearBefore[a] % 4 = 0
        /\ LinearBefore[a] + LinearElem[a] <= 96
    BY LinearApart
  <2> DEFINE l == n * LinearBefore[a]
             m == n * LinearElem[a]
  <2>3. l \in Nat /\ m \in Nat /\ l + m <= n * 96
    BY <1>2, <2>2, Multiples
  <2>4. l % 4 = 0
    BY <1>2, <2>2, RankAligned
  <2>5. r.at = data + l /\ r.size = m
    BY <2>1
  <2> DEFINE t == n * 96
  <2>6. l + m <= t /\ data + t <= end /\ t \in Nat
    BY <1>8, <2>3
  <2> HIDE DEF l, m, t
  <2> QED BY <1>6, <1>8, <2>3, <2>4, <2>5, <2>6
<1>13. ASSUME NEW r \in A, NEW q \in A, r # q
       PROVE  r.at + r.size <= q.at \/ q.at + q.size <= r.at
  <2>1. PICK a \in LinearArrays :
            /\ r = Region(data + n * LinearBefore[a], n * LinearElem[a], <<"linear", a>>)
            /\ r.at = data + n * LinearBefore[a] /\ r.size = n * LinearElem[a]
    BY <1>11
  <2>2. PICK b \in LinearArrays :
            /\ q = Region(data + n * LinearBefore[b], n * LinearElem[b], <<"linear", b>>)
            /\ q.at = data + n * LinearBefore[b] /\ q.size = n * LinearElem[b]
    BY <1>11
  <2>3. a # b
    BY <1>13, <2>1, <2>2
  <2>4. /\ LinearElem[a] \in Nat /\ LinearBefore[a] \in Nat
        /\ LinearElem[b] \in Nat /\ LinearBefore[b] \in Nat
    BY LinearApart
  <2> DEFINE l == n * LinearBefore[a]
             m == n * LinearElem[a]
             u == n * LinearBefore[b]
             v == n * LinearElem[b]
  <2>5. l \in Nat /\ m \in Nat /\ u \in Nat /\ v \in Nat
    <3>1. l \in Nat
      BY <1>2, <2>4, Multiples
    <3>2. m \in Nat
      BY <1>2, <2>4, Multiples
    <3>3. u \in Nat
      BY <1>2, <2>4, Multiples
    <3>4. v \in Nat
      BY <1>2, <2>4, Multiples
    <3> QED BY <3>1, <3>2, <3>3, <3>4
  <2>6. l + m <= u \/ v + u <= l
    <3>1. CASE LinearBefore[a] + LinearElem[a] <= LinearBefore[b]
      <4>1. l + m <= u
        BY <1>2, <2>4, <3>1, Multiples
      <4> QED BY <4>1
    <3>2. CASE LinearBefore[b] + LinearElem[b] <= LinearBefore[a]
      <4>1. u + v <= l
        BY <1>2, <2>4, <3>2, Multiples
      <4> QED BY <2>5, <4>1
    <3> QED BY <2>3, <3>1, <3>2, LinearApart
  <2>7. r.at = data + l /\ r.size = m /\ q.at = data + u /\ q.size = v
    BY <2>1, <2>2
  <2> HIDE DEF l, m, u, v
  <2> QED BY <1>6, <2>5, <2>6, <2>7
<1>14. Placed(A, data, end)
  <2>1. data <= end
    <3> DEFINE t == n * 96
    <3>1. t \in Nat /\ data + t <= end
      BY <1>8
    <3> HIDE DEF t
    <3> QED BY <1>6, <1>8, <3>1
  <2> QED BY <1>6, <1>8, <1>12, <1>13, <2>1 DEF Placed
<1>15. Placed(B \cup A, pos, to)
  <2>1. Placed(B \cup A, pos, end)
    BY <1>10, <1>14, PlacedJoin
  <2> QED BY <1>9, <2>1, PlacedTo
<1>16. Stored(is)
  <2>1. Stored(ix)
    <3>1. ASSUME NEW k \in DOMAIN ix PROVE k[1] \in Nat /\ ix[k] \in Int
      <4>1. k[1] = pos /\ k[2] \in LinearArrays /\ ix[k] = NewLinearIndex(k[2])
        OBVIOUS
      <4> DEFINE m == n * LinearBefore[k[2]]
      <4>2. m \in Nat
        BY <1>2, <4>1, LinearApart, Multiples
      <4>3. ix[k] = (o + m) - (o - h)
        BY <1>7, <4>1 DEF NewLinearIndex
      <4> HIDE DEF m, ix
      <4> QED BY <1>1, <1>3, <4>1, <4>2, <4>3
    <3> HIDE DEF ix
    <3> QED BY <3>1 DEF Stored
  <2>2. Stored(HdrInt("linearboneindex", pos))
    BY <1>1, StoredOne
  <2> HIDE DEF ix
  <2> QED BY <2>1, <2>2, StoredJoin
<1>17. Waiting({}, B \cup A)
  BY DEF Waiting
<1> HIDE DEF to, is
<1> QED BY <1>1, <1>4, <1>5, <1>9, <1>15, <1>16, <1>17, Adds, SkipKeeps

(* The strings take finitely many bytes.                                    *)
LEMMA StringBytes ==
    ASSUME NEW T \in SUBSET Strings
    PROVE  Cardinality(UNION {{s} \X (0 .. StrLen[s]) : s \in T}) \in Nat
<1> DEFINE f == [s \in T |-> {s} \X (0 .. StrLen[s])]
           F == {f[s] : s \in T}
<1>1. IsFiniteSet(T)
  BY LayoutAssumption, FS_Subset
<1>2. f \in Surjection(T, F)
  BY DEF Surjection
<1>3. IsFiniteSet(F)
  <2> HIDE DEF f, F
  <2> QED BY <1>1, <1>2, FS_Surjection
<1>4. ASSUME NEW X \in F PROVE IsFiniteSet(X)
  <2>1. PICK s \in T : X = {s} \X (0 .. StrLen[s])
    OBVIOUS
  <2>2. StrLen[s] \in Int /\ 0 \in Int
    <3>1. StrLen[s] \in Nat
      BY LayoutAssumption
    <3> QED BY <3>1
  <2>3. IsFiniteSet({s}) /\ IsFiniteSet(0 .. StrLen[s])
    BY <2>2, FS_Singleton, FS_Interval
  <2> QED BY <2>1, <2>3, FS_Product
<1>5. IsFiniteSet(UNION F)
  <2> HIDE DEF F
  <2> QED BY <1>3, <1>4, FS_UNION
<1>6. UNION {{s} \X (0 .. StrLen[s]) : s \in T} = UNION F
  OBVIOUS
<1> HIDE DEF F
<1> QED BY <1>5, <1>6, FS_CardinalityType

(* The string table.                                                        *)
LEMMA StringsKeeps == LInv /\ WriteStrings => LInv'
<1> SUFFICES ASSUME LInv, WriteStrings PROVE LInv'
  OBVIOUS
<1> DEFINE strings == {g.string : g \in regs} \cup {""}
           size == Cardinality(UNION {{s} \X (0 .. StrLen[s]) : s \in strings})
           to == AlignData(pos + size, 4)
           rs == {Region(pos, size, <<"strings">>)}
<1>1. /\ pc = "strings" /\ old \in Models /\ baseAddr \in BaseAddrs /\ pos \in Nat
      /\ pos % 4 = 0
  BY Before DEF WriteStrings
<1>2. Write("bvh", to, rs, << >>, {})
  BY DEF WriteStrings
<1>3. strings \in SUBSET Strings
  BY LayoutAssumption DEF LInv, Waiting
<1>4. size \in Nat
  <2> HIDE DEF strings
  <2> QED BY <1>3, StringBytes
<1> HIDE DEF size
<1>5. pos + size \in Nat
  BY <1>1, <1>4
<1>6. to \in Nat /\ pos + size <= to /\ to % 4 = 0
  BY <1>1, <1>5, AlignedUp
<1>7. Placed(rs, pos, pos + size)
  BY <1>1, <1>4, PlacedOne
<1>8. Waiting({}, rs)
  BY DEF Waiting
<1>9. "bvh" \in Stages
  BY DEF Stages
<1> HIDE DEF to, rs
<1>10. Placed(rs, pos, to)
  BY <1>6, <1>7, PlacedTo
<1> QED BY <1>2, <1>6, <1>8, <1>9, <1>10, StoredNone, Adds

(* The collision blob, and the length.                                      *)
LEMMA BvhKeeps == LInv /\ AppendBvh => LInv'
<1> SUFFICES ASSUME LInv, AppendBvh PROVE LInv'
  OBVIOUS
<1> DEFINE at == AlignData(pos, 64)
           to == at + old.bvh
           rs == {Region(at, old.bvh, <<"bvh">>)}
           is == HdrInt("bvhOffset", at) ++ HdrInt("length", to)
<1>1. /\ pc = "bvh" /\ old \in Models /\ baseAddr \in BaseAddrs /\ pos \in Nat
      /\ pos % 4 = 0
  BY Before DEF AppendBvh
<1>2. "done" \in Stages
  BY DEF Stages
<1>3. CASE Write("done", pos, {}, HdrInt("length", pos), {})
  <2>1. Placed({}, pos, pos)
    BY <1>1, PlacedNone
  <2>2. Waiting({}, {}) /\ Stored(HdrInt("length", pos))
    BY <1>1, StoredOne DEF Waiting
  <2>3. <<0, "length">> \in DOMAIN HdrInt("length", pos)
        /\ HdrInt("length", pos)[<<0, "length">>] = pos
    BY DEF HdrInt
  <2> QED BY <1>2, <1>3, <2>1, <2>2, <2>3, Adds
<1>4. CASE Write("done", to, rs, is, {})
  <2>1. old.bvh \in Nat
    BY <1>1, Compiled
  <2>2. at \in Nat /\ pos <= at /\ at % 4 = 0
    BY <1>1, AlignedUp
  <2> HIDE DEF at
  <2>3. Placed(rs, pos, to)
    <3>1. Placed(rs, at, to)
      BY <2>1, <2>2, PlacedOne
    <3>2. to \in Nat /\ to <= to
      BY <2>1, <2>2
    <3> HIDE DEF rs, to
    <3> QED BY <1>1, <2>2, <3>1, <3>2, PlacedWider
  <2>4. to \in Int
    BY <2>1, <2>2
  <2> HIDE DEF to
  <2>5. Stored(is)
    <3>1. Stored(HdrInt("bvhOffset", at))
      BY <2>2, StoredOne
    <3> QED BY <2>4, <3>1, StoredAlso
  <2>6. <<0, "length">> \in DOMAIN is /\ is[<<0, "length">>] = to
    <3>1. /\ <<0, "length">> \in DOMAIN HdrInt("length", to)
          /\ HdrInt("length", to)[<<0, "length">>] = to
          /\ <<0, "length">> \notin DOMAIN HdrInt("bvhOffset", at)
      BY DEF HdrInt
    <3> QED BY <3>1 DEF ++
  <2>7. Waiting({}, rs)
    BY DEF Waiting
  <2> HIDE DEF is, rs
  <2> QED BY <1>2, <1>4, <2>3, <2>5, <2>6, <2>7, Adds
<1> QED BY <1>3, <1>4 DEF AppendBvh

(* The jiggle bones, in the order of the bones, are numbered without gaps.   *)
LEMMA JiggleRanked ==
    ASSUME Len(old.bones) \in Nat
    PROVE  /\ Cardinality(Jiggles) \in Nat
           /\ JiggleRank \in [Jiggles -> Nat]
           /\ \A i \in Jiggles : JiggleRank[i] < Cardinality(Jiggles)
           /\ \A i, j \in Jiggles : JiggleRank[i] = JiggleRank[j] => i = j
           /\ Cardinality(Jiggles) = 0 => Jiggles = {}
<1> DEFINE Below(i) == {j \in Jiggles : j < i}
<1>1. IsFiniteSet(Jiggles) /\ Jiggles \subseteq 1 .. Len(old.bones)
  <2>1. Jiggles \in SUBSET (1 .. Len(old.bones))
    BY DEF Jiggles
  <2>2. IsFiniteSet(1 .. Len(old.bones))
    BY FS_Interval
  <2> QED BY <2>1, <2>2, FS_Subset
<1>2. Cardinality(Jiggles) \in Nat
  BY <1>1, FS_CardinalityType
<1>3. ASSUME NEW i \in Jiggles
      PROVE  IsFiniteSet(Below(i)) /\ Cardinality(Below(i)) \in Nat
             /\ Cardinality(Below(i)) < Cardinality(Jiggles)
  <2>1. Below(i) \in SUBSET Jiggles /\ i \notin Below(i)
    BY <1>1
  <2>2. IsFiniteSet(Below(i)) /\ Cardinality(Below(i)) <= Cardinality(Jiggles)
        /\ (Cardinality(Jiggles) = Cardinality(Below(i)) => Jiggles = Below(i))
    <3> HIDE DEF Below
    <3> QED BY <1>1, <2>1, FS_Subset
  <2>3. Cardinality(Below(i)) \in Nat
    BY <2>2, FS_CardinalityType
  <2> HIDE DEF Below
  <2> QED BY <1>2, <2>1, <2>2, <2>3
<1>4. ASSUME NEW i \in Jiggles, NEW j \in Jiggles, i < j
      PROVE  Cardinality(Below(i)) < Cardinality(Below(j))
  <2>1. Below(i) \in SUBSET Below(j) /\ i \in Below(j) /\ i \notin Below(i)
    <3>1. i \in Nat /\ j \in Nat /\ \A k \in Jiggles : k \in Nat
      BY <1>1
    <3>2. \A k \in Jiggles : k < i => k < j
      BY <1>4, <3>1
    <3>3. i \in Below(j) /\ i \notin Below(i)
      BY <1>4, <3>1
    <3>4. \A k \in Below(i) : k \in Below(j)
      BY <3>2
    <3> HIDE DEF Below
    <3> QED BY <3>3, <3>4
  <2>2. IsFiniteSet(Below(j)) /\ Cardinality(Below(i)) \in Nat /\ Cardinality(Below(j)) \in Nat
    BY <1>3
  <2> HIDE DEF Below
  <2>3. Cardinality(Below(i)) <= Cardinality(Below(j))
        /\ (Cardinality(Below(j)) = Cardinality(Below(i)) => Below(j) = Below(i))
    BY <2>1, <2>2, FS_Subset
  <2> QED BY <2>1, <2>2, <2>3
<1>5. \A i \in Jiggles : JiggleRank[i] = Cardinality(Below(i))
  BY DEF JiggleRank
<1>6. JiggleRank = [i \in Jiggles |-> JiggleRank[i]]
  BY DEF JiggleRank
<1> HIDE DEF Below
<1>7. JiggleRank \in [Jiggles -> Nat] /\ \A i \in Jiggles : JiggleRank[i] < Cardinality(Jiggles)
  BY <1>3, <1>5, <1>6
<1>8. ASSUME NEW i \in Jiggles, NEW j \in Jiggles, JiggleRank[i] = JiggleRank[j] PROVE i = j
  <2>1. i \in Nat /\ j \in Nat /\ JiggleRank[i] \in Nat
    BY <1>1, <1>7
  <2>2. ~(JiggleRank[i] < JiggleRank[j]) /\ ~(JiggleRank[j] < JiggleRank[i])
    BY <1>7, <1>8
  <2>3. ~(i < j) /\ ~(j < i)
    BY <1>4, <1>5, <2>2
  <2> QED BY <2>1, <2>3
<1>9. Cardinality(Jiggles) = 0 => Jiggles = {}
  BY <1>1, FS_EmptySet
<1> QED BY <1>2, <1>7, <1>8, <1>9

(* The bones, their jiggle data and the two byte tables.                    *)
LEMMA BonesKeeps == LInv /\ ConvertBones => LInv'
<1> SUFFICES ASSUME LInv, ConvertBones PROVE LInv'
  OBVIOUS
<1> DEFINE n == Len(old.bones)
           c == Cardinality(Jiggles)
           j == SizeOf["jigglebone"]
           Bone == ElementsAt("bone", pos, n)
           jiggles == AlignData(pos + n * SizeOf["bone"], 4)
           jend == jiggles + c * j
           tables == AlignData(jend, 4)
           tend == tables + c
           to == IF c = 0 THEN tables ELSE AlignData(tend + n, 4)
           ProcIndex == [i \in 1 .. n |->
               IF i \in Jiggles THEN jiggles + JiggleRank[i] * j - Bone[i]
               ELSE old.bones[i].procindex]
           B == ArrayOf("bone", pos, n)
           J == Laid("jigglebone", j, jiggles, JiggleRank)
           P == Laid("procBone", 1, tables, JiggleRank)
           L == IF c = 0 THEN {}
                ELSE {Region(tables + c + i - 1, 1,
                        <<"linearProcBone", IF i \in Jiggles THEN JiggleRank[i] ELSE 255>>)
                      : i \in 1 .. n}
           rs == B \cup J \cup P \cup L
           G == {Reg(Bone[i], "sznameindex", old.bones[i].name) : i \in 1 .. n}
           G2 == {Reg(Bone[i], "surfacepropidx", "") : i \in 1 .. n}
           i1 == HdrInt("boneindex", pos)
           i2 == IntsOver(Bone, "procindex", ProcIndex)
           t1 == HdrInt("procBoneCount", c)
           t2 == t1 ++ HdrInt("procBoneTableOffset", tables)
           t3 == t2 ++ HdrInt("linearProcBoneOffset", tables + c)
           i3 == IF c = 0 THEN << >> ELSE t3
           is == i1 ++ i2 ++ i3
<1>1. /\ pc = "bones" /\ old \in Models /\ baseAddr \in BaseAddrs /\ pos \in Nat
      /\ pos % 4 = 0
  BY Before DEF ConvertBones
<1>2. n \in Nat /\ \A i \in 1 .. n : old.bones[i].name \in Strings /\ old.bones[i].procindex \in Int
  <2> DEFINE R == [name : Strings, proctype : Int, procindex : Int]
  <2>1. old.bones \in Seq(R)
    BY <1>1, Compiled
  <2>2. \A r \in R : r.name \in Strings /\ r.procindex \in Int
    OBVIOUS
  <2> HIDE DEF R
  <2> QED BY <2>1, <2>2
<1>3. Write("attachments", to, rs, is, G \cup G2)
  BY DEF ConvertBones
<1>4. /\ c \in Nat /\ JiggleRank \in [Jiggles -> Nat]
      /\ \A i \in Jiggles : JiggleRank[i] < c
      /\ \A i, k \in Jiggles : JiggleRank[i] = JiggleRank[k] => i = k
      /\ c = 0 => Jiggles = {}
  BY <1>2, JiggleRanked
<1>5. j \in Nat /\ j % 4 = 0
  BY Sizes DEF Kinds
<1>6. Placed(B, pos, jiggles) /\ jiggles \in Nat /\ jiggles % 4 = 0
  BY <1>1, <1>2, ArraySlice DEF Kinds
<1>7. Owned(B, 1 .. n, Bone)
  BY <1>1, <1>2, ArrayAddresses DEF Kinds
<1>8. Bone \in [1 .. n -> Nat]
  BY <1>7 DEF Owned
<1> HIDE DEF n, c, j, B, jiggles, Bone
<1>9. Placed(J, jiggles, jend)
  BY <1>4, <1>5, <1>6, LaidPlaced
<1>10. jend \in Nat
  BY <1>9 DEF Placed
<1> HIDE DEF jend, J
<1>11. tables \in Nat /\ jend <= tables /\ tables % 4 = 0
  BY <1>1, <1>10, AlignedUp
<1> HIDE DEF tables
<1>12. Placed(P, tables, tend)
  <2>1. "procBone" \in PackedKinds
    BY DEF PackedKinds
  <2>2. 1 \in Nat
    OBVIOUS
  <2>3. Placed(P, tables, tables + c * 1)
    BY <1>4, <1>11, <2>1, <2>2, LaidPlaced
  <2>4. c * 1 = c
    BY <1>4
  <2> QED BY <2>3, <2>4
<1>13. tend \in Nat
  BY <1>4, <1>11
<1>14. Placed(L, tend, to) /\ to % 4 = 0
  <2>1. CASE c = 0
    <3>1. Placed({}, tables, tables)
      BY <1>11, PlacedNone
    <3> QED BY <1>11, <2>1, <3>1
  <2>2. CASE c # 0
    <3> DEFINE rank == Indices(n)
               what == [i \in 1 .. n |->
                   <<"linearProcBone", IF i \in Jiggles THEN JiggleRank[i] ELSE 255>>]
               S == 1 .. n
    <3>1. /\ rank \in [S -> Nat] /\ \A i \in S : rank[i] < n
          /\ \A i, k \in S : rank[i] = rank[k] => i = k
      BY <1>2, IndicesRank
    <3>2. \A x \in S : what[x][1] \in PackedKinds
      BY DEF PackedKinds
    <3>3. \A r \in L : \E x \in S : r = Region(tend + rank[x] * 1, 1, what[x])
      <4> SUFFICES ASSUME NEW r \in L
                   PROVE  \E x \in S : r = Region(tend + rank[x] * 1, 1, what[x])
        OBVIOUS
      <4>1. PICK x \in S : r = Region(tables + c + x - 1, 1, what[x])
        BY <2>2
      <4>2. rank[x] = x - 1
        BY <1>2, IndicesRank
      <4>3. tables + c + x - 1 = tend + rank[x] * 1
        BY <1>2, <1>4, <1>11, <4>2
      <4> QED BY <4>1, <4>3
    <3> HIDE DEF rank, what, S, tend, L
    <3>4. 1 \in Nat
      OBVIOUS
    <3>5. Placed(L, tend, tend + n * 1)
      BY <1>2, <1>13, <3>1, <3>2, <3>3, <3>4, RankedPlaced
    <3>6. n * 1 = n /\ tend + n \in Nat
      BY <1>2, <1>13
    <3>7. AlignData(tend + n, 4) \in Nat /\ tend + n <= AlignData(tend + n, 4)
          /\ AlignData(tend + n, 4) % 4 = 0
      BY <1>1, <3>6, AlignedUp
    <3>8. Placed(L, tend, AlignData(tend + n, 4))
      BY <3>5, <3>6, <3>7, PlacedTo
    <3> QED BY <2>2, <3>7, <3>8
  <2> QED BY <2>1, <2>2
<1> HIDE DEF P, L, to, tend
<1>15. Placed(rs, pos, to)
  <2>1. Placed(J, jiggles, tables)
    BY <1>9, <1>11, PlacedTo
  <2>2. Placed(B \cup J, pos, tables)
    BY <1>6, <2>1, PlacedJoin
  <2>3. Placed(B \cup J \cup P, pos, tend)
    BY <1>12, <2>2, PlacedJoin
  <2> QED BY <1>14, <2>3, PlacedJoin
<1>16. Waiting(G \cup G2, rs)
  <2> DEFINE names == [i \in 1 .. n |-> old.bones[i].name]
             empty == [i \in 1 .. n |-> ""]
  <2>1. Owned(rs, 1 .. n, Bone)
    BY <1>7 DEF Owned
  <2>2. Each(G, rs, 1 .. n, Bone, "sznameindex", names)
    <3>1. \A g \in G : \E i \in 1 .. n : g = Reg(Bone[i], "sznameindex", names[i])
      OBVIOUS
    <3>2. names \in [1 .. n -> Strings]
      BY <1>2
    <3> HIDE DEF names, G, rs
    <3> QED BY <2>1, <3>1, <3>2 DEF Each
  <2>3. Each(G2, rs, 1 .. n, Bone, "surfacepropidx", empty)
    <3>1. \A g \in G2 : \E i \in 1 .. n : g = Reg(Bone[i], "surfacepropidx", empty[i])
      OBVIOUS
    <3>2. empty \in [1 .. n -> Strings]
      BY LayoutAssumption
    <3> HIDE DEF empty, G2, rs
    <3> QED BY <2>1, <3>1, <3>2 DEF Each
  <2> HIDE DEF G, G2, rs, names, empty
  <2>4. Waiting(G, rs) /\ \A g \in G : g.field = "sznameindex"
    BY <2>2, EachWaits
  <2>5. Waiting(G2, rs) /\ \A g \in G2 : g.field = "surfacepropidx"
    BY <2>3, EachWaits
  <2> QED BY <2>4, <2>5, WaitsJoin
<1>17. Stored(is)
  <2>1. ProcIndex \in [1 .. n -> Int]
    <3> SUFFICES ASSUME NEW i \in 1 .. n
                 PROVE  (IF i \in Jiggles THEN jiggles + JiggleRank[i] * j - Bone[i]
                         ELSE old.bones[i].procindex) \in Int
      OBVIOUS
    <3>1. CASE i \in Jiggles
      <4> DEFINE m == JiggleRank[i] * j
      <4>1. m \in Nat /\ Bone[i] \in Nat
        BY <1>4, <1>5, <1>8, <3>1, RankAligned
      <4> HIDE DEF m
      <4>2. jiggles + m - Bone[i] \in Int
        BY <1>6, <4>1
      <4> QED BY <3>1, <4>2 DEF m
    <3>2. CASE i \notin Jiggles
      BY <1>2, <3>2
    <3> QED BY <3>1, <3>2
  <2> HIDE DEF ProcIndex
  <2>2. Stored(i1)
    BY <1>1, StoredOne
  <2>3. Stored(i2)
    <3> DEFINE S == 1 .. n
    <3>1. Bone \in [S -> Nat] /\ ProcIndex \in [S -> Int]
      BY <1>8, <2>1
    <3> HIDE DEF S
    <3> QED BY <3>1, StoredOver
  <2>4. Stored(i3)
    <3>1. Stored(t1)
      BY <1>4, StoredOne
    <3>2. Stored(t2)
      BY <1>11, <3>1, StoredAlso
    <3>3. Stored(t3)
      <4>1. tables + c \in Int
        BY <1>4, <1>11
      <4> QED BY <3>2, <4>1, StoredAlso
    <3> QED BY <3>3, StoredNone
  <2> HIDE DEF i1, i2, i3
  <2>5. Stored(i1 ++ i2)
    BY <2>2, <2>3, StoredJoin
  <2> QED BY <2>4, <2>5, StoredJoin
<1>18. "attachments" \in Stages
  BY DEF Stages
<1> HIDE DEF rs, is, G, G2
<1> QED BY <1>3, <1>14, <1>15, <1>16, <1>17, <1>18, Adds

(* Structs that Laid builds have addresses of their own.                    *)
LEMMA LaidOwned ==
    ASSUME NEW S, NEW rank \in [S -> Nat], NEW size \in Nat, size > 0, NEW a \in Nat, NEW kind,
           \A x, y \in S : rank[x] = rank[y] => x = y
    PROVE  Owned(Laid(kind, size, a, rank), S, [x \in S |-> a + rank[x] * size])
<1> DEFINE at == [x \in S |-> a + rank[x] * size]
<1>1. \A x \in S : at[x] = a + rank[x] * size
  OBVIOUS
<1>2. (\A x \in S : a + rank[x] * size \in Nat)
      /\ \A x, y \in S : a + rank[x] * size = a + rank[y] * size => x = y
  BY RankedApart
<1>3. ASSUME NEW x \in S, NEW y \in S, at[x] = at[y] PROVE x = y
  <2>1. a + rank[x] * size = a + rank[y] * size
    BY <1>1, <1>3
  <2> QED BY <1>2, <2>1
<1>4. at \in [S -> Nat]
  BY <1>2
<1>5. ASSUME NEW x \in S PROVE \E r \in Laid(kind, size, a, rank) : r.at = at[x] /\ r.size > 0
  <2> DEFINE r == Region(a + rank[x] * size, size, <<kind, x>>)
  <2>1. r \in Laid(kind, size, a, rank)
    BY DEF Laid
  <2>2. r.at = at[x] /\ r.size > 0
    BY <1>1 DEF Region
  <2> QED BY <2>1, <2>2
<1> HIDE DEF at
<1>6. Owned(Laid(kind, size, a, rank), S, at)
  BY <1>3, <1>4, <1>5 DEF Owned
<1> QED BY <1>6 DEF at

(* The things of several groups, ranked group after group.                  *)
LEMMA MembersRanked ==
    ASSUME NEW f \in Seq(Nat)
    PROVE  /\ MemberRank(f) \in [Members(f) -> Nat]
           /\ \A b \in Members(f) : MemberRank(f)[b] < SumTo(f, Len(f))
           /\ \A b, c \in Members(f) : MemberRank(f)[b] = MemberRank(f)[c] => b = c
<1> DEFINE S == Members(f)
           rank == MemberRank(f)
<1> USE DEF Members, MemberRank
<1>1. ASSUME NEW b \in S
      PROVE  b = <<b[1], b[2]>> /\ b[1] \in 1 .. Len(f) /\ b[2] \in 1 .. f[b[1]]
  OBVIOUS
<1>2. ASSUME NEW b \in S
      PROVE  rank[b] \in Nat /\ rank[b] < SumTo(f, Len(f))
             /\ \A c \in S : rank[b] = rank[c] => b[1] = c[1] /\ b[2] = c[2]
  <2>1. b[1] \in 1 .. Len(f) /\ b[2] \in 1 .. f[b[1]]
    BY <1>1
  <2>2. rank[b] = SumTo(f, b[1] - 1) + b[2] - 1
    OBVIOUS
  <2>3. /\ SumTo(f, b[1] - 1) + b[2] - 1 \in Nat
        /\ SumTo(f, b[1] - 1) + b[2] - 1 < SumTo(f, Len(f))
        /\ \A k \in 1 .. Len(f) : \A l \in 1 .. f[k] :
              SumTo(f, b[1] - 1) + b[2] - 1 = SumTo(f, k - 1) + l - 1 => b[1] = k /\ b[2] = l
    <3> DEFINE i == b[1]
               j == b[2]
    <3>1. i \in 1 .. Len(f) /\ j \in 1 .. f[i]
      BY <2>1
    <3> HIDE DEF i, j
    <3>2. /\ SumTo(f, i - 1) + j - 1 \in Nat
          /\ SumTo(f, i - 1) + j - 1 < SumTo(f, Len(f))
          /\ \A k \in 1 .. Len(f) : \A l \in 1 .. f[k] :
                SumTo(f, i - 1) + j - 1 = SumTo(f, k - 1) + l - 1 => i = k /\ j = l
      BY <3>1, GroupRank
    <3> QED
      BY <3>2 DEF i, j
  <2>4. ASSUME NEW c \in S, rank[b] = rank[c] PROVE b[1] = c[1] /\ b[2] = c[2]
    <3>1. c[1] \in 1 .. Len(f) /\ c[2] \in 1 .. f[c[1]]
      BY <1>1
    <3>2. rank[c] = SumTo(f, c[1] - 1) + c[2] - 1
      OBVIOUS
    <3>3. SumTo(f, b[1] - 1) + b[2] - 1 = SumTo(f, c[1] - 1) + c[2] - 1
      BY <2>2, <2>4, <3>2
    <3> QED BY <2>3, <3>1, <3>3
  <2> QED BY <2>2, <2>3, <2>4
<1>3. rank = [b \in S |-> rank[b]]
  OBVIOUS
<1>4. rank \in [S -> Nat]
  BY <1>2, <1>3
<1>5. ASSUME NEW b \in S, NEW c \in S, rank[b] = rank[c] PROVE b = c
  <2>1. b[1] = c[1] /\ b[2] = c[2]
    BY <1>2, <1>5
  <2> QED BY <1>1, <2>1
<1> QED BY <1>2, <1>4, <1>5

(* The hitbox sets, and behind them the boxes of all sets.                   *)
LEMMA HitboxesKeeps == LInv /\ ConvertHitboxes => LInv'
<1> SUFFICES ASSUME LInv, ConvertHitboxes PROVE LInv'
  OBVIOUS
<1> DEFINE n == Len(old.hitboxsets)
           NumBoxes == [i \in 1 .. n |-> Len(old.hitboxsets[i])]
           bbox == SizeOf["bbox"]
           Set == ElementsAt("hitboxset", pos, n)
           first == pos + n * SizeOf["hitboxset"]
           boxes == Members(NumBoxes)
           BoxRank == MemberRank(NumBoxes)
           Box == [b \in boxes |-> first + BoxRank[b] * bbox]
           HitboxIndex == [i \in 1 .. n |-> first + SumTo(NumBoxes, i - 1) * bbox - Set[i]]
           total == SumTo(NumBoxes, n)
           end == first + total * bbox
           to == AlignData(end, 4)
           A == ArrayOf("hitboxset", pos, n)
           B == Laid("bbox", bbox, first, BoxRank)
           G == {Reg(Set[i], "sznameindex", "default") : i \in 1 .. n}
           G2 == {Reg(Box[b], "szhitboxnameindex", old.hitboxsets[b[1]][b[2]]) : b \in boxes}
           I == {Reg(Box[b], "hitdataGroupOffset", "") : b \in boxes}
           i1 == HdrInt("hitboxsetindex", pos)
           i2 == IntsOver(Set, "numhitboxes", NumBoxes)
           i3 == IntsOver(Set, "hitboxindex", HitboxIndex)
<1>1. /\ pc = "hitboxes" /\ old \in Models /\ baseAddr \in BaseAddrs /\ pos \in Nat
      /\ pos % 4 = 0
  BY Before DEF ConvertHitboxes
<1>2. n \in Nat /\ \A i \in 1 .. n : old.hitboxsets[i] \in Seq(Strings)
  BY <1>1, Compiled
<1>3. Write("bonebyname", to, A \cup B, i1 ++ i2 ++ i3, G \cup G2 \cup I)
  BY DEF ConvertHitboxes
<1>4. bbox \in Nat /\ bbox > 0 /\ bbox % 4 = 0
  BY Sizes DEF Kinds
<1>5. Placed(A, pos, first) /\ first \in Nat /\ first % 4 = 0
  <2>1. "hitboxset" \in Kinds
    BY DEF Kinds
  <2>2. /\ Placed(ArrayOf("hitboxset", pos, n), pos, pos + n * SizeOf["hitboxset"])
        /\ (pos + n * SizeOf["hitboxset"]) % 4 = 0
    BY <1>1, <1>2, <2>1, ArrayPlaced
  <2> HIDE DEF n
  <2> QED
    BY <2>2 DEF Placed
<1>6. Owned(A, 1 .. n, Set)
  BY <1>1, <1>2, ArrayAddresses DEF Kinds
<1> HIDE DEF n, bbox, Set, first, A
<1>7. NumBoxes \in Seq(Nat) /\ Len(NumBoxes) = n
      /\ \A i \in 1 .. n : NumBoxes[i] = Len(old.hitboxsets[i])
  <2>1. \A i \in 1 .. n : Len(old.hitboxsets[i]) \in Nat
    BY <1>2
  <2> QED BY <1>2, <2>1
<1> HIDE DEF NumBoxes
<1>8. \A b \in boxes : old.hitboxsets[b[1]][b[2]] \in Strings
  <2> TAKE b \in boxes
  <2>1. b[1] \in 1 .. Len(NumBoxes) /\ b[2] \in 1 .. NumBoxes[b[1]]
    BY DEF Members
  <2>2. b[1] \in 1 .. n /\ b[2] \in 1 .. Len(old.hitboxsets[b[1]])
    BY <1>7, <2>1
  <2> QED BY <1>2, <2>2
<1>9. /\ BoxRank \in [boxes -> Nat]
       /\ \A b \in boxes : BoxRank[b] < total
      /\ \A b, c \in boxes : BoxRank[b] = BoxRank[c] => b = c
 <2>1. total = SumTo(NumBoxes, Len(NumBoxes))
    BY <1>7
  <2> HIDE DEF total
  <2> QED BY <1>7, <2>1, MembersRanked
<1> HIDE DEF BoxRank, boxes
<1>10. \A i \in 0 .. n : SumTo(NumBoxes, i) \in Nat
  BY <1>7, SumToIs
<1>11. total \in Nat
  BY <1>2, <1>10
<1> HIDE DEF total
<1>12. Placed(B, first, end)
  BY <1>4, <1>5, <1>9, <1>11, LaidPlaced
<1>13. Owned(B, boxes, Box)
  BY <1>4, <1>5, <1>9, LaidOwned
<1>14. end \in Nat
  BY <1>12 DEF Placed
<1> HIDE DEF end, B, Box
<1>15. to \in Nat /\ end <= to /\ to % 4 = 0
  BY <1>1, <1>14, AlignedUp
<1> HIDE DEF to
<1>16. Placed(A \cup B, pos, to)
  <2>1. Placed(A \cup B, pos, end)
    BY <1>5, <1>12, PlacedJoin
  <2> QED BY <1>15, <2>1, PlacedTo
<1>17. Waiting(G \cup G2 \cup I, A \cup B)
  <2> DEFINE default == [i \in 1 .. n |-> "default"]
             empty == [b \in boxes |-> ""]
             names == [b \in boxes |-> old.hitboxsets[b[1]][b[2]]]
             rs == A \cup B
  <2>1. default \in [1 .. n -> Strings] /\ empty \in [boxes -> Strings]
    BY LayoutAssumption
  <2>2. names \in [boxes -> Strings]
    BY <1>8
  <2>3. Owned(rs, 1 .. n, Set) /\ Owned(rs, boxes, Box)
    BY <1>6, <1>13 DEF Owned
  <2>4. \A g \in G : \E i \in 1 .. n : g = Reg(Set[i], "sznameindex", default[i])
    OBVIOUS
  <2>5. \A g \in G2 : \E b \in boxes : g = Reg(Box[b], "szhitboxnameindex", names[b])
    OBVIOUS
  <2>6. \A g \in I : \E b \in boxes : g = Reg(Box[b], "hitdataGroupOffset", empty[b])
    OBVIOUS
  <2> HIDE DEF default, empty, names, rs, G, G2, I
  <2>7. Each(G, rs, 1 .. n, Set, "sznameindex", default)
    BY <2>1, <2>3, <2>4 DEF Each
  <2>8. Each(G2, rs, boxes, Box, "szhitboxnameindex", names)
    BY <2>2, <2>3, <2>5 DEF Each
  <2>9. Each(I, rs, boxes, Box, "hitdataGroupOffset", empty)
    BY <2>1, <2>3, <2>6 DEF Each
  <2>10. Waiting(G, rs) /\ \A g \in G : g.field = "sznameindex"
    BY <2>7, EachWaits
  <2>11. Waiting(G2, rs) /\ \A g \in G2 : g.field = "szhitboxnameindex"
    BY <2>8, EachWaits
  <2>12. Waiting(I, rs) /\ \A g \in I : g.field = "hitdataGroupOffset"
    BY <2>9, EachWaits
  <2>13. Waiting(G \cup G2, rs)
    BY <2>10, <2>11, WaitsJoin
  <2>14. Waiting(G \cup G2 \cup I, rs)
    BY <2>10, <2>11, <2>12, <2>13, WaitsJoin
  <2> QED BY <2>14 DEF rs
<1>18. Stored(i1 ++ i2 ++ i3)
  <2> DEFINE S == 1 .. n
  <2>1. Set \in [S -> Nat]
    BY <1>6 DEF Owned
  <2>2. NumBoxes \in [S -> Int]
    BY <1>7
  <2>3. HitboxIndex \in [S -> Int]
    <3> SUFFICES ASSUME NEW i \in 1 .. n
                 PROVE  first + SumTo(NumBoxes, i - 1) * bbox - Set[i] \in Int
      OBVIOUS
    <3>1. SumTo(NumBoxes, i - 1) \in Nat
      <4>1. i - 1 \in 0 .. n
        BY <1>2
      <4> QED BY <1>10, <4>1
    <3> DEFINE m == SumTo(NumBoxes, i - 1) * bbox
    <3>2. m \in Nat
      BY <1>4, <3>1, RankAligned
    <3>3. Set[i] \in Nat
      BY <2>1
    <3> HIDE DEF m
    <3>4. first + m - Set[i] \in Int
      BY <1>5, <3>2, <3>3
    <3> QED BY <3>4 DEF m
  <2> HIDE DEF S, HitboxIndex
  <2>4. Stored(i1)
    BY <1>1, StoredOne
  <2>5. Stored(i2)
    BY <2>1, <2>2, StoredOver
  <2>6. Stored(i3)
    BY <2>1, <2>3, StoredOver
  <2> HIDE DEF i1, i2, i3
  <2>7. Stored(i1 ++ i2)
    BY <2>4, <2>5, StoredJoin
  <2> QED BY <2>6, <2>7, StoredJoin
<1>19. "bonebyname" \in Stages
  BY DEF Stages
<1> HIDE DEF i1, i2, i3, G, G2, I
<1> QED BY <1>3, <1>15, <1>16, <1>17, <1>18, <1>19, Adds

(* Part of a slice is a slice.                                              *)
LEMMA PlacedPart ==
    ASSUME NEW R, NEW Q, NEW a, NEW b, R \subseteq Q, Placed(Q, a, b)
    PROVE  Placed(R, a, b)
BY DEF Placed

(* Sums of aligned sizes are aligned.                                       *)
LEMMA SumToAligned ==
    ASSUME NEW f \in Seq(Nat), \A i \in 1 .. Len(f) : f[i] % 4 = 0
    PROVE  \A i \in 0 .. Len(f) : SumTo(f, i) % 4 = 0
<1> DEFINE N == Len(f)
           S == {k \in 0 .. N : SumTo(f, k) % 4 = 0}
<1>1. N \in Nat /\ \A i \in 1 .. N : f[i] \in Nat
  OBVIOUS
<1>2. 0 \in S
  BY <1>1, SumToIs
<1>3. \A k \in 0 .. N - 1 : k \in S => k + 1 \in S
  <2> SUFFICES ASSUME NEW k \in 0 .. N - 1, k \in S PROVE k + 1 \in S
    OBVIOUS
  <2>1. k + 1 \in 1 .. N /\ k + 1 \in 0 .. N /\ k \in 0 .. N /\ k + 1 - 1 = k
    BY <1>1
  <2>2. SumTo(f, k + 1) = SumTo(f, k) + f[k + 1] /\ SumTo(f, k) \in Nat /\ SumTo(f, k) % 4 = 0
    BY <2>1, SumToIs
  <2>3. f[k + 1] \in Nat /\ f[k + 1] % 4 = 0
    BY <1>1, <2>1
  <2>4. \A l, m \in Nat : l % 4 = 0 /\ m % 4 = 0 => (l + m) % 4 = 0
    OBVIOUS
  <2>5. (SumTo(f, k) + f[k + 1]) % 4 = 0
    BY <2>2, <2>3, <2>4
  <2> QED BY <2>1, <2>2, <2>5
<1> HIDE DEF S
<1>4. 0 .. N \subseteq S
  BY <1>1, <1>2, <1>3, InductionTo
<1> QED BY <1>4 DEF S

(* The sizes of a part, and what lies in it.                                *)
LEMMA PartSize ==
    ASSUME NEW part \in Seq(Nat)
    PROVE  /\ Len(part) * SizeOf["model"] \in Nat /\ (Len(part) * SizeOf["model"]) % 4 = 0
           /\ SumTo(part, Len(part)) \in Nat /\ SumTo(part, Len(part)) * SizeOf["mesh"] \in Nat
           /\ PartBytes(part) \in Nat /\ PartBytes(part) % 4 = 0
<1> DEFINE l == Len(part) * SizeOf["model"]
           m == SumTo(part, Len(part)) * SizeOf["mesh"]
<1>1. /\ SizeOf["model"] \in Nat /\ SizeOf["model"] % 4 = 0
      /\ SizeOf["mesh"] \in Nat /\ SizeOf["mesh"] % 4 = 0
  BY Sizes DEF Kinds
<1>2. l \in Nat /\ l % 4 = 0
  <2>1. Len(part) \in Nat
    OBVIOUS
  <2> QED BY <1>1, <2>1, RankAligned
<1>3. SumTo(part, Len(part)) \in Nat
  BY SumToIs
<1>4. m \in Nat /\ m % 4 = 0
  BY <1>1, <1>3, RankAligned
<1>5. PartBytes(part) = l + m
  BY DEF PartBytes
<1> HIDE DEF l, m
<1>6. l + m \in Nat /\ (l + m) % 4 = 0
  BY <1>2, <1>4
<1>7. l \in Nat /\ l % 4 = 0 /\ m \in Nat /\ PartBytes(part) \in Nat /\ PartBytes(part) % 4 = 0
  BY <1>2, <1>4, <1>5, <1>6
<1> QED BY <1>3, <1>7 DEF l, m

\* The models of part i, and the meshes of its models.
PartModels(part, a, i) ==
    {Region(a + (j - 1) * SizeOf["model"], SizeOf["model"], <<"model", <<i, j>>>>) :
        j \in 1 .. Len(part)}
PartMeshes(part, a, i) ==
    {Region(a + Len(part) * SizeOf["model"] + MemberRank(part)[x] * SizeOf["mesh"],
            SizeOf["mesh"], <<"mesh", <<i, x[1], x[2]>>>>) : x \in Members(part)}
PartRegions(part, a, i) == PartModels(part, a, i) \cup PartMeshes(part, a, i)

(* A part fills the bytes counted for it.                                   *)
LEMMA PartPlaced ==
    ASSUME NEW part \in Seq(Nat), NEW a \in Nat, a % 4 = 0, NEW i
    PROVE  Placed(PartRegions(part, a, i), a, a + PartBytes(part))
<1> DEFINE n == Len(part)
           size == SizeOf["model"]
           mesh == SizeOf["mesh"]
           b == a + n * size
           total == SumTo(part, Len(part))
<1>1. size \in Nat /\ size % 4 = 0 /\ mesh \in Nat /\ mesh % 4 = 0
  BY Sizes DEF Kinds
<1>2. n \in Nat /\ total \in Nat
  BY PartSize
<1>3. b \in Nat /\ b % 4 = 0
  <2> DEFINE l == n * size
  <2>1. l \in Nat /\ l % 4 = 0
    BY PartSize
  <2> HIDE DEF l
  <2>2. a + l \in Nat /\ (a + l) % 4 = 0
    BY <2>1
  <2> QED BY <2>2 DEF l
<1>4. a + PartBytes(part) = b + total * mesh
  <2> DEFINE l == n * size
             m == total * mesh
  <2>1. l \in Nat /\ m \in Nat /\ PartBytes(part) = l + m
    BY PartSize DEF PartBytes
  <2> HIDE DEF l, m
  <2>2. a + PartBytes(part) = (a + l) + m
    BY <2>1
  <2> QED BY <2>2 DEF l, m
<1>5. Placed(PartModels(part, a, i), a, b)
  <2> DEFINE R == PartModels(part, a, i)
             S == 1 .. n
             rank == Indices(n)
             what == [j \in S |-> <<"model", <<i, j>>>>]
  <2>1. /\ rank \in [S -> Nat] /\ \A x \in S : rank[x] < n
        /\ \A x, y \in S : rank[x] = rank[y] => x = y
    BY <1>2, IndicesRank
  <2>2. \A x \in S : rank[x] = x - 1
    BY <1>2, IndicesRank
  <2>3. \A r \in R : \E x \in S : r = Region(a + rank[x] * size, size, what[x])
    <3>1. \A r \in R : \E x \in S : r = Region(a + (x - 1) * size, size, what[x])
      BY DEF PartModels
    <3> HIDE DEF R, S, rank, what
    <3> QED BY <2>2, <3>1
  <2> HIDE DEF R, S, rank, what, b, n, size
  <2>4. Placed(R, a, a + n * size)
    BY <1>1, <1>2, <2>1, <2>3, RankedPlaced
  <2> QED BY <2>4 DEF b, R
<1>6. Placed(PartMeshes(part, a, i), b, b + total * mesh)
  <2> DEFINE R == PartMeshes(part, a, i)
             S == Members(part)
             rank == MemberRank(part)
             what == [x \in S |-> <<"mesh", <<i, x[1], x[2]>>>>]
  <2>1. /\ rank \in [S -> Nat] /\ \A x \in S : rank[x] < total
        /\ \A x, y \in S : rank[x] = rank[y] => x = y
    BY MembersRanked
  <2>2. \A r \in R : \E x \in S : r = Region(b + rank[x] * mesh, mesh, what[x])
    BY DEF PartMeshes
  <2> HIDE DEF R, S, rank, what, b, n, size, mesh, total
  <2>3. Placed(R, b, b + total * mesh)
    BY <1>1, <1>2, <1>3, <2>1, <2>2, RankedPlaced
  <2> QED BY <2>3 DEF R
<1> HIDE DEF n, b, total, mesh
<1> QED BY <1>4, <1>5, <1>6, PlacedJoin DEF PartRegions

\* Where ConvertBodyParts lays the tree of body parts, models and meshes out:
\* behind the body parts, part by part from TreeFirst on.
TreeBase == pos + Len(old.bodyparts) * SizeOf["bodypart"]
TreeBytes == [i \in 1 .. Len(old.bodyparts) |-> PartBytes(old.bodyparts[i])]
TreeCounts == [i \in 1 .. Len(old.bodyparts) |-> Len(old.bodyparts[i])]
TreeFirst == [i \in 1 .. (Len(old.bodyparts) + 1) |-> TreeBase + SumTo(TreeBytes, i - 1)]
TreeModels == Members(TreeCounts)
TreeMeshes ==
    UNION {{<<m[1], m[2], k>> : k \in 1 .. old.bodyparts[m[1]][m[2]]} : m \in TreeModels}
TreeModel == [m \in TreeModels |-> TreeFirst[m[1]] + (m[2] - 1) * SizeOf["model"]]
TreeMesh ==
    [m \in TreeMeshes |->
        TreeFirst[m[1]] + Len(old.bodyparts[m[1]]) * SizeOf["model"]
          + (MeshesBefore(old.bodyparts[m[1]], m[2]) + m[3] - 1) * SizeOf["mesh"]]
TreeRegions ==
    {Region(TreeModel[m], SizeOf["model"], <<"model", m>>) : m \in TreeModels}
      \cup {Region(TreeMesh[m], SizeOf["mesh"], <<"mesh", m>>) : m \in TreeMeshes}

(* The body parts come first, and behind them each part fills the bytes      *)
(* counted for it with its models and meshes.                                *)
LEMMA TreeLaid ==
    ASSUME old \in Models, pos \in Nat, pos % 4 = 0
    PROVE  /\ Placed(ArrayOf("bodypart", pos, Len(old.bodyparts)), pos, TreeBase)
           /\ Placed(TreeRegions, TreeBase, TreeFirst[Len(old.bodyparts) + 1])
           /\ \A i \in 1 .. (Len(old.bodyparts) + 1) : TreeFirst[i] \in Nat
           /\ \A m \in TreeModels :
                /\ m = <<m[1], m[2]>> /\ m[1] \in 1 .. Len(old.bodyparts)
                /\ m[2] \in 1 .. Len(old.bodyparts[m[1]])
                /\ old.bodyparts[m[1]] \in Seq(Nat) /\ old.bodyparts[m[1]][m[2]] \in Nat
           /\ \A m \in TreeMeshes :
                /\ m = <<m[1], m[2], m[3]>> /\ <<m[1], m[2]>> \in TreeModels
                /\ <<m[2], m[3]>> \in Members(old.bodyparts[m[1]])
           /\ TreeModel \in [TreeModels -> Nat]
           /\ TreeMesh \in [TreeMeshes -> Nat]
<1> DEFINE n == Len(old.bodyparts)
           parts == old.bodyparts
           model == SizeOf["model"]
           mesh == SizeOf["mesh"]
           first == pos + n * SizeOf["bodypart"]
           Bytes == [i \in 1 .. n |-> PartBytes(parts[i])]
           First == [i \in 1 .. (n + 1) |-> first + SumTo(Bytes, i - 1)]
           NumModels == [i \in 1 .. n |-> Len(parts[i])]
           models == Members(NumModels)
           meshes == UNION {{<<m[1], m[2], k>> : k \in 1 .. parts[m[1]][m[2]]} : m \in models}
           Model == [m \in models |-> First[m[1]] + (m[2] - 1) * model]
           Mesh == [m \in meshes |-> First[m[1]] + Len(parts[m[1]]) * model
                       + (MeshesBefore(parts[m[1]], m[2]) + m[3] - 1) * mesh]
           A == ArrayOf("bodypart", pos, n)
           R == {Region(Model[m], model, <<"model", m>>) : m \in models}
           Q == {Region(Mesh[m], mesh, <<"mesh", m>>) : m \in meshes}
<1>1. n \in Nat /\ \A i \in 1 .. n : parts[i] \in Seq(Nat)
  BY Compiled
<1>2. /\ TreeBase = first /\ TreeFirst = First /\ TreeModels = models /\ TreeMeshes = meshes
      /\ TreeModel = Model /\ TreeMesh = Mesh /\ TreeRegions = R \cup Q
  <2>1. TreeBase = first /\ TreeBytes = Bytes /\ TreeCounts = NumModels
    BY DEF TreeBase, TreeBytes, TreeCounts
  <2>2. TreeFirst = First /\ TreeModels = models
    BY <2>1 DEF TreeFirst, TreeModels
  <2>3. TreeMeshes = meshes
    BY <2>2 DEF TreeMeshes
  <2>4. TreeModel = Model /\ TreeMesh = Mesh
    BY <2>2, <2>3 DEF TreeModel, TreeMesh
  <2> QED BY <2>2, <2>1, <2>3, <2>4 DEF TreeRegions
<1>4. Placed(A, pos, first) /\ first \in Nat /\ first % 4 = 0
  <2>1. "bodypart" \in Kinds
    BY DEF Kinds
  <2>2. /\ Placed(ArrayOf("bodypart", pos, n), pos, pos + n * SizeOf["bodypart"])
        /\ (pos + n * SizeOf["bodypart"]) % 4 = 0
    BY <1>1, <2>1, ArrayPlaced
  <2> HIDE DEF n
  <2> QED
    BY <2>2 DEF Placed
<1>6. model \in Nat /\ mesh \in Nat
  BY Sizes DEF Kinds
<1> HIDE DEF n, parts, model, mesh, first, A
<1>8. NumModels \in Seq(Nat) /\ Len(NumModels) = n /\ \A i \in 1 .. n : NumModels[i] = Len(parts[i])
  <2>1. \A i \in 1 .. n : Len(parts[i]) \in Nat
    BY <1>1
  <2> QED BY <1>1, <2>1
<1>9. Bytes \in Seq(Nat) /\ Len(Bytes) = n
      /\ \A i \in 1 .. n : Bytes[i] = PartBytes(parts[i]) /\ Bytes[i] % 4 = 0
  <2>1. \A i \in 1 .. n : PartBytes(parts[i]) \in Nat /\ PartBytes(parts[i]) % 4 = 0
    BY <1>1, PartSize
  <2> QED BY <1>1, <2>1
<1> HIDE DEF NumModels, Bytes
<1>10. /\ \A i \in 0 .. n : SumTo(Bytes, i) \in Nat /\ SumTo(Bytes, i) % 4 = 0
       /\ \A i \in 1 .. n : SumTo(Bytes, i) = SumTo(Bytes, i - 1) + PartBytes(parts[i])
       /\ SumTo(Bytes, 0) = 0
  BY <1>9, SumToIs, SumToAligned
<1>11. /\ \A i \in 1 .. (n + 1) : First[i] \in Nat /\ First[i] % 4 = 0
       /\ First[1] = first
       /\ \A i \in 1 .. n : First[i + 1] = First[i] + PartBytes(parts[i])
  <2>1. ASSUME NEW i \in 1 .. (n + 1) PROVE First[i] \in Nat /\ First[i] % 4 = 0
    <3>1. i - 1 \in 0 .. n /\ First[i] = first + SumTo(Bytes, i - 1)
      BY <1>1
    <3>2. SumTo(Bytes, i - 1) \in Nat /\ SumTo(Bytes, i - 1) % 4 = 0
      BY <1>10, <3>1
    <3>3. \A l, m \in Nat : l % 4 = 0 /\ m % 4 = 0 => l + m \in Nat /\ (l + m) % 4 = 0
      OBVIOUS
    <3> HIDE DEF First
    <3> QED BY <1>4, <3>1, <3>2, <3>3
  <2>2. First[1] = first
    <3>1. 1 \in 1 .. (n + 1) /\ 1 - 1 = 0
      BY <1>1
    <3>2. First[1] = first + SumTo(Bytes, 0)
      BY <3>1
    <3> HIDE DEF First
    <3> QED BY <1>4, <1>10, <3>2
  <2>3. ASSUME NEW i \in 1 .. n PROVE First[i + 1] = First[i] + PartBytes(parts[i])
    <3>1. /\ i \in 1 .. (n + 1) /\ i + 1 \in 1 .. (n + 1) /\ i + 1 - 1 = i /\ i - 1 \in 0 .. n
          /\ i \in 0 .. n
      BY <1>1
    <3>2. First[i + 1] = first + SumTo(Bytes, i) /\ First[i] = first + SumTo(Bytes, i - 1)
      BY <3>1
    <3>3. /\ SumTo(Bytes, i) = SumTo(Bytes, i - 1) + PartBytes(parts[i])
          /\ SumTo(Bytes, i - 1) \in Nat /\ PartBytes(parts[i]) \in Nat
      BY <1>1, <1>10, <3>1, PartSize
    <3>4. first \in Nat /\ \A x, y, z \in Nat : x + (y + z) = (x + y) + z
      BY <1>4
    <3> HIDE DEF First
    <3> QED BY <3>2, <3>3, <3>4
  <2> QED BY <2>1, <2>2, <2>3
<1> HIDE DEF First
<1>12. \A m \in models : /\ m = <<m[1], m[2]>> /\ m[1] \in 1 .. n /\ m[2] \in 1 .. Len(parts[m[1]])
                         /\ m[1] \in 1 .. (n + 1) /\ parts[m[1]] \in Seq(Nat)
                         /\ parts[m[1]][m[2]] \in Nat
  <2> TAKE m \in models
  <2>1. m = <<m[1], m[2]>> /\ m[1] \in 1 .. n /\ m[2] \in 1 .. NumModels[m[1]]
    BY <1>8 DEF Members
  <2>2. m[2] \in 1 .. Len(parts[m[1]]) /\ parts[m[1]] \in Seq(Nat)
    BY <1>1, <1>8, <2>1
  <2>3. m[1] \in 1 .. (n + 1)
    BY <1>1, <2>1
  <2>4. parts[m[1]][m[2]] \in Nat
    BY <2>2
  <2> QED BY <2>1, <2>2, <2>3, <2>4
<1>13. \A m \in meshes : /\ m = <<m[1], m[2], m[3]>> /\ <<m[1], m[2]>> \in models
                         /\ <<m[2], m[3]>> \in Members(parts[m[1]])
  <2> TAKE m \in meshes
  <2>1. PICK x \in models : \E k \in 1 .. parts[x[1]][x[2]] : m = <<x[1], x[2], k>>
    OBVIOUS
  <2>2. PICK k \in 1 .. parts[x[1]][x[2]] : m = <<x[1], x[2], k>>
    BY <2>1
  <2> HIDE DEF models, meshes
  <2>3. m[1] = x[1] /\ m[2] = x[2] /\ m[3] = k /\ x = <<x[1], x[2]>>
        /\ x[2] \in 1 .. Len(parts[x[1]])
    BY <1>12, <2>2
  <2>4. <<x[2], k>> \in Members(parts[x[1]])
    BY <2>3 DEF Members
  <2> QED BY <2>2, <2>3, <2>4
<1> HIDE DEF models, meshes
<1>14. Placed(R \cup Q, first, First[n + 1])
  <2> DEFINE P == [i \in 1 .. n |-> PartRegions(parts[i], First[i], i)]
             s == [i \in 0 .. n |-> First[i + 1]]
             U == UNION {P[i] : i \in 1 .. n}
  <2>1. s \in [0 .. n -> Nat] /\ s[0] = First[1] /\ s[n] = First[n + 1]
    <3>1. \A i \in 0 .. n : i + 1 \in 1 .. (n + 1)
      BY <1>1
    <3>2. 0 \in 0 .. n /\ n \in 0 .. n
      BY <1>1
    <3> QED BY <1>11, <3>1, <3>2
  <2>2. ASSUME NEW i \in 1 .. n PROVE Placed(P[i], s[i - 1], s[i])
    <3>1. i - 1 \in 0 .. n /\ i \in 0 .. n /\ i - 1 + 1 = i /\ i \in 1 .. (n + 1)
      BY <1>1
    <3>2. s[i - 1] = First[i] /\ s[i] = First[i + 1] /\ P[i] = PartRegions(parts[i], First[i], i)
      BY <3>1
    <3>3. First[i] \in Nat /\ First[i] % 4 = 0 /\ First[i + 1] = First[i] + PartBytes(parts[i])
          /\ parts[i] \in Seq(Nat)
      BY <1>1, <1>11, <3>1
    <3>4. Placed(PartRegions(parts[i], First[i], i), First[i], First[i] + PartBytes(parts[i]))
      BY <3>3, PartPlaced
    <3> HIDE DEF s, P
    <3> QED BY <3>2, <3>3, <3>4
  <2>3. \A i \in 1 .. n : Placed(P[i], s[i - 1], s[i])
    BY <2>2
  <2>4. Placed(U, s[0], s[n])
    <3> HIDE DEF s, P
    <3> QED BY <1>1, <2>1, <2>3, FamilyPlaced
  <2>5. \A i \in 1 .. n : PartRegions(parts[i], First[i], i) \subseteq U
    OBVIOUS
  <2> HIDE DEF U, P
  <2>6. R \subseteq U
    <3> SUFFICES ASSUME NEW m \in models PROVE Region(Model[m], model, <<"model", m>>) \in U
      OBVIOUS
    <3>1. m = <<m[1], m[2]>> /\ m[1] \in 1 .. n /\ m[2] \in 1 .. Len(parts[m[1]])
      BY <1>12
    <3>2. Model[m] = First[m[1]] + (m[2] - 1) * model
      OBVIOUS
    <3>3. Region(First[m[1]] + (m[2] - 1) * model, model, <<"model", <<m[1], m[2]>>>>)
             \in PartModels(parts[m[1]], First[m[1]], m[1])
      BY <3>1 DEF PartModels, model
    <3> HIDE DEF Model
    <3> QED BY <2>5, <3>1, <3>2, <3>3 DEF PartRegions
  <2>7. Q \subseteq U
    <3> SUFFICES ASSUME NEW m \in meshes PROVE Region(Mesh[m], mesh, <<"mesh", m>>) \in U
      OBVIOUS
    <3>1. m = <<m[1], m[2], m[3]>> /\ <<m[1], m[2]>> \in models
          /\ <<m[2], m[3]>> \in Members(parts[m[1]])
      BY <1>13
    <3>2. m[1] \in 1 .. n
      BY <1>12, <3>1
    <3> DEFINE x == <<m[2], m[3]>>
    <3>3. MemberRank(parts[m[1]])[x] = MeshesBefore(parts[m[1]], m[2]) + m[3] - 1
      BY <3>1 DEF MemberRank, MeshesBefore
    <3>4. Mesh[m] = First[m[1]] + Len(parts[m[1]]) * model + MemberRank(parts[m[1]])[x] * mesh
      BY <3>3
    <3>5. x[1] = m[2] /\ x[2] = m[3]
      OBVIOUS
    <3> HIDE DEF Mesh, x
    <3>6. Region(Mesh[m], mesh, <<"mesh", <<m[1], x[1], x[2]>>>>)
             \in PartMeshes(parts[m[1]], First[m[1]], m[1])
      BY <3>1, <3>4 DEF PartMeshes, model, mesh, x
    <3>7. Region(Mesh[m], mesh, <<"mesh", m>>) \in PartMeshes(parts[m[1]], First[m[1]], m[1])
      BY <3>1, <3>5, <3>6
    <3> QED BY <2>5, <3>2, <3>7 DEF PartRegions
  <2> HIDE DEF R, Q, s
  <2>8. R \cup Q \subseteq U
    BY <2>6, <2>7
  <2>9. Placed(U, first, First[n + 1])
    BY <1>11, <2>1, <2>4
  <2> QED BY <2>8, <2>9, PlacedPart
<1>17. Model \in [models -> Nat]
  <2> SUFFICES ASSUME NEW m \in models PROVE First[m[1]] + (m[2] - 1) * model \in Nat
    OBVIOUS
  <2> DEFINE k == (m[2] - 1) * model
  <2>1. m[2] - 1 \in Nat /\ First[m[1]] \in Nat
    BY <1>11, <1>12
  <2>2. k \in Nat
    BY <1>6, <2>1, RankAligned
  <2> HIDE DEF k
  <2>3. First[m[1]] + k \in Nat
    BY <2>1, <2>2
  <2> QED BY <2>3 DEF k
<1>18. Mesh \in [meshes -> Nat]
  <2> SUFFICES ASSUME NEW m \in meshes
               PROVE  First[m[1]] + Len(parts[m[1]]) * model
                       + (MeshesBefore(parts[m[1]], m[2]) + m[3] - 1) * mesh \in Nat
    OBVIOUS
  <2> DEFINE k == Len(parts[m[1]]) * model
             r == MeshesBefore(parts[m[1]], m[2]) + m[3] - 1
             l == r * mesh
  <2>1. <<m[1], m[2]>> \in models /\ <<m[2], m[3]>> \in Members(parts[m[1]])
    BY <1>13
  <2>2. First[m[1]] \in Nat /\ parts[m[1]] \in Seq(Nat)
    BY <1>11, <1>12, <2>1
  <2>3. k \in Nat
    BY <2>2, PartSize DEF model
  <2>4. r \in Nat
    <3>1. MemberRank(parts[m[1]])[<<m[2], m[3]>>] \in Nat
      BY <2>1, <2>2, MembersRanked
    <3> QED BY <2>1, <3>1 DEF MemberRank, MeshesBefore
  <2> HIDE DEF r
  <2>5. l \in Nat
    BY <1>6, <2>4, RankAligned
  <2> HIDE DEF k, l
  <2>6. First[m[1]] + k + l \in Nat
    BY <2>2, <2>3, <2>5
  <2> QED BY <2>6 DEF k, l, r
<1> HIDE DEF R, Q, Model, Mesh
<1> QED BY <1>2, <1>4, <1>11, <1>12, <1>13, <1>14, <1>17, <1>18 DEF n, parts, A

(* The body parts, and behind them the models and meshes of each part.      *)
LEMMA BodyPartsKeeps == LInv /\ ConvertBodyParts => LInv'
<1> SUFFICES ASSUME LInv, ConvertBodyParts PROVE LInv'
  OBVIOUS
<1> DEFINE n == Len(old.bodyparts)
           parts == old.bodyparts
           Part == ElementsAt("bodypart", pos, n)
           end == TreeFirst[n + 1]
           to == AlignData(end, 4)
           A == ArrayOf("bodypart", pos, n)
           rs == A \cup TreeRegions
           gs == {Reg(Part[i], "sznameindex", "body") : i \in 1 .. n}
           v2 == [i \in 1 .. n |-> Len(parts[i])]
           v3 == [i \in 1 .. n |-> TreeFirst[i] - Part[i]]
           v4 == [m \in TreeModels |-> parts[m[1]][m[2]]]
           v5 == [m \in TreeModels |-> MeshIndex(parts[m[1]], m[2])]
           v6 == [m \in TreeMeshes |-> TreeModel[<<m[1], m[2]>>] - TreeMesh[m]]
           i1 == HdrInt("bodypartindex", pos)
           i2 == IntsOver(Part, "nummodels", v2)
           i3 == IntsOver(Part, "modelindex", v3)
           i4 == IntsOver(TreeModel, "nummeshes", v4)
           i5 == IntsOver(TreeModel, "meshindex", v5)
           i6 == IntsOver(TreeMesh, "modelindex", v6)
           is == i1 ++ i2 ++ i3 ++ i4 ++ i5 ++ i6
<1>1. /\ pc = "bodyparts" /\ old \in Models /\ baseAddr \in BaseAddrs /\ pos \in Nat
      /\ pos % 4 = 0
  BY Before DEF ConvertBodyParts
<1>2. n \in Nat /\ \A i \in 1 .. n : parts[i] \in Seq(Nat)
  BY <1>1, Compiled
<1>3. Write("poseparams", to, rs, is, gs)
  <2> DEFINE R == {Region(TreeModel[m], SizeOf["model"], <<"model", m>>) : m \in TreeModels}
             Q == {Region(TreeMesh[m], SizeOf["mesh"], <<"mesh", m>>) : m \in TreeMeshes}
  <2>1. Write("poseparams", to, A \cup R \cup Q, is, gs)
    BY DEF ConvertBodyParts, TreeBase, TreeBytes, TreeCounts, TreeFirst, TreeModels,
           TreeMeshes, TreeModel, TreeMesh
  <2>2. A \cup R \cup Q = rs
    <3>1. TreeRegions = R \cup Q
      BY DEF TreeRegions
    <3> HIDE DEF A, R, Q
    <3> QED BY <3>1
  <2> HIDE DEF is, to, gs
  <2> QED BY <2>1, <2>2
<1>4. Owned(A, 1 .. n, Part)
  BY <1>1, <1>2, ArrayAddresses DEF Kinds
<1>5. Part \in [1 .. n -> Nat]
  BY <1>4 DEF Owned
<1>6. /\ Placed(A, pos, TreeBase) /\ Placed(TreeRegions, TreeBase, end)
      /\ \A i \in 1 .. (n + 1) : TreeFirst[i] \in Nat
      /\ TreeModel \in [TreeModels -> Nat] /\ TreeMesh \in [TreeMeshes -> Nat]
  BY <1>1, TreeLaid
<1>7. /\ \A m \in TreeModels : /\ m[2] \in 1 .. Len(parts[m[1]]) /\ parts[m[1]] \in Seq(Nat)
                                /\ parts[m[1]][m[2]] \in Nat
      /\ \A m \in TreeMeshes : <<m[1], m[2]>> \in TreeModels
  BY <1>1, TreeLaid
<1> HIDE DEF n, parts, Part, A
<1>8. end \in Nat
  <2>1. n + 1 \in 1 .. (n + 1)
    BY <1>2
  <2> QED BY <1>6, <2>1
<1>9. to \in Nat /\ end <= to /\ to % 4 = 0
  BY <1>1, <1>8, AlignedUp
<1>10. Placed(rs, pos, to)
  <2> HIDE DEF end, to
  <2>1. Placed(rs, pos, end)
    BY <1>6, PlacedJoin
  <2> QED BY <1>9, <2>1, PlacedTo
<1>11. Waiting(gs, rs)
  <2> DEFINE body == [i \in 1 .. n |-> "body"]
  <2>1. body \in [1 .. n -> Strings]
    BY LayoutAssumption
  <2>2. Owned(rs, 1 .. n, Part)
    BY <1>4 DEF Owned
  <2>3. \A g \in gs : \E i \in 1 .. n : g = Reg(Part[i], "sznameindex", body[i])
    OBVIOUS
  <2> HIDE DEF body, rs, gs
  <2>4. Each(gs, rs, 1 .. n, Part, "sznameindex", body)
    BY <2>1, <2>2, <2>3 DEF Each
  <2> QED BY <2>4, EachWaits
<1>12. Stored(is)
  <2> DEFINE S == 1 .. n
  <2>1. v2 \in [S -> Int]
    BY <1>2
  <2>2. v3 \in [S -> Int]
    <3> SUFFICES ASSUME NEW i \in S PROVE TreeFirst[i] - Part[i] \in Int
      OBVIOUS
    <3>1. i \in 1 .. (n + 1)
      BY <1>2
    <3> QED BY <1>5, <1>6, <3>1
  <2>3. v4 \in [TreeModels -> Int]
    BY <1>7
  <2>4. v5 \in [TreeModels -> Int]
    <3> SUFFICES ASSUME NEW m \in TreeModels PROVE MeshIndex(parts[m[1]], m[2]) \in Int
      OBVIOUS
    <3> DEFINE part == parts[m[1]]
               model == SizeOf["model"]
               mesh == SizeOf["mesh"]
               k == (Len(part) - (m[2] - 1)) * model
               l == MeshesBefore(part, m[2]) * mesh
    <3>0. model \in Nat /\ mesh \in Nat
      BY Sizes DEF Kinds
    <3>1. part \in Seq(Nat) /\ m[2] \in 1 .. Len(part)
      BY <1>7
    <3> HIDE DEF part
    <3>2. m[2] - 1 \in 0 .. Len(part) /\ Len(part) - (m[2] - 1) \in Nat
      BY <3>1
    <3>3. k \in Nat
      BY <3>0, <3>2, RankAligned
    <3>4. MeshesBefore(part, m[2]) \in Nat
      BY <3>1, <3>2, SumToIs DEF MeshesBefore
    <3>5. l \in Nat
      BY <3>0, <3>4, RankAligned
    <3>6. MeshIndex(part, m[2]) = k + l
      BY DEF MeshIndex
    <3> HIDE DEF k, l
    <3>7. MeshIndex(part, m[2]) \in Int
      BY <3>3, <3>5, <3>6
    <3> QED BY <3>7 DEF part
  <2>5. v6 \in [TreeMeshes -> Int]
    <3> SUFFICES ASSUME NEW m \in TreeMeshes PROVE TreeModel[<<m[1], m[2]>>] - TreeMesh[m] \in Int
      OBVIOUS
    <3>1. <<m[1], m[2]>> \in TreeModels
      BY <1>7
    <3>2. TreeModel[<<m[1], m[2]>>] \in Nat /\ TreeMesh[m] \in Nat
      BY <1>6, <3>1
    <3> QED BY <3>2
  <2>6. Part \in [S -> Nat]
    BY <1>5
  <2> HIDE DEF S, v2, v3, v4, v5, v6
  <2>7. Stored(i1)
    BY <1>1, StoredOne
  <2>8. Stored(i2)
    BY <2>1, <2>6, StoredOver
  <2>9. Stored(i3)
    BY <2>2, <2>6, StoredOver
  <2>10. Stored(i4)
    BY <1>6, <2>3, StoredOver
  <2>11. Stored(i5)
    BY <1>6, <2>4, StoredOver
  <2>12. Stored(i6)
    BY <1>6, <2>5, StoredOver
  <2> HIDE DEF i1, i2, i3, i4, i5, i6
  <2>13. Stored(i1 ++ i2)
    BY <2>7, <2>8, StoredJoin
  <2>14. Stored(i1 ++ i2 ++ i3)
    BY <2>9, <2>13, StoredJoin
  <2>15. Stored(i1 ++ i2 ++ i3 ++ i4)
    BY <2>10, <2>14, StoredJoin
  <2>16. Stored(i1 ++ i2 ++ i3 ++ i4 ++ i5)
    BY <2>11, <2>15, StoredJoin
  <2> QED BY <2>12, <2>16, StoredJoin
<1>13. "poseparams" \in Stages
  BY DEF Stages
<1> HIDE DEF to, rs, is, gs
<1> QED BY <1>3, <1>9, <1>10, <1>11, <1>12, <1>13, Adds

(* What is left over to the next multiple of 16 brings a number to it.      *)
LEMMA UpTo16 ==
    ASSUME NEW x \in Nat
    PROVE  /\ (16 - (x % 16)) % 16 \in Nat
           /\ (x + ((16 - (x % 16)) % 16)) % 16 = 0
OBVIOUS

(* The pieces of one panel, one behind the other, end at a multiple of 16.  *)
LEMMA PanelSizes ==
    ASSUME NEW p \in Nat,
           NEW m \in [name : Strings, parents : Nat, vertices : Nat, faces : Nat]
    PROVE  /\ RuiParent(p, m) \in Nat /\ SizeOf["ruimesh"] + StrLen[m.name] + 1 <= RuiParent(p, m)
           /\ StrLen[m.name] \in Nat
           /\ \A f \in RuiFieldNames : RuiField(p, m, f) \in Nat /\ RuiFieldSize(m, f) \in Nat
           /\ RuiEnd(p, m) \in Nat /\ RuiEnd(p, m) % 4 = 0
<1> DEFINE h == SizeOf["ruimesh"]
           l == StrLen[m.name]
           a == m.parents
           v == m.vertices
           f == m.faces
           fixed == h + (l + 1) + 2 * a + 8 * f
           pad == RuiPadding(p, m)
<1>1. h \in Nat /\ a \in Nat /\ v \in Nat /\ f \in Nat /\ l \in Nat
  <2>1. m.name \in Strings /\ a \in Nat /\ v \in Nat /\ f \in Nat
    OBVIOUS
  <2>2. h \in Nat
    BY Sizes DEF Kinds
  <2>3. l \in Nat
    BY <2>1, LayoutAssumption
  <2> QED BY <2>1, <2>2, <2>3
<1>2. /\ pad = (16 - ((p + fixed) % 16)) % 16
      /\ RuiParent(p, m) = h + (l + 1) + pad
      /\ RuiVertMap(p, m) = h + (l + 1) + pad + 2 * a
      /\ RuiUnk(p, m) = h + (l + 1) + pad + 2 * a + 6 * f
      /\ RuiVertex(p, m) = h + (l + 1) + pad + 2 * a + 6 * f + 2 * f
      /\ RuiFaceData(p, m) = h + (l + 1) + pad + 2 * a + 6 * f + 2 * f + 16 * v
      /\ RuiEnd(p, m) = p + (h + (l + 1) + pad + 2 * a + 6 * f + 2 * f + 16 * v) + 32 * f
  BY DEF RuiPadding, RuiParent, RuiVertMap, RuiUnk, RuiVertex, RuiFaceData, RuiEnd
<1>3. \A x \in RuiFieldNames : /\ RuiField(p, m, x) \in {RuiParent(p, m), RuiVertMap(p, m),
                                     RuiUnk(p, m), RuiVertex(p, m), RuiFaceData(p, m)}
                               /\ RuiFieldSize(m, x) \in {2 * a, 6 * f, 2 * f, 16 * v, 32 * f}
  BY DEF RuiFieldNames, RuiField, RuiFieldSize
<1> HIDE DEF h, l, a, v, f, pad
<1>4. fixed \in Nat /\ p + fixed \in Nat
  BY <1>1
<1>5. pad \in Nat /\ (p + fixed + pad) % 16 = 0
  <2> HIDE DEF fixed
  <2> QED BY <1>2, <1>4, UpTo16
<1>6. RuiEnd(p, m) = (p + fixed + pad) + 16 * (v + 2 * f)
  BY <1>1, <1>2, <1>5
<1>7. RuiEnd(p, m) \in Nat /\ RuiEnd(p, m) % 4 = 0
  <2> DEFINE k == p + fixed + pad
             q == v + 2 * f
  <2>1. k \in Nat /\ k % 16 = 0 /\ q \in Nat
    BY <1>1, <1>4, <1>5
  <2>2. RuiEnd(p, m) = k + 16 * q
    BY <1>6
  <2> HIDE DEF k, q
  <2> QED BY <2>1, <2>2
<1>8. /\ RuiParent(p, m) \in Nat /\ RuiVertMap(p, m) \in Nat /\ RuiUnk(p, m) \in Nat
      /\ RuiVertex(p, m) \in Nat /\ RuiFaceData(p, m) \in Nat
      /\ 2 * a \in Nat /\ 6 * f \in Nat /\ 2 * f \in Nat /\ 16 * v \in Nat /\ 32 * f \in Nat
  BY <1>1, <1>2, <1>5
<1>9. h + l + 1 <= RuiParent(p, m)
  BY <1>1, <1>2, <1>5
<1>10. \A x \in RuiFieldNames : RuiField(p, m, x) \in Nat /\ RuiFieldSize(m, x) \in Nat
  BY <1>3, <1>8
<1> QED BY <1>1, <1>7, <1>8, <1>9, <1>10 DEF h, l

(* One panel.                                                               *)
LEMMA PanelPlaced ==
    ASSUME NEW p \in Nat, p % 4 = 0, NEW i,
           NEW m \in [name : Strings, parents : Nat, vertices : Nat, faces : Nat]
    PROVE  Placed(RuiRegions(p, m, i), p, RuiEnd(p, m))
<1> DEFINE h == SizeOf["ruimesh"]
           l == StrLen[m.name] + 1
           b == p + RuiParent(p, m)
           c == p + RuiVertMap(p, m)
           d == p + RuiUnk(p, m)
           e == p + RuiVertex(p, m)
           g == p + RuiFaceData(p, m)
           z == RuiEnd(p, m)
           F(f) == Region(p + RuiField(p, m, f), RuiFieldSize(m, f), <<"rui", i, f>>)
           M == {Region(p, h, <<"ruimesh", i>>)}
           N == {Region(p + h, l, <<"ruiname", i>>)}
<1>1. /\ RuiParent(p, m) \in Nat /\ h + StrLen[m.name] + 1 <= RuiParent(p, m)
      /\ StrLen[m.name] \in Nat
      /\ \A f \in RuiFieldNames : RuiField(p, m, f) \in Nat /\ RuiFieldSize(m, f) \in Nat
  BY PanelSizes
<1>2. h \in Nat
  BY Sizes DEF Kinds
<1>3. /\ RuiFieldNames = {"parentindex", "vertmapindex", "unkindex", "vertexindex", "facedataindex"}
      /\ RuiField(p, m, "parentindex") = RuiParent(p, m)
      /\ RuiField(p, m, "vertmapindex") = RuiVertMap(p, m)
      /\ RuiField(p, m, "unkindex") = RuiUnk(p, m)
      /\ RuiField(p, m, "vertexindex") = RuiVertex(p, m)
      /\ RuiField(p, m, "facedataindex") = RuiFaceData(p, m)
      /\ RuiVertMap(p, m) = RuiParent(p, m) + RuiFieldSize(m, "parentindex")
      /\ RuiUnk(p, m) = RuiVertMap(p, m) + RuiFieldSize(m, "vertmapindex")
      /\ RuiVertex(p, m) = RuiUnk(p, m) + RuiFieldSize(m, "unkindex")
      /\ RuiFaceData(p, m) = RuiVertex(p, m) + RuiFieldSize(m, "vertexindex")
      /\ RuiEnd(p, m) = p + RuiFaceData(p, m) + RuiFieldSize(m, "facedataindex")
  BY DEF RuiFieldNames, RuiField, RuiFieldSize, RuiVertMap, RuiUnk, RuiVertex, RuiFaceData, RuiEnd
<1>4. /\ b \in Nat /\ c \in Nat /\ d \in Nat /\ e \in Nat /\ g \in Nat /\ p + h \in Nat
      /\ p + h + l <= b
      /\ c = b + RuiFieldSize(m, "parentindex") /\ d = c + RuiFieldSize(m, "vertmapindex")
      /\ e = d + RuiFieldSize(m, "unkindex") /\ g = e + RuiFieldSize(m, "vertexindex")
  <2> DEFINE p1 == RuiParent(p, m)
             s1 == RuiFieldSize(m, "parentindex")
             s2 == RuiFieldSize(m, "vertmapindex")
             s3 == RuiFieldSize(m, "unkindex")
             s4 == RuiFieldSize(m, "vertexindex")
             k == StrLen[m.name]
  <2>1. p1 \in Nat /\ s1 \in Nat /\ s2 \in Nat /\ s3 \in Nat /\ s4 \in Nat /\ k \in Nat
        /\ h + k + 1 <= p1
    BY <1>1, <1>3
  <2>2. /\ b = p + p1 /\ c = p + (p1 + s1) /\ d = p + (p1 + s1 + s2)
        /\ e = p + (p1 + s1 + s2 + s3) /\ g = p + (p1 + s1 + s2 + s3 + s4) /\ l = k + 1
    BY <1>3
  <2> HIDE DEF p1, s1, s2, s3, s4, k, b, c, d, e, g, h, l
  <2>3. b \in Nat /\ c \in Nat /\ d \in Nat /\ e \in Nat /\ g \in Nat
    BY <2>1, <2>2
  <2>4. p + h \in Nat /\ p + h + l <= b
    BY <1>2, <2>1, <2>2
  <2>5. c = b + s1 /\ d = c + s2 /\ e = d + s3 /\ g = e + s4
    BY <2>1, <2>2
  <2> QED BY <2>3, <2>4, <2>5 DEF s1, s2, s3, s4
<1>5. \A f \in RuiFieldNames :
          Placed({F(f)}, p + RuiField(p, m, f), p + RuiField(p, m, f) + RuiFieldSize(m, f))
  <2> TAKE f \in RuiFieldNames
  <2> DEFINE at == p + RuiField(p, m, f)
             size == RuiFieldSize(m, f)
  <2>1. at \in Nat /\ size \in Nat
    BY <1>1
  <2>2. "rui" \in PackedKinds
    BY DEF PackedKinds
  <2> HIDE DEF at, size
  <2>3. Placed({Region(at, size, <<"rui", i, f>>)}, at, at + size)
    BY <2>1, <2>2, PlacedOne
  <2> QED BY <2>3 DEF at, size
<1>6. /\ Placed({F("parentindex")}, b, c) /\ Placed({F("vertmapindex")}, c, d)
      /\ Placed({F("unkindex")}, d, e) /\ Placed({F("vertexindex")}, e, g)
      /\ Placed({F("facedataindex")}, g, z)
  <2> HIDE DEF F
  <2>1. Placed({F("parentindex")}, b, c)
    BY <1>3, <1>4, <1>5
  <2>2. Placed({F("vertmapindex")}, c, d)
    BY <1>3, <1>4, <1>5
  <2>3. Placed({F("unkindex")}, d, e)
    BY <1>3, <1>4, <1>5
  <2>4. Placed({F("vertexindex")}, e, g)
    BY <1>3, <1>4, <1>5
  <2>5. Placed({F("facedataindex")}, g, z)
    BY <1>3, <1>5
  <2> QED BY <2>1, <2>2, <2>3, <2>4, <2>5
<1>7. Placed(M, p, p + h)
  BY <1>2, PlacedOne
<1>8. Placed(N, p + h, b)
  <2> DEFINE at == p + h
  <2>1. at \in Nat /\ l \in Nat /\ at + l <= b
    BY <1>1, <1>4
  <2>2. "ruiname" \in PackedKinds
    BY DEF PackedKinds
  <2> HIDE DEF at, l, b
  <2>3. Placed({Region(at, l, <<"ruiname", i>>)}, at, at + l)
    BY <2>1, <2>2, PlacedOne
  <2>4. Placed({Region(at, l, <<"ruiname", i>>)}, at, b)
    BY <1>4, <2>1, <2>3, PlacedTo
  <2> QED BY <2>4 DEF at
<1>9. RuiRegions(p, m, i) = M \cup N \cup {F("parentindex")} \cup {F("vertmapindex")}
                               \cup {F("unkindex")} \cup {F("vertexindex")} \cup {F("facedataindex")}
  BY <1>3 DEF RuiRegions
<1> HIDE DEF F, M, N, b, c, d, e, g, z
<1>10. Placed(M \cup N, p, b)
  BY <1>7, <1>8, PlacedJoin
<1>11. Placed(M \cup N \cup {F("parentindex")}, p, c)
  BY <1>6, <1>10, PlacedJoin
<1>12. Placed(M \cup N \cup {F("parentindex")} \cup {F("vertmapindex")}, p, d)
  BY <1>6, <1>11, PlacedJoin
<1>13. Placed(M \cup N \cup {F("parentindex")} \cup {F("vertmapindex")} \cup {F("unkindex")}, p, e)
  BY <1>6, <1>12, PlacedJoin
<1>14. Placed(M \cup N \cup {F("parentindex")} \cup {F("vertmapindex")} \cup {F("unkindex")}
                \cup {F("vertexindex")}, p, g)
  BY <1>6, <1>13, PlacedJoin
<1>15. Placed(RuiRegions(p, m, i), p, z)
  BY <1>6, <1>9, <1>14, PlacedJoin
<1> QED BY <1>15 DEF z

\* Where WriteRuiSection lays the panels out: behind the entries, one after the
\* other.
RuiBase == pos + Len(old.rui) * SizeOf["ruiheader"]
RuiEnds[i \in 0 .. Len(old.rui)] ==
    IF i = 0 THEN RuiBase ELSE RuiEnd(RuiEnds[i - 1], old.rui[i])
RuiStart == [i \in 1 .. Len(old.rui) |-> RuiEnds[i - 1]]
RuiPanels == UNION {RuiRegions(RuiStart[i], old.rui[i], i) : i \in 1 .. Len(old.rui)}

(* The entries come first, and behind them panel after panel.               *)
LEMMA RuiLaid ==
    ASSUME old \in Models, pos \in Nat, pos % 4 = 0
    PROVE  /\ Placed(ArrayOf("ruiheader", pos, Len(old.rui)), pos, RuiBase)
           /\ Placed(RuiPanels, RuiBase, RuiEnds[Len(old.rui)])
           /\ RuiEnds[Len(old.rui)] \in Nat
           /\ RuiStart \in [1 .. Len(old.rui) -> Nat]
<1> DEFINE n == Len(old.rui)
           Panel == [name : Strings, parents : Nat, vertices : Nat, faces : Nat]
           first == pos + n * SizeOf["ruiheader"]
           fun(g) == [i \in 0 .. n |-> IF i = 0 THEN first ELSE RuiEnd(g[i - 1], old.rui[i])]
           end == CHOOSE g : g = fun(g)
           Start == [i \in 1 .. n |-> end[i - 1]]
           A == ArrayOf("ruiheader", pos, n)
           U == UNION {RuiRegions(Start[i], old.rui[i], i) : i \in 1 .. n}
<1>1. RuiBase = first /\ RuiEnds = end /\ RuiStart = Start /\ RuiPanels = U
  BY DEF RuiBase, RuiEnds, RuiStart, RuiPanels
<1>2. n \in Nat /\ \A i \in 1 .. n : old.rui[i] \in Panel
  <2>1. old.rui \in Seq(Panel)
    BY Compiled
  <2> HIDE DEF Panel
  <2> QED
    BY <2>1
<1>5. Placed(A, pos, first) /\ first \in Nat /\ first % 4 = 0
  <2>1. "ruiheader" \in Kinds
    BY DEF Kinds
  <2>2. /\ Placed(ArrayOf("ruiheader", pos, n), pos, pos + n * SizeOf["ruiheader"])
        /\ (pos + n * SizeOf["ruiheader"]) % 4 = 0
    BY <1>2, <2>1, ArrayPlaced
  <2> HIDE DEF n
  <2> QED
    BY <2>2 DEF Placed
<1> HIDE DEF n, first, A, Panel
<1>7. /\ \A i \in 0 .. n : end[i] \in Nat /\ end[i] % 4 = 0
      /\ end[0] = first /\ \A i \in 1 .. n : end[i] = RuiEnd(end[i - 1], old.rui[i])
  <2> DEFINE Fours == {x \in Nat : x % 4 = 0}
             step == [k \in 1 .. n |-> [v \in Fours |-> RuiEnd(v, old.rui[k])]]
  <2>1. \A k \in 1 .. n : \A v \in Fours : RuiEnd(v, old.rui[k]) \in Fours
    BY <1>2, PanelSizes DEF Panel
  <2>2. step \in Steps(Fours, n) /\ first \in Fours
    BY <1>5, <2>1 DEF Steps
  <2>3. \A k \in 1 .. n : \A v \in Fours : step[k][v] = RuiEnd(v, old.rui[k])
    OBVIOUS
  <2> HIDE DEF step, Fours
  <2>4. PICK h : Recursive(h, Fours, n, first, step)
    BY <1>2, <2>2, Recursion
  <2>5. /\ h \in [0 .. n -> Fours]
        /\ \A k \in 0 .. n : h[k] = IF k = 0 THEN first ELSE step[k][h[k - 1]]
    BY <2>4 DEF Recursive
  <2>6. h = fun(h)
    <3> SUFFICES ASSUME NEW k \in 0 .. n
                 PROVE  h[k] = IF k = 0 THEN first ELSE RuiEnd(h[k - 1], old.rui[k])
      BY <2>5
    <3>1. CASE k = 0
      BY <2>5, <3>1
    <3>2. CASE k # 0
      <4>1. k \in 1 .. n /\ k - 1 \in 0 .. n
        BY <1>2, <3>2
      <4>2. h[k - 1] \in Fours
        BY <2>5, <4>1
      <4>3. h[k] = step[k][h[k - 1]]
        BY <2>5, <3>2
      <4> QED BY <2>3, <3>2, <4>1, <4>2, <4>3
    <3> QED BY <3>1, <3>2
  <2>7. end = fun(end)
    BY <2>6
  <2> DEFINE e == end
  <2>8. e = fun(e)
    BY <2>7
  <2> HIDE DEF e, end
  <2>9. \A k \in 0 .. n : e[k] = IF k = 0 THEN first ELSE RuiEnd(e[k - 1], old.rui[k])
    BY <2>8
  <2>10. e[0] = first /\ \A i \in 1 .. n : e[i] = RuiEnd(e[i - 1], old.rui[i])
    <3>1. 0 \in 0 .. n /\ \A i \in 1 .. n : i \in 0 .. n /\ i # 0
      BY <1>2
    <3> QED BY <2>9, <3>1
  <2> DEFINE T == {k \in 0 .. n : e[k] \in Fours}
  <2>11. 0 \in T
    BY <1>2, <2>2, <2>10
  <2>12. \A k \in 0 .. n - 1 : k \in T => k + 1 \in T
    <3> SUFFICES ASSUME NEW k \in 0 .. n - 1, k \in T PROVE k + 1 \in T
      OBVIOUS
    <3>1. k + 1 \in 1 .. n /\ k + 1 \in 0 .. n /\ k + 1 - 1 = k
      BY <1>2
    <3>2. e[k + 1] = RuiEnd(e[k], old.rui[k + 1])
      BY <2>10, <3>1
    <3> QED BY <2>1, <3>1, <3>2
  <2> HIDE DEF T
  <2>13. 0 .. n \subseteq T
    BY <1>2, <2>11, <2>12, InductionTo
  <2>14. \A k \in 0 .. n : e[k] \in Nat /\ e[k] % 4 = 0
    BY <2>13 DEF T, Fours
  <2> QED BY <2>10, <2>14 DEF e
<1> HIDE DEF end
<1>8. \A i \in 1 .. n : /\ Start[i] = end[i - 1] /\ Start[i] \in Nat /\ Start[i] % 4 = 0
                        /\ i \in 0 .. n /\ i - 1 \in 0 .. n
  <2>1. \A i \in 1 .. n : i \in 0 .. n /\ i - 1 \in 0 .. n
    BY <1>2
  <2> QED BY <1>7, <2>1
<1>9. Start = [i \in 1 .. n |-> Start[i]]
  OBVIOUS
<1> HIDE DEF Start
<1>10. Placed(U, first, end[n])
  <2> DEFINE P == [i \in 1 .. n |-> RuiRegions(Start[i], old.rui[i], i)]
             s == [i \in 0 .. n |-> end[i]]
             W == UNION {P[i] : i \in 1 .. n}
  <2>1. s \in [0 .. n -> Nat] /\ s[0] = first /\ s[n] = end[n]
    <3>1. 0 \in 0 .. n /\ n \in 0 .. n
      BY <1>2
    <3> QED BY <1>7, <3>1
  <2>2. ASSUME NEW i \in 1 .. n PROVE Placed(P[i], s[i - 1], s[i])
    <3>1. /\ P[i] = RuiRegions(Start[i], old.rui[i], i)
          /\ s[i - 1] = Start[i] /\ s[i] = RuiEnd(Start[i], old.rui[i])
      BY <1>7, <1>8
    <3>2. Placed(RuiRegions(Start[i], old.rui[i], i), Start[i], RuiEnd(Start[i], old.rui[i]))
      BY <1>2, <1>8, PanelPlaced DEF Panel
    <3> HIDE DEF P, s
    <3> QED BY <3>1, <3>2
  <2>3. \A i \in 1 .. n : Placed(P[i], s[i - 1], s[i])
    BY <2>2
  <2>4. Placed(W, s[0], s[n])
    <3> HIDE DEF s, P
    <3> QED BY <1>2, <2>1, <2>3, FamilyPlaced
  <2>5. U = W
    OBVIOUS
  <2> HIDE DEF U, W, s
  <2> QED BY <2>1, <2>4, <2>5
<1>11. end[n] \in Nat /\ Start \in [1 .. n -> Nat]
  <2>1. end[n] \in Nat
    BY <1>2, <1>7
  <2> QED BY <1>8, <1>9, <2>1
<1> HIDE DEF U
<1> QED BY <1>1, <1>5, <1>10, <1>11 DEF n, A

(* The panels: the entries, and behind them panel after panel.              *)
LEMMA RuiKeeps == LInv /\ WriteRuiSection => LInv'
<1> SUFFICES ASSUME LInv, WriteRuiSection PROVE LInv'
  OBVIOUS
<1> DEFINE n == Len(old.rui)
           Panel == [name : Strings, parents : Nat, vertices : Nat, faces : Nat]
           Entry == ElementsAt("ruiheader", pos, n)
           end == RuiEnds[n]
           to == AlignData(end, 4)
           A == ArrayOf("ruiheader", pos, n)
           rs == A \cup RuiPanels
           V(f) == [i \in 1 .. n |-> RuiField(RuiStart[i], old.rui[i], f)]
           Ints(f) == IntsOver(RuiStart, f, V(f))
           v3 == [i \in 1 .. n |-> RuiStart[i] - Entry[i]]
           i2 == HdrInt("uiPanelCount", n) ++ HdrInt("uiPanelOffset", pos)
           i3 == i2 ++ IntsOver(Entry, "ruimeshindex", v3)
           i4 == i3 ++ Ints("parentindex")
           i5 == i4 ++ Ints("vertmapindex")
           i6 == i5 ++ Ints("unkindex")
           i7 == i6 ++ Ints("vertexindex")
           i8 == i7 ++ Ints("facedataindex")
<1>1. /\ pc = "rui" /\ old \in Models /\ baseAddr \in BaseAddrs /\ pos \in Nat
      /\ pos % 4 = 0
  BY Before DEF WriteRuiSection
<1>2. n \in Nat /\ \A i \in 1 .. n : old.rui[i] \in Panel
  <2>1. old.rui \in Seq(Panel)
    BY <1>1, Compiled
  <2> HIDE DEF Panel
  <2> QED
    BY <2>1
<1>3. Skip("textures") \/ Write("textures", to, rs, i8, {})
  BY DEF WriteRuiSection, RuiBase, RuiEnds, RuiStart, RuiPanels
<1>4. "textures" \in Stages \ {"header", "done"}
  BY DEF Stages
<1>5. Entry \in [1 .. n -> Nat]
  BY <1>1, <1>2, ArrayAddresses DEF Kinds, Owned
<1>6. /\ Placed(A, pos, RuiBase) /\ Placed(RuiPanels, RuiBase, end) /\ end \in Nat
      /\ RuiStart \in [1 .. n -> Nat]
  BY <1>1, RuiLaid
<1> HIDE DEF n, Entry, A, Panel, end
<1>7. to \in Nat /\ end <= to /\ to % 4 = 0
  BY <1>1, <1>6, AlignedUp
<1> HIDE DEF to
<1>8. Placed(rs, pos, to)
  <2>1. Placed(rs, pos, end)
    BY <1>6, PlacedJoin
  <2> QED BY <1>7, <2>1, PlacedTo
<1>9. Stored(i8)
  <2> DEFINE S == 1 .. n
  <2>1. RuiStart \in [S -> Nat]
    BY <1>6
  <2>2. Entry \in [S -> Nat]
    BY <1>5
  <2>3. v3 \in [S -> Int]
    <3> SUFFICES ASSUME NEW i \in S PROVE RuiStart[i] - Entry[i] \in Int
      OBVIOUS
    <3>1. RuiStart[i] \in Nat /\ Entry[i] \in Nat
      BY <1>5, <1>6
    <3> QED BY <3>1
  <2>4. ASSUME NEW f \in RuiFieldNames PROVE Stored(Ints(f))
    <3>1. V(f) \in [S -> Int]
      <4> SUFFICES ASSUME NEW i \in S PROVE RuiField(RuiStart[i], old.rui[i], f) \in Int
        OBVIOUS
      <4>1. RuiField(RuiStart[i], old.rui[i], f) \in Nat
        BY <1>2, <1>6, PanelSizes DEF Panel
      <4> QED BY <4>1
    <3> DEFINE v == V(f)
    <3>2. v \in [S -> Int]
      BY <3>1
    <3> HIDE DEF S, v
    <3>3. Stored(IntsOver(RuiStart, f, v))
      BY <2>1, <3>2, StoredOver
    <3> QED BY <3>3 DEF v
  <2> HIDE DEF S, v3, Ints
  <2>5. Stored(HdrInt("uiPanelCount", n))
    BY <1>2, StoredOne
  <2>6. Stored(i2)
    BY <1>1, <2>5, StoredAlso
  <2>7. Stored(IntsOver(Entry, "ruimeshindex", v3))
    BY <2>2, <2>3, StoredOver
  <2>8. Stored(i3)
    BY <2>6, <2>7, StoredJoin
  <2>9. /\ Stored(Ints("parentindex")) /\ Stored(Ints("vertmapindex")) /\ Stored(Ints("unkindex"))
        /\ Stored(Ints("vertexindex")) /\ Stored(Ints("facedataindex"))
    BY <2>4 DEF RuiFieldNames
  <2>10. Stored(i4)
    BY <2>8, <2>9, StoredJoin
  <2>11. Stored(i5)
    BY <2>9, <2>10, StoredJoin
  <2>12. Stored(i6)
    BY <2>9, <2>11, StoredJoin
  <2>13. Stored(i7)
    BY <2>9, <2>12, StoredJoin
  <2> QED BY <2>9, <2>13, StoredJoin
<1>10. Waiting({}, rs)
  BY DEF Waiting
<1> HIDE DEF i8, rs
<1> QED BY <1>1, <1>3, <1>4, <1>7, <1>8, <1>9, <1>10, Adds, SkipKeeps

-----------------------------------------------------------------------------
(* The empty buffer satisfies the invariant, and every converter keeps it.  *)
LEMMA InitLInv == Init => LInv
<1> SUFFICES ASSUME Init PROVE LInv
  OBVIOUS
<1>1. pc = "header" /\ old \in Models /\ baseAddr \in BaseAddrs /\ pos = 0 /\ regions = {}
      /\ ints = << >> /\ regs = {}
  BY DEF Init
<1>2. Placed({}, 0, 0)
  BY PlacedNone
<1>3. Waiting({}, {})
  BY DEF Waiting
<1> QED BY <1>1, <1>2, <1>3, StoredNone DEF LInv, Stages

(* Every step of the run, and none at all, keeps the invariant.             *)
LEMMA NextLInv == LInv /\ [Next]_vars => LInv'
<1> SUFFICES ASSUME LInv, [Next]_vars PROVE LInv'
  OBVIOUS
<1>1. CASE UNCHANGED vars
  BY <1>1 DEF LInv, vars, Placed, Waiting, Stored
<1>2. CASE Next
  BY <1>2, HeaderKeeps, BonesKeeps, AttachmentsKeeps, HitboxesKeeps, BoneByNameKeeps,
     SequenceKeeps, BodyPartsKeeps, PoseParamsKeeps, RuiKeeps, TexturesKeeps, SkinsKeeps,
     KeyValuesKeeps, SrcBoneTransformsKeeps, LinearBonesKeeps, StringsKeeps, BvhKeeps DEF Next
<1> QED BY <1>1, <1>2

(* What is written is placed, from the empty buffer to the finished file.   *)
THEOREM LInvHolds == Spec => []LInv
BY InitLInv, NextLInv, PTL DEF Spec

(* The finished image is well formed: its structs are disjoint, lie inside   *)
(* the length its header states, and start at multiples of 4 where they      *)
(* hold ints; and every variable has its type.                              *)
THEOREM StructsPlacedHolds == Spec => []StructsPlaced
<1>1. LInv => StructsPlaced
  <2> SUFFICES ASSUME LInv PROVE StructsPlaced
    OBVIOUS
  <2>1. /\ pc \in Stages /\ old \in Models /\ baseAddr \in BaseAddrs
        /\ pc # "done" => pos % 4 = 0
        /\ Placed(regions, 0, pos) /\ Waiting(regs, regions) /\ Stored(ints)
        /\ pc = "done" => ints[<<0, "length">>] = pos
    BY DEF LInv
  <2>2. /\ pos \in Nat
        /\ \A r \in regions : /\ r.at \in Nat /\ r.size \in Nat /\ r.at + r.size <= pos
                              /\ r.what[1] \notin PackedKinds => r.at % 4 = 0
        /\ \A r, q \in regions : r # q => r.at + r.size <= q.at \/ q.at + q.size <= r.at
    BY <2>1 DEF Placed
  <2>3. pc # "done" => (baseAddr + pos) % 4 = 0
    <3>1. baseAddr \in Nat /\ baseAddr % 4 = 0
      BY <2>1, LayoutAssumption
    <3> QED BY <2>1, <2>2, <3>1
  <2>4. TypeOK
    BY <2>1, <2>2, <2>3 DEF TypeOK, Waiting, Stored
  <2>5. RegionsDisjoint /\ StructsAligned
    BY <2>1, <2>2 DEF RegionsDisjoint, StructsAligned, Done, H
  <2> QED BY <2>4, <2>5 DEF StructsPlaced
<1> QED BY <1>1, LInvHolds, PTL

(* In the finished image, each field that waits for a string is a field of a *)
(* struct that was written, and waits for one string only.                  *)
THEOREM StringFieldsOwnedHolds == Spec => []StringFieldsOwned
<1>1. LInv => StringFieldsOwned
  BY DEF LInv, Waiting, StringFieldsOwned, Done
<1> QED BY <1>1, LInvHolds, PTL

-----------------------------------------------------------------------------
(***************************************************************************)
(* Reading the file back.  What a converter stored stays where it is: the   *)
(* converters behind it only store in the structs they append and in the    *)
(* header fields of their own.  So once a converter has laid a part of the  *)
(* model out in a way a reader can follow, it can be followed to the end.   *)
(***************************************************************************)

\* The stores is give a field of the struct at a the value v.
Has(is, a, field, v) == <<a, field>> \in DOMAIN is /\ is[<<a, field>>] = v

\* The struct at a has been written, and its field holds v.
Held(a, field, v) ==
    a \in Nat /\ Has(ints, a, field, v) /\ \E r \in regions : r.at = a /\ r.size > 0

\* The stores is go to the fields F of the header, or to structs from a on.
StoresIn(is, a, F) ==
    \A k \in DOMAIN is : (k[1] = 0 /\ k[2] \in F) \/ (k[1] \in Nat /\ a <= k[1])

\* The stores is go to fields of the names N.
OfFields(is, N) == \A k \in DOMAIN is : k[2] \in N

\* A step of a converter that stores only the fields F of the header anew.
Keeps(F) ==
    /\ regions \subseteq regions'
    /\ old' = old
    /\ \A a, f, v : Held(a, f, v) /\ f \notin F => Held(a, f, v)'

\* The i-th struct of an array at a.
Slot(kind, a, i) == a + (i - 1) * SizeOf[kind]

-----------------------------------------------------------------------------
(* Stores.                                                                  *)

(* The left of two stores wins where both store.                            *)
LEMMA HasLeft ==
    ASSUME NEW f, NEW g, NEW a, NEW field, NEW v, Has(f, a, field, v)
    PROVE  Has(f ++ g, a, field, v)
BY DEF Has, ++

(* The right one counts where the left one does not store.                  *)
LEMMA HasRight ==
    ASSUME NEW f, NEW g, NEW a, NEW field, NEW v, Has(g, a, field, v),
           <<a, field>> \notin DOMAIN f
    PROVE  Has(f ++ g, a, field, v)
BY DEF Has, ++

(* One field of the header, or of another struct.                           *)
LEMMA HasOne ==
    ASSUME NEW field, NEW v, NEW a
    PROVE  Has(HdrInt(field, v), 0, field, v) /\ Has(StructInt(a, field, v), a, field, v)
BY DEF Has, HdrInt, StructInt

(* A field of each of several structs, which have addresses of their own.   *)
LEMMA HasOver ==
    ASSUME NEW S, NEW at \in [S -> Nat], \A x, y \in S : at[x] = at[y] => x = y,
           NEW field, NEW v, NEW x \in S
    PROVE  Has(IntsOver(at, field, v), at[x], field, v[x])
<1> DEFINE k == <<at[x], field>>
           is == IntsOver(at, field, v)
<1>1. k \in DOMAIN is /\ is[k] = v[CHOOSE y \in DOMAIN at : at[y] = k[1]]
  BY DEF IntsOver
<1>2. DOMAIN at = S /\ k[1] = at[x]
  OBVIOUS
<1>3. (CHOOSE y \in S : at[y] = at[x]) = x
  OBVIOUS
<1> QED BY <1>1, <1>2, <1>3 DEF Has

(* No field of another name, or of a struct elsewhere, is stored.           *)
LEMMA OverOther ==
    ASSUME NEW a, NEW field, NEW S, NEW at \in [S -> Nat], NEW other, NEW v,
           field # other \/ \A x \in S : at[x] # a
    PROVE  <<a, field>> \notin DOMAIN IntsOver(at, other, v)
<1>1. DOMAIN IntsOver(at, other, v) = {<<at[x], other>> : x \in S}
  BY DEF IntsOver
<1> QED BY <1>1

(* What neither of two stores holds.                                        *)
LEMMA JoinOther ==
    ASSUME NEW f, NEW g, NEW k, k \notin DOMAIN f, k \notin DOMAIN g
    PROVE  k \notin DOMAIN (f ++ g)
BY DEF ++

(* The names of the fields that two stores store, together.                 *)
LEMMA FieldsJoin ==
    ASSUME NEW f, NEW g, NEW N, NEW M, OfFields(f, N), OfFields(g, M)
    PROVE  OfFields(f ++ g, N \cup M)
BY DEF OfFields, ++

(* The name of one field.                                                   *)
LEMMA FieldsOne ==
    ASSUME NEW field, NEW v, NEW a, NEW at
    PROVE  /\ OfFields(HdrInt(field, v), {field}) /\ OfFields(StructInt(a, field, v), {field})
           /\ OfFields(IntsOver(at, field, v), {field})
<1>1. \A k \in DOMAIN HdrInt(field, v) : k = <<0, field>>
  BY DEF HdrInt
<1>2. \A k \in DOMAIN StructInt(a, field, v) : k = <<a, field>>
  BY DEF StructInt
<1>3. \A k \in DOMAIN IntsOver(at, field, v) : \E x \in DOMAIN at : k = <<at[x], field>>
  BY DEF IntsOver
<1> QED BY <1>1, <1>2, <1>3 DEF OfFields

(* A field of another name is not stored.                                   *)
LEMMA NoField ==
    ASSUME NEW f, NEW N, OfFields(f, N), NEW a, NEW field, field \notin N
    PROVE  <<a, field>> \notin DOMAIN f
<1>1. <<a, field>>[2] = field
  OBVIOUS
<1> QED BY <1>1 DEF OfFields

(* So what the right one of two stores stores under another name counts.    *)
LEMMA HasOther ==
    ASSUME NEW f, NEW g, NEW a, NEW field, NEW v, Has(g, a, field, v),
           NEW N, OfFields(f, N), field \notin N
    PROVE  Has(f ++ g, a, field, v)
BY NoField, HasRight

(* Where two stores go.                                                     *)
LEMMA InJoin ==
    ASSUME NEW f, NEW g, NEW a, NEW F, StoresIn(f, a, F), StoresIn(g, a, F)
    PROVE  StoresIn(f ++ g, a, F)
BY DEF StoresIn, ++

(* Where a store of a field of the header goes.                             *)
LEMMA InHdr ==
    ASSUME NEW a, NEW F, NEW field \in F, NEW v
    PROVE  StoresIn(HdrInt(field, v), a, F)
<1>1. \A k \in DOMAIN HdrInt(field, v) : k = <<0, field>>
  BY DEF HdrInt
<1> QED BY <1>1 DEF StoresIn

(* Where a store of a field of a struct goes.                               *)
LEMMA InStruct ==
    ASSUME NEW a \in Nat, NEW F, NEW b \in Nat, a <= b, NEW field, NEW v
    PROVE  StoresIn(StructInt(b, field, v), a, F)
<1>1. \A k \in DOMAIN StructInt(b, field, v) : k = <<b, field>>
  BY DEF StructInt
<1> QED BY <1>1 DEF StoresIn

(* Where a store of a field of each of several structs goes.                *)
LEMMA InOver ==
    ASSUME NEW a \in Nat, NEW F, NEW S, NEW at \in [S -> Nat], \A x \in S : a <= at[x],
           NEW field, NEW v
    PROVE  StoresIn(IntsOver(at, field, v), a, F)
<1>1. DOMAIN IntsOver(at, field, v) = {<<at[x], field>> : x \in S}
  BY DEF IntsOver
<1>2. ASSUME NEW k \in DOMAIN IntsOver(at, field, v) PROVE k[1] \in Nat /\ a <= k[1]
  <2>1. PICK x \in S : k = <<at[x], field>>
    BY <1>1
  <2> QED BY <2>1
<1> QED BY <1>2 DEF StoresIn

(* A store of nothing.                                                      *)
LEMMA InNone ==
    ASSUME NEW a, NEW F
    PROVE  StoresIn(<< >>, a, F)
BY DEF StoresIn

-----------------------------------------------------------------------------
(* A converter stores behind the cursor, so it changes nothing that is held. *)
LEMMA WriteHolds ==
    ASSUME LInv, NEW next, NEW to, NEW rs, NEW is, NEW gs, Write(next, to, rs, is, gs),
           NEW F, StoresIn(is, pos, F)
    PROVE  Keeps(F) /\ pc' = next
<1>1. /\ regions' = regions \cup rs /\ ints' = is ++ ints /\ old' = old /\ pc' = next
  BY DEF Write
<1>2. ASSUME NEW a, NEW f, NEW v, Held(a, f, v), f \notin F
      PROVE  Held(a, f, v)'
  <2>1. a \in Nat /\ Has(ints, a, f, v)
    BY <1>2 DEF Held
  <2>2. PICK r \in regions : r.at = a /\ r.size > 0
    BY <1>2 DEF Held
  <2>3. r.at \in Nat /\ r.size \in Nat /\ r.at + r.size <= pos /\ pos \in Nat
    BY <2>2 DEF LInv, Placed
  <2>4. a < pos
    BY <2>2, <2>3
  <2>5. <<a, f>> \notin DOMAIN is
    <3> SUFFICES ASSUME <<a, f>> \in DOMAIN is PROVE FALSE
      OBVIOUS
    <3>1. (a = 0 /\ f \in F) \/ pos <= a
      BY DEF StoresIn
    <3> QED BY <1>2, <2>1, <2>3, <2>4, <3>1
  <2>6. Has(ints', a, f, v)
    BY <1>1, <2>1, <2>5, HasRight
  <2>7. r \in regions'
    BY <1>1, <2>2
  <2> QED BY <2>1, <2>2, <2>6, <2>7 DEF Held, Has
<1> QED BY <1>1, <1>2 DEF Keeps

(* A converter with nothing to write changes nothing.                       *)
LEMMA SkipHolds ==
    ASSUME NEW next, Skip(next), NEW F
    PROVE  Keeps(F) /\ pc' = next
BY DEF Skip, Keeps, Held, Has

(* What a converter writes and stores is there when it is done.             *)
LEMMA WriteThere ==
    ASSUME NEW next, NEW to, NEW rs, NEW is, NEW gs, Write(next, to, rs, is, gs)
    PROVE  /\ \A r \in rs : At(r.at, r.what)'
           /\ \A a \in Nat : \A f, v :
                Has(is, a, f, v) /\ (\E r \in regions \cup rs : r.at = a /\ r.size > 0)
                  => Held(a, f, v)'
           /\ old' = old
<1>1. regions' = regions \cup rs /\ ints' = is ++ ints /\ old' = old
  BY DEF Write
<1>2. ASSUME NEW r \in rs PROVE At(r.at, r.what)'
  BY <1>1 DEF At
<1>3. ASSUME NEW a \in Nat, NEW f, NEW v, Has(is, a, f, v),
             \E r \in regions \cup rs : r.at = a /\ r.size > 0
      PROVE  Held(a, f, v)'
  <2>1. Has(ints', a, f, v)
    BY <1>1, <1>3, HasLeft
  <2>2. \E r \in regions' : r.at = a /\ r.size > 0
    BY <1>1, <1>3
  <2> QED BY <2>1, <2>2 DEF Held, Has
<1> QED BY <1>1, <1>2, <1>3

(* What is there stays.                                                     *)
LEMMA AtStays ==
    ASSUME NEW F, Keeps(F), NEW a, NEW what, At(a, what)
    PROVE  At(a, what)'
BY DEF Keeps, At

-----------------------------------------------------------------------------
(* What can be followed.                                                    *)

\* The header has been written, with the counts of the compiled model.
CountsFound ==
    /\ \E r \in regions : r.at = 0 /\ r.size > 0
    /\ Held(0, "numbones", Len(old.bones))
    /\ Held(0, "numbodyparts", Len(old.bodyparts))
    /\ Held(0, "numhitboxsets", Len(old.hitboxsets))

\* The bones from b on; for a jiggle bone its jiggle struct; and, where there
\* are c > 0 jiggle bones, the two tables, one behind the other from t on.
SkeletonAt(b, c, t) ==
    /\ Held(0, "boneindex", b) /\ Held(0, "procBoneCount", c)
    /\ c > 0 => /\ Held(0, "procBoneTableOffset", t)
                /\ Held(0, "linearProcBoneOffset", t + c)
    /\ \A i \in 1 .. Len(old.bones) :
         /\ At(Slot("bone", b, i), <<"bone", i>>)
         /\ i \in Jiggles =>
              /\ \E d \in Int : /\ Held(Slot("bone", b, i), "procindex", d)
                                /\ At(Slot("bone", b, i) + d, <<"jigglebone", i>>)
              /\ c > 0
              /\ \E k \in 0 .. c - 1 : /\ At(t + c + i - 1, <<"linearProcBone", k>>)
                                       /\ At(t + k, <<"procBone", i>>)
         /\ i \notin Jiggles /\ c > 0 => At(t + c + i - 1, <<"linearProcBone", 255>>)
SkeletonFound == \E b, c, t \in Nat : SkeletonAt(b, c, t)

\* The hitbox sets from b on, and from each set its boxes.
SetAt(a, i) ==
    \E g \in Nat : /\ Held(a, "hitboxindex", g - a)
                   /\ \A k \in 1 .. Len(old.hitboxsets[i]) :
                        At(Slot("bbox", g, k), <<"bbox", <<i, k>>>>)
SetsFound ==
    \E b \in Nat : /\ Held(0, "hitboxsetindex", b)
                   /\ \A i \in 1 .. Len(old.hitboxsets) : SetAt(Slot("hitboxset", b, i), i)

\* The default sequence, its weights, and by its blend index its animation.
SequenceFound ==
    \E s \in Nat : \E w, b, c \in Int :
        /\ Held(0, "localseqindex", s)
        /\ Held(s, "weightlistindex", w) /\ At(s + w, <<"weightlist">>)
        /\ Held(s, "animindexindex", b)
        /\ Held(s + b, "blend", c) /\ At(s + c, <<"animdesc">>)

\* The body parts from b on, from each part its models, from each model its
\* meshes, and from each mesh its model.
ModelAt(m, i, j) ==
    /\ At(m, <<"model", <<i, j>>>>)
    /\ \E g \in Nat :
         /\ Held(m, "meshindex", g - m)
         /\ \A k \in 1 .. old.bodyparts[i][j] :
              /\ At(Slot("mesh", g, k), <<"mesh", <<i, j, k>>>>)
              /\ Held(Slot("mesh", g, k), "modelindex", m - Slot("mesh", g, k))
PartAt(a, i) ==
    /\ Held(a, "nummodels", Len(old.bodyparts[i]))
    /\ \E f \in Nat :
         /\ Held(a, "modelindex", f - a)
         /\ \A j \in 1 .. Len(old.bodyparts[i]) : ModelAt(Slot("model", f, j), i, j)
TreeFound ==
    \E b \in Nat : /\ Held(0, "bodypartindex", b)
                   /\ \A i \in 1 .. Len(old.bodyparts) : PartAt(Slot("bodypart", b, i), i)

\* No panel, or from each entry its panel and from a panel its five arrays.
PanelAt(m, i) ==
    /\ At(m, <<"ruimesh", i>>)
    /\ \A f \in RuiFieldNames :
         \E d \in Nat : /\ Held(m, f, d) /\ At(m + d, <<"rui", i, f>>)
                        /\ f = "vertexindex" => (m + d) % 16 = 0
PanelsFound ==
    \E n, p \in Nat :
        /\ Held(0, "uiPanelCount", n)
        /\ n > 0 => Held(0, "uiPanelOffset", p)
        /\ \A i \in 1 .. n :
             \E m \in Nat : /\ Held(Slot("ruiheader", p, i), "ruimeshindex",
                                    m - Slot("ruiheader", p, i))
                            /\ PanelAt(m, i)

\* No linear bones, or their arrays.
LinearFound ==
    \E p \in Nat :
        /\ Held(0, "linearboneindex", p)
        /\ p # 0 => \A a \in LinearArrays :
                       \E d \in Int : Held(p, a, d) /\ At(p + d, <<"linear", a>>)

\* The converters still to run when a part of the model can be followed.
AfterSequence == {"bodyparts", "poseparams", "rui", "textures", "skins", "keyvalues",
                  "xforms", "linearbones", "strings", "bvh", "done"}
AfterBodyParts == AfterSequence \ {"bodyparts"}
AfterHitboxes == AfterSequence \cup {"bonebyname", "sequence"}
AfterBones == AfterHitboxes \cup {"attachments", "hitboxes"}

RInv ==
    /\ pc # "header" => CountsFound /\ PanelsFound /\ LinearFound
    /\ pc = "bones" => Held(0, "procBoneCount", 0)
    /\ pc \in AfterBones => SkeletonFound
    /\ pc \in AfterHitboxes => SetsFound
    /\ pc \in AfterSequence => SequenceFound
    /\ pc \in AfterBodyParts => TreeFound

-----------------------------------------------------------------------------
(* What can be followed can be followed still when a converter has run that *)
(* stores no field of the header on the way.                                *)

(* What is held stays held, but for the fields of the header stored anew.   *)
LEMMA HeldStays ==
    ASSUME NEW F, Keeps(F), NEW a, NEW field, NEW v, field \notin F, Held(a, field, v)
    PROVE  Held(a, field, v)'
BY DEF Keeps

(* The counts of the header stay.                                           *)
LEMMA CountsStay ==
    ASSUME NEW F, Keeps(F), {"numbones", "numbodyparts", "numhitboxsets"} \cap F = {}, CountsFound
    PROVE  CountsFound'
<1>1. old' = old /\ regions \subseteq regions'
  BY DEF Keeps
<1>2. PICK u, v, w : u = Len(old.bones) /\ v = Len(old.bodyparts) /\ w = Len(old.hitboxsets)
  OBVIOUS
<1>3. Held(0, "numbones", u) /\ Held(0, "numbodyparts", v) /\ Held(0, "numhitboxsets", w)
  BY <1>2 DEF CountsFound
<1>4. /\ Held(0, "numbones", u)' /\ Held(0, "numbodyparts", v)' /\ Held(0, "numhitboxsets", w)'
  BY <1>3, HeldStays
<1>5. u = Len(old.bones)' /\ v = Len(old.bodyparts)' /\ w = Len(old.hitboxsets)'
  BY <1>1, <1>2
<1>6. \E r \in regions' : r.at = 0 /\ r.size > 0
  BY <1>1 DEF CountsFound
<1> QED BY <1>4, <1>5, <1>6 DEF CountsFound

(* The skeleton stays.                                                      *)
LEMMA SkeletonStays ==
    ASSUME NEW F, Keeps(F), SkeletonFound,
           {"boneindex", "procBoneCount", "procBoneTableOffset", "linearProcBoneOffset",
            "procindex"} \cap F = {}
    PROVE  SkeletonFound'
<1>1. old' = old /\ Jiggles' = Jiggles
  BY DEF Keeps, Jiggles
<1>2. PICK b \in Nat, c \in Nat, t \in Nat : SkeletonAt(b, c, t)
  BY DEF SkeletonFound
<1>3. \A a, what : At(a, what) => At(a, what)'
  BY AtStays
<1>4. Held(0, "boneindex", b)' /\ Held(0, "procBoneCount", c)'
  BY <1>2, HeldStays DEF SkeletonAt
<1>5. c > 0 => Held(0, "procBoneTableOffset", t)' /\ Held(0, "linearProcBoneOffset", t + c)'
  BY <1>2, HeldStays DEF SkeletonAt
<1>6. ASSUME NEW i \in 1 .. Len(old.bones)
      PROVE  /\ At(Slot("bone", b, i), <<"bone", i>>)'
             /\ i \in Jiggles =>
                  /\ \E d \in Int : /\ Held(Slot("bone", b, i), "procindex", d)'
                                    /\ At(Slot("bone", b, i) + d, <<"jigglebone", i>>)'
                  /\ c > 0
                  /\ \E k \in 0 .. c - 1 : /\ At(t + c + i - 1, <<"linearProcBone", k>>)'
                                           /\ At(t + k, <<"procBone", i>>)'
             /\ i \notin Jiggles /\ c > 0 => At(t + c + i - 1, <<"linearProcBone", 255>>)'
  <2>1. At(Slot("bone", b, i), <<"bone", i>>)'
    BY <1>2, <1>3 DEF SkeletonAt
  <2>2. ASSUME i \in Jiggles
        PROVE  \E d \in Int : /\ Held(Slot("bone", b, i), "procindex", d)'
                              /\ At(Slot("bone", b, i) + d, <<"jigglebone", i>>)'
    <3>1. PICK d \in Int : /\ Held(Slot("bone", b, i), "procindex", d)
                           /\ At(Slot("bone", b, i) + d, <<"jigglebone", i>>)
      BY <1>2, <2>2 DEF SkeletonAt
    <3>2. At(Slot("bone", b, i) + d, <<"jigglebone", i>>)'
      BY <1>3, <3>1
    <3>3. Held(Slot("bone", b, i), "procindex", d)'
      BY <3>1, HeldStays
    <3> QED BY <3>2, <3>3
  <2>3. ASSUME i \in Jiggles
        PROVE  c > 0 /\ \E k \in 0 .. c - 1 : /\ At(t + c + i - 1, <<"linearProcBone", k>>)'
                                              /\ At(t + k, <<"procBone", i>>)'
    <3>1. PICK k \in 0 .. c - 1 : /\ At(t + c + i - 1, <<"linearProcBone", k>>)
                                  /\ At(t + k, <<"procBone", i>>)
      BY <1>2, <2>3 DEF SkeletonAt
    <3>2. At(t + c + i - 1, <<"linearProcBone", k>>)' /\ At(t + k, <<"procBone", i>>)'
      BY <1>3, <3>1
    <3> QED BY <1>2, <2>3, <3>2 DEF SkeletonAt
  <2>4. i \notin Jiggles /\ c > 0 => At(t + c + i - 1, <<"linearProcBone", 255>>)'
    BY <1>2, <1>3 DEF SkeletonAt
  <2> QED BY <2>1, <2>2, <2>3, <2>4
<1>7. SkeletonAt(b, c, t)'
  BY <1>1, <1>4, <1>5, <1>6 DEF SkeletonAt
<1> QED BY <1>7 DEF SkeletonFound

(* The hitbox sets stay.                                                    *)
LEMMA SetsStay ==
    ASSUME NEW F, Keeps(F), SetsFound, {"hitboxsetindex", "hitboxindex"} \cap F = {}
    PROVE  SetsFound'
<1>1. old' = old
  BY DEF Keeps
<1>2. PICK b \in Nat : /\ Held(0, "hitboxsetindex", b)
                       /\ \A i \in 1 .. Len(old.hitboxsets) : SetAt(Slot("hitboxset", b, i), i)
  BY DEF SetsFound
<1>3. Held(0, "hitboxsetindex", b)'
  BY <1>2, HeldStays
<1>4. ASSUME NEW i \in 1 .. Len(old.hitboxsets) PROVE SetAt(Slot("hitboxset", b, i), i)'
  <2>1. PICK a : a = Slot("hitboxset", b, i)
    OBVIOUS
  <2>2. PICK g \in Nat : /\ Held(a, "hitboxindex", g - a)
                         /\ \A k \in 1 .. Len(old.hitboxsets[i]) :
                              At(Slot("bbox", g, k), <<"bbox", <<i, k>>>>)
    BY <1>2, <2>1 DEF SetAt
  <2>3. Held(a, "hitboxindex", g - a)'
    BY <2>2, HeldStays
  <2>4. \A k \in 1 .. Len(old.hitboxsets[i]) : At(Slot("bbox", g, k), <<"bbox", <<i, k>>>>)'
    BY <2>2, AtStays
  <2>5. SetAt(a, i)'
    BY <1>1, <2>3, <2>4 DEF SetAt
  <2> QED BY <2>1, <2>5
<1>5. \A i \in 1 .. Len(old'.hitboxsets) : SetAt(Slot("hitboxset", b, i), i)'
  BY <1>1, <1>4
<1> QED BY <1>3, <1>5 DEF SetsFound

(* The default sequence stays.                                              *)
LEMMA SequenceStays ==
    ASSUME NEW F, Keeps(F), SequenceFound,
           {"localseqindex", "weightlistindex", "animindexindex", "blend"} \cap F = {}
    PROVE  SequenceFound'
<1>1. PICK s \in Nat, w \in Int, b \in Int, c \in Int :
        /\ Held(0, "localseqindex", s)
        /\ Held(s, "weightlistindex", w) /\ At(s + w, <<"weightlist">>)
        /\ Held(s, "animindexindex", b)
        /\ Held(s + b, "blend", c) /\ At(s + c, <<"animdesc">>)
  BY DEF SequenceFound
<1>2. /\ Held(0, "localseqindex", s)' /\ Held(s, "weightlistindex", w)'
      /\ Held(s, "animindexindex", b)' /\ Held(s + b, "blend", c)'
  BY <1>1, HeldStays
<1>3. At(s + w, <<"weightlist">>)' /\ At(s + c, <<"animdesc">>)'
  BY <1>1, AtStays
<1> QED BY <1>2, <1>3 DEF SequenceFound

(* The tree of body parts stays.                                            *)
LEMMA TreeStays ==
    ASSUME NEW F, Keeps(F), TreeFound,
           {"bodypartindex", "nummodels", "modelindex", "meshindex"} \cap F = {}
    PROVE  TreeFound'
<1>1. old' = old
  BY DEF Keeps
<1>2. PICK b \in Nat : /\ Held(0, "bodypartindex", b)
                       /\ \A i \in 1 .. Len(old.bodyparts) : PartAt(Slot("bodypart", b, i), i)
  BY DEF TreeFound
<1>3. Held(0, "bodypartindex", b)'
  BY <1>2, HeldStays
<1>4. ASSUME NEW m, NEW i, NEW j, ModelAt(m, i, j) PROVE ModelAt(m, i, j)'
  <2>1. At(m, <<"model", <<i, j>>>>)'
    BY <1>4, AtStays DEF ModelAt
  <2>2. PICK g \in Nat :
             /\ Held(m, "meshindex", g - m)
             /\ \A k \in 1 .. old.bodyparts[i][j] :
                  /\ At(Slot("mesh", g, k), <<"mesh", <<i, j, k>>>>)
                  /\ Held(Slot("mesh", g, k), "modelindex", m - Slot("mesh", g, k))
    BY <1>4 DEF ModelAt
  <2>3. Held(m, "meshindex", g - m)'
    BY <2>2, HeldStays
  <2>4. ASSUME NEW k \in 1 .. old.bodyparts[i][j]
        PROVE  /\ At(Slot("mesh", g, k), <<"mesh", <<i, j, k>>>>)'
               /\ Held(Slot("mesh", g, k), "modelindex", m - Slot("mesh", g, k))'
    BY <2>2, <2>4, AtStays, HeldStays
  <2> QED BY <1>1, <2>1, <2>3, <2>4 DEF ModelAt
<1>5. ASSUME NEW i \in 1 .. Len(old.bodyparts) PROVE PartAt(Slot("bodypart", b, i), i)'
  <2>1. PICK a, n : a = Slot("bodypart", b, i) /\ n = Len(old.bodyparts[i])
    OBVIOUS
  <2>2. PartAt(a, i)
    BY <1>2, <2>1
  <2>3. PICK f \in Nat : /\ Held(a, "modelindex", f - a)
                         /\ \A j \in 1 .. n : ModelAt(Slot("model", f, j), i, j)
    BY <2>1, <2>2 DEF PartAt
  <2>4. Held(a, "nummodels", n)' /\ Held(a, "modelindex", f - a)'
    BY <2>1, <2>2, <2>3, HeldStays DEF PartAt
  <2>5. \A j \in 1 .. n : ModelAt(Slot("model", f, j), i, j)'
    BY <1>4, <2>3
  <2>6. n = Len(old.bodyparts[i])'
    BY <1>1, <2>1
  <2>7. PartAt(a, i)'
    BY <2>4, <2>5, <2>6 DEF PartAt
  <2> QED BY <2>1, <2>7
<1>6. \A i \in 1 .. Len(old'.bodyparts) : PartAt(Slot("bodypart", b, i), i)'
  BY <1>1, <1>5
<1> QED BY <1>3, <1>6 DEF TreeFound

(* The panels stay.                                                         *)
LEMMA PanelsStay ==
    ASSUME NEW F, Keeps(F), PanelsFound,
           ({"uiPanelCount", "uiPanelOffset", "ruimeshindex"} \cup RuiFieldNames) \cap F = {}
    PROVE  PanelsFound'
<1>1. PICK n \in Nat, p \in Nat :
        /\ Held(0, "uiPanelCount", n)
        /\ n > 0 => Held(0, "uiPanelOffset", p)
        /\ \A i \in 1 .. n :
             \E m \in Nat : /\ Held(Slot("ruiheader", p, i), "ruimeshindex",
                                    m - Slot("ruiheader", p, i))
                            /\ PanelAt(m, i)
  BY DEF PanelsFound
<1>2. Held(0, "uiPanelCount", n)' /\ (n > 0 => Held(0, "uiPanelOffset", p)')
  BY <1>1, HeldStays
<1>3. ASSUME NEW m, NEW i, PanelAt(m, i) PROVE PanelAt(m, i)'
  <2>1. At(m, <<"ruimesh", i>>)'
    BY <1>3, AtStays DEF PanelAt
  <2>2. ASSUME NEW f \in RuiFieldNames
        PROVE  \E d \in Nat : /\ Held(m, f, d)' /\ At(m + d, <<"rui", i, f>>)'
                              /\ f = "vertexindex" => (m + d) % 16 = 0
    <3>1. PICK d \in Nat : /\ Held(m, f, d) /\ At(m + d, <<"rui", i, f>>)
                           /\ f = "vertexindex" => (m + d) % 16 = 0
      BY <1>3 DEF PanelAt
    <3>2. Held(m, f, d)' /\ At(m + d, <<"rui", i, f>>)'
      BY <3>1, HeldStays, AtStays
    <3> QED BY <3>1, <3>2
  <2> QED BY <2>1, <2>2 DEF PanelAt
<1>4. ASSUME NEW i \in 1 .. n
      PROVE  \E m \in Nat : /\ Held(Slot("ruiheader", p, i), "ruimeshindex",
                                    m - Slot("ruiheader", p, i))'
                            /\ PanelAt(m, i)'
  <2>1. PICK m \in Nat : /\ Held(Slot("ruiheader", p, i), "ruimeshindex",
                                 m - Slot("ruiheader", p, i))
                         /\ PanelAt(m, i)
    BY <1>1
  <2>2. Held(Slot("ruiheader", p, i), "ruimeshindex", m - Slot("ruiheader", p, i))'
    BY <2>1, HeldStays
  <2> QED BY <1>3, <2>1, <2>2
<1> QED BY <1>2, <1>4 DEF PanelsFound

(* The linear bones stay.                                                   *)
LEMMA LinearStays ==
    ASSUME NEW F, Keeps(F), LinearFound, ({"linearboneindex"} \cup LinearArrays) \cap F = {}
    PROVE  LinearFound'
<1>1. PICK p \in Nat :
        /\ Held(0, "linearboneindex", p)
        /\ p # 0 => \A a \in LinearArrays :
                       \E d \in Int : Held(p, a, d) /\ At(p + d, <<"linear", a>>)
  BY DEF LinearFound
<1>2. Held(0, "linearboneindex", p)'
  BY <1>1, HeldStays
<1>3. ASSUME p # 0, NEW a \in LinearArrays
      PROVE  \E d \in Int : Held(p, a, d)' /\ At(p + d, <<"linear", a>>)'
  <2>1. PICK d \in Int : Held(p, a, d) /\ At(p + d, <<"linear", a>>)
    BY <1>1, <1>3
  <2> QED BY <2>1, HeldStays, AtStays
<1> QED BY <1>2, <1>3 DEF LinearFound

-----------------------------------------------------------------------------
(* What can be followed, a reader finds by the offsets of the file.         *)

(* A reader gets what is held.                                              *)
LEMMA HeldGet ==
    ASSUME NEW a, NEW field, NEW v, Held(a, field, v)
    PROVE  Get(a, field) = v /\ (a = 0 => H(field) = v)
BY DEF Held, Has, Get, H

(* A skeleton that can be followed is read.                                 *)
LEMMA SkeletonRead == CountsFound /\ SkeletonFound => SkeletonReadable
<1> SUFFICES ASSUME CountsFound, SkeletonFound PROVE SkeletonReadable
  OBVIOUS
<1>1. PICK b \in Nat, c \in Nat, t \in Nat : SkeletonAt(b, c, t)
  BY DEF SkeletonFound
<1>2. H("boneindex") = b /\ H("procBoneCount") = c
  BY <1>1, HeldGet DEF SkeletonAt
<1>3. H("numbones") = Len(old.bones)
  BY HeldGet DEF CountsFound
<1>4. c > 0 => H("procBoneTableOffset") = t /\ H("linearProcBoneOffset") = t + c
  BY <1>1, HeldGet DEF SkeletonAt
<1> DEFINE Bone(i) == H("boneindex") + (i - 1) * SizeOf["bone"]
           Linear(i, k) == At(H("linearProcBoneOffset") + i - 1, <<"linearProcBone", k>>)
<1>5. ASSUME NEW i \in 1 .. H("numbones")
      PROVE  /\ At(Bone(i), <<"bone", i>>)
             /\ i \in Jiggles =>
                  /\ At(Bone(i) + Get(Bone(i), "procindex"), <<"jigglebone", i>>)
                  /\ \E k \in 0 .. (H("procBoneCount") - 1) :
                       Linear(i, k) /\ At(H("procBoneTableOffset") + k, <<"procBone", i>>)
             /\ (i \notin Jiggles /\ H("procBoneCount") > 0) => Linear(i, 255)
  <2>1. Bone(i) = Slot("bone", b, i) /\ i \in 1 .. Len(old.bones)
    BY <1>2, <1>3 DEF Slot
  <2> HIDE DEF Bone
  <2>2. At(Bone(i), <<"bone", i>>)
    BY <1>1, <2>1 DEF SkeletonAt
  <2>3. ASSUME i \in Jiggles
        PROVE  At(Bone(i) + Get(Bone(i), "procindex"), <<"jigglebone", i>>)
    <3>1. PICK d \in Int : /\ Held(Bone(i), "procindex", d)
                           /\ At(Bone(i) + d, <<"jigglebone", i>>)
      BY <1>1, <2>1, <2>3 DEF SkeletonAt
    <3>2. Get(Bone(i), "procindex") = d
      BY <3>1, HeldGet
    <3> QED BY <3>1, <3>2
  <2>4. ASSUME i \in Jiggles
        PROVE  \E k \in 0 .. (H("procBoneCount") - 1) :
                  Linear(i, k) /\ At(H("procBoneTableOffset") + k, <<"procBone", i>>)
    <3>1. c > 0 /\ \E k \in 0 .. c - 1 : /\ At(t + c + i - 1, <<"linearProcBone", k>>)
                                         /\ At(t + k, <<"procBone", i>>)
      BY <1>1, <2>1, <2>4 DEF SkeletonAt
    <3> QED BY <1>2, <1>4, <3>1
  <2>5. ASSUME i \notin Jiggles, H("procBoneCount") > 0 PROVE Linear(i, 255)
    <3>1. c > 0 /\ At(t + c + i - 1, <<"linearProcBone", 255>>)
      BY <1>1, <1>2, <2>1, <2>5 DEF SkeletonAt
    <3> QED BY <1>4, <3>1
  <2> QED BY <2>2, <2>3, <2>4, <2>5
<1> QED BY <1>5 DEF SkeletonReadable

(* So are hitboxes, and a tree of body parts.                               *)
LEMMA GeometryRead == LInv /\ CountsFound /\ SetsFound /\ TreeFound => GeometryReadable
<1> SUFFICES ASSUME LInv, CountsFound, SetsFound, TreeFound PROVE GeometryReadable
  OBVIOUS
<1>1. H("numbodyparts") = Len(old.bodyparts) /\ H("numhitboxsets") = Len(old.hitboxsets)
  BY HeldGet DEF CountsFound
<1>2. PICK b \in Nat : /\ Held(0, "bodypartindex", b)
                       /\ \A i \in 1 .. Len(old.bodyparts) : PartAt(Slot("bodypart", b, i), i)
  BY DEF TreeFound
<1>3. PICK h \in Nat : /\ Held(0, "hitboxsetindex", h)
                       /\ \A i \in 1 .. Len(old.hitboxsets) : SetAt(Slot("hitboxset", h, i), i)
  BY DEF SetsFound
<1>4. H("bodypartindex") = b /\ H("hitboxsetindex") = h
  BY <1>2, <1>3, HeldGet
<1> DEFINE Part(i) == H("bodypartindex") + (i - 1) * SizeOf["bodypart"]
           Model(i, j) == Part(i) + Get(Part(i), "modelindex") + (j - 1) * SizeOf["model"]
           Mesh(i, j, k) == Model(i, j) + Get(Model(i, j), "meshindex")
                            + (k - 1) * SizeOf["mesh"]
           Set(i) == H("hitboxsetindex") + (i - 1) * SizeOf["hitboxset"]
<1>5. \A k \in Kinds : SizeOf[k] \in Nat
  BY Sizes
<1>6. ASSUME NEW i \in 1 .. H("numbodyparts")
      PROVE  /\ Get(Part(i), "nummodels") = Len(old.bodyparts[i])
             /\ \A j \in 1 .. Len(old.bodyparts[i]) :
                  /\ At(Model(i, j), <<"model", <<i, j>>>>)
                  /\ \A k \in 1 .. old.bodyparts[i][j] :
                       /\ At(Mesh(i, j, k), <<"mesh", <<i, j, k>>>>)
                       /\ Mesh(i, j, k) + Get(Mesh(i, j, k), "modelindex") = Model(i, j)
  <2>1. PICK a : a = Part(i)
    OBVIOUS
  <2>2. a = Slot("bodypart", b, i) /\ PartAt(a, i)
    BY <1>1, <1>2, <1>4, <2>1 DEF Slot
  <2>3. Get(a, "nummodels") = Len(old.bodyparts[i])
    BY <2>2, HeldGet DEF PartAt
  <2>4. PICK f \in Nat : /\ Held(a, "modelindex", f - a)
                         /\ \A j \in 1 .. Len(old.bodyparts[i]) : ModelAt(Slot("model", f, j), i, j)
    BY <2>2 DEF PartAt
  <2>5. Get(a, "modelindex") = f - a /\ a \in Nat
    BY <2>4, HeldGet DEF Held
  <2>6. ASSUME NEW j \in 1 .. Len(old.bodyparts[i])
        PROVE  /\ At(Model(i, j), <<"model", <<i, j>>>>)
               /\ \A k \in 1 .. old.bodyparts[i][j] :
                    /\ At(Mesh(i, j, k), <<"mesh", <<i, j, k>>>>)
                    /\ Mesh(i, j, k) + Get(Mesh(i, j, k), "modelindex") = Model(i, j)
    <3>1. PICK m : m = Model(i, j)
      OBVIOUS
    <3>2. m = Slot("model", f, j)
      <4>1. (j - 1) * SizeOf["model"] \in Int
        BY <1>5 DEF Kinds
      <4> DEFINE e == (j - 1) * SizeOf["model"]
      <4>2. m = a + (f - a) + e /\ Slot("model", f, j) = f + e /\ e \in Int
        BY <2>1, <2>5, <3>1, <4>1 DEF Slot
      <4> HIDE DEF e
      <4> QED BY <2>4, <2>5, <4>2
    <3>3. ModelAt(m, i, j)
      BY <2>4, <3>2
    <3>4. PICK g \in Nat :
             /\ Held(m, "meshindex", g - m)
             /\ \A k \in 1 .. old.bodyparts[i][j] :
                  /\ At(Slot("mesh", g, k), <<"mesh", <<i, j, k>>>>)
                  /\ Held(Slot("mesh", g, k), "modelindex", m - Slot("mesh", g, k))
      BY <3>3 DEF ModelAt
    <3>5. Get(m, "meshindex") = g - m /\ m \in Nat
      BY <3>4, HeldGet DEF Held
    <3>6. ASSUME NEW k \in 1 .. old.bodyparts[i][j]
          PROVE  /\ At(Mesh(i, j, k), <<"mesh", <<i, j, k>>>>)
                 /\ Mesh(i, j, k) + Get(Mesh(i, j, k), "modelindex") = Model(i, j)
      <4>1. (k - 1) * SizeOf["mesh"] \in Int
        <5>1. k - 1 \in Int /\ SizeOf["mesh"] \in Int
          BY <1>5 DEF Kinds
        <5> QED BY <5>1
      <4> DEFINE e == (k - 1) * SizeOf["mesh"]
      <4>2. PICK q : q = Mesh(i, j, k)
        OBVIOUS
      <4>3. q = m + (g - m) + e /\ Slot("mesh", g, k) = g + e /\ e \in Int
        BY <3>1, <3>5, <4>1, <4>2 DEF Slot
      <4> HIDE DEF e
      <4>4. q = Slot("mesh", g, k)
        BY <3>4, <3>5, <4>3
      <4>5. At(q, <<"mesh", <<i, j, k>>>>) /\ Get(q, "modelindex") = m - q /\ q \in Nat
        BY <3>4, <4>4, HeldGet DEF Held
      <4>6. q + Get(q, "modelindex") = m
        BY <3>5, <4>5
      <4> QED BY <3>1, <4>2, <4>5, <4>6
    <3>7. At(m, <<"model", <<i, j>>>>)
      BY <3>3 DEF ModelAt
    <3> QED BY <3>1, <3>6, <3>7
  <2> QED BY <2>1, <2>3, <2>6
<1>7. ASSUME NEW i \in 1 .. H("numhitboxsets"), NEW k \in 1 .. Len(old.hitboxsets[i])
      PROVE  At(Set(i) + Get(Set(i), "hitboxindex") + (k - 1) * SizeOf["bbox"],
                <<"bbox", <<i, k>>>>)
  <2>1. PICK a : a = Set(i)
    OBVIOUS
  <2>2. a = Slot("hitboxset", h, i) /\ SetAt(a, i)
    BY <1>1, <1>3, <1>4, <2>1 DEF Slot
  <2>3. PICK g \in Nat : /\ Held(a, "hitboxindex", g - a)
                         /\ At(Slot("bbox", g, k), <<"bbox", <<i, k>>>>)
    BY <2>2 DEF SetAt
  <2>4. Get(a, "hitboxindex") = g - a /\ a \in Nat
    BY <2>3, HeldGet DEF Held
  <2> DEFINE e == (k - 1) * SizeOf["bbox"]
  <2>5. e \in Int
    BY <1>5 DEF Kinds
  <2>6. Slot("bbox", g, k) = g + e
    BY DEF Slot
  <2>7. Set(i) + Get(Set(i), "hitboxindex") = a + (g - a)
    BY <2>1, <2>4
  <2> HIDE DEF e, Set
  <2>8. Set(i) + Get(Set(i), "hitboxindex") + e = Slot("bbox", g, k)
    BY <2>3, <2>4, <2>5, <2>6, <2>7
  <2>9. At(Set(i) + Get(Set(i), "hitboxindex") + e, <<"bbox", <<i, k>>>>)
    BY <2>3, <2>8
  <2> QED BY <2>9 DEF e
<1> QED BY <1>6, <1>7 DEF GeometryReadable

(* So are the default sequence and the linear bones.                        *)
LEMMA AnimationRead == SequenceFound /\ LinearFound => AnimationReadable
<1> SUFFICES ASSUME SequenceFound, LinearFound PROVE AnimationReadable
  OBVIOUS
<1>1. PICK s \in Nat, w \in Int, b \in Int, c \in Int :
        /\ Held(0, "localseqindex", s)
        /\ Held(s, "weightlistindex", w) /\ At(s + w, <<"weightlist">>)
        /\ Held(s, "animindexindex", b)
        /\ Held(s + b, "blend", c) /\ At(s + c, <<"animdesc">>)
  BY DEF SequenceFound
<1>2. /\ H("localseqindex") = s /\ Get(s, "weightlistindex") = w
      /\ Get(s, "animindexindex") = b /\ Get(s + b, "blend") = c
  BY <1>1, HeldGet
<1>3. PICK p \in Nat :
        /\ Held(0, "linearboneindex", p)
        /\ p # 0 => \A a \in LinearArrays :
                       \E d \in Int : Held(p, a, d) /\ At(p + d, <<"linear", a>>)
  BY DEF LinearFound
<1>4. H("linearboneindex") = p
  BY <1>3, HeldGet
<1>5. ASSUME p # 0, NEW a \in LinearArrays PROVE At(p + Get(p, a), <<"linear", a>>)
  <2>1. PICK d \in Int : Held(p, a, d) /\ At(p + d, <<"linear", a>>)
    BY <1>3, <1>5
  <2> QED BY <2>1, HeldGet
<1> QED BY <1>1, <1>2, <1>4, <1>5 DEF AnimationReadable

(* So are the panels.                                                       *)
LEMMA PanelsRead == PanelsFound => PanelsReadable
<1> SUFFICES ASSUME PanelsFound PROVE PanelsReadable
  OBVIOUS
<1>1. PICK n \in Nat, p \in Nat :
        /\ Held(0, "uiPanelCount", n)
        /\ n > 0 => Held(0, "uiPanelOffset", p)
        /\ \A i \in 1 .. n :
             \E m \in Nat : /\ Held(Slot("ruiheader", p, i), "ruimeshindex",
                                    m - Slot("ruiheader", p, i))
                            /\ PanelAt(m, i)
  BY DEF PanelsFound
<1>2. H("uiPanelCount") = n /\ (n > 0 => H("uiPanelOffset") = p)
  BY <1>1, HeldGet
<1> DEFINE Entry(i) == H("uiPanelOffset") + (i - 1) * SizeOf["ruiheader"]
           Mesh(i) == Entry(i) + Get(Entry(i), "ruimeshindex")
<1>3. ASSUME NEW i \in 1 .. H("uiPanelCount")
      PROVE  /\ At(Mesh(i), <<"ruimesh", i>>)
             /\ \A f \in RuiFieldNames : At(Mesh(i) + Get(Mesh(i), f), <<"rui", i, f>>)
             /\ (Mesh(i) + Get(Mesh(i), "vertexindex")) % 16 = 0
  <2>1. i \in 1 .. n /\ n > 0
    BY <1>1, <1>2
  <2>2. PICK e : e = Slot("ruiheader", p, i)
    OBVIOUS
  <2>3. PICK m \in Nat : Held(e, "ruimeshindex", m - e) /\ PanelAt(m, i)
    BY <1>1, <2>1, <2>2
  <2>4. e = Entry(i)
    BY <1>2, <2>1, <2>2 DEF Slot
  <2>5. Get(e, "ruimeshindex") = m - e /\ e \in Nat
    BY <2>3, HeldGet DEF Held
  <2>6. Mesh(i) = m
    BY <2>3, <2>4, <2>5
  <2>7. At(m, <<"ruimesh", i>>)
    BY <2>3 DEF PanelAt
  <2>8. ASSUME NEW f \in RuiFieldNames
        PROVE  At(m + Get(m, f), <<"rui", i, f>>) /\ (f = "vertexindex" => (m + Get(m, f)) % 16 = 0)
    <3>1. PICK d \in Nat : /\ Held(m, f, d) /\ At(m + d, <<"rui", i, f>>)
                           /\ f = "vertexindex" => (m + d) % 16 = 0
      BY <2>3 DEF PanelAt
    <3> QED BY <3>1, HeldGet
  <2>9. "vertexindex" \in RuiFieldNames
    BY DEF RuiFieldNames
  <2> HIDE DEF Mesh
  <2> QED BY <2>6, <2>7, <2>8, <2>9
<1> QED BY <1>3 DEF PanelsReadable

(* So a finished file is read.                                              *)
LEMMA AllRead == LInv /\ RInv => Readable
<1> SUFFICES ASSUME LInv, RInv, Done PROVE Readable
  BY DEF Readable, SkeletonReadable, GeometryReadable, AnimationReadable, PanelsReadable
<1>1. /\ CountsFound /\ PanelsFound /\ LinearFound /\ SkeletonFound /\ SetsFound
      /\ SequenceFound /\ TreeFound
  BY DEF Done, RInv, AfterBones, AfterHitboxes, AfterSequence, AfterBodyParts
<1> QED BY <1>1, SkeletonRead, GeometryRead, AnimationRead, PanelsRead DEF Readable

-----------------------------------------------------------------------------
(* Converters that write nothing a reader needs on these ways.              *)
Untracked ==
    {"localattachmentindex", "bonetablebynameindex", "ikchainindex",
     "numlocalposeparameters", "localposeparamindex", "textureindex", "materialtypesindex",
     "cdtextureindex", "numcdtextures", "skinindex", "numskinref", "numskinfamilies",
     "keyvalueindex", "keyvaluesize", "numsrcbonetransform", "srcbonetransformindex",
     "bvhOffset", "length"}

(* A converter that stores none of the fields on the way keeps all of it.   *)
LEMMA Passes ==
    ASSUME RInv, Keeps(Untracked), pc \in AfterBones, pc' \in AfterBones,
           pc' \in AfterHitboxes => pc \in AfterHitboxes,
           pc' \in AfterSequence => pc \in AfterSequence,
           pc' \in AfterBodyParts => pc \in AfterBodyParts
    PROVE  RInv'
<1>1. "header" \notin AfterBones /\ "bones" \notin AfterBones
  BY DEF AfterBones, AfterHitboxes, AfterSequence
<1>2. CountsFound /\ PanelsFound /\ LinearFound /\ SkeletonFound
  BY <1>1 DEF RInv
<1>3. CountsFound'
  BY <1>2, CountsStay DEF Untracked
<1>4. PanelsFound'
  BY <1>2, PanelsStay DEF Untracked, RuiFieldNames
<1>5. LinearFound'
  BY <1>2, LinearStays DEF Untracked, LinearArrays, LinearElem
<1>6. SkeletonFound'
  BY <1>2, SkeletonStays DEF Untracked
<1>7. pc' \in AfterHitboxes => SetsFound'
  BY SetsStay DEF RInv, Untracked
<1>8. pc' \in AfterSequence => SequenceFound'
  BY SequenceStays DEF RInv, Untracked
<1>9. pc' \in AfterBodyParts => TreeFound'
  BY TreeStays DEF RInv, Untracked
<1> QED BY <1>1, <1>3, <1>4, <1>5, <1>6, <1>7, <1>8, <1>9 DEF RInv

(* The attachments.                                                         *)
LEMMA AttachmentsRead == LInv /\ RInv /\ ConvertAttachments => RInv'
<1> SUFFICES ASSUME LInv, RInv, ConvertAttachments PROVE RInv'
  OBVIOUS
<1> DEFINE is == HdrInt("localattachmentindex", pos)
<1>1. StoresIn(is, pos, Untracked)
  BY InHdr DEF Untracked
<1>2. Skip("hitboxes") \/ \E to, rs, gs : Write("hitboxes", to, rs, is, gs)
  BY DEF ConvertAttachments
<1> HIDE DEF is
<1>3. Keeps(Untracked) /\ pc' = "hitboxes"
  BY <1>1, <1>2, WriteHolds, SkipHolds
<1>4. pc = "attachments"
  BY DEF ConvertAttachments
<1> QED BY <1>3, <1>4, Passes DEF AfterBones, AfterHitboxes, AfterSequence, AfterBodyParts

(* The table of bones by name.                                              *)
LEMMA BoneByNameRead == LInv /\ RInv /\ ConvertBoneByName => RInv'
<1> SUFFICES ASSUME LInv, RInv, ConvertBoneByName PROVE RInv'
  OBVIOUS
<1> DEFINE is == HdrInt("bonetablebynameindex", pos)
<1>1. StoresIn(is, pos, Untracked)
  BY InHdr DEF Untracked
<1>2. \E to, rs, gs : Write("sequence", to, rs, is, gs)
  BY DEF ConvertBoneByName
<1> HIDE DEF is
<1>3. Keeps(Untracked) /\ pc' = "sequence"
  BY <1>1, <1>2, WriteHolds
<1>4. pc = "bonebyname"
  BY DEF ConvertBoneByName
<1> QED BY <1>3, <1>4, Passes DEF AfterBones, AfterHitboxes, AfterSequence, AfterBodyParts

(* The pose parameters and the ik chains.                                   *)
LEMMA PoseParamsRead == LInv /\ RInv /\ ConvertPoseParams => RInv'
<1> SUFFICES ASSUME LInv, RInv, ConvertPoseParams PROVE RInv'
  OBVIOUS
<1> DEFINE n == old.poseparams
           next == IF n = 0 THEN pos ELSE AlignData(pos + n * SizeOf["poseparam"], 4)
           i1 == HdrInt("ikchainindex", next)
           i2 == HdrInt("numlocalposeparameters", n)
           i3 == IF n = 0 THEN << >> ELSE HdrInt("localposeparamindex", pos)
           is == i1 ++ i2 ++ i3
<1>1. StoresIn(is, pos, Untracked)
  <2>1. StoresIn(i1, pos, Untracked) /\ StoresIn(i2, pos, Untracked)
    BY InHdr DEF Untracked
  <2>2. StoresIn(i3, pos, Untracked)
    BY InHdr, InNone DEF Untracked
  <2> HIDE DEF i1, i2, i3
  <2> QED BY <2>1, <2>2, InJoin
<1>2. \E to, rs, gs : Write("rui", to, rs, is, gs)
  BY DEF ConvertPoseParams
<1> HIDE DEF is
<1>3. Keeps(Untracked) /\ pc' = "rui"
  BY <1>1, <1>2, WriteHolds
<1>4. pc = "poseparams"
  BY DEF ConvertPoseParams
<1> QED BY <1>3, <1>4, Passes DEF AfterBones, AfterHitboxes, AfterSequence, AfterBodyParts

(* The textures.                                                            *)
LEMMA TexturesRead == LInv /\ RInv /\ ConvertTextures => RInv'
<1> SUFFICES ASSUME LInv, RInv, ConvertTextures PROVE RInv'
  OBVIOUS
<1> DEFINE n == Len(old.textures)
           types == AlignData(pos + n * SizeOf["texture"], 4)
           cd == AlignData(types + n, 4)
           is == HdrInt("textureindex", pos) ++ HdrInt("materialtypesindex", types)
                   ++ HdrInt("cdtextureindex", cd) ++ HdrInt("numcdtextures", 1)
<1>1. StoresIn(is, pos, Untracked)
  <2>1. /\ StoresIn(HdrInt("textureindex", pos), pos, Untracked)
        /\ StoresIn(HdrInt("materialtypesindex", types), pos, Untracked)
        /\ StoresIn(HdrInt("cdtextureindex", cd), pos, Untracked)
        /\ StoresIn(HdrInt("numcdtextures", 1), pos, Untracked)
    BY InHdr DEF Untracked
  <2> HIDE DEF types, cd
  <2> QED BY <2>1, InJoin
<1>2. \E to, rs, gs : Write("skins", to, rs, is, gs)
  BY DEF ConvertTextures
<1> HIDE DEF is
<1>3. Keeps(Untracked) /\ pc' = "skins"
  BY <1>1, <1>2, WriteHolds
<1>4. pc = "textures"
  BY DEF ConvertTextures
<1> QED BY <1>3, <1>4, Passes DEF AfterBones, AfterHitboxes, AfterSequence, AfterBodyParts

(* The skins.                                                               *)
LEMMA SkinsRead == LInv /\ RInv /\ ConvertSkins => RInv'
<1> SUFFICES ASSUME LInv, RInv, ConvertSkins PROVE RInv'
  OBVIOUS
<1> DEFINE ref == old.skins[1]
           fam == old.skins[2]
           is == HdrInt("skinindex", pos) ++ HdrInt("numskinref", ref)
                   ++ HdrInt("numskinfamilies", fam)
<1>1. StoresIn(is, pos, Untracked)
  <2>1. /\ StoresIn(HdrInt("skinindex", pos), pos, Untracked)
        /\ StoresIn(HdrInt("numskinref", ref), pos, Untracked)
        /\ StoresIn(HdrInt("numskinfamilies", fam), pos, Untracked)
    BY InHdr DEF Untracked
  <2> QED BY <2>1, InJoin
<1>2. Skip("keyvalues") \/ \E to, rs, gs : Write("keyvalues", to, rs, is, gs)
  BY DEF ConvertSkins
<1> HIDE DEF is
<1>3. Keeps(Untracked) /\ pc' = "keyvalues"
  BY <1>1, <1>2, WriteHolds, SkipHolds
<1>4. pc = "skins"
  BY DEF ConvertSkins
<1> QED BY <1>3, <1>4, Passes DEF AfterBones, AfterHitboxes, AfterSequence, AfterBodyParts

(* The key values.                                                          *)
LEMMA KeyValuesRead == LInv /\ RInv /\ WriteKeyValues => RInv'
<1> SUFFICES ASSUME LInv, RInv, WriteKeyValues PROVE RInv'
  OBVIOUS
<1> DEFINE padded == 2 * ((KeyValueLen + 1) \div 2)
           is == HdrInt("keyvalueindex", pos) ++ HdrInt("keyvaluesize", padded)
<1>1. StoresIn(is, pos, Untracked)
  <2>1. /\ StoresIn(HdrInt("keyvalueindex", pos), pos, Untracked)
        /\ StoresIn(HdrInt("keyvaluesize", padded), pos, Untracked)
    BY InHdr DEF Untracked
  <2> QED BY <2>1, InJoin
<1>2. \E to, rs, gs : Write("xforms", to, rs, is, gs)
  BY DEF WriteKeyValues
<1> HIDE DEF is
<1>3. Keeps(Untracked) /\ pc' = "xforms"
  BY <1>1, <1>2, WriteHolds
<1>4. pc = "keyvalues"
  BY DEF WriteKeyValues
<1> QED BY <1>3, <1>4, Passes DEF AfterBones, AfterHitboxes, AfterSequence, AfterBodyParts

(* The source bone transforms.                                              *)
LEMMA SrcBoneTransformsRead == LInv /\ RInv /\ ConvertSrcBoneTransforms => RInv'
<1> SUFFICES ASSUME LInv, RInv, ConvertSrcBoneTransforms PROVE RInv'
  OBVIOUS
<1> DEFINE n == old.xforms
           is == HdrInt("numsrcbonetransform", n) ++ HdrInt("srcbonetransformindex", pos)
<1>1. StoresIn(is, pos, Untracked)
  <2>1. /\ StoresIn(HdrInt("numsrcbonetransform", n), pos, Untracked)
        /\ StoresIn(HdrInt("srcbonetransformindex", pos), pos, Untracked)
    BY InHdr DEF Untracked
  <2> QED BY <2>1, InJoin
<1>2. Skip("linearbones") \/ \E to, rs, gs : Write("linearbones", to, rs, is, gs)
  BY DEF ConvertSrcBoneTransforms
<1> HIDE DEF is
<1>3. Keeps(Untracked) /\ pc' = "linearbones"
  BY <1>1, <1>2, WriteHolds, SkipHolds
<1>4. pc = "xforms"
  BY DEF ConvertSrcBoneTransforms
<1> QED BY <1>3, <1>4, Passes DEF AfterBones, AfterHitboxes, AfterSequence, AfterBodyParts

(* The string table.                                                        *)
LEMMA StringsRead == LInv /\ RInv /\ WriteStrings => RInv'
<1> SUFFICES ASSUME LInv, RInv, WriteStrings PROVE RInv'
  OBVIOUS
<1>1. \E to, rs, gs : Write("bvh", to, rs, << >>, gs)
  BY DEF WriteStrings
<1>2. Keeps(Untracked) /\ pc' = "bvh"
  BY <1>1, InNone, WriteHolds
<1>3. pc = "strings"
  BY DEF WriteStrings
<1> QED BY <1>2, <1>3, Passes DEF AfterBones, AfterHitboxes, AfterSequence, AfterBodyParts

(* The collision blob.                                                      *)
LEMMA BvhRead == LInv /\ RInv /\ AppendBvh => RInv'
<1> SUFFICES ASSUME LInv, RInv, AppendBvh PROVE RInv'
  OBVIOUS
<1>1. \E to, rs, is, gs : StoresIn(is, pos, Untracked) /\ Write("done", to, rs, is, gs)
  <2> DEFINE at == AlignData(pos, 64)
             is == HdrInt("bvhOffset", at) ++ HdrInt("length", at + old.bvh)
  <2>1. /\ StoresIn(HdrInt("length", pos), pos, Untracked)
        /\ StoresIn(HdrInt("bvhOffset", at), pos, Untracked)
        /\ StoresIn(HdrInt("length", at + old.bvh), pos, Untracked)
    BY InHdr DEF Untracked
  <2>2. StoresIn(is, pos, Untracked)
    BY <2>1, InJoin
  <2>3. \/ Write("done", pos, {}, HdrInt("length", pos), {})
        \/ Write("done", at + old.bvh, {Region(at, old.bvh, <<"bvh">>)}, is, {})
    BY DEF AppendBvh
  <2> QED BY <2>1, <2>2, <2>3
<1>2. Keeps(Untracked) /\ pc' = "done"
  BY <1>1, WriteHolds
<1>3. pc = "bvh"
  BY DEF AppendBvh
<1> QED BY <1>2, <1>3, Passes DEF AfterBones, AfterHitboxes, AfterSequence, AfterBodyParts

-----------------------------------------------------------------------------
(* Converters that lay a part of the model out.                             *)

(* The header states the counts, and that there are no panels, no jiggle    *)
(* bones and no linear bones yet.                                           *)
LEMMA HeaderRead == LInv /\ RInv /\ WriteHeader => RInv'
<1> SUFFICES ASSUME LInv, RInv, WriteHeader PROVE RInv'
  OBVIOUS
<1> DEFINE size == SizeOf["studiohdr"]
           rs == {Region(0, size, <<"studiohdr">>)}
           i1 == HdrInt("numbones", Len(old.bones))
           i2 == HdrInt("numhitboxsets", Len(old.hitboxsets))
           i3 == HdrInt("numtextures", Len(old.textures))
           i4 == HdrInt("numbodyparts", Len(old.bodyparts))
           i5 == HdrInt("numlocalattachments", Len(old.attachments))
           i6 == HdrInt("bvhOffset", 0)
           i7 == HdrInt("uiPanelCount", 0)
           i8 == HdrInt("procBoneCount", 0)
           i9 == HdrInt("linearboneindex", 0)
           is == i1 ++ i2 ++ i3 ++ i4 ++ i5 ++ i6 ++ i7 ++ i8 ++ i9 ++ HdrInt("length", 0)
<1>1. PICK to, gs : Write("bones", to, rs, is, gs)
  BY DEF WriteHeader
<1>2. PICK u, v, w : u = Len(old.bones) /\ v = Len(old.bodyparts) /\ w = Len(old.hitboxsets)
  OBVIOUS
<1>3. /\ Has(is, 0, "numbones", u) /\ Has(is, 0, "numbodyparts", v)
      /\ Has(is, 0, "numhitboxsets", w) /\ Has(is, 0, "uiPanelCount", 0)
      /\ Has(is, 0, "procBoneCount", 0) /\ Has(is, 0, "linearboneindex", 0)
  <2> DEFINE f2 == i1 ++ i2
             f3 == f2 ++ i3
             f4 == f3 ++ i4
             f5 == f4 ++ i5
             f6 == f5 ++ i6
             f7 == f6 ++ i7
             f8 == f7 ++ i8
             f9 == f8 ++ i9
             N3 == ({"numbones"} \cup {"numhitboxsets"}) \cup {"numtextures"}
             N6 == ((N3 \cup {"numbodyparts"}) \cup {"numlocalattachments"}) \cup {"bvhOffset"}
             N7 == N6 \cup {"uiPanelCount"}
             N8 == N7 \cup {"procBoneCount"}
  <2>1. /\ Has(i1, 0, "numbones", u) /\ Has(i2, 0, "numhitboxsets", w)
        /\ Has(i4, 0, "numbodyparts", v) /\ Has(i7, 0, "uiPanelCount", 0)
        /\ Has(i8, 0, "procBoneCount", 0) /\ Has(i9, 0, "linearboneindex", 0)
    BY <1>2, HasOne
  <2>2. /\ OfFields(i1, {"numbones"}) /\ OfFields(i2, {"numhitboxsets"})
        /\ OfFields(i3, {"numtextures"}) /\ OfFields(i4, {"numbodyparts"})
        /\ OfFields(i5, {"numlocalattachments"}) /\ OfFields(i6, {"bvhOffset"})
        /\ OfFields(i7, {"uiPanelCount"}) /\ OfFields(i8, {"procBoneCount"})
    BY FieldsOne
  <2> HIDE DEF i1, i2, i3, i4, i5, i6, i7, i8, i9
  <2>3. OfFields(f2, {"numbones"} \cup {"numhitboxsets"})
    BY <2>2, FieldsJoin
  <2>4. OfFields(f3, N3)
    BY <2>2, <2>3, FieldsJoin
  <2> HIDE DEF f2, f3
  <2>5. OfFields(f4, N3 \cup {"numbodyparts"})
    BY <2>2, <2>4, FieldsJoin
  <2>6. OfFields(f5, (N3 \cup {"numbodyparts"}) \cup {"numlocalattachments"})
    BY <2>2, <2>5, FieldsJoin
  <2>7. OfFields(f6, N6)
    BY <2>2, <2>6, FieldsJoin
  <2>8. OfFields(f7, N7)
    BY <2>2, <2>7, FieldsJoin
  <2>9. OfFields(f8, N8)
    BY <2>2, <2>8, FieldsJoin
  <2>10. Has(f2, 0, "numbones", u) /\ Has(f2, 0, "numhitboxsets", w)
    BY <2>1, <2>2, HasLeft, HasOther DEF f2
  <2>11. Has(f3, 0, "numbones", u) /\ Has(f3, 0, "numhitboxsets", w)
    BY <2>10, HasLeft DEF f3
  <2>12. Has(f4, 0, "numbodyparts", v)
    BY <2>1, <2>4, HasOther
  <2>13. Has(f7, 0, "uiPanelCount", 0)
    BY <2>1, <2>7, HasOther
  <2>14. Has(f8, 0, "procBoneCount", 0)
    BY <2>1, <2>8, HasOther
  <2>15. Has(f9, 0, "linearboneindex", 0)
    BY <2>1, <2>9, HasOther
  <2>16. Has(f4, 0, "numbones", u) /\ Has(f4, 0, "numhitboxsets", w)
    BY <2>11, HasLeft
  <2> HIDE DEF f4
  <2>17. /\ Has(f6, 0, "numbones", u) /\ Has(f6, 0, "numhitboxsets", w)
         /\ Has(f6, 0, "numbodyparts", v)
    BY <2>12, <2>16, HasLeft
  <2> HIDE DEF f6
  <2>18. /\ Has(f8, 0, "numbones", u) /\ Has(f8, 0, "numhitboxsets", w)
         /\ Has(f8, 0, "numbodyparts", v) /\ Has(f8, 0, "uiPanelCount", 0)
    BY <2>13, <2>17, HasLeft
  <2> HIDE DEF f8
  <2>19. /\ Has(f9, 0, "numbones", u) /\ Has(f9, 0, "numhitboxsets", w)
         /\ Has(f9, 0, "numbodyparts", v) /\ Has(f9, 0, "uiPanelCount", 0)
         /\ Has(f9, 0, "procBoneCount", 0)
    BY <2>14, <2>18, HasLeft
  <2>20. is = f9 ++ HdrInt("length", 0)
    BY DEF f8, f6, f4, f3, f2
  <2> HIDE DEF f9, is
  <2> QED BY <2>15, <2>19, <2>20, HasLeft
<1> HIDE DEF is
<1>4. \E r \in rs : r.at = 0 /\ r.size > 0
  BY Sizes DEF Region, Kinds
<1> HIDE DEF rs
<1>5. /\ Held(0, "numbones", u)' /\ Held(0, "numbodyparts", v)'
      /\ Held(0, "numhitboxsets", w)' /\ Held(0, "uiPanelCount", 0)'
      /\ Held(0, "procBoneCount", 0)' /\ Held(0, "linearboneindex", 0)'
  BY <1>1, <1>3, <1>4, WriteThere
<1>6. /\ old' = old /\ pc' = "bones" /\ \E r \in regions' : r.at = 0 /\ r.size > 0
  BY <1>1, <1>4 DEF Write
<1>7. CountsFound'
  BY <1>2, <1>5, <1>6 DEF CountsFound
<1>8. PanelsFound' /\ LinearFound'
  <2>1. PanelsFound'
    BY <1>5 DEF PanelsFound
  <2>2. LinearFound'
    BY <1>5 DEF LinearFound
  <2> QED BY <2>1, <2>2
<1> QED BY <1>5, <1>6, <1>7, <1>8 DEF RInv, AfterBones, AfterHitboxes, AfterSequence,
                                     AfterBodyParts

(* The default sequence leads to its weights and to its animation.          *)
LEMMA SequenceRead == LInv /\ RInv /\ WriteDefaultSequence => RInv'
<1> SUFFICES ASSUME LInv, RInv, WriteDefaultSequence PROVE RInv'
  OBVIOUS
<1> DEFINE size == SizeOf["seqdesc"]
           n == Len(old.bones)
           weights == pos + size
           blend == weights + 4 * n
           anim == blend + 4
           rs == {Region(pos, size, <<"seqdesc">>), Region(weights, 4 * n, <<"weightlist">>),
                  Region(blend, 4, <<"blends">>), Region(anim, SizeOf["animdesc"], <<"animdesc">>)}
           F == {"localseqindex", "numlocalseq"}
           i1 == HdrInt("localseqindex", pos)
           i2 == HdrInt("numlocalseq", 1)
           i3 == StructInt(pos, "weightlistindex", size)
           i4 == StructInt(pos, "animindexindex", blend - pos)
           i5 == StructInt(blend, "blend", (blend - pos) + 4)
           i6 == StructInt(pos, "unused0", anim + SizeOf["animdesc"] - pos)
           is == i1 ++ i2 ++ i3 ++ i4 ++ i5 ++ i6
<1>1. PICK to, gs : Write("bodyparts", to, rs, is, gs)
  BY DEF WriteDefaultSequence
<1>2. pc = "sequence" /\ old \in Models /\ pos \in Nat
  BY Before DEF WriteDefaultSequence
<1>3. n \in Nat /\ size \in Nat /\ size > 0
  <2>1. n \in Nat
    BY <1>2, Compiled
  <2>2. size \in Nat /\ size > 0
    BY Sizes DEF Kinds
  <2> QED BY <2>1, <2>2
<1>4. PICK s, e, w, b : s = pos /\ e = size /\ w = weights /\ b = blend
  OBVIOUS
<1>5. s \in Nat /\ e \in Nat /\ w = s + e /\ b \in Nat /\ s <= b /\ anim = b + 4
  BY <1>2, <1>3, <1>4
<1>6. CountsFound /\ PanelsFound /\ LinearFound /\ SkeletonFound /\ SetsFound
  BY <1>2 DEF RInv, AfterBones, AfterHitboxes
<1>7. /\ Region(s, e, <<"seqdesc">>) \in rs /\ Region(w, 4 * n, <<"weightlist">>) \in rs
      /\ Region(b, 4, <<"blends">>) \in rs
      /\ Region(b + 4, SizeOf["animdesc"], <<"animdesc">>) \in rs
  BY <1>4, <1>5
<1>8. /\ \E r \in rs : r.at = s /\ r.size > 0
      /\ \E r \in rs : r.at = w /\ r.what = <<"weightlist">>
      /\ \E r \in rs : r.at = b /\ r.size > 0
      /\ \E r \in rs : r.at = b + 4 /\ r.what = <<"animdesc">>
  <2> HIDE DEF rs
  <2> QED BY <1>3, <1>4, <1>7 DEF Region
<1>9. /\ i1 = HdrInt("localseqindex", s) /\ i3 = StructInt(s, "weightlistindex", e)
      /\ i4 = StructInt(s, "animindexindex", b - s)
      /\ i5 = StructInt(b, "blend", (b - s) + 4)
  BY <1>4
<1>10. /\ Has(i1, 0, "localseqindex", s) /\ Has(i3, s, "weightlistindex", e)
       /\ Has(i4, s, "animindexindex", b - s) /\ Has(i5, b, "blend", (b - s) + 4)
  <2> HIDE DEF i1, i3, i4, i5
  <2> QED BY <1>9, HasOne
<1>11. /\ OfFields(i1, {"localseqindex"}) /\ OfFields(i2, {"numlocalseq"})
       /\ OfFields(i3, {"weightlistindex"}) /\ OfFields(i4, {"animindexindex"})
  BY FieldsOne
<1>12. StoresIn(is, pos, F)
  <2>1. StoresIn(i1, pos, F) /\ StoresIn(i2, pos, F)
    BY InHdr
  <2>2. pos <= blend /\ blend \in Nat /\ pos <= pos
    BY <1>2, <1>4, <1>5
  <2>3. StoresIn(i3, pos, F) /\ StoresIn(i4, pos, F) /\ StoresIn(i5, pos, F) /\ StoresIn(i6, pos, F)
    <3> HIDE DEF F, blend, anim, size
    <3> QED BY <1>2, <2>2, InStruct
  <2> HIDE DEF i1, i2, i3, i4, i5, i6, F
  <2>4. StoresIn(i1 ++ i2 ++ i3, pos, F)
    BY <2>1, <2>3, InJoin
  <2> QED BY <2>3, <2>4, InJoin
<1> HIDE DEF i1, i2, i3, i4, i5, i6, rs, size, weights, blend, anim, n
<1>13. /\ Has(is, 0, "localseqindex", s) /\ Has(is, s, "weightlistindex", e)
       /\ Has(is, s, "animindexindex", b - s) /\ Has(is, b, "blend", (b - s) + 4)
  <2> DEFINE f2 == i1 ++ i2
             f3 == f2 ++ i3
             f4 == f3 ++ i4
             f5 == f4 ++ i5
  <2>1. OfFields(f2, {"localseqindex"} \cup {"numlocalseq"}) /\ Has(f2, 0, "localseqindex", s)
    BY <1>10, <1>11, FieldsJoin, HasLeft
  <2> HIDE DEF f2
  <2>2. /\ OfFields(f3, {"localseqindex"} \cup {"numlocalseq"} \cup {"weightlistindex"})
        /\ Has(f3, 0, "localseqindex", s)
    BY <1>11, <2>1, FieldsJoin, HasLeft
  <2>3. Has(f3, s, "weightlistindex", e)
    BY <1>10, <2>1, HasOther
  <2> HIDE DEF f3
  <2>4. /\ OfFields(f4, {"localseqindex"} \cup {"numlocalseq"} \cup {"weightlistindex"}
                          \cup {"animindexindex"})
        /\ Has(f4, 0, "localseqindex", s) /\ Has(f4, s, "weightlistindex", e)
    BY <1>11, <2>2, <2>3, FieldsJoin, HasLeft
  <2>5. Has(f4, s, "animindexindex", b - s)
    BY <1>10, <2>2, HasOther
  <2> HIDE DEF f4
  <2>6. Has(f5, b, "blend", (b - s) + 4)
    BY <1>10, <2>4, HasOther
  <2>7. /\ Has(f5, 0, "localseqindex", s) /\ Has(f5, s, "weightlistindex", e)
        /\ Has(f5, s, "animindexindex", b - s)
    BY <2>4, <2>5, HasLeft
  <2>8. is = f5 ++ i6
    BY DEF f2, f3, f4
  <2> HIDE DEF f5, is
  <2> QED BY <2>6, <2>7, <2>8, HasLeft
<1> HIDE DEF is
<1>14. Keeps(F) /\ pc' = "bodyparts"
  BY <1>1, <1>12, WriteHolds
<1>15. /\ Held(0, "localseqindex", s)' /\ Held(s, "weightlistindex", e)'
       /\ Held(s, "animindexindex", b - s)' /\ Held(b, "blend", (b - s) + 4)'
       /\ At(w, <<"weightlist">>)' /\ At(b + 4, <<"animdesc">>)'
  <2>1. \E r \in regions \cup rs : r.at = 0 /\ r.size > 0
    BY <1>6 DEF CountsFound
  <2>2. Held(0, "localseqindex", s)'
    BY <1>1, <1>13, <2>1, WriteThere
  <2>3. Held(s, "weightlistindex", e)' /\ Held(s, "animindexindex", b - s)'
    BY <1>1, <1>5, <1>8, <1>13, WriteThere
  <2>4. Held(b, "blend", (b - s) + 4)'
    BY <1>1, <1>5, <1>8, <1>13, WriteThere
  <2>5. At(w, <<"weightlist">>)' /\ At(b + 4, <<"animdesc">>)'
    BY <1>1, <1>8, WriteThere
  <2> QED BY <2>2, <2>3, <2>4, <2>5
<1>16. SequenceFound'
  <2> DEFINE d == b - s
             c == (b - s) + 4
  <2>1. d \in Int /\ c \in Int /\ s + d = b /\ s + c = b + 4 /\ e \in Int
    BY <1>5
  <2>2. /\ Held(0, "localseqindex", s)' /\ Held(s, "weightlistindex", e)'
        /\ Held(s, "animindexindex", d)' /\ Held(s + d, "blend", c)'
        /\ At(s + e, <<"weightlist">>)' /\ At(s + c, <<"animdesc">>)'
    BY <1>5, <1>15, <2>1
  <2> HIDE DEF d, c
  <2> QED BY <1>5, <2>1, <2>2 DEF SequenceFound
<1>17. CountsFound' /\ PanelsFound' /\ LinearFound' /\ SkeletonFound' /\ SetsFound'
  <2>1. CountsFound'
    BY <1>6, <1>14, CountsStay
  <2>2. PanelsFound'
    BY <1>6, <1>14, PanelsStay DEF RuiFieldNames
  <2>3. LinearFound'
    BY <1>6, <1>14, LinearStays DEF LinearArrays, LinearElem
  <2>4. SkeletonFound'
    BY <1>6, <1>14, SkeletonStays
  <2>5. SetsFound'
    BY <1>6, <1>14, SetsStay
  <2> QED BY <2>1, <2>2, <2>3, <2>4, <2>5
<1> QED BY <1>14, <1>16, <1>17 DEF RInv, AfterBodyParts, AfterSequence

(* The linear bones, where there are any, lead to their arrays.             *)
LEMMA LinearBonesRead == LInv /\ RInv /\ ConvertLinearBones => RInv'
<1> SUFFICES ASSUME LInv, RInv, ConvertLinearBones PROVE RInv'
  OBVIOUS
<1> DEFINE n == Len(old.bones)
           h == SizeOf["linearbone"]
           o == SizeOf["oldlinearbone"]
           B == {Region(pos, h, <<"linearbone">>)}
           A == {Region(pos + h + OldLinearIndex(a) - o, n * LinearElem[a], <<"linear", a>>) :
                    a \in LinearArrays}
           rs == B \cup A
           ix == [k \in {pos} \X LinearArrays |-> NewLinearIndex(k[2])]
           F == {"linearboneindex"}
           i1 == HdrInt("linearboneindex", pos)
           is == i1 ++ ix
<1>1. pc = "linearbones" /\ old \in Models /\ pos \in Nat
  BY Before DEF ConvertLinearBones
<1>2. Skip("strings") \/ \E to : Write("strings", to, rs, is, {})
  BY DEF ConvertLinearBones
<1>3. /\ CountsFound /\ PanelsFound /\ LinearFound /\ SkeletonFound /\ SetsFound /\ SequenceFound
      /\ TreeFound
  BY <1>1 DEF RInv, AfterBones, AfterHitboxes, AfterSequence, AfterBodyParts
<1>4. n \in Nat
  BY <1>1, Compiled
<1>5. h \in Nat /\ h > 0 /\ o \in Nat
  BY Sizes DEF Kinds
<1>6. StoresIn(is, pos, F)
  <2>1. StoresIn(i1, pos, F)
    BY InHdr
  <2>2. StoresIn(ix, pos, F)
    BY <1>1 DEF StoresIn
  <2> HIDE DEF i1, ix, F
  <2> QED BY <2>1, <2>2, InJoin
<1>7. Keeps(F) /\ pc' = "strings"
  <2> HIDE DEF is, F, rs
  <2> QED BY <1>2, <1>6, WriteHolds, SkipHolds
<1>8. PICK p : p = pos
  OBVIOUS
<1>9. LinearFound'
  <2>1. CASE Skip("strings")
    <3>1. Keeps({})
      BY <2>1, SkipHolds
    <3> QED BY <1>3, <3>1, LinearStays
  <2>2. ASSUME NEW to, Write("strings", to, rs, is, {})
        PROVE  LinearFound'
    <3>1. Has(is, 0, "linearboneindex", p)
      <4>1. Has(i1, 0, "linearboneindex", p)
        BY <1>8, HasOne
      <4> HIDE DEF i1, ix
      <4> QED BY <4>1, HasLeft
    <3>2. \E r \in regions \cup rs : r.at = 0 /\ r.size > 0
      BY <1>3 DEF CountsFound
    <3>3. \E r \in rs : r.at = p /\ r.size > 0
      <4>1. Region(pos, h, <<"linearbone">>) \in rs
        OBVIOUS
      <4> HIDE DEF rs
      <4> QED BY <1>5, <1>8, <4>1 DEF Region
    <3>4. Held(0, "linearboneindex", p)'
      <4> HIDE DEF rs, is
      <4> QED BY <2>2, <3>1, <3>2, WriteThere
    <3>5. ASSUME NEW a \in LinearArrays
          PROVE  \E d \in Int : Held(p, a, d)' /\ At(p + d, <<"linear", a>>)'
      <4>1. PICK d : d = NewLinearIndex(a)
        OBVIOUS
      <4>2. /\ OldLinearIndex(a) \in Int /\ IndexAdjust = o - h
            /\ d = OldLinearIndex(a) - (o - h)
        <5>1. LinearBefore[a] \in Nat
          BY LinearApart
        <5>2. OldLinearIndex(a) = o + n * LinearBefore[a] /\ n * LinearBefore[a] \in Nat
          BY <1>4, <5>1, RankAligned, Multiples DEF OldLinearIndex
        <5> QED BY <1>5, <4>1, <5>2 DEF NewLinearIndex, IndexAdjust
      <4>3. d \in Int /\ p + d = pos + h + OldLinearIndex(a) - o
        <5> HIDE DEF h, o
        <5> QED BY <1>1, <1>5, <1>8, <4>2
      <4>4. Has(is, p, a, d)
        <5>1. Has(ix, p, a, d)
          BY <1>8, <4>1 DEF Has
        <5>2. OfFields(i1, {"linearboneindex"})
          BY FieldsOne
        <5>3. a \notin {"linearboneindex"}
          BY DEF LinearArrays, LinearElem
        <5> HIDE DEF i1, ix
        <5> QED BY <5>1, <5>2, <5>3, HasOther
      <4>5. \E r \in rs : r.at = p + d /\ r.what = <<"linear", a>>
        <5> DEFINE r == Region(pos + h + OldLinearIndex(a) - o, n * LinearElem[a], <<"linear", a>>)
        <5>1. r \in rs
          OBVIOUS
        <5>2. r.at = p + d /\ r.what = <<"linear", a>>
          BY <4>3 DEF Region
        <5> QED BY <5>1, <5>2
      <4> HIDE DEF rs, is
      <4>6. Held(p, a, d)' /\ At(p + d, <<"linear", a>>)'
        BY <1>1, <1>8, <2>2, <3>3, <4>4, <4>5, WriteThere
      <4> QED BY <4>3, <4>6
    <3> QED BY <1>1, <1>8, <3>4, <3>5 DEF LinearFound
  <2> HIDE DEF rs, is
  <2> QED BY <1>2, <2>1, <2>2
<1>10. /\ CountsFound' /\ PanelsFound' /\ SkeletonFound' /\ SetsFound' /\ SequenceFound'
       /\ TreeFound'
  <2>1. CountsFound'
    BY <1>3, <1>7, CountsStay
  <2>2. PanelsFound'
    BY <1>3, <1>7, PanelsStay DEF RuiFieldNames
  <2>3. SkeletonFound'
    BY <1>3, <1>7, SkeletonStays
  <2>4. SetsFound'
    BY <1>3, <1>7, SetsStay
  <2>5. SequenceFound'
    BY <1>3, <1>7, SequenceStays
  <2>6. TreeFound'
    BY <1>3, <1>7, TreeStays
  <2> QED BY <2>1, <2>2, <2>3, <2>4, <2>5, <2>6
<1> QED BY <1>7, <1>9, <1>10 DEF RInv

(* Slots are natural numbers, and an array's structs lie in its slots.      *)
LEMMA Slots ==
    ASSUME NEW kind \in Kinds, NEW a \in Nat, NEW n \in Nat
    PROVE  /\ \A i \in 1 .. n : /\ Slot(kind, a, i) \in Nat /\ a <= Slot(kind, a, i)
                                /\ ElementsAt(kind, a, n)[i] = Slot(kind, a, i)
                                /\ \E r \in ArrayOf(kind, a, n) :
                                     r.at = Slot(kind, a, i) /\ r.size > 0 /\ r.what = <<kind, i>>
           /\ ElementsAt(kind, a, n) \in [1 .. n -> Nat]
           /\ \A i, j \in 1 .. n : ElementsAt(kind, a, n)[i] = ElementsAt(kind, a, n)[j] => i = j
<1>1. SizeOf[kind] \in Nat /\ SizeOf[kind] > 0
  BY Sizes
<1>2. ASSUME NEW i \in 1 .. n
      PROVE  /\ Slot(kind, a, i) \in Nat /\ a <= Slot(kind, a, i)
             /\ ElementsAt(kind, a, n)[i] = Slot(kind, a, i)
             /\ \E r \in ArrayOf(kind, a, n) :
                  r.at = Slot(kind, a, i) /\ r.size > 0 /\ r.what = <<kind, i>>
  <2> DEFINE m == (i - 1) * SizeOf[kind]
             r == Region(a + Indices(n)[i] * SizeOf[kind], SizeOf[kind], <<kind, i>>)
  <2>1. i - 1 \in Nat /\ Indices(n)[i] = i - 1
    BY IndicesRank
  <2>2. m \in Nat
    BY <1>1, <2>1, RankBefore
  <2>3. Slot(kind, a, i) = a + m /\ ElementsAt(kind, a, n)[i] = a + m
    BY DEF Slot, ElementsAt
  <2>4. r \in ArrayOf(kind, a, n)
    BY IndicesRank DEF ArrayOf, Laid, Indices
  <2>5. r.at = a + m /\ r.size > 0 /\ r.what = <<kind, i>>
    BY <1>1, <2>1 DEF Region
  <2> HIDE DEF m, r
  <2>6. a + m \in Nat /\ a <= a + m
    BY <2>2
  <2> QED BY <2>3, <2>4, <2>5, <2>6
<1>3. /\ ElementsAt(kind, a, n) \in [1 .. n -> Nat]
      /\ \A i, j \in 1 .. n : ElementsAt(kind, a, n)[i] = ElementsAt(kind, a, n)[j] => i = j
  BY ArrayAddresses DEF Owned
<1> QED BY <1>2, <1>3

(* The things of a group lie in the slots from the group's first on.        *)
LEMMA MemberSlot ==
    ASSUME NEW f \in Seq(Nat), NEW i \in 1 .. Len(f), NEW k \in 1 .. f[i],
           NEW kind \in Kinds, NEW a \in Nat
    PROVE  /\ <<i, k>> \in Members(f)
           /\ a + SumTo(f, i - 1) * SizeOf[kind] \in Nat
           /\ a <= a + SumTo(f, i - 1) * SizeOf[kind]
           /\ Slot(kind, a + SumTo(f, i - 1) * SizeOf[kind], k)
                 = a + MemberRank(f)[<<i, k>>] * SizeOf[kind]
           /\ MemberRank(f)[<<i, k>>] = SumTo(f, i - 1) + k - 1
<1>1. <<i, k>> \in Members(f)
  BY DEF Members
<1>2. MemberRank(f)[<<i, k>>] = SumTo(f, i - 1) + k - 1
  BY <1>1 DEF MemberRank
<1> DEFINE s == SumTo(f, i - 1)
           size == SizeOf[kind]
           l == s * size
           m == (k - 1) * size
<1>3. s \in Nat /\ size \in Nat /\ k - 1 \in Nat
  <2>1. s \in Nat
    <3>1. i - 1 \in 0 .. Len(f)
      OBVIOUS
    <3> QED BY <3>1, SumToIs
  <2>2. f[i] \in Nat
    OBVIOUS
  <2> QED BY <2>1, <2>2, Sizes
<1>4. l \in Nat /\ m \in Nat
  BY <1>3, RankAligned, RankBefore
<1>5. (s + k - 1) * size = l + m
  <2>1. s + k - 1 = s + (k - 1)
    BY <1>3
  <2> DEFINE q == k - 1
  <2>2. q \in Nat
    BY <1>3
  <2>3. (s + q) * size = s * size + q * size
    <3> HIDE DEF q, s, size
    <3> QED BY <1>3, <2>2
  <2> QED BY <2>1, <2>3
<1>6. /\ Slot(kind, a + s * size, k) = (a + l) + m
      /\ a + MemberRank(f)[<<i, k>>] * SizeOf[kind] = a + (l + m)
  BY <1>2, <1>5 DEF Slot
<1>7. a + l \in Nat /\ a <= a + l /\ (a + l) + m = a + (l + m)
  <2> HIDE DEF l, m
  <2> QED BY <1>4
<1> QED BY <1>1, <1>2, <1>6, <1>7

(* The hitbox sets lead to their boxes.                                     *)
LEMMA HitboxesRead == LInv /\ RInv /\ ConvertHitboxes => RInv'
<1> SUFFICES ASSUME LInv, RInv, ConvertHitboxes PROVE RInv'
  OBVIOUS
<1> DEFINE n == Len(old.hitboxsets)
           NumBoxes == [i \in 1 .. n |-> Len(old.hitboxsets[i])]
           Set == ElementsAt("hitboxset", pos, n)
           first == pos + n * SizeOf["hitboxset"]
           HitboxIndex == [i \in 1 .. n |->
               first + SumTo(NumBoxes, i - 1) * SizeOf["bbox"] - Set[i]]
           A == ArrayOf("hitboxset", pos, n)
           B == Laid("bbox", SizeOf["bbox"], first, MemberRank(NumBoxes))
           rs == A \cup B
           F == {"hitboxsetindex"}
           i1 == HdrInt("hitboxsetindex", pos)
           i2 == IntsOver(Set, "numhitboxes", NumBoxes)
           i3 == IntsOver(Set, "hitboxindex", HitboxIndex)
           is == i1 ++ i2 ++ i3
<1>1. pc = "hitboxes" /\ old \in Models /\ pos \in Nat
  BY Before DEF ConvertHitboxes
<1>2. PICK to, gs : Write("bonebyname", to, rs, is, gs)
  BY DEF ConvertHitboxes
<1>3. CountsFound /\ PanelsFound /\ LinearFound /\ SkeletonFound
  BY <1>1 DEF RInv, AfterBones
<1>4. n \in Nat /\ \A i \in 1 .. n : old.hitboxsets[i] \in Seq(Strings)
  BY <1>1, Compiled
<1>5. "hitboxset" \in Kinds /\ "bbox" \in Kinds
  BY DEF Kinds
<1>6. NumBoxes \in Seq(Nat) /\ Len(NumBoxes) = n
      /\ \A i \in 1 .. n : NumBoxes[i] = Len(old.hitboxsets[i])
  <2>1. \A i \in 1 .. n : Len(old.hitboxsets[i]) \in Nat
    BY <1>4
  <2> QED BY <1>4, <2>1
<1>7. /\ \A i \in 1 .. n : /\ Slot("hitboxset", pos, i) \in Nat /\ pos <= Slot("hitboxset", pos, i)
                           /\ Set[i] = Slot("hitboxset", pos, i)
                           /\ \E r \in A : r.at = Slot("hitboxset", pos, i) /\ r.size > 0
      /\ Set \in [1 .. n -> Nat]
      /\ \A i, j \in 1 .. n : Set[i] = Set[j] => i = j
  <2> HIDE DEF n
  <2>1. \A i \in 1 .. n : /\ Slot("hitboxset", pos, i) \in Nat
                          /\ pos <= Slot("hitboxset", pos, i)
                          /\ Set[i] = Slot("hitboxset", pos, i)
    BY <1>1, <1>4, <1>5, Slots
  <2>2. \A i \in 1 .. n : \E r \in A : r.at = Slot("hitboxset", pos, i) /\ r.size > 0
    BY <1>1, <1>4, <1>5, Slots
  <2>3. Set \in [1 .. n -> Nat]
    BY <1>1, <1>4, <1>5, Slots
  <2>4. \A i, j \in 1 .. n : Set[i] = Set[j] => i = j
    BY <1>1, <1>4, <1>5, Slots
  <2> HIDE DEF Set, A
  <2> QED BY <2>1, <2>2, <2>3, <2>4
<1>8. first \in Nat
  <2> DEFINE l == n * SizeOf["hitboxset"]
  <2>1. l \in Nat
    BY <1>4, <1>5, Sizes, RankAligned
  <2> HIDE DEF l
  <2>2. pos + l \in Nat
    BY <1>1, <2>1
  <2> QED BY <2>2 DEF l
<1>9. StoresIn(is, pos, F)
  <2>1. StoresIn(i1, pos, F)
    BY InHdr
  <2>2. StoresIn(i2, pos, F) /\ StoresIn(i3, pos, F)
    <3> DEFINE S == 1 .. n
    <3>1. Set \in [S -> Nat] /\ \A x \in S : pos <= Set[x]
      BY <1>7
    <3> HIDE DEF S, Set, NumBoxes, HitboxIndex, F
    <3> QED BY <1>1, <3>1, InOver
  <2> HIDE DEF i1, i2, i3, F
  <2> QED BY <2>1, <2>2, InJoin
<1>10. /\ Has(is, 0, "hitboxsetindex", pos)
       /\ \A i \in 1 .. n : Has(is, Set[i], "hitboxindex", HitboxIndex[i])
  <2>1. Has(i1, 0, "hitboxsetindex", pos)
    BY HasOne
  <2>2. \A i \in 1 .. n : Has(i3, Set[i], "hitboxindex", HitboxIndex[i])
    <3> DEFINE S == 1 .. n
    <3>1. Set \in [S -> Nat] /\ \A x, y \in S : Set[x] = Set[y] => x = y
      BY <1>7
    <3> HIDE DEF S, Set, HitboxIndex
    <3>2. \A x \in S : Has(i3, Set[x], "hitboxindex", HitboxIndex[x])
      BY <3>1, HasOver
    <3> QED BY <3>2 DEF S
  <2>3. OfFields(i1, {"hitboxsetindex"}) /\ OfFields(i2, {"numhitboxes"})
    BY FieldsOne
  <2> HIDE DEF i1, i2, i3, Set, HitboxIndex
  <2>4. OfFields(i1 ++ i2, {"hitboxsetindex"} \cup {"numhitboxes"})
    BY <2>3, FieldsJoin
  <2>5. Has(is, 0, "hitboxsetindex", pos)
    BY <2>1, HasLeft
  <2>6. \A i \in 1 .. n : Has(is, Set[i], "hitboxindex", HitboxIndex[i])
    BY <2>2, <2>4, HasOther
  <2> QED BY <2>5, <2>6
<1>11. PICK b : b = pos
  OBVIOUS
<1>12. Keeps(F) /\ pc' = "bonebyname"
  <2> HIDE DEF is, F, rs
  <2> QED BY <1>2, <1>9, WriteHolds
<1>13. Held(0, "hitboxsetindex", b)'
  <2>1. Has(is, 0, "hitboxsetindex", b) /\ \E r \in regions \cup rs : r.at = 0 /\ r.size > 0
    BY <1>3, <1>10, <1>11 DEF CountsFound
  <2> HIDE DEF is, rs
  <2> QED BY <1>2, <2>1, WriteThere
<1>14. ASSUME NEW i \in 1 .. n PROVE SetAt(Slot("hitboxset", b, i), i)'
  <2>1. PICK a : a = Slot("hitboxset", b, i)
    OBVIOUS
  <2>2. PICK g : g = first + SumTo(NumBoxes, i - 1) * SizeOf["bbox"]
    OBVIOUS
  <2>3. g \in Nat /\ SumTo(NumBoxes, i - 1) * SizeOf["bbox"] \in Nat
    <3> DEFINE l == SumTo(NumBoxes, i - 1)
               size == SizeOf["bbox"]
    <3>1. l \in Nat
      <4>1. i - 1 \in 0 .. Len(NumBoxes)
        BY <1>4, <1>6
      <4> HIDE DEF NumBoxes
      <4> QED BY <1>6, <4>1, SumToIs
    <3>2. l * size \in Nat
      BY <1>5, <3>1, Sizes, RankAligned
    <3>3. first + l * size \in Nat
      <4> HIDE DEF first, l, size
      <4> QED BY <1>8, <3>2
    <3> QED BY <2>2, <3>2, <3>3
  <2>4. Has(is, a, "hitboxindex", g - a) /\ a \in Nat /\ \E r \in rs : r.at = a /\ r.size > 0
    <3>1. Set[i] = a /\ a \in Nat /\ \E r \in rs : r.at = a /\ r.size > 0
      BY <1>7, <1>11, <2>1
    <3>2. HitboxIndex[i] = g - a
      <4> DEFINE l == SumTo(NumBoxes, i - 1) * SizeOf["bbox"]
      <4>1. HitboxIndex[i] = first + (l - Set[i]) /\ g = first + l
        BY <2>2
      <4> HIDE DEF HitboxIndex, Set, first
      <4>2. l \in Nat
        BY <2>3
      <4> HIDE DEF l
      <4> QED BY <1>8, <3>1, <4>1, <4>2
    <3> HIDE DEF is, rs, Set, HitboxIndex
    <3> QED BY <1>10, <3>1, <3>2
  <2>5. ASSUME NEW k \in 1 .. Len(old.hitboxsets[i])
        PROVE  At(Slot("bbox", g, k), <<"bbox", <<i, k>>>>)'
    <3>1. i \in 1 .. Len(NumBoxes) /\ k \in 1 .. NumBoxes[i]
      BY <1>6
    <3> DEFINE r == Region(first + MemberRank(NumBoxes)[<<i, k>>] * SizeOf["bbox"], SizeOf["bbox"],
                           <<"bbox", <<i, k>>>>)
    <3>2. /\ <<i, k>> \in Members(NumBoxes)
          /\ Slot("bbox", g, k) = first + MemberRank(NumBoxes)[<<i, k>>] * SizeOf["bbox"]
      <4> HIDE DEF NumBoxes, first
      <4> QED BY <1>5, <1>6, <1>8, <2>2, <3>1, MemberSlot
    <3>3. r \in rs
      <4>1. DOMAIN MemberRank(NumBoxes) = Members(NumBoxes)
        BY DEF MemberRank
      <4> HIDE DEF NumBoxes, first, A
      <4> QED BY <3>2, <4>1 DEF Laid
    <3>4. r.at = Slot("bbox", g, k) /\ r.what = <<"bbox", <<i, k>>>>
      BY <3>2 DEF Region
    <3> HIDE DEF rs, is, r
    <3> QED BY <1>2, <3>3, <3>4, WriteThere
  <2>6. Held(a, "hitboxindex", g - a)'
    <3> HIDE DEF is, rs
    <3> QED BY <1>2, <2>4, WriteThere
  <2>7. old' = old
    BY <1>12 DEF Keeps
  <2>8. \A k \in 1 .. Len(old.hitboxsets[i])' : At(Slot("bbox", g, k), <<"bbox", <<i, k>>>>)'
    BY <2>5, <2>7
  <2>9. SetAt(a, i)'
    BY <2>3, <2>6, <2>8 DEF SetAt
  <2> QED BY <2>1, <2>9
<1>15. SetsFound'
  <2>1. old' = old
    BY <1>12 DEF Keeps
  <2>2. \A i \in 1 .. Len(old'.hitboxsets) : SetAt(Slot("hitboxset", b, i), i)'
    BY <1>14, <2>1
  <2> QED BY <1>1, <1>11, <1>13, <2>2 DEF SetsFound
<1>16. CountsFound' /\ PanelsFound' /\ LinearFound' /\ SkeletonFound'
  <2>1. CountsFound'
    BY <1>3, <1>12, CountsStay
  <2>2. PanelsFound'
    BY <1>3, <1>12, PanelsStay DEF RuiFieldNames
  <2>3. LinearFound'
    BY <1>3, <1>12, LinearStays DEF LinearArrays, LinearElem
  <2>4. SkeletonFound'
    BY <1>3, <1>12, SkeletonStays
  <2> QED BY <2>1, <2>2, <2>3, <2>4
<1> QED BY <1>12, <1>15, <1>16 DEF RInv, AfterSequence, AfterBodyParts

(* The bones lead to their jiggle data, and the two byte tables to one      *)
(* another.                                                                 *)
LEMMA BonesRead == LInv /\ RInv /\ ConvertBones => RInv'
<1> SUFFICES ASSUME LInv, RInv, ConvertBones PROVE RInv'
  OBVIOUS
<1> DEFINE n == Len(old.bones)
           c == Cardinality(Jiggles)
           j == SizeOf["jigglebone"]
           Bone == ElementsAt("bone", pos, n)
           jiggles == AlignData(pos + n * SizeOf["bone"], 4)
           tables == AlignData(jiggles + c * j, 4)
           ProcIndex == [i \in 1 .. n |->
               IF i \in Jiggles THEN jiggles + JiggleRank[i] * j - Bone[i]
               ELSE old.bones[i].procindex]
           B == ArrayOf("bone", pos, n)
           J == Laid("jigglebone", j, jiggles, JiggleRank)
           P == Laid("procBone", 1, tables, JiggleRank)
           L == IF c = 0 THEN {}
                ELSE {Region(tables + c + i - 1, 1,
                        <<"linearProcBone", IF i \in Jiggles THEN JiggleRank[i] ELSE 255>>)
                      : i \in 1 .. n}
           rs == B \cup J \cup P \cup L
           F == {"boneindex", "procBoneCount", "procBoneTableOffset", "linearProcBoneOffset"}
           i1 == HdrInt("boneindex", pos)
           i2 == IntsOver(Bone, "procindex", ProcIndex)
           t1 == HdrInt("procBoneCount", c)
           t2 == HdrInt("procBoneTableOffset", tables)
           t3 == HdrInt("linearProcBoneOffset", tables + c)
           i3 == IF c = 0 THEN << >> ELSE t1 ++ t2 ++ t3
           is == i1 ++ i2 ++ i3
<1>1. pc = "bones" /\ old \in Models /\ baseAddr \in BaseAddrs /\ pos \in Nat /\ pos % 4 = 0
  BY Before DEF ConvertBones
<1>2. PICK to, gs : Write("attachments", to, rs, is, gs)
  BY DEF ConvertBones
<1>3. CountsFound /\ PanelsFound /\ LinearFound /\ Held(0, "procBoneCount", 0)
  BY <1>1 DEF RInv
<1>4. n \in Nat
  BY <1>1, Compiled
<1>5. /\ c \in Nat /\ JiggleRank \in [Jiggles -> Nat]
      /\ \A i \in Jiggles : JiggleRank[i] < c
      /\ \A i \in Jiggles : i \in 1 .. n
      /\ c = 0 => Jiggles = {}
  BY <1>4, JiggleRanked DEF Jiggles
<1>6. "bone" \in Kinds /\ "jigglebone" \in Kinds
  BY DEF Kinds
<1>7. j \in Nat /\ j > 0 /\ j % 4 = 0
  BY <1>6, Sizes
<1>8. /\ \A i \in 1 .. n : /\ Slot("bone", pos, i) \in Nat /\ pos <= Slot("bone", pos, i)
                           /\ Bone[i] = Slot("bone", pos, i)
                           /\ \E r \in B : r.at = Slot("bone", pos, i) /\ r.size > 0
                                           /\ r.what = <<"bone", i>>
      /\ Bone \in [1 .. n -> Nat]
      /\ \A i, k \in 1 .. n : Bone[i] = Bone[k] => i = k
  <2> HIDE DEF n
  <2>1. \A i \in 1 .. n : /\ Slot("bone", pos, i) \in Nat /\ pos <= Slot("bone", pos, i)
                          /\ Bone[i] = Slot("bone", pos, i)
    BY <1>1, <1>4, <1>6, Slots
  <2>2. \A i \in 1 .. n : \E r \in B : r.at = Slot("bone", pos, i) /\ r.size > 0
                                       /\ r.what = <<"bone", i>>
    BY <1>1, <1>4, <1>6, Slots
  <2>3. Bone \in [1 .. n -> Nat]
    BY <1>1, <1>4, <1>6, Slots
  <2>4. \A i, k \in 1 .. n : Bone[i] = Bone[k] => i = k
    BY <1>1, <1>4, <1>6, Slots
  <2> HIDE DEF Bone, B
  <2> QED BY <2>1, <2>2, <2>3, <2>4
<1>9. jiggles \in Nat
  BY <1>1, <1>4, ArraySlice DEF Kinds
<1>10. tables \in Nat
  <2> DEFINE m == c * j
  <2>1. m \in Nat
    BY <1>5, <1>7, RankAligned
  <2>2. jiggles + m \in Nat
    <3> HIDE DEF m, jiggles
    <3> QED BY <1>9, <2>1
  <2> HIDE DEF jiggles
  <2> QED BY <1>1, <2>2, AlignedUp
<1>11. /\ StoresIn(i1, pos, F) /\ StoresIn(i1, pos, {"boneindex"})
       /\ StoresIn(i2, pos, F) /\ StoresIn(i2, pos, {"boneindex"})
  <2>1. StoresIn(i1, pos, F) /\ StoresIn(i1, pos, {"boneindex"})
    BY InHdr
  <2> DEFINE S == 1 .. n
  <2>2. Bone \in [S -> Nat] /\ \A x \in S : pos <= Bone[x]
    BY <1>8
  <2> HIDE DEF S, Bone, ProcIndex, F
  <2>3. StoresIn(i2, pos, F)
    BY <1>1, <2>2, InOver
  <2>4. StoresIn(i2, pos, {"boneindex"})
    BY <1>1, <2>2, InOver
  <2> QED BY <2>1, <2>3, <2>4
<1>12. StoresIn(is, pos, F) /\ (c = 0 => StoresIn(is, pos, {"boneindex"}))
  <2>1. StoresIn(t1, pos, F) /\ StoresIn(t2, pos, F) /\ StoresIn(t3, pos, F)
    <3> HIDE DEF c, tables
    <3> QED BY InHdr
  <2> HIDE DEF t1, t2, t3, F
  <2>2. StoresIn(i3, pos, F) /\ (c = 0 => StoresIn(i3, pos, {"boneindex"}))
    BY <2>1, InJoin, InNone
  <2> HIDE DEF i1, i2, i3
  <2> QED BY <1>11, <2>2, InJoin
<1>13. /\ Has(is, 0, "boneindex", pos)
       /\ \A i \in 1 .. n : Has(is, Bone[i], "procindex", ProcIndex[i])
       /\ c > 0 => /\ Has(is, 0, "procBoneCount", c)
                   /\ Has(is, 0, "procBoneTableOffset", tables)
                   /\ Has(is, 0, "linearProcBoneOffset", tables + c)
  <2>1. Has(i1, 0, "boneindex", pos) /\ OfFields(i1, {"boneindex"})
    BY HasOne, FieldsOne
  <2>2. \A i \in 1 .. n : Has(i2, Bone[i], "procindex", ProcIndex[i])
    <3> DEFINE S == 1 .. n
    <3>1. Bone \in [S -> Nat] /\ \A x, y \in S : Bone[x] = Bone[y] => x = y
      BY <1>8
    <3> HIDE DEF S, Bone, ProcIndex
    <3>2. \A x \in S : Has(i2, Bone[x], "procindex", ProcIndex[x])
      BY <3>1, HasOver
    <3> QED BY <3>2 DEF S
  <2>3. OfFields(i2, {"procindex"})
    BY FieldsOne
  <2>4. ASSUME c > 0
        PROVE  /\ Has(i3, 0, "procBoneCount", c)
               /\ Has(i3, 0, "procBoneTableOffset", tables)
               /\ Has(i3, 0, "linearProcBoneOffset", tables + c)
    <3>1. i3 = t1 ++ t2 ++ t3
      BY <1>5, <2>4
    <3> HIDE DEF i3
    <3>2. /\ Has(t1, 0, "procBoneCount", c) /\ Has(t2, 0, "procBoneTableOffset", tables)
          /\ Has(t3, 0, "linearProcBoneOffset", tables + c)
          /\ OfFields(t1, {"procBoneCount"}) /\ OfFields(t2, {"procBoneTableOffset"})
      <4> HIDE DEF c, tables
      <4> QED BY HasOne, FieldsOne
    <3> HIDE DEF t1, t2, t3, c, tables
    <3>3. OfFields(t1 ++ t2, {"procBoneCount"} \cup {"procBoneTableOffset"})
      BY <3>2, FieldsJoin
    <3>4. Has(t1 ++ t2, 0, "procBoneCount", c)
      BY <3>2, HasLeft
    <3>5. Has(t1 ++ t2, 0, "procBoneTableOffset", tables)
      BY <3>2, HasOther
    <3>6. Has(i3, 0, "procBoneCount", c) /\ Has(i3, 0, "procBoneTableOffset", tables)
      BY <3>1, <3>4, <3>5, HasLeft
    <3>7. Has(i3, 0, "linearProcBoneOffset", tables + c)
      BY <3>1, <3>2, <3>3, HasOther
    <3> QED BY <3>6, <3>7
  <2> HIDE DEF i1, i2, i3, Bone, ProcIndex, c, tables, n
  <2>5. OfFields(i1 ++ i2, {"boneindex"} \cup {"procindex"})
    BY <2>1, <2>3, FieldsJoin
  <2>6. Has(i1 ++ i2, 0, "boneindex", pos)
    BY <2>1, HasLeft
  <2>7. \A i \in 1 .. n : Has(i1 ++ i2, Bone[i], "procindex", ProcIndex[i])
    BY <2>1, <2>2, HasOther
  <2>8. Has(is, 0, "boneindex", pos)
    BY <2>6, HasLeft
  <2>9. \A i \in 1 .. n : Has(is, Bone[i], "procindex", ProcIndex[i])
    BY <2>7, HasLeft
  <2>10. ASSUME c > 0
         PROVE  /\ Has(is, 0, "procBoneCount", c)
                /\ Has(is, 0, "procBoneTableOffset", tables)
                /\ Has(is, 0, "linearProcBoneOffset", tables + c)
    BY <2>4, <2>5, <2>10, HasOther
  <2> QED BY <2>8, <2>9, <2>10
<1>14. PICK b, cc, t : b = pos /\ cc = c /\ t = tables
  OBVIOUS
<1>15. b \in Nat /\ cc \in Nat /\ t \in Nat
  BY <1>1, <1>5, <1>10, <1>14
<1>16. Keeps(F) /\ pc' = "attachments" /\ old' = old
       /\ (c = 0 => Keeps({"boneindex"}))
  <2> HIDE DEF is, F, rs, c
  <2>1. Keeps(F) /\ pc' = "attachments"
    BY <1>2, <1>12, WriteHolds
  <2>2. c = 0 => Keeps({"boneindex"})
    BY <1>2, <1>12, WriteHolds
  <2> QED BY <2>1, <2>2 DEF Keeps
<1>17. /\ Held(0, "boneindex", b)' /\ Held(0, "procBoneCount", cc)'
       /\ cc > 0 => /\ Held(0, "procBoneTableOffset", t)'
                    /\ Held(0, "linearProcBoneOffset", t + cc)'
  <2>1. \E r \in regions \cup rs : r.at = 0 /\ r.size > 0
    BY <1>3 DEF CountsFound
  <2> HIDE DEF is, rs, c, tables
  <2>2. Held(0, "boneindex", b)'
    BY <1>2, <1>13, <1>14, <2>1, WriteThere
  <2>3. ASSUME cc > 0
        PROVE  /\ Held(0, "procBoneCount", cc)'
               /\ Held(0, "procBoneTableOffset", t)'
               /\ Held(0, "linearProcBoneOffset", t + cc)'
    BY <1>2, <1>13, <1>14, <2>1, <2>3, WriteThere
  <2>4. ASSUME cc = 0 PROVE Held(0, "procBoneCount", cc)'
    BY <1>3, <1>14, <1>16, <2>4, HeldStays
  <2> QED BY <1>15, <2>2, <2>3, <2>4
<1>18. ASSUME NEW i \in Jiggles
       PROVE  /\ \E d \in Int : /\ Held(Slot("bone", b, i), "procindex", d)'
                                /\ At(Slot("bone", b, i) + d, <<"jigglebone", i>>)'
              /\ cc > 0
              /\ \E k \in 0 .. cc - 1 : /\ At(t + cc + i - 1, <<"linearProcBone", k>>)'
                                       /\ At(t + k, <<"procBone", i>>)'
  <2>1. i \in 1 .. n /\ i \in Nat /\ JiggleRank[i] \in Nat /\ JiggleRank[i] < c
    BY <1>5, <1>4
  <2>2. cc > 0
    BY <1>14, <1>15, <2>1
  <2>3. PICK a, k : a = Slot("bone", b, i) /\ k = JiggleRank[i]
    OBVIOUS
  <2>4. k \in 0 .. cc - 1
    BY <1>14, <1>15, <2>1, <2>3
  <2>5. a = Bone[i] /\ a \in Nat /\ \E r \in rs : r.at = a /\ r.size > 0
    <3>1. a = Bone[i] /\ a \in Nat /\ \E r \in B : r.at = a /\ r.size > 0
      BY <1>8, <1>14, <2>1, <2>3
    <3> HIDE DEF B, J, P, L, Bone
    <3> QED BY <3>1
  <2>6. PICK d : d = ProcIndex[i]
    OBVIOUS
  <2> DEFINE m == JiggleRank[i] * j
  <2>7. m \in Nat
    BY <1>7, <2>1, RankAligned
  <2>8. d = jiggles + (m - a)
    <3>1. ProcIndex[i] = jiggles + (m - Bone[i])
      BY <2>1
    <3> HIDE DEF ProcIndex, Bone, jiggles, m
    <3> QED BY <2>5, <2>6, <3>1
  <2>9. d \in Int /\ a + d = jiggles + m
    <3> HIDE DEF jiggles, m
    <3> QED BY <1>9, <2>5, <2>7, <2>8
  <2>10. Held(a, "procindex", d)'
    <3>1. Has(is, a, "procindex", d)
      <4> HIDE DEF is, Bone, ProcIndex, n
      <4> QED BY <1>13, <2>1, <2>5, <2>6
    <3> HIDE DEF is, rs, Bone
    <3> QED BY <1>2, <2>5, <3>1, WriteThere
  <2>11. At(a + d, <<"jigglebone", i>>)'
    <3> DEFINE r == Region(jiggles + m, j, <<"jigglebone", i>>)
    <3>1. r \in J
      BY <1>5 DEF Laid
    <3>2. r.at = a + d /\ r.what = <<"jigglebone", i>>
      BY <2>9 DEF Region
    <3> HIDE DEF B, J, P, L, is, r
    <3>3. r \in rs
      BY <3>1
    <3> HIDE DEF rs
    <3> QED BY <1>2, <3>2, <3>3, WriteThere
  <2>12. At(t + k, <<"procBone", i>>)'
    <3> DEFINE r == Region(tables + JiggleRank[i] * 1, 1, <<"procBone", i>>)
    <3>1. r \in P
      BY <1>5 DEF Laid
    <3>2. r.at = t + k /\ r.what = <<"procBone", i>>
      <4>1. r.at = tables + JiggleRank[i] * 1 /\ r.what = <<"procBone", i>>
        BY DEF Region
      <4> HIDE DEF tables, r
      <4> QED BY <1>14, <2>1, <2>3, <4>1
    <3> HIDE DEF B, J, P, L, is, r
    <3>3. r \in rs
      BY <3>1
    <3> HIDE DEF rs
    <3> QED BY <1>2, <3>2, <3>3, WriteThere
  <2>13. At(t + cc + i - 1, <<"linearProcBone", k>>)'
    <3> DEFINE r == Region(tables + c + i - 1, 1, <<"linearProcBone",
                       IF i \in Jiggles THEN JiggleRank[i] ELSE 255>>)
    <3>1. r \in L
      <4> HIDE DEF c, tables
      <4> QED BY <1>5, <2>1
    <3>2. r.at = t + cc + i - 1 /\ r.what = <<"linearProcBone", k>>
      <4> HIDE DEF c, tables
      <4> QED BY <1>14, <2>3 DEF Region
    <3> HIDE DEF B, J, P, L, is, r
    <3>3. r \in rs
      BY <3>1
    <3> HIDE DEF rs
    <3> QED BY <1>2, <3>2, <3>3, WriteThere
  <2> QED BY <2>2, <2>3, <2>4, <2>9, <2>10, <2>11, <2>12, <2>13
<1>19. ASSUME NEW i \in 1 .. n PROVE At(Slot("bone", b, i), <<"bone", i>>)'
  <2>1. PICK r \in B : r.at = Slot("bone", b, i) /\ r.what = <<"bone", i>>
    BY <1>8, <1>14
  <2> HIDE DEF B, J, P, L, is, n
  <2>2. r \in rs
    OBVIOUS
  <2> HIDE DEF rs
  <2> QED BY <1>2, <2>1, <2>2, WriteThere
<1>20. ASSUME NEW i \in 1 .. n, i \notin Jiggles, cc > 0
       PROVE  At(t + cc + i - 1, <<"linearProcBone", 255>>)'
  <2> DEFINE r == Region(tables + c + i - 1, 1, <<"linearProcBone",
                     IF i \in Jiggles THEN JiggleRank[i] ELSE 255>>)
  <2>1. r \in L
    <3> HIDE DEF c, tables, n
    <3> QED BY <1>14, <1>15, <1>20
  <2>2. r.at = t + cc + i - 1 /\ r.what = <<"linearProcBone", 255>>
    <3> HIDE DEF c, tables
    <3> QED BY <1>14, <1>20 DEF Region
  <2> HIDE DEF B, J, P, L, is, r, n
  <2>3. r \in rs
    BY <2>1
  <2> HIDE DEF rs
  <2> QED BY <1>2, <2>2, <2>3, WriteThere
<1>21. SkeletonFound'
  <2>1. Jiggles' = Jiggles /\ Len(old'.bones) = n
    BY <1>16 DEF Jiggles
  <2>2. \A i \in 1 .. Len(old.bones)' :
          /\ At(Slot("bone", b, i), <<"bone", i>>)'
          /\ i \in Jiggles' =>
               /\ \E d \in Int : /\ Held(Slot("bone", b, i), "procindex", d)'
                                 /\ At(Slot("bone", b, i) + d, <<"jigglebone", i>>)'
               /\ cc > 0
               /\ \E k \in 0 .. cc - 1 : /\ At(t + cc + i - 1, <<"linearProcBone", k>>)'
                                        /\ At(t + k, <<"procBone", i>>)'
          /\ i \notin Jiggles' /\ cc > 0 => At(t + cc + i - 1, <<"linearProcBone", 255>>)'
    BY <1>18, <1>19, <1>20, <2>1
  <2>3. SkeletonAt(b, cc, t)'
    BY <1>17, <2>2 DEF SkeletonAt
  <2> QED BY <1>15, <2>3 DEF SkeletonFound
<1>22. CountsFound' /\ PanelsFound' /\ LinearFound'
  <2>1. CountsFound'
    BY <1>3, <1>16, CountsStay
  <2>2. PanelsFound'
    BY <1>3, <1>16, PanelsStay DEF RuiFieldNames
  <2>3. LinearFound'
    BY <1>3, <1>16, LinearStays DEF LinearArrays, LinearElem
  <2> QED BY <2>1, <2>2, <2>3
<1> QED BY <1>16, <1>21, <1>22 DEF RInv, AfterHitboxes, AfterSequence, AfterBodyParts

(* Structs that are placed, and are not the same, have addresses of their    *)
(* own.                                                                      *)
LEMMA PlacedApart ==
    ASSUME NEW rs, NEW a, NEW b, Placed(rs, a, b), NEW r \in rs, NEW q \in rs,
           r.size > 0, q.size > 0, r.what # q.what
    PROVE  r.at # q.at
<1>1. /\ r.at \in Nat /\ r.size \in Nat /\ q.at \in Nat /\ q.size \in Nat
      /\ r.at + r.size <= q.at \/ q.at + q.size <= r.at
  BY DEF Placed
<1> QED BY <1>1

(* No two models, no two meshes, and no mesh and body part share an address. *)
LEMMA TreeApart ==
    ASSUME old \in Models, pos \in Nat, pos % 4 = 0
    PROVE  /\ \A x, y \in TreeModels : TreeModel[x] = TreeModel[y] => x = y
           /\ \A x, y \in TreeMeshes : TreeMesh[x] = TreeMesh[y] => x = y
           /\ \A x \in TreeMeshes : \A i \in 1 .. Len(old.bodyparts) :
                Slot("bodypart", pos, i) # TreeMesh[x]
           /\ \A x \in TreeModels : pos <= TreeModel[x]
           /\ \A x \in TreeMeshes : pos <= TreeMesh[x]
<1> DEFINE n == Len(old.bodyparts)
           A == ArrayOf("bodypart", pos, n)
           end == TreeFirst[n + 1]
           M(x) == Region(TreeModel[x], SizeOf["model"], <<"model", x>>)
           G(x) == Region(TreeMesh[x], SizeOf["mesh"], <<"mesh", x>>)
<1>1. Placed(A, pos, TreeBase) /\ Placed(TreeRegions, TreeBase, end)
  BY TreeLaid
<1>2. SizeOf["model"] > 0 /\ SizeOf["mesh"] > 0
  BY Sizes DEF Kinds
<1>3. ASSUME NEW x \in TreeModels
      PROVE  /\ M(x) \in TreeRegions /\ M(x).at = TreeModel[x] /\ M(x).size > 0
             /\ M(x).what = <<"model", x>>
  BY <1>2 DEF TreeRegions, Region
<1>4. ASSUME NEW x \in TreeMeshes
      PROVE  /\ G(x) \in TreeRegions /\ G(x).at = TreeMesh[x] /\ G(x).size > 0
             /\ G(x).what = <<"mesh", x>>
  BY <1>2 DEF TreeRegions, Region
<1>5. n \in Nat /\ "bodypart" \in Kinds
  BY Compiled DEF Kinds
<1>6. ASSUME NEW i \in 1 .. n
      PROVE  \E r \in A : r.at = Slot("bodypart", pos, i) /\ r.size > 0
  <2> HIDE DEF n
  <2> QED BY <1>5, Slots
<1> HIDE DEF A, M, G, end
<1>7. ASSUME NEW x \in TreeModels, NEW y \in TreeModels, TreeModel[x] = TreeModel[y]
      PROVE  x = y
  <2> SUFFICES ASSUME x # y PROVE FALSE
    OBVIOUS
  <2>1. <<"model", x>> # <<"model", y>>
    OBVIOUS
  <2>2. M(x).at # M(y).at
    BY <1>1, <1>3, <2>1, PlacedApart
  <2> QED BY <1>3, <1>7, <2>2
<1>8. ASSUME NEW x \in TreeMeshes, NEW y \in TreeMeshes, TreeMesh[x] = TreeMesh[y]
      PROVE  x = y
  <2> SUFFICES ASSUME x # y PROVE FALSE
    OBVIOUS
  <2>1. <<"mesh", x>> # <<"mesh", y>>
    OBVIOUS
  <2>2. G(x).at # G(y).at
    BY <1>1, <1>4, <2>1, PlacedApart
  <2> QED BY <1>4, <1>8, <2>2
<1>9. \A r \in TreeRegions : r.at \in Nat /\ TreeBase <= r.at /\ pos <= r.at
  BY <1>1 DEF Placed
<1>10. ASSUME NEW x \in TreeMeshes, NEW i \in 1 .. n
       PROVE  Slot("bodypart", pos, i) # TreeMesh[x]
  <2>1. PICK r \in A : r.at = Slot("bodypart", pos, i) /\ r.size > 0
    BY <1>6
  <2>2. r.at \in Nat /\ r.size \in Nat /\ r.at + r.size <= TreeBase /\ TreeBase \in Nat
    BY <1>1 DEF Placed
  <2>3. TreeMesh[x] \in Nat /\ TreeBase <= TreeMesh[x]
    BY <1>4, <1>9
  <2> QED BY <2>1, <2>2, <2>3
<1> QED BY <1>3, <1>4, <1>7, <1>8, <1>9, <1>10

(* The models of a part are the slots from its first model on, and the       *)
(* meshes of a model those from its mesh index on.                           *)
LEMMA TreeSlots ==
    ASSUME old \in Models, pos \in Nat, pos % 4 = 0,
           NEW i \in 1 .. Len(old.bodyparts), NEW j \in 1 .. Len(old.bodyparts[i])
    PROVE  /\ <<i, j>> \in TreeModels
           /\ TreeModel[<<i, j>>] = Slot("model", TreeFirst[i], j)
           /\ TreeModel[<<i, j>>] \in Nat
           /\ \E g \in Nat :
                /\ MeshIndex(old.bodyparts[i], j) = g - TreeModel[<<i, j>>]
                /\ \A k \in 1 .. old.bodyparts[i][j] :
                     /\ <<i, j, k>> \in TreeMeshes
                     /\ TreeMesh[<<i, j, k>>] = Slot("mesh", g, k)
<1> DEFINE part == old.bodyparts[i]
           a == TreeFirst[i]
           model == SizeOf["model"]
           mesh == SizeOf["mesh"]
           before == MeshesBefore(part, j)
           l == Len(part) * model
           e == (j - 1) * model
           w == before * mesh
           g == (a + l) + w
<1>1. i \in Nat /\ i \in 1 .. (Len(old.bodyparts) + 1) /\ part \in Seq(Nat) /\ Len(part) \in Nat
  <2>1. Len(old.bodyparts) \in Nat /\ part \in Seq(Nat)
    BY Compiled
  <2> QED BY <2>1
<1>2. a \in Nat
  BY <1>1, TreeLaid
<1>3. model \in Nat /\ mesh \in Nat
  BY Sizes DEF Kinds
<1>4. <<i, j>> \in TreeModels
  <2>1. Len(TreeCounts) = Len(old.bodyparts) /\ j \in 1 .. TreeCounts[i]
    <3>1. Len(old.bodyparts) \in Nat
      BY Compiled
    <3> QED BY <3>1 DEF TreeCounts
  <2>2. <<i, j>> \in {i} \X (1 .. TreeCounts[i]) /\ i \in 1 .. Len(TreeCounts)
    BY <2>1
  <2> QED BY <2>2 DEF TreeModels, Members
<1>5. TreeModel[<<i, j>>] = a + e /\ TreeModel[<<i, j>>] = Slot("model", a, j)
  BY <1>4 DEF TreeModel, Slot
<1>6. j - 1 \in Nat /\ Len(part) - (j - 1) \in Nat /\ j - 1 \in 0 .. Len(part)
  BY <1>1
<1>7. before \in Nat
  BY <1>1, <1>6, SumToIs DEF MeshesBefore
<1>8. l \in Nat /\ e \in Nat /\ w \in Nat
  <2>1. l \in Nat
    BY <1>1, <1>3, RankAligned, Multiples
  <2> QED BY <1>3, <1>6, <1>7, <2>1, RankBefore
<1>9. MeshIndex(part, j) = (l - e) + w
  <2> DEFINE p == Len(part) - (j - 1)
             q == j - 1
  <2>1. p \in Nat /\ q \in Nat /\ p + q = Len(part)
    BY <1>1, <1>6
  <2>2. p * model + q * model = (p + q) * model
    <3> HIDE DEF p, q, model
    <3> QED BY <1>3, <2>1
  <2>3. p * model \in Nat
    <3> HIDE DEF p, model
    <3> QED BY <1>3, <2>1
  <2> DEFINE z == p * model
  <2>4. z + e = l /\ z \in Nat
    BY <2>1, <2>2, <2>3
  <2>5. MeshIndex(part, j) = z + w
    BY DEF MeshIndex
  <2> HIDE DEF z, e, l, w
  <2> QED BY <1>8, <2>4, <2>5
<1>10. g \in Nat /\ MeshIndex(part, j) = g - (a + e)
  <2> HIDE DEF a, l, e, w
  <2> QED BY <1>2, <1>8, <1>9
<1>11. ASSUME NEW k \in 1 .. part[j]
       PROVE  /\ <<i, j, k>> \in TreeMeshes
              /\ TreeMesh[<<i, j, k>>] = Slot("mesh", g, k)
  <2>1. <<i, j, k>> \in TreeMeshes
    <3> DEFINE m == <<i, j>>
    <3>1. m \in TreeModels /\ k \in 1 .. old.bodyparts[m[1]][m[2]]
          /\ <<m[1], m[2], k>> = <<i, j, k>>
      BY <1>4
    <3> HIDE DEF m
    <3> QED BY <3>1 DEF TreeMeshes
  <2>2. TreeMesh[<<i, j, k>>] = a + l + (before + k - 1) * mesh
    BY <2>1 DEF TreeMesh
  <2> DEFINE q == k - 1
             v == q * mesh
  <2>3. q \in Nat /\ before + k - 1 = before + q
    <3>1. part[j] \in Nat
      BY <1>1
    <3> HIDE DEF before
    <3> QED BY <1>7, <3>1
  <2>4. (before + q) * mesh = w + v
    <3> HIDE DEF q, before, mesh
    <3> QED BY <1>3, <1>7, <2>3
  <2>5. v \in Nat
    BY <1>3, <2>3, RankBefore
  <2>6. Slot("mesh", g, k) = g + v
    BY DEF Slot
  <2>7. TreeMesh[<<i, j, k>>] = (a + l) + (w + v)
    BY <2>2, <2>3, <2>4
  <2> HIDE DEF a, l, w, v
  <2>8. (a + l) + (w + v) = ((a + l) + w) + v
    BY <1>2, <1>8, <2>5
  <2> QED BY <2>1, <2>6, <2>7, <2>8
<1>12. TreeModel[<<i, j>>] \in Nat
  <2> HIDE DEF a, e
  <2> QED BY <1>2, <1>5, <1>8
<1>13. PICK h : h = g
  OBVIOUS
<1>14. h \in Nat /\ MeshIndex(part, j) = h - TreeModel[<<i, j>>]
  <2> HIDE DEF g, a, e, part
  <2> QED BY <1>5, <1>10, <1>13
<1>15. \A k \in 1 .. part[j] : /\ <<i, j, k>> \in TreeMeshes
                               /\ TreeMesh[<<i, j, k>>] = Slot("mesh", h, k)
  <2> HIDE DEF g
  <2> QED BY <1>11, <1>13
<1> HIDE DEF g, e
<1> QED BY <1>4, <1>5, <1>12, <1>14, <1>15

(* The body parts lead to their models, the models to their meshes, and the  *)
(* meshes back to their model.                                               *)
LEMMA BodyPartsRead == LInv /\ RInv /\ ConvertBodyParts => RInv'
<1> SUFFICES ASSUME LInv, RInv, ConvertBodyParts PROVE RInv'
  OBVIOUS
<1> DEFINE n == Len(old.bodyparts)
           parts == old.bodyparts
           Part == ElementsAt("bodypart", pos, n)
           A == ArrayOf("bodypart", pos, n)
           rs == A \cup TreeRegions
           v2 == [i \in 1 .. n |-> Len(parts[i])]
           v3 == [i \in 1 .. n |-> TreeFirst[i] - Part[i]]
           v4 == [m \in TreeModels |-> parts[m[1]][m[2]]]
           v5 == [m \in TreeModels |-> MeshIndex(parts[m[1]], m[2])]
           v6 == [m \in TreeMeshes |-> TreeModel[<<m[1], m[2]>>] - TreeMesh[m]]
           F == {"bodypartindex"}
           i1 == HdrInt("bodypartindex", pos)
           i2 == IntsOver(Part, "nummodels", v2)
           i3 == IntsOver(Part, "modelindex", v3)
           i4 == IntsOver(TreeModel, "nummeshes", v4)
           i5 == IntsOver(TreeModel, "meshindex", v5)
           i6 == IntsOver(TreeMesh, "modelindex", v6)
           is == i1 ++ i2 ++ i3 ++ i4 ++ i5 ++ i6
<1>1. pc = "bodyparts" /\ old \in Models /\ pos \in Nat /\ pos % 4 = 0
  BY Before DEF ConvertBodyParts
<1>2. PICK to, gs : Write("poseparams", to, rs, is, gs)
  <2> DEFINE R == {Region(TreeModel[m], SizeOf["model"], <<"model", m>>) : m \in TreeModels}
             Q == {Region(TreeMesh[m], SizeOf["mesh"], <<"mesh", m>>) : m \in TreeMeshes}
  <2>1. \E to, gs : Write("poseparams", to, A \cup R \cup Q, is, gs)
    BY DEF ConvertBodyParts, TreeBase, TreeBytes, TreeCounts, TreeFirst, TreeModels,
           TreeMeshes, TreeModel, TreeMesh
  <2>2. A \cup R \cup Q = rs
    <3>1. TreeRegions = R \cup Q
      BY DEF TreeRegions
    <3> HIDE DEF A, R, Q
    <3> QED BY <3>1
  <2> HIDE DEF is
  <2> QED BY <2>1, <2>2
<1>3. /\ CountsFound /\ PanelsFound /\ LinearFound /\ SkeletonFound /\ SetsFound
      /\ SequenceFound
  BY <1>1 DEF RInv, AfterBones, AfterHitboxes, AfterSequence
<1>4. n \in Nat /\ \A i \in 1 .. n : parts[i] \in Seq(Nat)
  BY <1>1, Compiled
<1>5. "bodypart" \in Kinds /\ "model" \in Kinds /\ "mesh" \in Kinds
  BY DEF Kinds
<1>6. /\ \A i \in 1 .. n : /\ Slot("bodypart", pos, i) \in Nat
                           /\ pos <= Slot("bodypart", pos, i)
                           /\ Part[i] = Slot("bodypart", pos, i)
                           /\ \E r \in A : r.at = Slot("bodypart", pos, i) /\ r.size > 0
      /\ Part \in [1 .. n -> Nat]
      /\ \A i, j \in 1 .. n : Part[i] = Part[j] => i = j
  <2>0. n \in Nat
    BY <1>4
  <2> HIDE DEF n
  <2>1. \A i \in 1 .. n : /\ Slot("bodypart", pos, i) \in Nat
                          /\ pos <= Slot("bodypart", pos, i)
                          /\ Part[i] = Slot("bodypart", pos, i)
    BY <1>1, <1>5, <2>0, Slots
  <2>2. \A i \in 1 .. n : \E r \in A : r.at = Slot("bodypart", pos, i) /\ r.size > 0
    BY <1>1, <1>5, <2>0, Slots
  <2>3. Part \in [1 .. n -> Nat]
    BY <1>1, <1>5, <2>0, Slots
  <2>4. \A i, j \in 1 .. n : Part[i] = Part[j] => i = j
    BY <1>1, <1>5, <2>0, Slots
  <2> HIDE DEF Part, A
  <2> QED BY <2>1, <2>2, <2>3, <2>4
<1>7. TreeModel \in [TreeModels -> Nat] /\ TreeMesh \in [TreeMeshes -> Nat]
  BY <1>1, TreeLaid
<1>8. /\ \A x, y \in TreeModels : TreeModel[x] = TreeModel[y] => x = y
      /\ \A x, y \in TreeMeshes : TreeMesh[x] = TreeMesh[y] => x = y
      /\ \A x \in TreeMeshes : \A i \in 1 .. n : Part[i] # TreeMesh[x]
      /\ \A x \in TreeModels : pos <= TreeModel[x]
      /\ \A x \in TreeMeshes : pos <= TreeMesh[x]
  <2>1. \A i \in 1 .. n : Part[i] = Slot("bodypart", pos, i)
    BY <1>6
  <2> HIDE DEF Part
  <2> QED BY <1>1, <2>1, TreeApart
<1>9. StoresIn(is, pos, F)
  <2>1. StoresIn(i1, pos, F)
    BY InHdr
  <2>2. StoresIn(i2, pos, F) /\ StoresIn(i3, pos, F)
    <3> DEFINE S == 1 .. n
    <3>1. Part \in [S -> Nat] /\ \A x \in S : pos <= Part[x]
      BY <1>6
    <3> HIDE DEF S, Part, v2, v3, F
    <3> QED BY <1>1, <3>1, InOver
  <2>3. StoresIn(i4, pos, F) /\ StoresIn(i5, pos, F)
    <3> HIDE DEF v4, v5, F
    <3> QED BY <1>1, <1>7, <1>8, InOver
  <2>4. StoresIn(i6, pos, F)
    <3> HIDE DEF v6, F
    <3> QED BY <1>1, <1>7, <1>8, InOver
  <2> HIDE DEF i1, i2, i3, i4, i5, i6, F
  <2>5. StoresIn(i1 ++ i2 ++ i3, pos, F)
    BY <2>1, <2>2, InJoin
  <2>6. StoresIn(i1 ++ i2 ++ i3 ++ i4, pos, F)
    BY <2>3, <2>5, InJoin
  <2>7. StoresIn(i1 ++ i2 ++ i3 ++ i4 ++ i5, pos, F)
    BY <2>3, <2>6, InJoin
  <2> QED BY <2>4, <2>7, InJoin
<1>10. /\ Has(is, 0, "bodypartindex", pos)
       /\ \A i \in 1 .. n : /\ Has(is, Part[i], "nummodels", v2[i])
                            /\ Has(is, Part[i], "modelindex", v3[i])
       /\ \A m \in TreeModels : Has(is, TreeModel[m], "meshindex", v5[m])
       /\ \A m \in TreeMeshes : Has(is, TreeMesh[m], "modelindex", v6[m])
  <2> DEFINE S == 1 .. n
             f2 == i1 ++ i2
             f3 == f2 ++ i3
             f4 == f3 ++ i4
             f5 == f4 ++ i5
  <2>1. Has(i1, 0, "bodypartindex", pos)
    BY HasOne
  <2>2. \A i \in S : Has(i2, Part[i], "nummodels", v2[i]) /\ Has(i3, Part[i], "modelindex", v3[i])
    <3>1. Part \in [S -> Nat] /\ \A x, y \in S : Part[x] = Part[y] => x = y
      BY <1>6
    <3> HIDE DEF S, Part, v2, v3
    <3> QED BY <3>1, HasOver
  <2>3. \A m \in TreeModels : Has(i5, TreeModel[m], "meshindex", v5[m])
    <3> HIDE DEF v5
    <3> QED BY <1>7, <1>8, HasOver
  <2>4. \A m \in TreeMeshes : Has(i6, TreeMesh[m], "modelindex", v6[m])
    <3> HIDE DEF v6
    <3> QED BY <1>7, <1>8, HasOver
  <2>5. /\ OfFields(i1, {"bodypartindex"}) /\ OfFields(i2, {"nummodels"})
        /\ OfFields(i3, {"modelindex"}) /\ OfFields(i4, {"nummeshes"})
        /\ OfFields(i5, {"meshindex"})
    BY FieldsOne
  <2>6. \A m \in TreeMeshes : <<TreeMesh[m], "modelindex">> \notin DOMAIN i3
    <3>1. Part \in [S -> Nat] /\ \A m \in TreeMeshes : \A x \in S : Part[x] # TreeMesh[m]
      BY <1>6, <1>8
    <3> HIDE DEF S, Part, v3
    <3> QED BY <3>1, OverOther
  <2> HIDE DEF i1, i2, i3, i4, i5, i6, Part, v2, v3, v4, v5, v6, S
  <2>7. /\ OfFields(f2, {"bodypartindex"} \cup {"nummodels"})
        /\ Has(f2, 0, "bodypartindex", pos)
        /\ \A i \in S : Has(f2, Part[i], "nummodels", v2[i])
    <3>1. OfFields(f2, {"bodypartindex"} \cup {"nummodels"})
      BY <2>5, FieldsJoin
    <3>2. \A i \in S : Has(f2, Part[i], "nummodels", v2[i])
      BY <2>2, <2>5, HasOther
    <3> QED BY <2>1, <3>1, <3>2, HasLeft
  <2>8. \A m \in TreeMeshes : <<TreeMesh[m], "modelindex">> \notin DOMAIN f2
    <3> HIDE DEF f2
    <3> QED BY <2>7, NoField
  <2> HIDE DEF f2
  <2>9. /\ OfFields(f3, {"bodypartindex"} \cup {"nummodels"} \cup {"modelindex"})
        /\ Has(f3, 0, "bodypartindex", pos)
        /\ \A i \in S : Has(f3, Part[i], "nummodels", v2[i]) /\ Has(f3, Part[i], "modelindex", v3[i])
        /\ \A m \in TreeMeshes : <<TreeMesh[m], "modelindex">> \notin DOMAIN f3
    <3>1. OfFields(f3, {"bodypartindex"} \cup {"nummodels"} \cup {"modelindex"})
      BY <2>5, <2>7, FieldsJoin
    <3>2. \A i \in S : Has(f3, Part[i], "modelindex", v3[i])
      BY <2>2, <2>7, HasOther
    <3>3. \A m \in TreeMeshes : <<TreeMesh[m], "modelindex">> \notin DOMAIN f3
      BY <2>6, <2>8, JoinOther
    <3>4. Has(f3, 0, "bodypartindex", pos) /\ \A i \in S : Has(f3, Part[i], "nummodels", v2[i])
      BY <2>7, HasLeft
    <3> HIDE DEF f3
    <3> QED BY <3>1, <3>2, <3>3, <3>4
  <2> HIDE DEF f3
  <2>10. /\ OfFields(f4, {"bodypartindex"} \cup {"nummodels"} \cup {"modelindex"}
                          \cup {"nummeshes"})
         /\ Has(f4, 0, "bodypartindex", pos)
         /\ \A i \in S : Has(f4, Part[i], "nummodels", v2[i]) /\ Has(f4, Part[i], "modelindex", v3[i])
         /\ \A m \in TreeMeshes : <<TreeMesh[m], "modelindex">> \notin DOMAIN f4
    <3>1. OfFields(f4, {"bodypartindex"} \cup {"nummodels"} \cup {"modelindex"}
                          \cup {"nummeshes"})
      BY <2>5, <2>9, FieldsJoin
    <3>2. \A m \in TreeMeshes : <<TreeMesh[m], "modelindex">> \notin DOMAIN i4
      BY <2>5, NoField
    <3>3. \A m \in TreeMeshes : <<TreeMesh[m], "modelindex">> \notin DOMAIN f4
      BY <2>9, <3>2, JoinOther
    <3>4. /\ Has(f4, 0, "bodypartindex", pos)
          /\ \A i \in S : Has(f4, Part[i], "nummodels", v2[i]) /\ Has(f4, Part[i], "modelindex", v3[i])
      BY <2>9, HasLeft
    <3> HIDE DEF f4
    <3> QED BY <3>1, <3>3, <3>4
  <2> HIDE DEF f4
  <2>11. /\ Has(f5, 0, "bodypartindex", pos)
         /\ \A i \in S : Has(f5, Part[i], "nummodels", v2[i]) /\ Has(f5, Part[i], "modelindex", v3[i])
         /\ \A m \in TreeModels : Has(f5, TreeModel[m], "meshindex", v5[m])
         /\ \A m \in TreeMeshes : <<TreeMesh[m], "modelindex">> \notin DOMAIN f5
    <3>1. \A m \in TreeMeshes : <<TreeMesh[m], "modelindex">> \notin DOMAIN i5
      BY <2>5, NoField
    <3>2. \A m \in TreeMeshes : <<TreeMesh[m], "modelindex">> \notin DOMAIN f5
      BY <2>10, <3>1, JoinOther
    <3>3. \A m \in TreeModels : Has(f5, TreeModel[m], "meshindex", v5[m])
      BY <2>3, <2>10, HasOther
    <3>4. /\ Has(f5, 0, "bodypartindex", pos)
          /\ \A i \in S : Has(f5, Part[i], "nummodels", v2[i]) /\ Has(f5, Part[i], "modelindex", v3[i])
      BY <2>10, HasLeft
    <3> HIDE DEF f5
    <3> QED BY <3>2, <3>3, <3>4
  <2>12. is = f5 ++ i6
    BY DEF f2, f3, f4
  <2> HIDE DEF f5, is
  <2>13. \A m \in TreeMeshes : Has(is, TreeMesh[m], "modelindex", v6[m])
    BY <2>4, <2>11, <2>12, HasRight
  <2>14. /\ Has(is, 0, "bodypartindex", pos)
         /\ \A i \in S : Has(is, Part[i], "nummodels", v2[i]) /\ Has(is, Part[i], "modelindex", v3[i])
         /\ \A m \in TreeModels : Has(is, TreeModel[m], "meshindex", v5[m])
    BY <2>11, <2>12, HasLeft
  <2> QED BY <2>13, <2>14 DEF S
<1>11. PICK b : b = pos
  OBVIOUS
<1>12. Keeps(F) /\ pc' = "poseparams" /\ old' = old
  <2> HIDE DEF is, F, rs
  <2> QED BY <1>2, <1>9, WriteHolds DEF Keeps
<1>13. Held(0, "bodypartindex", b)'
  <2>1. Has(is, 0, "bodypartindex", b) /\ \E r \in regions \cup rs : r.at = 0 /\ r.size > 0
    BY <1>3, <1>10, <1>11 DEF CountsFound
  <2> HIDE DEF is, rs
  <2> QED BY <1>2, <2>1, WriteThere
<1>14. /\ \A m \in TreeModels : \E r \in rs : /\ r.at = TreeModel[m] /\ r.size > 0
                                              /\ r.what = <<"model", m>>
       /\ \A m \in TreeMeshes : \E r \in rs : /\ r.at = TreeMesh[m] /\ r.size > 0
                                              /\ r.what = <<"mesh", m>>
  <2>1. SizeOf["model"] > 0 /\ SizeOf["mesh"] > 0
    BY <1>5, Sizes
  <2>2. \A m \in TreeModels : Region(TreeModel[m], SizeOf["model"], <<"model", m>>) \in rs
    <3> HIDE DEF A
    <3> QED BY DEF TreeRegions
  <2>3. \A m \in TreeMeshes : Region(TreeMesh[m], SizeOf["mesh"], <<"mesh", m>>) \in rs
    <3> HIDE DEF A
    <3> QED BY DEF TreeRegions
  <2> HIDE DEF rs
  <2> QED BY <2>1, <2>2, <2>3 DEF Region
<1> HIDE DEF is, rs, A, i1, i2, i3, i4, i5, i6
<1>15. ASSUME NEW i \in 1 .. n, NEW j \in 1 .. Len(parts[i]), NEW f, f = TreeFirst[i]
       PROVE  ModelAt(Slot("model", f, j), i, j)'
  <2>1. PICK m : m = Slot("model", f, j)
    OBVIOUS
  <2>2. /\ <<i, j>> \in TreeModels /\ TreeModel[<<i, j>>] = m /\ m \in Nat
    BY <1>1, <1>15, <2>1, TreeSlots
  <2>3. PICK g \in Nat :
          /\ MeshIndex(parts[i], j) = g - m
          /\ \A k \in 1 .. parts[i][j] : /\ <<i, j, k>> \in TreeMeshes
                                         /\ TreeMesh[<<i, j, k>>] = Slot("mesh", g, k)
    BY <1>1, <2>2, TreeSlots
  <2>4. At(m, <<"model", <<i, j>>>>)' /\ Held(m, "meshindex", g - m)'
    <3>1. PICK r \in rs : r.at = m /\ r.size > 0 /\ r.what = <<"model", <<i, j>>>>
      BY <1>14, <2>2
    <3>2. Has(is, m, "meshindex", g - m)
      <4>1. v5[<<i, j>>] = g - m
        BY <2>2, <2>3
      <4> HIDE DEF v5
      <4> QED BY <1>10, <2>2, <4>1
    <3> QED BY <1>2, <2>2, <3>1, <3>2, WriteThere
  <2>5. ASSUME NEW k \in 1 .. parts[i][j]
        PROVE  /\ At(Slot("mesh", g, k), <<"mesh", <<i, j, k>>>>)'
               /\ Held(Slot("mesh", g, k), "modelindex", m - Slot("mesh", g, k))'
    <3>1. PICK q : q = Slot("mesh", g, k)
      OBVIOUS
    <3>2. <<i, j, k>> \in TreeMeshes /\ TreeMesh[<<i, j, k>>] = q /\ q \in Nat
      BY <1>7, <2>3, <3>1
    <3>3. PICK r \in rs : r.at = q /\ r.size > 0 /\ r.what = <<"mesh", <<i, j, k>>>>
      BY <1>14, <3>2
    <3>4. Has(is, q, "modelindex", m - q)
      <4>1. v6[<<i, j, k>>] = m - q
        BY <2>2, <3>2
      <4> HIDE DEF v6
      <4> QED BY <1>10, <3>2, <4>1
    <3>5. At(q, <<"mesh", <<i, j, k>>>>)' /\ Held(q, "modelindex", m - q)'
      BY <1>2, <3>2, <3>3, <3>4, WriteThere
    <3> QED BY <3>1, <3>5
  <2>6. \A k \in 1 .. old'.bodyparts[i][j] :
           /\ At(Slot("mesh", g, k), <<"mesh", <<i, j, k>>>>)'
           /\ Held(Slot("mesh", g, k), "modelindex", m - Slot("mesh", g, k))'
    BY <1>12, <2>5
  <2>7. ModelAt(m, i, j)'
    BY <2>3, <2>4, <2>6 DEF ModelAt
  <2> QED BY <2>1, <2>7
<1>16. ASSUME NEW i \in 1 .. n PROVE PartAt(Slot("bodypart", b, i), i)'
  <2>1. PICK a, f, c : a = Slot("bodypart", b, i) /\ f = TreeFirst[i] /\ c = Len(parts[i])
    OBVIOUS
  <2>2. f \in Nat
    <3>1. i \in 1 .. (n + 1)
      BY <1>4
    <3> QED BY <1>1, <2>1, <3>1, TreeLaid
  <2>3. a = Part[i] /\ a \in Nat /\ \E r \in rs : r.at = a /\ r.size > 0
    <3>1. a = Part[i] /\ a \in Nat /\ \E r \in A : r.at = a /\ r.size > 0
      BY <1>6, <1>11, <2>1
    <3> HIDE DEF Part
    <3> QED BY <3>1 DEF rs
  <2>4. Has(is, a, "nummodels", c) /\ Has(is, a, "modelindex", f - a)
    <3>1. v2[i] = c
      BY <2>1
    <3>2. v3[i] = f - a
      <4> HIDE DEF Part
      <4> QED BY <2>1, <2>3
    <3> HIDE DEF v2, v3, Part
    <3> QED BY <1>10, <2>3, <3>1, <3>2
  <2>5. Held(a, "nummodels", c)' /\ Held(a, "modelindex", f - a)'
    <3> HIDE DEF Part
    <3> QED BY <1>2, <2>3, <2>4, WriteThere
  <2>6. \A j \in 1 .. c : ModelAt(Slot("model", f, j), i, j)'
    BY <1>15, <2>1
  <2>7. c = Len(old'.bodyparts[i])
    BY <1>12, <2>1
  <2>8. PartAt(a, i)'
    BY <2>2, <2>5, <2>6, <2>7 DEF PartAt
  <2> QED BY <2>1, <2>8
<1>17. TreeFound'
  <2>1. \A i \in 1 .. Len(old'.bodyparts) : PartAt(Slot("bodypart", b, i), i)'
    BY <1>12, <1>16
  <2> QED BY <1>1, <1>11, <1>13, <2>1 DEF TreeFound
<1>18. /\ CountsFound' /\ PanelsFound' /\ LinearFound' /\ SkeletonFound' /\ SetsFound'
       /\ SequenceFound'
  <2>1. CountsFound'
    BY <1>3, <1>12, CountsStay
  <2>2. PanelsFound'
    BY <1>3, <1>12, PanelsStay DEF RuiFieldNames
  <2>3. LinearFound'
    BY <1>3, <1>12, LinearStays DEF LinearArrays, LinearElem
  <2>4. SkeletonFound'
    BY <1>3, <1>12, SkeletonStays
  <2>5. SetsFound'
    BY <1>3, <1>12, SetsStay
  <2>6. SequenceFound'
    BY <1>3, <1>12, SequenceStays
  <2> QED BY <2>1, <2>2, <2>3, <2>4, <2>5, <2>6
<1> QED BY <1>12, <1>17, <1>18 DEF RInv

(* No two panels share an address.                                          *)
LEMMA RuiApart ==
    ASSUME old \in Models, pos \in Nat, pos % 4 = 0
    PROVE  /\ \A i, j \in 1 .. Len(old.rui) : RuiStart[i] = RuiStart[j] => i = j
           /\ \A i \in 1 .. Len(old.rui) :
                /\ pos <= RuiStart[i]
                /\ \E r \in RuiPanels : /\ r.at = RuiStart[i] /\ r.size > 0
                                        /\ r.what = <<"ruimesh", i>>
                /\ \A f \in RuiFieldNames : \E r \in RuiPanels :
                     /\ r.at = RuiStart[i] + RuiField(RuiStart[i], old.rui[i], f)
                     /\ r.what = <<"rui", i, f>>
<1> DEFINE n == Len(old.rui)
           end == RuiEnds[n]
           R(i) == Region(RuiStart[i], SizeOf["ruimesh"], <<"ruimesh", i>>)
<1>1. Placed(ArrayOf("ruiheader", pos, n), pos, RuiBase) /\ Placed(RuiPanels, RuiBase, end)
  BY RuiLaid
<1>2. SizeOf["ruimesh"] > 0
  BY Sizes DEF Kinds
<1>3. ASSUME NEW i \in 1 .. n
      PROVE  RuiRegions(RuiStart[i], old.rui[i], i) \subseteq RuiPanels
  BY DEF RuiPanels
<1>4. ASSUME NEW i \in 1 .. n
      PROVE  /\ R(i) \in RuiPanels /\ R(i).at = RuiStart[i] /\ R(i).size > 0
             /\ R(i).what = <<"ruimesh", i>>
  <2>1. R(i) \in RuiRegions(RuiStart[i], old.rui[i], i)
    BY DEF RuiRegions
  <2>2. R(i).at = RuiStart[i] /\ R(i).size > 0 /\ R(i).what = <<"ruimesh", i>>
    BY <1>2 DEF Region
  <2> QED BY <1>3, <2>1, <2>2
<1>5. ASSUME NEW i \in 1 .. n, NEW f \in RuiFieldNames
      PROVE  \E r \in RuiPanels : /\ r.at = RuiStart[i] + RuiField(RuiStart[i], old.rui[i], f)
                                  /\ r.what = <<"rui", i, f>>
  <2> DEFINE r == Region(RuiStart[i] + RuiField(RuiStart[i], old.rui[i], f),
                         RuiFieldSize(old.rui[i], f), <<"rui", i, f>>)
  <2>1. r \in RuiRegions(RuiStart[i], old.rui[i], i)
    BY DEF RuiRegions
  <2>2. /\ r.at = RuiStart[i] + RuiField(RuiStart[i], old.rui[i], f)
        /\ r.what = <<"rui", i, f>>
    BY DEF Region
  <2>3. r \in RuiPanels
    BY <1>3, <2>1
  <2> HIDE DEF r
  <2> QED BY <2>2, <2>3
<1> HIDE DEF R, n, end
<1>6. ASSUME NEW i \in 1 .. n, NEW j \in 1 .. n, RuiStart[i] = RuiStart[j] PROVE i = j
  <2> SUFFICES ASSUME i # j PROVE FALSE
    OBVIOUS
  <2>1. <<"ruimesh", i>> # <<"ruimesh", j>>
    OBVIOUS
  <2>2. R(i).at # R(j).at
    BY <1>1, <1>4, <2>1, PlacedApart
  <2> QED BY <1>4, <1>6, <2>2
<1>7. \A r \in RuiPanels : pos <= r.at
  BY <1>1 DEF Placed
<1>8. \A i \in 1 .. n : pos <= RuiStart[i]
  BY <1>4, <1>7
<1>9. \A i \in 1 .. n : \E r \in RuiPanels : /\ r.at = RuiStart[i] /\ r.size > 0
                                           /\ r.what = <<"ruimesh", i>>
  BY <1>4
<1> QED BY <1>5, <1>6, <1>8, <1>9 DEF n

(* The vertices of a panel start at a multiple of 16.                       *)
LEMMA PanelVertices ==
    ASSUME NEW p \in Nat,
           NEW m \in [name : Strings, parents : Nat, vertices : Nat, faces : Nat]
    PROVE  (p + RuiField(p, m, "vertexindex")) % 16 = 0
<1> DEFINE h == SizeOf["ruimesh"]
           l == StrLen[m.name]
           a == m.parents
           f == m.faces
           fixed == h + (l + 1) + 2 * a + 8 * f
           pad == RuiPadding(p, m)
<1>1. h \in Nat /\ a \in Nat /\ f \in Nat /\ l \in Nat
  <2>1. m.name \in Strings /\ a \in Nat /\ f \in Nat
    OBVIOUS
  <2>2. h \in Nat
    BY Sizes DEF Kinds
  <2>3. l \in Nat
    BY <2>1, LayoutAssumption
  <2> QED BY <2>1, <2>2, <2>3
<1>2. /\ pad = (16 - ((p + fixed) % 16)) % 16
      /\ RuiField(p, m, "vertexindex") = h + (l + 1) + pad + 2 * a + 6 * f + 2 * f
  BY DEF RuiPadding, RuiParent, RuiVertMap, RuiUnk, RuiVertex, RuiField
<1> HIDE DEF h, l, a, f, pad
<1>3. fixed \in Nat /\ p + fixed \in Nat
  BY <1>1
<1>4. pad \in Nat /\ (p + fixed + pad) % 16 = 0
  <2> HIDE DEF fixed
  <2> QED BY <1>2, <1>3, UpTo16
<1>5. p + RuiField(p, m, "vertexindex") = p + fixed + pad
  BY <1>1, <1>2, <1>4
<1> QED BY <1>4, <1>5

(* The entries lead to the panels, and a panel to its five arrays.          *)
LEMMA RuiRead == LInv /\ RInv /\ WriteRuiSection => RInv'
<1> SUFFICES ASSUME LInv, RInv, WriteRuiSection PROVE RInv'
  OBVIOUS
<1> DEFINE n == Len(old.rui)
           Panel == [name : Strings, parents : Nat, vertices : Nat, faces : Nat]
           Entry == ElementsAt("ruiheader", pos, n)
           A == ArrayOf("ruiheader", pos, n)
           rs == A \cup RuiPanels
           V(f) == [i \in 1 .. n |-> RuiField(RuiStart[i], old.rui[i], f)]
           Ints(f) == IntsOver(RuiStart, f, V(f))
           v3 == [i \in 1 .. n |-> RuiStart[i] - Entry[i]]
           F == {"uiPanelCount", "uiPanelOffset"}
           i1 == HdrInt("uiPanelCount", n)
           i2 == HdrInt("uiPanelOffset", pos)
           i3 == IntsOver(Entry, "ruimeshindex", v3)
           f2 == i1 ++ i2
           f3 == f2 ++ i3
           f4 == f3 ++ Ints("parentindex")
           f5 == f4 ++ Ints("vertmapindex")
           f6 == f5 ++ Ints("unkindex")
           f7 == f6 ++ Ints("vertexindex")
           is == f7 ++ Ints("facedataindex")
<1>1. pc = "rui" /\ old \in Models /\ pos \in Nat /\ pos % 4 = 0
  BY Before DEF WriteRuiSection
<1>2. Skip("textures") \/ \E to, gs : Write("textures", to, rs, is, gs)
  BY DEF WriteRuiSection, RuiBase, RuiEnds, RuiStart, RuiPanels
<1>3. /\ CountsFound /\ PanelsFound /\ LinearFound /\ SkeletonFound /\ SetsFound
      /\ SequenceFound /\ TreeFound
  BY <1>1 DEF RInv, AfterBones, AfterHitboxes, AfterSequence, AfterBodyParts
<1>4. n \in Nat /\ \A i \in 1 .. n : old.rui[i] \in Panel
  <2>1. old.rui \in Seq(Panel)
    BY <1>1, Compiled
  <2> HIDE DEF Panel
  <2> QED BY <2>1
<1>5. "ruiheader" \in Kinds
  BY DEF Kinds
<1>6. /\ \A i \in 1 .. n : /\ Slot("ruiheader", pos, i) \in Nat
                           /\ pos <= Slot("ruiheader", pos, i)
                           /\ Entry[i] = Slot("ruiheader", pos, i)
                           /\ \E r \in A : r.at = Slot("ruiheader", pos, i) /\ r.size > 0
      /\ Entry \in [1 .. n -> Nat]
      /\ \A i, j \in 1 .. n : Entry[i] = Entry[j] => i = j
  <2>0. n \in Nat
    BY <1>4
  <2> HIDE DEF n
  <2>1. \A i \in 1 .. n : /\ Slot("ruiheader", pos, i) \in Nat
                          /\ pos <= Slot("ruiheader", pos, i)
                          /\ Entry[i] = Slot("ruiheader", pos, i)
    BY <1>1, <1>5, <2>0, Slots
  <2>2. \A i \in 1 .. n : \E r \in A : r.at = Slot("ruiheader", pos, i) /\ r.size > 0
    BY <1>1, <1>5, <2>0, Slots
  <2>3. Entry \in [1 .. n -> Nat]
    BY <1>1, <1>5, <2>0, Slots
  <2>4. \A i, j \in 1 .. n : Entry[i] = Entry[j] => i = j
    BY <1>1, <1>5, <2>0, Slots
  <2> HIDE DEF Entry, A
  <2> QED BY <2>1, <2>2, <2>3, <2>4
<1>7. /\ RuiStart \in [1 .. n -> Nat]
      /\ \A i, j \in 1 .. n : RuiStart[i] = RuiStart[j] => i = j
      /\ \A i \in 1 .. n :
           /\ pos <= RuiStart[i]
           /\ \E r \in rs : r.at = RuiStart[i] /\ r.size > 0 /\ r.what = <<"ruimesh", i>>
           /\ \A f \in RuiFieldNames : \E r \in rs :
                /\ r.at = RuiStart[i] + RuiField(RuiStart[i], old.rui[i], f)
                /\ r.what = <<"rui", i, f>>
  <2>1. RuiStart \in [1 .. n -> Nat]
    BY <1>1, RuiLaid
  <2>2. /\ \A i, j \in 1 .. n : RuiStart[i] = RuiStart[j] => i = j
        /\ \A i \in 1 .. n :
             /\ pos <= RuiStart[i]
             /\ \E r \in RuiPanels : /\ r.at = RuiStart[i] /\ r.size > 0
                                     /\ r.what = <<"ruimesh", i>>
             /\ \A f \in RuiFieldNames : \E r \in RuiPanels :
                  /\ r.at = RuiStart[i] + RuiField(RuiStart[i], old.rui[i], f)
                  /\ r.what = <<"rui", i, f>>
    BY <1>1, RuiApart
  <2>3. \A r \in RuiPanels : r \in rs
    <3> HIDE DEF A
    <3> QED OBVIOUS
  <2> HIDE DEF rs, n
  <2> QED BY <2>1, <2>2, <2>3
<1>8. ASSUME NEW i \in 1 .. n
      PROVE  /\ \A f \in RuiFieldNames : RuiField(RuiStart[i], old.rui[i], f) \in Nat
             /\ (RuiStart[i] + RuiField(RuiStart[i], old.rui[i], "vertexindex")) % 16 = 0
  <2>1. RuiStart[i] \in Nat /\ old.rui[i] \in Panel
    <3> HIDE DEF n, Panel
    <3> QED BY <1>4, <1>7
  <2> QED BY <2>1, PanelSizes, PanelVertices DEF Panel
<1> HIDE DEF n, Panel, Entry, A
<1>9. ASSUME NEW f \in RuiFieldNames
      PROVE  /\ StoresIn(Ints(f), pos, F) /\ OfFields(Ints(f), {f})
             /\ \A i \in 1 .. n : Has(Ints(f), RuiStart[i], f, V(f)[i])
  <2> DEFINE S == 1 .. n
             v == V(f)
  <2>1. RuiStart \in [S -> Nat] /\ (\A x \in S : pos <= RuiStart[x])
        /\ \A x, y \in S : RuiStart[x] = RuiStart[y] => x = y
    BY <1>7
  <2> HIDE DEF S, v, F
  <2>2. StoresIn(IntsOver(RuiStart, f, v), pos, F)
    BY <1>1, <2>1, InOver
  <2>3. \A x \in S : Has(IntsOver(RuiStart, f, v), RuiStart[x], f, v[x])
    BY <2>1, HasOver
  <2>4. OfFields(IntsOver(RuiStart, f, v), {f})
    BY FieldsOne
  <2> QED BY <2>2, <2>3, <2>4 DEF S, v
<1>10. /\ StoresIn(i1, pos, F) /\ StoresIn(i2, pos, F) /\ StoresIn(i3, pos, F)
  <2>1. StoresIn(i1, pos, F) /\ StoresIn(i2, pos, F)
    BY InHdr
  <2> DEFINE S == 1 .. n
  <2>2. Entry \in [S -> Nat] /\ \A x \in S : pos <= Entry[x]
    BY <1>6
  <2> HIDE DEF S, v3, F
  <2>3. StoresIn(i3, pos, F)
    BY <1>1, <2>2, InOver
  <2> QED BY <2>1, <2>3
<1>11. /\ Has(i1, 0, "uiPanelCount", n) /\ Has(i2, 0, "uiPanelOffset", pos)
       /\ \A i \in 1 .. n : Has(i3, Entry[i], "ruimeshindex", v3[i])
       /\ OfFields(i1, {"uiPanelCount"}) /\ OfFields(i2, {"uiPanelOffset"})
       /\ OfFields(i3, {"ruimeshindex"})
  <2>1. /\ Has(i1, 0, "uiPanelCount", n) /\ Has(i2, 0, "uiPanelOffset", pos)
        /\ OfFields(i1, {"uiPanelCount"}) /\ OfFields(i2, {"uiPanelOffset"})
        /\ OfFields(i3, {"ruimeshindex"})
    BY HasOne, FieldsOne
  <2> DEFINE S == 1 .. n
  <2>2. Entry \in [S -> Nat] /\ \A x, y \in S : Entry[x] = Entry[y] => x = y
    BY <1>6
  <2> HIDE DEF S, v3
  <2>3. \A x \in S : Has(i3, Entry[x], "ruimeshindex", v3[x])
    BY <2>2, HasOver
  <2> QED BY <2>1, <2>3 DEF S
<1>12. RuiFieldNames = {"parentindex", "vertmapindex", "unkindex", "vertexindex", "facedataindex"}
  BY DEF RuiFieldNames
<1>13. /\ StoresIn(is, pos, F)
       /\ Has(is, 0, "uiPanelCount", n) /\ Has(is, 0, "uiPanelOffset", pos)
       /\ \A i \in 1 .. n : Has(is, Entry[i], "ruimeshindex", v3[i])
       /\ \A f \in RuiFieldNames : \A i \in 1 .. n : Has(is, RuiStart[i], f, V(f)[i])
  <2> DEFINE S == 1 .. n
             N2 == {"uiPanelCount"} \cup {"uiPanelOffset"}
             N3 == N2 \cup {"ruimeshindex"}
             N4 == N3 \cup {"parentindex"}
             N5 == N4 \cup {"vertmapindex"}
             N6 == N5 \cup {"unkindex"}
             N7 == N6 \cup {"vertexindex"}
             Kept(g) == /\ StoresIn(g, pos, F)
                        /\ Has(g, 0, "uiPanelCount", n) /\ Has(g, 0, "uiPanelOffset", pos)
                        /\ \A i \in S : Has(g, Entry[i], "ruimeshindex", v3[i])
             Got(g, f) == \A i \in S : Has(g, RuiStart[i], f, V(f)[i])
  <2>1. ASSUME NEW f \in RuiFieldNames
        PROVE  /\ StoresIn(Ints(f), pos, F) /\ OfFields(Ints(f), {f})
               /\ Got(Ints(f), f)
    BY <1>9
  <2> HIDE DEF i1, i2, i3, Ints, F, S, v3, V
  <2>2. OfFields(f2, N2) /\ Has(f2, 0, "uiPanelCount", n) /\ Has(f2, 0, "uiPanelOffset", pos)
        /\ StoresIn(f2, pos, F)
    BY <1>10, <1>11, FieldsJoin, HasLeft, HasOther, InJoin
  <2> HIDE DEF f2, N2
  <2>3. OfFields(f3, N3) /\ Kept(f3)
    <3>1. OfFields(f3, N3) /\ StoresIn(f3, pos, F)
      BY <1>10, <1>11, <2>2, FieldsJoin, InJoin
    <3>2. Has(f3, 0, "uiPanelCount", n) /\ Has(f3, 0, "uiPanelOffset", pos)
      BY <2>2, HasLeft
    <3>3. "ruimeshindex" \notin N2
      BY DEF N2
    <3>4. \A i \in S : Has(i3, Entry[i], "ruimeshindex", v3[i])
      BY <1>11 DEF S
    <3>5. \A i \in S : Has(f3, Entry[i], "ruimeshindex", v3[i])
      BY <2>2, <3>3, <3>4, HasOther
    <3> QED BY <3>1, <3>2, <3>5
  <2> HIDE DEF f3
  <2>4. ASSUME NEW g, NEW h, NEW f \in RuiFieldNames, Kept(g), h = g ++ Ints(f)
        PROVE  Kept(h) /\ \A e : Got(g, e) => Got(h, e)
    <3>1. StoresIn(h, pos, F)
      BY <2>1, <2>4, InJoin
    <3> QED BY <2>4, <3>1, HasLeft
  <2>5. ASSUME NEW g, NEW h, NEW f \in RuiFieldNames, NEW N, OfFields(g, N), f \notin N,
               h = g ++ Ints(f)
        PROVE  OfFields(h, N \cup {f}) /\ Got(h, f)
    <3>1. OfFields(h, N \cup {f})
      BY <2>1, <2>5, FieldsJoin
    <3>2. Got(h, f)
      BY <2>1, <2>5, HasOther
    <3> QED BY <3>1, <3>2
  <2>6. /\ "parentindex" \notin N3 /\ "vertmapindex" \notin N4 /\ "unkindex" \notin N5
        /\ "vertexindex" \notin N6 /\ "facedataindex" \notin N7
    BY DEF N2
  <2>7. f4 = f3 ++ Ints("parentindex") /\ N4 = N3 \cup {"parentindex"}
    OBVIOUS
  <2>8. f5 = f4 ++ Ints("vertmapindex") /\ N5 = N4 \cup {"vertmapindex"}
    OBVIOUS
  <2>9. f6 = f5 ++ Ints("unkindex") /\ N6 = N5 \cup {"unkindex"}
    OBVIOUS
  <2>10. f7 = f6 ++ Ints("vertexindex") /\ N7 = N6 \cup {"vertexindex"}
    OBVIOUS
  <2>11. is = f7 ++ Ints("facedataindex")
    OBVIOUS
  <2> HIDE DEF f4, f5, f6, f7, is, N3, N4, N5, N6, N7, Kept, Got
  <2>12. OfFields(f4, N4) /\ Kept(f4) /\ Got(f4, "parentindex")
    BY <1>12, <2>3, <2>4, <2>5, <2>6, <2>7
  <2>13. OfFields(f5, N5) /\ Kept(f5) /\ Got(f5, "vertmapindex")
    BY <1>12, <2>12, <2>4, <2>5, <2>6, <2>8
  <2>14. Got(f5, "parentindex")
    BY <1>12, <2>12, <2>4, <2>8
  <2>15. OfFields(f6, N6) /\ Kept(f6) /\ Got(f6, "unkindex")
    BY <1>12, <2>13, <2>4, <2>5, <2>6, <2>9
  <2>16. Got(f6, "parentindex") /\ Got(f6, "vertmapindex")
    BY <1>12, <2>13, <2>14, <2>4, <2>9
  <2>17. OfFields(f7, N7) /\ Kept(f7) /\ Got(f7, "vertexindex")
    BY <1>12, <2>15, <2>4, <2>5, <2>6, <2>10
  <2>18. Got(f7, "parentindex") /\ Got(f7, "vertmapindex") /\ Got(f7, "unkindex")
    BY <1>12, <2>15, <2>16, <2>4, <2>10
  <2>19. Kept(is) /\ Got(is, "facedataindex")
    BY <1>12, <2>17, <2>4, <2>5, <2>6, <2>11
  <2>20. /\ Got(is, "parentindex") /\ Got(is, "vertmapindex") /\ Got(is, "unkindex")
         /\ Got(is, "vertexindex")
    BY <1>12, <2>17, <2>18, <2>4, <2>11
  <2>21. \A f \in RuiFieldNames : Got(is, f)
    BY <1>12, <2>19, <2>20
  <2> QED BY <2>19, <2>21 DEF Kept, Got, S
<1>14. Keeps(F) /\ pc' = "textures" /\ old' = old
  <2> HIDE DEF is, F, rs
  <2> QED BY <1>2, <1>13, WriteHolds, SkipHolds DEF Keeps
<1>15. PICK p, c : p = pos /\ c = n
  OBVIOUS
<1>16. PanelsFound'
  <2>1. CASE Skip("textures")
    <3>1. Keeps({})
      BY <2>1, SkipHolds
    <3> QED BY <1>3, <3>1, PanelsStay
  <2>2. ASSUME NEW to, NEW gs, Write("textures", to, rs, is, gs) PROVE PanelsFound'
    <3>1. Held(0, "uiPanelCount", c)' /\ Held(0, "uiPanelOffset", p)'
      <4>1. /\ Has(is, 0, "uiPanelCount", c) /\ Has(is, 0, "uiPanelOffset", p)
            /\ \E r \in regions \cup rs : r.at = 0 /\ r.size > 0
        BY <1>3, <1>13, <1>15 DEF CountsFound
      <4> HIDE DEF is, rs
      <4> QED BY <2>2, <4>1, WriteThere
    <3>2. ASSUME NEW i \in 1 .. n
          PROVE  \E m \in Nat : /\ Held(Slot("ruiheader", p, i), "ruimeshindex",
                                        m - Slot("ruiheader", p, i))'
                                /\ PanelAt(m, i)'
      <4>1. PICK a, m : a = Slot("ruiheader", p, i) /\ m = RuiStart[i]
        OBVIOUS
      <4>2. m \in Nat
        BY <1>7, <4>1
      <4>3. a = Entry[i] /\ a \in Nat /\ \E r \in rs : r.at = a /\ r.size > 0
        <5>1. a = Entry[i] /\ a \in Nat /\ \E r \in A : r.at = a /\ r.size > 0
          BY <1>6, <1>15, <4>1
        <5> QED BY <5>1
      <4>4. Held(a, "ruimeshindex", m - a)'
        <5>1. v3[i] = m - a
          BY <4>1, <4>3
        <5>2. Has(is, a, "ruimeshindex", m - a)
          <6> HIDE DEF is, v3
          <6> QED BY <1>13, <4>3, <5>1
        <5> HIDE DEF is, rs
        <5> QED BY <2>2, <4>3, <5>2, WriteThere
      <4>5. At(m, <<"ruimesh", i>>)'
        <5>1. PICK r \in rs : r.at = m /\ r.what = <<"ruimesh", i>>
          BY <1>7, <4>1
        <5> HIDE DEF is, rs
        <5> QED BY <2>2, <5>1, WriteThere
      <4>6. ASSUME NEW f \in RuiFieldNames
            PROVE  \E d \in Nat : /\ Held(m, f, d)' /\ At(m + d, <<"rui", i, f>>)'
                                  /\ f = "vertexindex" => (m + d) % 16 = 0
        <5>1. PICK d : d = RuiField(RuiStart[i], old.rui[i], f)
          OBVIOUS
        <5>2. d \in Nat /\ (f = "vertexindex" => (m + d) % 16 = 0)
          BY <1>8, <4>1, <5>1
        <5>3. Has(is, m, f, d)
          <6>1. V(f)[i] = d
            BY <5>1
          <6> HIDE DEF is, V
          <6> QED BY <1>13, <4>1, <6>1
        <5>4. \E r \in rs : r.at = m /\ r.size > 0
          BY <1>7, <4>1
        <5>5. \E r \in rs : r.at = m + d /\ r.what = <<"rui", i, f>>
          BY <1>7, <4>1, <5>1
        <5> HIDE DEF is, rs
        <5>6. Held(m, f, d)' /\ At(m + d, <<"rui", i, f>>)'
          BY <2>2, <4>2, <5>3, <5>4, <5>5, WriteThere
        <5> QED BY <5>2, <5>6
      <4>7. PanelAt(m, i)'
        BY <4>5, <4>6 DEF PanelAt
      <4> QED BY <4>1, <4>2, <4>4, <4>7
    <3>3. p \in Nat /\ c \in Nat
      BY <1>1, <1>4, <1>15
    <3> QED BY <1>15, <3>1, <3>2, <3>3 DEF PanelsFound
  <2> HIDE DEF rs, is
  <2> QED BY <1>2, <2>1, <2>2
<1>17. /\ CountsFound' /\ LinearFound' /\ SkeletonFound' /\ SetsFound' /\ SequenceFound'
       /\ TreeFound'
  <2>1. CountsFound'
    BY <1>3, <1>14, CountsStay
  <2>2. LinearFound'
    BY <1>3, <1>14, LinearStays DEF LinearArrays, LinearElem
  <2>3. SkeletonFound'
    BY <1>3, <1>14, SkeletonStays
  <2>4. SetsFound'
    BY <1>3, <1>14, SetsStay
  <2>5. SequenceFound'
    BY <1>3, <1>14, SequenceStays
  <2>6. TreeFound'
    BY <1>3, <1>14, TreeStays
  <2> QED BY <2>1, <2>2, <2>3, <2>4, <2>5, <2>6
<1> QED BY <1>14, <1>16, <1>17 DEF RInv

(* Nothing can be followed before the header is written.                    *)
LEMMA InitRInv == Init => RInv
BY DEF Init, RInv, AfterBones, AfterHitboxes, AfterSequence, AfterBodyParts

(* Every converter lays its part out so that it can be followed, and what   *)
(* could be followed before can be followed still.                          *)
LEMMA NextRInv == LInv /\ RInv /\ [Next]_vars => RInv'
<1> SUFFICES ASSUME LInv, RInv, [Next]_vars PROVE RInv'
  OBVIOUS
<1>1. CASE UNCHANGED vars
  <2>1. Keeps({}) /\ pc' = pc
    BY <1>1 DEF vars, Keeps, Held, Has
  <2>2. CountsFound => CountsFound'
    BY <2>1, CountsStay
  <2>3. PanelsFound => PanelsFound'
    BY <2>1, PanelsStay
  <2>4. LinearFound => LinearFound'
    BY <2>1, LinearStays
  <2>5. SkeletonFound => SkeletonFound'
    BY <2>1, SkeletonStays
  <2>6. SetsFound => SetsFound'
    BY <2>1, SetsStay
  <2>7. SequenceFound => SequenceFound'
    BY <2>1, SequenceStays
  <2>8. TreeFound => TreeFound'
    BY <2>1, TreeStays
  <2>9. Held(0, "procBoneCount", 0) => Held(0, "procBoneCount", 0)'
    BY <2>1, HeldStays
  <2> QED BY <2>1, <2>2, <2>3, <2>4, <2>5, <2>6, <2>7, <2>8, <2>9 DEF RInv
<1>2. CASE Next
  BY <1>2, HeaderRead, BonesRead, AttachmentsRead, HitboxesRead, BoneByNameRead, SequenceRead,
     BodyPartsRead, PoseParamsRead, RuiRead, TexturesRead, SkinsRead, KeyValuesRead,
     SrcBoneTransformsRead, LinearBonesRead, StringsRead, BvhRead DEF Next
<1> QED BY <1>1, <1>2

(* At every step, what has been laid out so far can be followed: bones,     *)
(* hitboxes, the sequence, the tree of body parts, panels, linear bones.    *)
THEOREM RInvHolds == Spec => []RInv
<1>1. LInv /\ RInv /\ [Next]_vars => RInv'
  BY NextRInv
<1> QED BY <1>1, InitRInv, LInvHolds, PTL DEF Spec

(* All that a reader of a finished file looks for, it finds by the offsets  *)
(* of the file alone, for every model, every address of the buffer and      *)
(* every size of the structs.                                               *)
THEOREM ReadableHolds == Spec => []Readable
BY AllRead, LInvHolds, RInvHolds, PTL
=============================================================================
