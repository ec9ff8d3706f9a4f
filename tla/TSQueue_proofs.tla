---------------------------- MODULE TSQueue_proofs ----------------------------
(***************************************************************************)
(* CTSQueue for any finite number of threads and nodes, with recycled nodes *)
(* or fresh ones: no item is lost or doubled, an empty answer is honest, a  *)
(* push that returned is visible in a plain queue, and the whole is a       *)
(* first-in-first-out queue.                                               *)
(*                                                                         *)
(* The invariant says that the nodes lie on lists: one from the dummy to    *)
(* the end, one free list, and one hanging off each push that has not       *)
(* linked its node yet.  The last kind is the difficulty.  With recycled    *)
(* nodes a push may compare its stale tail with a node that is somebody     *)
(* else's new node by now, whose link is End as well, and hang its own      *)
(* behind it; what was linked then becomes visible only when the other push *)
(* is.  An order between the pushes rules out rings of such lists.          *)
(***************************************************************************)
EXTENDS TSQueue, NatLemmas, FiniteSetTheorems, SequenceTheorems

-----------------------------------------------------------------------------
(* Paths: lists of nodes along their links.                                *)

\* The nodes s, each once, lead from n to e.
Path(nx, n, s, e) ==
    /\ s \in Seq(Nodes)
    /\ n = IF s = <<>> THEN e ELSE s[1]
    /\ \A i \in 1 .. Len(s) : nx[s[i]] = IF i = Len(s) THEN e ELSE s[i + 1]
    /\ \A i, j \in 1 .. Len(s) : s[i] = s[j] => i = j

On(s) == {s[i] : i \in 1 .. Len(s)}

(* A path does not change while the links of its nodes do not.              *)
LEMMA PathKept ==
    ASSUME NEW nx, NEW ny, NEW n, NEW s, NEW e, Path(nx, n, s, e),
           \A k \in On(s) : ny[k] = nx[k]
    PROVE  Path(ny, n, s, e)
BY DEF Path, On

(* The links of a path stay on it, and only its last node leaves it.        *)
LEMMA PathLinks ==
    ASSUME NEW nx, NEW n, NEW s, NEW e, Path(nx, n, s, e), e \notin Nodes, NEW k \in On(s)
    PROVE  /\ k \in Nodes /\ s # <<>> /\ n \in On(s) /\ Len(s) \in Nat \ {0}
           /\ nx[k] \in Nodes => nx[k] \in On(s) /\ nx[k] # n
           /\ nx[k] \in Nodes \/ nx[k] = e
           /\ nx[k] = e => k = s[Len(s)]
<1>1. s \in Seq(Nodes) /\ Len(s) \in Nat
  BY DEF Path
<1>2. PICK i \in 1 .. Len(s) : k = s[i]
  BY DEF On
<1>3. s # <<>> /\ n = s[1] /\ Len(s) \in Nat \ {0}
  BY <1>1, <1>2 DEF Path
<1>4. \A j \in 1 .. Len(s) : s[j] \in Nodes
  BY <1>1
<1>5. CASE i = Len(s)
  BY <1>2, <1>3, <1>4, <1>5 DEF Path, On
<1>6. CASE i # Len(s)
  <2>1. i + 1 \in 1 .. Len(s) /\ nx[k] = s[i + 1] /\ i + 1 # 1
    BY <1>1, <1>2, <1>6 DEF Path
  <2>2. nx[k] # s[1]
    BY <1>1, <1>3, <2>1 DEF Path
  <2> QED BY <1>2, <1>3, <1>4, <2>1, <2>2 DEF On
<1> QED BY <1>5, <1>6

(* A path of one node, and one of none.                                     *)
LEMMA PathOne ==
    ASSUME NEW nx, NEW n \in Nodes, NEW e, nx[n] = e
    PROVE  Path(nx, n, <<n>>, e) /\ On(<<n>>) = {n}
BY DEF Path, On

(* Where there is no node.                                                  *)
LEMMA PathNone ==
    ASSUME NEW nx, NEW e PROVE Path(nx, e, <<>>, e) /\ On(<<>>) = {}
BY DEF Path, On

(* From a node of Nodes there is no empty path to anything else.            *)
LEMMA PathStart ==
    ASSUME NEW nx, NEW n \in Nodes, NEW s, NEW e, e \notin Nodes, Path(nx, n, s, e)
    PROVE  s # <<>> /\ n \in On(s) /\ s[1] = n /\ Len(s) \in Nat \ {0}
BY DEF Path, On

(* What a path says of its sequence.                                        *)
LEMMA PathFacts ==
    ASSUME NEW nx, NEW n, NEW s, NEW e, Path(nx, n, s, e)
    PROVE  /\ s \in Seq(Nodes) /\ Len(s) \in Nat
           /\ \A i \in 1 .. Len(s) : s[i] \in Nodes
           /\ \A i \in 1 .. Len(s) : i # Len(s) => nx[s[i]] = s[i + 1]
           /\ Len(s) # 0 => nx[s[Len(s)]] = e /\ n = s[1] /\ s # <<>>
           /\ Len(s) = 0 => s = <<>> /\ n = e
           /\ \A i, j \in 1 .. Len(s) : s[i] = s[j] => i = j
BY DEF Path

(* A sequence is a path if its nodes lead from one to the next.             *)
LEMMA PathIs ==
    ASSUME NEW nx, NEW n, NEW s \in Seq(Nodes), NEW e,
           Len(s) # 0 => n = s[1] /\ nx[s[Len(s)]] = e,
           Len(s) = 0 => n = e,
           \A i \in 1 .. Len(s) : i # Len(s) => nx[s[i]] = s[i + 1],
           \A i, j \in 1 .. Len(s) : s[i] = s[j] => i = j
    PROVE  Path(nx, n, s, e)
<1>1. Len(s) \in Nat /\ (s = <<>> <=> Len(s) = 0)
  BY EmptySeq, LenProperties
<1> QED BY <1>1 DEF Path

(* Without its first node a path is the path of what follows.               *)
LEMMA PathTail ==
    ASSUME NEW nx, NEW n \in Nodes, NEW s, NEW e, e \notin Nodes, Path(nx, n, s, e)
    PROVE  Path(nx, nx[n], Tail(s), e) /\ On(Tail(s)) = On(s) \ {n}
<1> DEFINE r == Tail(s)
<1>0. s \in Seq(Nodes) /\ s # <<>> /\ s[1] = n /\ Len(s) \in Nat \ {0}
  BY PathStart DEF Path
<1>1. r \in Seq(Nodes) /\ Len(r) = Len(s) - 1 /\ \A i \in 1 .. Len(r) : r[i] = s[i + 1]
  BY <1>0, HeadTailProperties
<1> HIDE DEF r
<1>2. \A i \in 1 .. Len(r) : i + 1 \in 1 .. Len(s) /\ i + 1 # 1
  BY <1>0, <1>1
<1>3. \A i, j \in 1 .. Len(r) : r[i] = r[j] => i = j
  <2> SUFFICES ASSUME NEW i \in 1 .. Len(r), NEW j \in 1 .. Len(r), r[i] = r[j] PROVE i = j
    OBVIOUS
  <2>1. i + 1 \in 1 .. Len(s) /\ j + 1 \in 1 .. Len(s) /\ s[i + 1] = s[j + 1]
    BY <1>1, <1>2
  <2>2. i + 1 = j + 1
    BY <2>1, PathFacts
  <2> QED BY <2>2
<1>4. \A i \in 1 .. Len(r) : i # Len(r) => nx[r[i]] = r[i + 1]
  <2> SUFFICES ASSUME NEW i \in 1 .. Len(r), i # Len(r) PROVE nx[r[i]] = r[i + 1]
    OBVIOUS
  <2>1. i + 1 \in 1 .. Len(r) /\ i + 1 \in 1 .. Len(s) /\ i + 1 # Len(s)
    BY <1>0, <1>1, <1>2
  <2>2. nx[s[i + 1]] = s[i + 1 + 1]
    BY <2>1, PathFacts
  <2> QED BY <1>1, <2>1, <2>2
<1>5. Len(r) # 0 => nx[n] = r[1] /\ nx[r[Len(r)]] = e
  <2> SUFFICES ASSUME Len(r) # 0 PROVE nx[n] = r[1] /\ nx[r[Len(r)]] = e
    OBVIOUS
  <2>1. 1 \in 1 .. Len(r) /\ Len(r) \in 1 .. Len(r) /\ Len(r) + 1 = Len(s) /\ 1 # Len(s) /\ 1 \in 1 .. Len(s)
    BY <1>0, <1>1
  <2>2. r[1] = s[1 + 1] /\ r[Len(r)] = s[Len(s)]
    BY <1>1, <2>1
  <2>3. nx[s[1]] = s[1 + 1] /\ nx[s[Len(s)]] = e
    BY <1>0, <2>1, PathFacts
  <2> QED BY <1>0, <2>2, <2>3
<1>6. Len(r) = 0 => nx[n] = e
  BY <1>0, <1>1, PathFacts
<1>7. On(r) = On(s) \ {n}
  <2>1. \A i \in 1 .. Len(s) : s[i] # n => i - 1 \in 1 .. Len(r) /\ s[i] = r[i - 1]
    BY <1>0, <1>1
  <2>2. \A i \in 1 .. Len(r) : r[i] = s[i + 1] /\ s[i + 1] # s[1]
    <3> TAKE i \in 1 .. Len(r)
    <3>1. i + 1 \in 1 .. Len(s) /\ 1 \in 1 .. Len(s) /\ i + 1 # 1
      BY <1>0, <1>2
    <3> QED BY <1>1, <3>1, PathFacts
  <2>3. \A k \in On(s) \ {n} : k \in On(r)
    BY <2>1 DEF On
  <2>4. \A k \in On(r) : k \in On(s) \ {n}
    BY <1>0, <1>2, <2>2 DEF On
  <2> QED BY <2>3, <2>4
<1>8. Path(nx, nx[n], r, e)
  BY <1>1, <1>3, <1>4, <1>5, <1>6, PathIs
<1> QED BY <1>7, <1>8 DEF r

(* A node put in front of a path.                                           *)
LEMMA PathCons ==
    ASSUME NEW nx, NEW n \in Nodes, NEW m, NEW s, NEW e, e \notin Nodes, Path(nx, m, s, e),
           n \notin On(s), nx[n] = m
    PROVE  Path(nx, n, <<n>> \o s, e) /\ On(<<n>> \o s) = On(s) \cup {n}
<1> DEFINE r == <<n>> \o s
<1>1. s \in Seq(Nodes) /\ Len(s) \in Nat
  BY DEF Path
<1>2. r \in Seq(Nodes) /\ Len(r) = Len(s) + 1 /\ r[1] = n
      /\ \A i \in 1 .. Len(s) : r[i + 1] = s[i]
  BY <1>1, ConcatProperties
<1> HIDE DEF r
<1>3. \A i \in 1 .. Len(r) : i = 1 \/ (i - 1 \in 1 .. Len(s) /\ r[i] = s[i - 1])
  BY <1>1, <1>2
<1>4. \A i \in 1 .. Len(r) : i # Len(r) => nx[r[i]] = r[i + 1]
  <2> SUFFICES ASSUME NEW i \in 1 .. Len(r), i # Len(r) PROVE nx[r[i]] = r[i + 1]
    OBVIOUS
  <2>0. i \in 1 .. Len(s) /\ r[i + 1] = s[i] /\ Len(s) # 0
    BY <1>1, <1>2
  <2>1. CASE i = 1
    <3>1. m = s[1]
      BY <2>0, PathFacts
    <3> QED BY <1>2, <2>0, <2>1, <3>1
  <2>2. CASE i # 1
    <3>1. i - 1 \in 1 .. Len(s) /\ r[i] = s[i - 1] /\ i - 1 # Len(s)
      BY <1>1, <1>2, <1>3, <2>2
    <3>2. nx[s[i - 1]] = s[i - 1 + 1]
      BY <3>1, PathFacts
    <3> QED BY <2>0, <3>1, <3>2
  <2> QED BY <2>1, <2>2
<1>5. \A i, j \in 1 .. Len(r) : r[i] = r[j] => i = j
  <2> SUFFICES ASSUME NEW i \in 1 .. Len(r), NEW j \in 1 .. Len(r), r[i] = r[j] PROVE i = j
    OBVIOUS
  <2>1. CASE i = 1 \/ j = 1
    BY <1>2, <1>3, <2>1 DEF On
  <2>2. CASE i # 1 /\ j # 1
    <3>1. i - 1 \in 1 .. Len(s) /\ j - 1 \in 1 .. Len(s) /\ s[i - 1] = s[j - 1]
      BY <1>3, <2>2
    <3>2. i - 1 = j - 1
      BY <3>1, PathFacts
    <3> QED BY <3>2
  <2> QED BY <2>1, <2>2
<1>6. On(r) = On(s) \cup {n}
  <2>1. \A k \in On(r) : k \in On(s) \cup {n}
    BY <1>2, <1>3 DEF On
  <2>2. \A i \in 1 .. Len(s) : i + 1 \in 1 .. Len(r) /\ r[i + 1] = s[i]
    BY <1>1, <1>2
  <2>3. \A k \in On(s) : k \in On(r)
    BY <2>2 DEF On
  <2>4. n \in On(r)
    BY <1>1, <1>2 DEF On
  <2> QED BY <2>1, <2>3, <2>4
<1>7. Len(r) # 0 /\ n = r[1] /\ nx[r[Len(r)]] = e
  <2>1. CASE Len(s) = 0
    BY <1>2, <2>1, PathFacts
  <2>2. CASE Len(s) # 0
    <3>1. Len(s) \in 1 .. Len(s) /\ r[Len(r)] = s[Len(s)]
      BY <1>1, <1>2, <2>2
    <3> QED BY <1>1, <1>2, <2>2, <3>1, PathFacts
  <2> QED BY <2>1, <2>2
<1>8. Path(nx, n, r, e)
  BY <1>2, <1>4, <1>5, <1>7, PathIs
<1> QED BY <1>6, <1>8 DEF r

\* The path r from m is hung to the last node of the path s from n.
Joining(nx, ny, n, s, m, r, e) ==
    /\ n \in Nodes /\ m \in Nodes /\ e \notin Nodes
    /\ Path(nx, n, s, e) /\ Path(nx, m, r, e) /\ \A k \in On(s) : k \notin On(r)
    /\ ny[s[Len(s)]] = m /\ \A k \in Nodes : k # s[Len(s)] => ny[k] = nx[k]

(* A path hung to the last node of another.                                 *)
LEMMA PathJoin ==
    ASSUME NEW nx, NEW ny, NEW n, NEW s, NEW m, NEW r, NEW e, Joining(nx, ny, n, s, m, r, e)
    PROVE  Path(ny, n, s \o r, e) /\ On(s \o r) = On(s) \cup On(r)
<1> USE DEF Joining
<1> DEFINE q == s \o r
           a == Len(s)
           b == Len(r)
<1>1. /\ s \in Seq(Nodes) /\ a \in Nat \ {0} /\ s[1] = n
      /\ r \in Seq(Nodes) /\ b \in Nat \ {0} /\ r[1] = m
  BY PathStart DEF Path
<1>2. q \in Seq(Nodes) /\ Len(q) = a + b
      /\ \A i \in 1 .. a + b : q[i] = IF i <= a THEN s[i] ELSE r[i - a]
  BY <1>1, ConcatProperties
<1>f. /\ \A i \in 1 .. a : s[i] \in Nodes
      /\ \A i \in 1 .. a : i # a => nx[s[i]] = s[i + 1]
      /\ \A i, j \in 1 .. a : s[i] = s[j] => i = j
  BY PathFacts
<1>g. /\ \A i \in 1 .. b : r[i] \in Nodes
      /\ \A i \in 1 .. b : i # b => nx[r[i]] = r[i + 1]
      /\ \A i, j \in 1 .. b : r[i] = r[j] => i = j
      /\ nx[r[b]] = e
  BY <1>1, PathFacts
<1>h. \A i \in 1 .. a, j \in 1 .. b : s[i] # r[j]
  BY DEF On
<1>l. /\ ny[s[a]] = m
      /\ \A k \in Nodes : k # s[a] => ny[k] = nx[k]
  BY <1>1, <1>f
<1> HIDE DEF q, a, b
<1>3. \A i \in 1 .. Len(q) : \/ i \in 1 .. a /\ q[i] = s[i]
                             \/ i - a \in 1 .. b /\ q[i] = r[i - a] /\ i > a
  BY <1>1, <1>2
<1>4. \A i \in 1 .. Len(q) : i # Len(q) => ny[q[i]] = q[i + 1]
  <2> SUFFICES ASSUME NEW i \in 1 .. Len(q), i # Len(q) PROVE ny[q[i]] = q[i + 1]
    OBVIOUS
  <2>1. CASE i \in 1 .. a /\ i # a
    <3>1. q[i] = s[i] /\ q[i + 1] = s[i + 1] /\ s[i] # s[a] /\ s[i] \in Nodes
      BY <1>1, <1>2, <1>f, <2>1
    <3> QED BY <1>f, <1>l, <2>1, <3>1
  <2>2. CASE i = a
    <3>1. q[i] = s[a] /\ q[i + 1] = r[1]
      BY <1>1, <1>2, <2>2
    <3> QED BY <1>1, <1>l, <3>1
  <2>3. CASE i - a \in 1 .. b /\ q[i] = r[i - a] /\ i > a
    <3>1. a \in 1 .. a /\ r[i - a] # s[a] /\ r[i - a] \in Nodes
      <4>1. a \in 1 .. a
        BY <1>1
      <4> QED BY <4>1, <1>g, <1>h, <2>3
    <3>2. i - a # b /\ q[i + 1] = r[i - a + 1]
      BY <1>1, <1>2, <2>3
    <3> QED BY <1>g, <1>l, <2>3, <3>1, <3>2
  <2> QED BY <1>3, <2>1, <2>2, <2>3
<1>5. \A i, j \in 1 .. Len(q) : q[i] = q[j] => i = j
  <2> SUFFICES ASSUME NEW i \in 1 .. Len(q), NEW j \in 1 .. Len(q), q[i] = q[j] PROVE i = j
    OBVIOUS
  <2>1. CASE i \in 1 .. a /\ q[i] = s[i] /\ j \in 1 .. a /\ q[j] = s[j]
    BY <1>f, <2>1
  <2>2. CASE i - a \in 1 .. b /\ q[i] = r[i - a] /\ j - a \in 1 .. b /\ q[j] = r[j - a]
    <3>1. i - a = j - a
      BY <1>g, <2>2
    <3> QED BY <1>1, <3>1
  <2>3. CASE i \in 1 .. a /\ q[i] = s[i] /\ j - a \in 1 .. b /\ q[j] = r[j - a]
    BY <1>h, <2>3
  <2>4. CASE j \in 1 .. a /\ q[j] = s[j] /\ i - a \in 1 .. b /\ q[i] = r[i - a]
    BY <1>h, <2>4
  <2> QED BY <1>3, <2>1, <2>2, <2>3, <2>4
<1>6. On(q) = On(s) \cup On(r)
  <2>1. \A k \in On(q) : k \in On(s) \cup On(r)
    BY <1>3 DEF On, a, b
  <2>2. \A i \in 1 .. a : i \in 1 .. Len(q) /\ q[i] = s[i]
    BY <1>1, <1>2
  <2>3. \A i \in 1 .. b : i + a \in 1 .. Len(q) /\ q[i + a] = r[i]
    BY <1>1, <1>2
  <2>4. \A k \in On(s) : k \in On(q)
    BY <2>2 DEF On, a
  <2>5. \A k \in On(r) : k \in On(q)
    BY <2>3 DEF On, b
  <2> QED BY <2>1, <2>4, <2>5
<1>7. Len(q) # 0 /\ n = q[1] /\ ny[q[Len(q)]] = e
  <2>1. q[Len(q)] = r[b] /\ q[1] = s[1] /\ b \in 1 .. b /\ a \in 1 .. a
    BY <1>1, <1>2
  <2>2. r[b] # s[a] /\ r[b] \in Nodes
    BY <1>g, <1>h, <2>1
  <2> QED BY <1>1, <1>2, <1>g, <1>l, <2>1, <2>2
<1>8. Path(ny, n, q, e)
  BY <1>2, <1>4, <1>5, <1>7, PathIs
<1> QED BY <1>6, <1>8 DEF q

(* No path is longer than there are nodes.                                  *)
LEMMA PathShort ==
    ASSUME NEW nx, NEW n, NEW s, NEW e, Path(nx, n, s, e)
    PROVE  Cardinality(Nodes) \in Nat /\ Len(s) <= Cardinality(Nodes)
<1>1. IsFiniteSet(Nodes) /\ Cardinality(Nodes) \in Nat
  BY QueueAssumption, FS_CardinalityType
<1>2. s \in [1 .. Len(s) -> Nodes] /\ Len(s) \in Nat
  <2>1. s \in Seq(Nodes)
    BY DEF Path
  <2> QED BY <2>1
<1>3. s \in Injection(1 .. Len(s), Nodes)
  BY <1>2, PathFacts DEF Injection, IsInjective
<1>4. IsFiniteSet(1 .. Len(s)) /\ Cardinality(1 .. Len(s)) = Len(s)
  <2>1. 1 \in Int /\ Len(s) \in Int
    BY <1>2
  <2>2. IsFiniteSet(1 .. Len(s)) /\ Cardinality(1 .. Len(s)) = IF 1 > Len(s) THEN 0 ELSE Len(s) - 1 + 1
    BY <2>1, FS_Interval
  <2> QED BY <1>2, <2>2
<1>5. Cardinality(1 .. Len(s)) <= Cardinality(Nodes)
  BY <1>1, <1>3, FS_Injection DEF ExistsInjection
<1> QED BY <1>1, <1>4, <1>5

-----------------------------------------------------------------------------
(* The items of a path.                                                     *)

\* The items of the nodes s; what a node can bear; what a link can be.
Vals(el, s) == [i \in 1 .. Len(s) |-> el[s[i]]]
Elems == Items \cup {Nothing}
Ends == Nodes \cup {End, Null}

(* The items of a path are those of its first node and of the rest.         *)
LEMMA ValsTail ==
    ASSUME NEW s \in Seq(Nodes), s # <<>>, NEW el \in [Nodes -> Elems]
    PROVE  /\ Vals(el, s) \in Seq(Elems) /\ Vals(el, Tail(s)) \in Seq(Elems)
           /\ Vals(el, s) = <<el[s[1]]>> \o Vals(el, Tail(s))
<1>1. /\ Len(s) \in Nat \ {0} /\ Tail(s) \in Seq(Nodes) /\ Len(Tail(s)) = Len(s) - 1
      /\ \A i \in 1 .. Len(s) - 1 : Tail(s)[i] = s[i + 1]
      /\ \A i \in 1 .. Len(s) : s[i] \in Nodes
  BY HeadTailProperties
<1> DEFINE v == Vals(el, s)
           w == Vals(el, Tail(s))
<1>2. v \in Seq(Elems) /\ Len(v) = Len(s) /\ \A i \in 1 .. Len(s) : v[i] = el[s[i]]
  BY <1>1 DEF Vals
<1>3. w \in Seq(Elems) /\ Len(w) = Len(s) - 1 /\ \A i \in 1 .. Len(s) - 1 : w[i] = el[s[i + 1]]
  BY <1>1 DEF Vals
<1> HIDE DEF v, w
<1> DEFINE x == <<el[s[1]]>>
           u == x \o w
<1>4. x \in Seq(Elems) /\ Len(x) = 1 /\ x[1] = el[s[1]]
  BY <1>1
<1> HIDE DEF x
<1>5. u \in Seq(Elems) /\ Len(u) = Len(s) /\ u[1] = el[s[1]]
      /\ \A i \in 2 .. Len(s) : u[i] = w[i - 1]
  <2>1. u \in Seq(Elems) /\ Len(u) = Len(x) + Len(w)
        /\ \A i \in 1 .. Len(x) + Len(w) : u[i] = IF i <= Len(x) THEN x[i] ELSE w[i - Len(x)]
    BY <1>3, <1>4, ConcatProperties
  <2> HIDE DEF u
  <2> QED BY <1>1, <1>3, <1>4, <2>1
<1> HIDE DEF u
<1>6. \A i \in 1 .. Len(s) : v[i] = u[i]
  <2> TAKE i \in 1 .. Len(s)
  <2>1. CASE i = 1
    BY <1>1, <1>2, <1>5, <2>1
  <2>2. CASE i # 1
    <3>1. i \in 2 .. Len(s) /\ i - 1 \in 1 .. Len(s) - 1 /\ i - 1 + 1 = i
      BY <1>1, <2>2
    <3>2. w[i - 1] = el[s[i]]
      BY <1>3, <3>1
    <3> QED BY <1>2, <1>5, <3>1, <3>2
  <2> QED BY <2>1, <2>2
<1>7. v = u
  BY <1>2, <1>5, <1>6, SeqEqual
<1> QED BY <1>2, <1>3, <1>7 DEF v, w, u, x

(* A path of no nodes has no items.                                         *)
LEMMA ValsNone == ASSUME NEW el PROVE Vals(el, <<>>) = <<>>
BY DEF Vals

(* A path starts at a node, unless it has none.                             *)
LEMMA PathNodes ==
    ASSUME NEW nx, NEW n, NEW s, NEW e, Path(nx, n, s, e)
    PROVE  n \in Nodes \/ (n = e /\ s = <<>>)
BY PathFacts

\* Chain, of any links and items.
ChainOf(nx, el, n) ==
    LET items[k \in 0 .. Cardinality(Nodes)] ==
            [m \in Nodes \cup {End, Null} |->
                IF k = 0 \/ m \notin Nodes THEN <<>>
                ELSE <<el[m]>> \o items[k - 1][nx[m]]]
    IN  items[Cardinality(Nodes)][n]

(* The items of the nodes from n on are the items of the path from n on.    *)
LEMMA ChainIsPath ==
    ASSUME NEW nx \in [Nodes -> Ends], NEW el \in [Nodes -> Elems],
           NEW n, NEW s, Path(nx, n, s, End)
    PROVE  ChainOf(nx, el, n) = Vals(el, s)
<1> DEFINE C == Cardinality(Nodes)
           V == [Ends -> Seq(Elems)]
           base == [m \in Ends |-> <<>>]
           rest(g) == [m \in Ends |-> IF m \notin Nodes THEN <<>> ELSE <<el[m]>> \o g[nx[m]]]
           step == [k \in 1 .. C |-> [g \in V |-> rest(g)]]
           fun(f) == [k \in 0 .. C |->
                         [m \in Ends |-> IF k = 0 \/ m \notin Nodes THEN <<>>
                                        ELSE <<el[m]>> \o f[k - 1][nx[m]]]]
<1>1. C \in Nat /\ Len(s) <= C
  BY PathShort
<1>2. base \in V
  OBVIOUS
<1>3. \A g \in V : rest(g) \in V
  <2> SUFFICES ASSUME NEW g \in V, NEW m \in Ends, m \in Nodes PROVE <<el[m]>> \o g[nx[m]] \in Seq(Elems)
    OBVIOUS
  <2>1. <<el[m]>> \in Seq(Elems) /\ g[nx[m]] \in Seq(Elems)
    OBVIOUS
  <2> QED BY <2>1, ConcatProperties
<1>4. step \in [1 .. C -> [V -> V]]
  BY <1>3
<1>5. PICK f \in [0 .. C -> V] : \A k \in 0 .. C : f[k] = IF k = 0 THEN base ELSE step[k][f[k - 1]]
  <2> HIDE DEF C, V, base, step, rest, fun
  <2>1. \E f : Recursive(f, V, C, base, step)
    <3>1. step \in Steps(V, C)
      BY <1>4 DEF Steps
    <3> QED BY <1>1, <1>2, <3>1, Recursion
  <2> QED BY <2>1 DEF Recursive
<1>6. f = fun(f)
  <2>1. \A k \in 0 .. C : f[k] = fun(f)[k]
    <3> TAKE k \in 0 .. C
    <3>1. CASE k = 0
      BY <1>5, <3>1
    <3>2. CASE k # 0
      <4>1. k - 1 \in 0 .. C /\ k \in 1 .. C
        BY <1>1, <3>2
      <4>2. f[k - 1] \in V
        BY <4>1
      <4>3. f[k] = step[k][f[k - 1]]
        BY <1>5, <3>2
      <4>4. f[k] = rest(f[k - 1])
        BY <4>1, <4>2, <4>3
      <4> QED BY <3>2, <4>4
    <3> QED BY <3>1, <3>2
  <2> QED BY <1>5, <2>1
<1> DEFINE h == CHOOSE g : g = fun(g)
<1>7. h = fun(h) /\ ChainOf(nx, el, n) = h[C][n]
  <2>1. \E g : g = fun(g)
    BY <1>6
  <2>2. h = fun(h)
    <3> HIDE DEF fun
    <3> QED BY <2>1
  <2>3. ChainOf(nx, el, n) = h[C][n]
    BY DEF ChainOf, Ends
  <2> QED BY <2>2, <2>3
<1> HIDE DEF h
<1>8. /\ \A m \in Ends : h[0][m] = <<>>
      /\ \A k \in 0 .. C - 1, m \in Ends :
             h[k + 1][m] = IF m \notin Nodes THEN <<>> ELSE <<el[m]>> \o h[k][nx[m]]
  <2> DEFINE row(k, g) == [m \in Ends |-> IF k = 0 \/ m \notin Nodes THEN <<>>
                                         ELSE <<el[m]>> \o g[nx[m]]]
  <2>1. fun(h) = [k \in 0 .. C |-> row(k, h[k - 1])]
    OBVIOUS
  <2>2. \A k \in 0 .. C : h[k] = row(k, h[k - 1])
    <3> HIDE DEF fun, row
    <3> QED BY <1>7, <2>1
  <2>3. h[0] = row(0, h[0 - 1])
    BY <1>1, <2>2
  <2>4. ASSUME NEW k \in 0 .. C - 1 PROVE h[k + 1] = row(k + 1, h[k]) /\ k + 1 # 0
    <3>1. k + 1 \in 0 .. C /\ k + 1 - 1 = k /\ k + 1 # 0
      BY <1>1
    <3>2. h[k + 1] = row(k + 1, h[k + 1 - 1])
      <4> HIDE DEF row
      <4> QED BY <2>2, <3>1
    <3> HIDE DEF row
    <3> QED BY <3>1, <3>2
  <2>5. ASSUME NEW k \in 0 .. C - 1, NEW m \in Ends
        PROVE  h[k + 1][m] = IF m \notin Nodes THEN <<>> ELSE <<el[m]>> \o h[k][nx[m]]
    BY <2>4
  <2>6. \A m \in Ends : h[0][m] = <<>>
    BY <2>3
  <2> HIDE DEF row
  <2> QED BY <2>5, <2>6
<1> HIDE DEF fun, rest, base, step, V
<1> DEFINE S == {k \in 0 .. C : \A m \in Ends, r \in Seq(Nodes) :
                    Path(nx, m, r, End) /\ Len(r) <= k => h[k][m] = Vals(el, r)}
<1>9. 0 \in S
  <2> SUFFICES ASSUME NEW m \in Ends, NEW r \in Seq(Nodes), Path(nx, m, r, End), Len(r) <= 0
               PROVE  h[0][m] = Vals(el, r)
    BY <1>1
  <2>1. r = <<>>
    BY PathFacts
  <2>2. h[0][m] = <<>>
    BY <1>8
  <2> QED BY <2>1, <2>2, ValsNone
<1>10. \A k \in 0 .. C - 1 : k \in S => k + 1 \in S
  <2> SUFFICES ASSUME NEW k \in 0 .. C - 1, k \in S,
                      NEW m \in Ends, NEW r \in Seq(Nodes), Path(nx, m, r, End), Len(r) <= k + 1
               PROVE  h[k + 1][m] = Vals(el, r)
    BY <1>1
  <2>1. k + 1 \in 0 .. C /\ k + 1 # 0 /\ k + 1 - 1 = k
    BY <1>1
  <2>2. CASE m \notin Nodes
    <3>1. r = <<>>
      BY <2>2, PathFacts, PathNodes
    <3> QED BY <1>8, <2>1, <2>2, <3>1, ValsNone
  <2>3. CASE m \in Nodes
    <3>1. r # <<>> /\ r[1] = m /\ Len(r) \in Nat \ {0}
      BY <2>3, PathStart, QueueAssumption
    <3>2. Path(nx, nx[m], Tail(r), End)
      BY <2>3, PathTail, QueueAssumption
    <3>3. Tail(r) \in Seq(Nodes) /\ Len(Tail(r)) <= k
      BY <3>1, HeadTailProperties
    <3>4. h[k][nx[m]] = Vals(el, Tail(r))
      <4>1. nx[m] \in Ends
        BY <2>3
      <4> QED BY <3>2, <3>3, <4>1
    <3>5. h[k + 1][m] = <<el[m]>> \o h[k][nx[m]]
      BY <1>8, <2>3
    <3>6. Vals(el, r) = <<el[r[1]]>> \o Vals(el, Tail(r))
      BY <3>1, ValsTail
    <3> QED BY <3>1, <3>4, <3>5, <3>6
  <2> QED BY <2>2, <2>3
<1>11. C \in S
  <2> HIDE DEF S, C
  <2>1. 0 .. C \subseteq S
    BY <1>1, <1>9, <1>10, InductionTo
  <2> QED BY <1>1, <2>1
<1>12. n \in Ends /\ s \in Seq(Nodes)
  BY PathNodes DEF Ends, Path
<1> QED BY <1>1, <1>7, <1>11, <1>12

-----------------------------------------------------------------------------
(* The invariant.                                                          *)

\* Where a thread can be, and what its locals hold.
Labels == {"idle", "readTailSeq", "readTailNode", "linkNode", "readTailNext", "helpPush",
           "finishPush", "countPush", "readHeadSeq", "readHeadNode", "readPopTail", "readNext",
           "checkHead", "checkTail", "popHelp", "moveHead", "countPop", "freeNode"}

Locals == [node : Nodes \cup {Null}, link : [node : Nodes \cup {Null}, seq : Nat],
           nxt : Nodes \cup {End, Null}, tseq : Nat, item : Items \cup {Nothing},
           empty : BOOLEAN]

\* The types of everything a step reads.
Typed ==
    /\ TypeOK
    /\ recycle \in BOOLEAN
    /\ pc \in [Threads -> Labels]
    /\ loc \in [Threads -> Locals]
    /\ pushed \in [Threads -> Nat]

\* The lists of nodes.  M leads from the dummy to the end, the tail on it; H[t]
\* hangs off the node a push of t has not linked yet; F is the free list.  K says
\* which of them a node is on, or that a thread holds it after its pop, and O
\* which thread's it is.  The lists share no node because their kinds differ, and
\* only the last node of M or of an H[t] is an end.
Lists(M, H, F, K, O) ==
    /\ Path(next, head.node, M, End)
    /\ \A n \in On(M) : K[n] = "main"
    /\ \A t \in Pushing : Path(next, loc[t].node, H[t], End)
    /\ \A t \in Pushing : \A n \in On(H[t]) : K[n] = "hang" /\ O[n] = t
    /\ Path(next, freeTop, F, Null)
    /\ \A n \in On(F) : K[n] = "free"
    /\ \A n \in fresh : K[n] = "fresh"
    /\ \A t \in Threads : pc[t] \in {"countPop", "freeNode"} =>
          /\ loc[t].link.node \in Nodes
          /\ K[loc[t].link.node] = "held" /\ O[loc[t].link.node] = t
          /\ next[loc[t].link.node] \in Nodes
    /\ \A n \in Nodes : next[n] = End => n \in On(M) \/ \E t \in Pushing : n \in On(H[t])
    /\ tail.node \in On(M)

\* B[t] are the threads whose nodes t could be hung behind: t may compare with an
\* end in H[u] only if u is in B[t].  Since no t is behind itself, no thread can
\* close a ring.
Order(H, B) ==
    /\ \A t \in Threads : t \notin B[t]
    /\ \A t, u, v \in Threads : u \in B[t] /\ v \in B[u] => v \in B[t]
    /\ \A t, u \in Pushing : pc[t] = "linkNode" /\ loc[t].link.node \in On(H[u]) => u \in B[t]

\* The nodes that bear an item of the queue.
Bearing(M, H) == (On(M) \ {head.node}) \cup UNION {On(H[t]) : t \in Pushing}

\* Each item begun is in one place: popped, or in a node that bears it.
Content(M, H) ==
    /\ \A m, n \in Bearing(M, H) : elem[m] = elem[n] => m = n
    /\ \A i, j \in 1 .. Len(popped) : popped[i] = popped[j] => i = j
    /\ \A n \in Bearing(M, H) : elem[n] \notin On(popped)
    /\ Begun = On(popped) \cup {elem[n] : n \in Bearing(M, H)}
    /\ \A t \in Pushing : pushed[t] > 0 /\ elem[loc[t].node] = <<t, pushed[t]>>

\* A plain queue hangs nothing behind an unlinked node.
Straight(H, K) ==
    /\ Plain => \A t \in Pushing : next[loc[t].node] = End
    /\ ~recycle =>
          /\ freeTop = Null
          /\ \A t \in Threads : pc[t] = "linkNode" =>
                K[loc[t].link.node] \in {"main", "held", "gone"}

\* What t read of the tail: its sequence number may be old, but if it is not then
\* its node and what follows that are right.
TailRead(t) ==
    LET me == loc[t]
        now == me.link.seq = tail.seq
    IN  /\ pc[t] \in {"readTailNode", "linkNode", "readTailNext", "helpPush", "finishPush"} =>
              me.link.seq <= tail.seq
        /\ pc[t] \in {"linkNode", "readTailNext", "helpPush", "finishPush"} =>
              me.link.node \in Nodes /\ (now => me.link.node = tail.node)
        /\ pc[t] = "readTailNext" /\ now => next[tail.node] # End
        /\ pc[t] = "helpPush" /\ now => me.nxt = next[tail.node] /\ me.nxt \in Nodes
        /\ pc[t] = "finishPush" => me.node \in Nodes /\ (now => me.node = next[tail.node])

\* What t read of the head, likewise.
HeadRead(t) ==
    LET me == loc[t]
        now == me.link.seq = head.seq
    IN  /\ pc[t] \in {"readHeadNode", "readPopTail", "readNext", "checkHead", "checkTail", "moveHead"} =>
              me.link.seq <= head.seq
        /\ pc[t] \in {"readPopTail", "readNext", "checkHead", "checkTail", "moveHead"} =>
              me.link.node \in Nodes /\ (now => me.link.node = head.node)
        /\ pc[t] \in {"readNext", "checkHead", "checkTail"} => me.tseq <= tail.seq
        /\ pc[t] \in {"checkHead", "checkTail"} =>
              /\ now /\ me.nxt \in Nodes => me.nxt = next[head.node]
              /\ now /\ me.nxt = End => me.empty
              /\ me.tseq = tail.seq /\ me.link.node = tail.node /\ me.nxt \in Nodes =>
                    me.nxt = next[tail.node]
        /\ pc[t] = "checkTail" => me.nxt # Null /\ (me.nxt = End => me.empty)
        /\ pc[t] = "popHelp" =>
              /\ me.nxt \in Nodes /\ me.link.seq <= tail.seq
              /\ me.link.seq = tail.seq /\ me.link.node = tail.node => me.nxt = next[tail.node]
        /\ pc[t] = "moveHead" =>
              /\ me.nxt \in Nodes
              /\ now => /\ me.nxt = next[head.node] /\ me.item = elem[me.nxt]
                        /\ tail.node # head.node

\* What a node can be: on M, on an H[t], on F, not given yet, held, or left behind
\* by a pop that does not recycle.
Kinds == {"main", "hang", "free", "fresh", "held", "gone"}

\* Every thread's reads.
Reads == \A t \in Threads : TailRead(t) /\ HeadRead(t)

\* What the lists are.
Witnesses(M, H, F, K, O, B) ==
    /\ M \in Seq(Nodes) /\ H \in [Threads -> Seq(Nodes)] /\ F \in Seq(Nodes)
    /\ K \in [Nodes -> Kinds] /\ O \in [Nodes -> Threads \cup {Null}]
    /\ B \in [Threads -> SUBSET Threads]

\* What they satisfy.
Parts(M, H, F, K, O, B) ==
    /\ Lists(M, H, F, K, O)
    /\ Order(H, B)
    /\ Content(M, H)
    /\ Straight(H, K)

\* The inductive invariant: there are such lists.
Inv ==
    /\ Typed
    /\ Reads
    /\ \E M, H, F, K, O, B : Witnesses(M, H, F, K, O, B) /\ Parts(M, H, F, K, O, B)

-----------------------------------------------------------------------------
(* Types.                                                                  *)

(* The types of what the steps read.                                        *)
LEMMA Types ==
    ASSUME Typed
    PROVE  /\ head \in Links /\ head.node \in Nodes /\ head.seq \in Nat
           /\ tail \in Links /\ tail.node \in Nodes /\ tail.seq \in Nat
           /\ next \in [Nodes -> Ends] /\ elem \in [Nodes -> Elems]
           /\ loc \in [Threads -> Locals] /\ pc \in [Threads -> Labels]
           /\ pushed \in [Threads -> Nat] /\ popped \in Seq(Items)
BY DEF Typed, TypeOK, Links, Ends, Elems

(* The fields of a thread's locals.                                         *)
LEMMA Fields ==
    ASSUME NEW r \in Locals
    PROVE  /\ r.node \in Nodes \cup {Null} /\ r.nxt \in Ends /\ r.tseq \in Nat
           /\ r.item \in Elems /\ r.empty \in BOOLEAN
           /\ r.link \in [node : Nodes \cup {Null}, seq : Nat]
           /\ r.link.node \in Nodes \cup {Null} /\ r.link.seq \in Nat
BY DEF Locals, Ends, Elems

(* A call that starts has no locals.                                        *)
LEMMA NoLocalsTyped ==
    /\ NoLocals \in Locals /\ NoLocals.node = Null
    /\ NoLocals.link.seq = 0
BY DEF Locals, NoLocals

\* Only t moves.
Frame(t) == \A u \in Threads : u # t => pc'[u] = pc[u] /\ loc'[u] = loc[u]

(* A step of t gives it a new label and new locals.                         *)
LEMMA Moves ==
    ASSUME Typed, NEW t \in Threads, NEW l \in Labels, Goto(t, l),
           NEW r \in Locals, loc' = [loc EXCEPT ![t] = r]
    PROVE  /\ Frame(t) /\ pc' \in [Threads -> Labels] /\ loc' \in [Threads -> Locals]
           /\ pc'[t] = l /\ loc'[t] = r
BY Types DEF Goto, Frame

(* The same for a step that keeps the locals.                               *)
LEMMA Stays ==
    ASSUME Typed, NEW t \in Threads, NEW l \in Labels, Goto(t, l), loc' = loc
    PROVE  /\ Frame(t) /\ pc' \in [Threads -> Labels] /\ loc' \in [Threads -> Locals]
           /\ pc'[t] = l
BY Types DEF Goto, Frame

(* The types stay when only a thread and the tail move.                     *)
LEMMA TypedLocal ==
    ASSUME Typed, pc' \in [Threads -> Labels], loc' \in [Threads -> Locals],
           UNCHANGED <<recycle, head, next, elem, freeTop, fresh, pushed, popped>>,
           tail' \in Links, count' \in Int
    PROVE  Typed'
<1>1. \A t \in Threads : loc'[t].nxt \in Nodes \cup {End, Null}
  BY Fields DEF Ends
<1> QED BY <1>1 DEF Typed, TypeOK

-----------------------------------------------------------------------------
(* The steps that leave the lists alone: they read, count, or move the tail *)
(* to the node behind it.                                                  *)

\* What is linked: the nodes held, the first and the last one, and what
\* follows them.
Linked ==
    /\ \A t \in Pushing : loc[t].node \in Nodes
    /\ next[tail.node] \in Nodes \cup {End}
    /\ next[head.node] = End => Inside = <<>>

\* The tail stays, or moves to the node that follows it.
MoveTail ==
    \/ tail' = tail
    \/ /\ tail'.seq = tail.seq + 1 /\ tail'.node = next[tail.node]
       /\ next[tail.node] \in Nodes

\* Where a push has not linked its node yet.
PushLabels == {"readTailSeq", "readTailNode", "linkNode", "readTailNext", "helpPush"}

\* A step of t that leaves the lists alone.
LocalStep(t) ==
    /\ UNCHANGED <<recycle, head, next, elem, freeTop, fresh, pushed, popped>>
    /\ MoveTail
    /\ Typed' /\ Frame(t)
    /\ pc[t] \in PushLabels <=> pc'[t] \in PushLabels
    /\ pc[t] \in PushLabels => loc'[t].node = loc[t].node
    /\ pc'[t] \in {"countPop", "freeNode"} =>
          pc[t] \in {"countPop", "freeNode"} /\ loc'[t].link.node = loc[t].link.node
    /\ pc'[t] = "linkNode" => loc'[t].link.node = tail.node
    /\ TailRead(t)' /\ HeadRead(t)'

\* What such a step does to t.
Gets(t, l, r) ==
    /\ Goto(t, l) /\ loc' = [loc EXCEPT ![t] = r]
    /\ UNCHANGED <<recycle, head, next, elem, freeTop, fresh, pushed, popped>>
    /\ count' \in Int /\ tail' \in Links /\ MoveTail

(* Such a step keeps the types and the other threads.                       *)
LEMMA GetsTyped ==
    ASSUME Typed, NEW t \in Threads, NEW l \in Labels, NEW r \in Locals, Gets(t, l, r)
    PROVE  Typed' /\ Frame(t) /\ pc'[t] = l /\ loc'[t] = r
<1>1. Frame(t) /\ pc' \in [Threads -> Labels] /\ loc' \in [Threads -> Locals]
      /\ pc'[t] = l /\ loc'[t] = r
  BY Moves DEF Gets
<1>2. Typed'
  BY <1>1, TypedLocal DEF Gets
<1> QED BY <1>1, <1>2

(* The types that these steps need.                                         *)
LEMMA LocalTypes ==
    ASSUME Typed, NEW t \in Threads
    PROVE  /\ loc[t] \in Locals /\ loc = [loc EXCEPT ![t] = loc[t]]
           /\ head.seq \in Nat /\ head.node \in Nodes
           /\ tail \in Links /\ tail.seq \in Nat /\ tail.node \in Nodes
           /\ next \in [Nodes -> Ends] /\ elem \in [Nodes -> Elems]
           /\ count \in Int
           /\ loc[t].link.seq \in Nat /\ loc[t].tseq \in Nat
BY Types, Fields DEF Typed, TypeOK

(* Reading the sequence number of the tail.                                 *)
LEMMA ReadTailSeqLocal ==
    ASSUME Typed, NEW t \in Threads, TailRead(t), HeadRead(t), Linked, ReadTailSeq(t)
    PROVE  LocalStep(t)
<1> DEFINE r == [loc[t] EXCEPT !.link.seq = tail.seq]
<1>1. pc[t] = "readTailSeq"
  BY DEF ReadTailSeq
<1>2. r \in Locals /\ r.node = loc[t].node /\ r.link.seq = tail.seq
  BY <1>1, LocalTypes, NoLocalsTyped DEF Locals, Links, Ends, Elems, TailRead, HeadRead
<1>4. Gets(t, "readTailNode", r) /\ tail' = tail
  BY <1>1, LocalTypes DEF ReadTailSeq, Gets, Retry, MoveTail, shared
<1> HIDE DEF r
<1>5. Typed' /\ Frame(t) /\ pc'[t] = "readTailNode" /\ loc'[t] = r
  BY <1>2, <1>4, GetsTyped DEF Labels
<1>6. TailRead(t)' /\ HeadRead(t)'
  BY <1>1, <1>2, <1>4, <1>5, LocalTypes, Fields DEF Ends, TailRead, HeadRead, Gets
<1> QED BY <1>1, <1>2, <1>4, <1>5, <1>6 DEF LocalStep, Gets, PushLabels

(* Reading the node of the tail.                                            *)
LEMMA ReadTailNodeLocal ==
    ASSUME Typed, NEW t \in Threads, TailRead(t), HeadRead(t), Linked, ReadTailNode(t)
    PROVE  LocalStep(t)
<1> DEFINE r == [loc[t] EXCEPT !.link.node = tail.node]
<1>1. pc[t] = "readTailNode"
  BY DEF ReadTailNode
<1>2. r \in Locals /\ r.node = loc[t].node /\ r.link.seq = loc[t].link.seq /\ r.link.node = tail.node
  BY <1>1, LocalTypes, NoLocalsTyped DEF Locals, Links, Ends, Elems, TailRead, HeadRead
<1>4. Gets(t, "linkNode", r) /\ tail' = tail
  BY <1>1, LocalTypes DEF ReadTailNode, Gets, Retry, MoveTail, shared
<1> HIDE DEF r
<1>5. Typed' /\ Frame(t) /\ pc'[t] = "linkNode" /\ loc'[t] = r
  BY <1>2, <1>4, GetsTyped DEF Labels
<1>6. TailRead(t)' /\ HeadRead(t)'
  BY <1>1, <1>2, <1>4, <1>5, LocalTypes, Fields DEF Ends, TailRead, HeadRead, Gets
<1> QED BY <1>1, <1>2, <1>4, <1>5, <1>6 DEF LocalStep, Gets, PushLabels

(* A comparison that fails.                                                 *)
LEMMA LinkNodeFails ==
    ASSUME Typed, NEW t \in Threads, TailRead(t), HeadRead(t), Linked, LinkNode(t),
           next[loc[t].link.node] # End
    PROVE  LocalStep(t)
<1> DEFINE r == loc[t]
<1>1. pc[t] = "linkNode"
  BY DEF LinkNode
<1>2. r \in Locals /\ r = loc[t]
  BY <1>1, LocalTypes, NoLocalsTyped DEF Locals, Links, Ends, Elems, TailRead, HeadRead
<1>4. Gets(t, "readTailNext", r) /\ tail' = tail
  BY <1>1, LocalTypes DEF LinkNode, Gets, Retry, MoveTail, shared
<1> HIDE DEF r
<1>5. Typed' /\ Frame(t) /\ pc'[t] = "readTailNext" /\ loc'[t] = r
  BY <1>2, <1>4, GetsTyped DEF Labels
<1>6. TailRead(t)' /\ HeadRead(t)'
  BY <1>1, <1>2, <1>4, <1>5, LocalTypes, Fields DEF Ends, TailRead, HeadRead, Gets, Linked
<1> QED BY <1>1, <1>2, <1>4, <1>5, <1>6 DEF LocalStep, Gets, PushLabels

(* Reading what follows the tail.                                           *)
LEMMA ReadTailNextLocal ==
    ASSUME Typed, NEW t \in Threads, TailRead(t), HeadRead(t), Linked, ReadTailNext(t)
    PROVE  LocalStep(t)
<1> DEFINE r == [loc[t] EXCEPT !.nxt = next[loc[t].link.node]]
<1>1. pc[t] = "readTailNext"
  BY DEF ReadTailNext
<1>2. r \in Locals /\ r.node = loc[t].node /\ r.link = loc[t].link /\ r.nxt = next[loc[t].link.node]
  BY <1>1, LocalTypes, NoLocalsTyped DEF Locals, Links, Ends, Elems, TailRead, HeadRead
<1>4. Gets(t, "helpPush", r) /\ tail' = tail
  BY <1>1, LocalTypes DEF ReadTailNext, Gets, Retry, MoveTail, shared
<1> HIDE DEF r
<1>5. Typed' /\ Frame(t) /\ pc'[t] = "helpPush" /\ loc'[t] = r
  BY <1>2, <1>4, GetsTyped DEF Labels
<1>6. TailRead(t)' /\ HeadRead(t)'
  BY <1>1, <1>2, <1>4, <1>5, LocalTypes, Fields DEF Ends, TailRead, HeadRead, Gets, Linked
<1> QED BY <1>1, <1>2, <1>4, <1>5, <1>6 DEF LocalStep, Gets, PushLabels

(* Helping another push.                                                    *)
LEMMA HelpPushLocal ==
    ASSUME Typed, NEW t \in Threads, TailRead(t), HeadRead(t), Linked, HelpPush(t)
    PROVE  LocalStep(t)
<1> DEFINE r == [NoLocals EXCEPT !.node = loc[t].node]
<1>1. pc[t] = "helpPush"
  BY DEF HelpPush
<1>2. r \in Locals /\ r.node = loc[t].node
  BY <1>1, LocalTypes, NoLocalsTyped DEF Locals, Links, Ends, Elems, TailRead, HeadRead, NoLocals
<1>3. tail' \in Links /\ MoveTail
  BY <1>1, LocalTypes, Fields DEF HelpPush, FinishPush, MoveTail, Links, TailRead, HeadRead
<1>4. Gets(t, "readTailSeq", r)
  BY <1>3, LocalTypes DEF HelpPush, Gets, Retry, shared
<1> HIDE DEF r
<1>5. Typed' /\ Frame(t) /\ pc'[t] = "readTailSeq" /\ loc'[t] = r
  BY <1>2, <1>4, GetsTyped DEF Labels
<1>6. TailRead(t)' /\ HeadRead(t)'
  BY <1>1, <1>2, <1>4, <1>5, LocalTypes, Fields DEF Ends, TailRead, HeadRead, Gets
<1> QED BY <1>1, <1>2, <1>4, <1>5, <1>6 DEF LocalStep, Gets, PushLabels

(* Finishing one's own push.                                                *)
LEMMA FinishOwnPushLocal ==
    ASSUME Typed, NEW t \in Threads, TailRead(t), HeadRead(t), Linked, FinishOwnPush(t)
    PROVE  LocalStep(t)
<1> DEFINE r == loc[t]
<1>1. pc[t] = "finishPush"
  BY DEF FinishOwnPush
<1>2. r \in Locals /\ r = loc[t]
  BY <1>1, LocalTypes, NoLocalsTyped DEF Locals, Links, Ends, Elems, TailRead, HeadRead
<1>3. tail' \in Links /\ MoveTail
  BY <1>1, LocalTypes, Fields DEF FinishOwnPush, FinishPush, MoveTail, Links, TailRead, HeadRead
<1>4. Gets(t, "countPush", r)
  BY <1>3, LocalTypes DEF FinishOwnPush, Gets, Retry, shared
<1> HIDE DEF r
<1>5. Typed' /\ Frame(t) /\ pc'[t] = "countPush" /\ loc'[t] = r
  BY <1>2, <1>4, GetsTyped DEF Labels
<1>6. TailRead(t)' /\ HeadRead(t)'
  BY <1>1, <1>2, <1>4, <1>5, LocalTypes, Fields DEF Ends, TailRead, HeadRead, Gets
<1> QED BY <1>1, <1>2, <1>4, <1>5, <1>6 DEF LocalStep, Gets, PushLabels

(* Counting a push.                                                         *)
LEMMA CountPushLocal ==
    ASSUME Typed, NEW t \in Threads, TailRead(t), HeadRead(t), Linked, CountPush(t)
    PROVE  LocalStep(t)
<1> DEFINE r == NoLocals
<1>1. pc[t] = "countPush"
  BY DEF CountPush
<1>2. r \in Locals
  BY <1>1, LocalTypes, NoLocalsTyped DEF Locals, Links, Ends, Elems, TailRead, HeadRead
<1>4. Gets(t, "idle", r) /\ tail' = tail
  BY <1>1, LocalTypes DEF CountPush, Gets, Retry, MoveTail, shared
<1> HIDE DEF r
<1>5. Typed' /\ Frame(t) /\ pc'[t] = "idle" /\ loc'[t] = r
  BY <1>2, <1>4, GetsTyped DEF Labels
<1>6. TailRead(t)' /\ HeadRead(t)'
  BY <1>1, <1>2, <1>4, <1>5, LocalTypes, Fields DEF Ends, TailRead, HeadRead, Gets
<1> QED BY <1>1, <1>2, <1>4, <1>5, <1>6 DEF LocalStep, Gets, PushLabels

(* Beginning a pop.                                                         *)
LEMMA BeginPopLocal ==
    ASSUME Typed, NEW t \in Threads, TailRead(t), HeadRead(t), Linked, BeginPop(t)
    PROVE  LocalStep(t)
<1> DEFINE r == loc[t]
<1>1. pc[t] = "idle"
  BY DEF BeginPop
<1>2. r \in Locals /\ r = loc[t]
  BY <1>1, LocalTypes, NoLocalsTyped DEF Locals, Links, Ends, Elems, TailRead, HeadRead
<1>4. Gets(t, "readHeadSeq", r) /\ tail' = tail
  BY <1>1, LocalTypes DEF BeginPop, Gets, Retry, MoveTail, shared
<1> HIDE DEF r
<1>5. Typed' /\ Frame(t) /\ pc'[t] = "readHeadSeq" /\ loc'[t] = r
  BY <1>2, <1>4, GetsTyped DEF Labels
<1>6. TailRead(t)' /\ HeadRead(t)'
  BY <1>1, <1>2, <1>4, <1>5, LocalTypes, Fields DEF Ends, TailRead, HeadRead, Gets
<1> QED BY <1>1, <1>2, <1>4, <1>5, <1>6 DEF LocalStep, Gets, PushLabels

(* Reading the sequence number of the head.                                 *)
LEMMA ReadHeadSeqLocal ==
    ASSUME Typed, NEW t \in Threads, TailRead(t), HeadRead(t), Linked, ReadHeadSeq(t)
    PROVE  LocalStep(t)
<1> DEFINE r == [loc[t] EXCEPT !.link.seq = head.seq]
<1>1. pc[t] = "readHeadSeq"
  BY DEF ReadHeadSeq
<1>2. r \in Locals /\ r.link.seq = head.seq
  BY <1>1, LocalTypes, NoLocalsTyped DEF Locals, Links, Ends, Elems, TailRead, HeadRead
<1>4. Gets(t, "readHeadNode", r) /\ tail' = tail
  BY <1>1, LocalTypes DEF ReadHeadSeq, Gets, Retry, MoveTail, shared
<1> HIDE DEF r
<1>5. Typed' /\ Frame(t) /\ pc'[t] = "readHeadNode" /\ loc'[t] = r
  BY <1>2, <1>4, GetsTyped DEF Labels
<1>6. TailRead(t)' /\ HeadRead(t)'
  BY <1>1, <1>2, <1>4, <1>5, LocalTypes, Fields DEF Ends, TailRead, HeadRead, Gets
<1> QED BY <1>1, <1>2, <1>4, <1>5, <1>6 DEF LocalStep, Gets, PushLabels

(* Reading the node of the head.                                            *)
LEMMA ReadHeadNodeLocal ==
    ASSUME Typed, NEW t \in Threads, TailRead(t), HeadRead(t), Linked, ReadHeadNode(t)
    PROVE  LocalStep(t)
<1> DEFINE r == [loc[t] EXCEPT !.link.node = head.node]
<1>1. pc[t] = "readHeadNode"
  BY DEF ReadHeadNode
<1>2. r \in Locals /\ r.link.seq = loc[t].link.seq /\ r.link.node = head.node
  BY <1>1, LocalTypes, NoLocalsTyped DEF Locals, Links, Ends, Elems, TailRead, HeadRead
<1>4. Gets(t, "readPopTail", r) /\ tail' = tail
  BY <1>1, LocalTypes DEF ReadHeadNode, Gets, Retry, MoveTail, shared
<1> HIDE DEF r
<1>5. Typed' /\ Frame(t) /\ pc'[t] = "readPopTail" /\ loc'[t] = r
  BY <1>2, <1>4, GetsTyped DEF Labels
<1>6. TailRead(t)' /\ HeadRead(t)'
  BY <1>1, <1>2, <1>4, <1>5, LocalTypes, Fields DEF Ends, TailRead, HeadRead, Gets
<1> QED BY <1>1, <1>2, <1>4, <1>5, <1>6 DEF LocalStep, Gets, PushLabels

(* Reading the sequence number of the tail, in a pop.                       *)
LEMMA ReadPopTailLocal ==
    ASSUME Typed, NEW t \in Threads, TailRead(t), HeadRead(t), Linked, ReadPopTail(t)
    PROVE  LocalStep(t)
<1> DEFINE r == [loc[t] EXCEPT !.tseq = tail.seq]
<1>1. pc[t] = "readPopTail"
  BY DEF ReadPopTail
<1>2. r \in Locals /\ r.link = loc[t].link /\ r.tseq = tail.seq
  BY <1>1, LocalTypes, NoLocalsTyped DEF Locals, Links, Ends, Elems, TailRead, HeadRead
<1>4. Gets(t, "readNext", r) /\ tail' = tail
  BY <1>1, LocalTypes DEF ReadPopTail, Gets, Retry, MoveTail, shared
<1> HIDE DEF r
<1>5. Typed' /\ Frame(t) /\ pc'[t] = "readNext" /\ loc'[t] = r
  BY <1>2, <1>4, GetsTyped DEF Labels
<1>6. TailRead(t)' /\ HeadRead(t)'
  BY <1>1, <1>2, <1>4, <1>5, LocalTypes, Fields DEF Ends, TailRead, HeadRead, Gets
<1> QED BY <1>1, <1>2, <1>4, <1>5, <1>6 DEF LocalStep, Gets, PushLabels

(* Reading what follows the head.                                           *)
LEMMA ReadNextLocal ==
    ASSUME Typed, NEW t \in Threads, TailRead(t), HeadRead(t), Linked, ReadNext(t)
    PROVE  LocalStep(t)
<1> DEFINE r == [loc[t] EXCEPT !.nxt = next[loc[t].link.node], !.empty = (Inside = <<>>)]
<1>1. pc[t] = "readNext"
  BY DEF ReadNext
<1>2. r \in Locals /\ r.link = loc[t].link /\ r.tseq = loc[t].tseq
      /\ r.nxt = next[loc[t].link.node] /\ r.empty = (Inside = <<>>)
  BY <1>1, LocalTypes, NoLocalsTyped DEF Locals, Links, Ends, Elems, TailRead, HeadRead
<1>4. Gets(t, "checkHead", r) /\ tail' = tail
  BY <1>1, LocalTypes DEF ReadNext, Gets, Retry, MoveTail, shared
<1> HIDE DEF r
<1>5. Typed' /\ Frame(t) /\ pc'[t] = "checkHead" /\ loc'[t] = r
  BY <1>2, <1>4, GetsTyped DEF Labels
<1>6. TailRead(t)' /\ HeadRead(t)'
  BY <1>1, <1>2, <1>4, <1>5, LocalTypes, Fields DEF Ends, TailRead, HeadRead, Gets, Linked
<1> QED BY <1>1, <1>2, <1>4, <1>5, <1>6 DEF LocalStep, Gets, PushLabels

(* A head that moved since it was read.                                     *)
LEMMA CheckHeadFails ==
    ASSUME Typed, NEW t \in Threads, TailRead(t), HeadRead(t), Linked, CheckHead(t),
           loc[t].nxt = Null \/ loc[t].link.seq # head.seq
    PROVE  LocalStep(t)
<1> DEFINE r == NoLocals
<1>1. pc[t] = "checkHead"
  BY DEF CheckHead
<1>2. r \in Locals
  BY <1>1, LocalTypes, NoLocalsTyped DEF Locals, Links, Ends, Elems, TailRead, HeadRead
<1>4. Gets(t, "readHeadSeq", r) /\ tail' = tail
  BY <1>1, LocalTypes DEF CheckHead, Gets, Retry, MoveTail, shared
<1> HIDE DEF r
<1>5. Typed' /\ Frame(t) /\ pc'[t] = "readHeadSeq" /\ loc'[t] = r
  BY <1>2, <1>4, GetsTyped DEF Labels
<1>6. TailRead(t)' /\ HeadRead(t)'
  BY <1>1, <1>2, <1>4, <1>5, LocalTypes, Fields DEF Ends, TailRead, HeadRead, Gets
<1> QED BY <1>1, <1>2, <1>4, <1>5, <1>6 DEF LocalStep, Gets, PushLabels

(* A head that is as it was read.                                           *)
LEMMA CheckHeadHolds ==
    ASSUME Typed, NEW t \in Threads, TailRead(t), HeadRead(t), Linked, CheckHead(t),
           ~(loc[t].nxt = Null \/ loc[t].link.seq # head.seq)
    PROVE  LocalStep(t)
<1> DEFINE r == loc[t]
<1>1. pc[t] = "checkHead"
  BY DEF CheckHead
<1>2. r \in Locals /\ r = loc[t]
  BY <1>1, LocalTypes, NoLocalsTyped DEF Locals, Links, Ends, Elems, TailRead, HeadRead
<1>4. Gets(t, "checkTail", r) /\ tail' = tail
  BY <1>1, LocalTypes DEF CheckHead, Gets, Retry, MoveTail, shared
<1> HIDE DEF r
<1>5. Typed' /\ Frame(t) /\ pc'[t] = "checkTail" /\ loc'[t] = r
  BY <1>2, <1>4, GetsTyped DEF Labels
<1>6. TailRead(t)' /\ HeadRead(t)'
  BY <1>1, <1>2, <1>4, <1>5, LocalTypes, Fields DEF Ends, TailRead, HeadRead, Gets
<1> QED BY <1>1, <1>2, <1>4, <1>5, <1>6 DEF LocalStep, Gets, PushLabels

(* An empty queue.                                                          *)
LEMMA PopEmptyLocal ==
    ASSUME Typed, NEW t \in Threads, TailRead(t), HeadRead(t), Linked, PopEmpty(t)
    PROVE  LocalStep(t)
<1> DEFINE r == NoLocals
<1>1. pc[t] = "checkTail"
  BY DEF PopEmpty
<1>2. r \in Locals
  BY <1>1, LocalTypes, NoLocalsTyped DEF Locals, Links, Ends, Elems, TailRead, HeadRead
<1>4. Gets(t, "idle", r) /\ tail' = tail
  BY <1>1, LocalTypes DEF PopEmpty, Gets, Retry, MoveTail, shared
<1> HIDE DEF r
<1>5. Typed' /\ Frame(t) /\ pc'[t] = "idle" /\ loc'[t] = r
  BY <1>2, <1>4, GetsTyped DEF Labels
<1>6. TailRead(t)' /\ HeadRead(t)'
  BY <1>1, <1>2, <1>4, <1>5, LocalTypes, Fields DEF Ends, TailRead, HeadRead, Gets
<1> QED BY <1>1, <1>2, <1>4, <1>5, <1>6 DEF LocalStep, Gets, PushLabels

(* A push seen under way.                                                   *)
LEMMA SeePushLocal ==
    ASSUME Typed, NEW t \in Threads, TailRead(t), HeadRead(t), Linked, SeePush(t)
    PROVE  LocalStep(t)
<1> DEFINE r == [loc[t] EXCEPT !.link.seq = loc[t].tseq]
<1>1. pc[t] = "checkTail" /\ loc[t].nxt # End
  BY DEF SeePush
<1>2. r \in Locals /\ r.link.seq = loc[t].tseq /\ r.link.node = loc[t].link.node /\ r.nxt = loc[t].nxt
  BY <1>1, LocalTypes, NoLocalsTyped DEF Locals, Links, Ends, Elems, TailRead, HeadRead
<1>4. Gets(t, "popHelp", r) /\ tail' = tail
  BY <1>1, LocalTypes DEF SeePush, Gets, Retry, MoveTail, shared
<1> HIDE DEF r
<1>5. Typed' /\ Frame(t) /\ pc'[t] = "popHelp" /\ loc'[t] = r
  BY <1>2, <1>4, GetsTyped DEF Labels
<1>6. TailRead(t)' /\ HeadRead(t)'
  BY <1>1, <1>2, <1>4, <1>5, LocalTypes, Fields DEF Ends, TailRead, HeadRead, Gets
<1> QED BY <1>1, <1>2, <1>4, <1>5, <1>6 DEF LocalStep, Gets, PushLabels

(* Helping a push, in a pop.                                                *)
LEMMA PopHelpLocal ==
    ASSUME Typed, NEW t \in Threads, TailRead(t), HeadRead(t), Linked, PopHelp(t)
    PROVE  LocalStep(t)
<1> DEFINE r == NoLocals
<1>1. pc[t] = "popHelp"
  BY DEF PopHelp
<1>2. r \in Locals
  BY <1>1, LocalTypes, NoLocalsTyped DEF Locals, Links, Ends, Elems, TailRead, HeadRead
<1>3. tail' \in Links /\ MoveTail
  BY <1>1, LocalTypes, Fields DEF PopHelp, FinishPush, MoveTail, Links, TailRead, HeadRead
<1>4. Gets(t, "readHeadSeq", r)
  BY <1>3, LocalTypes DEF PopHelp, Gets, Retry, shared
<1> HIDE DEF r
<1>5. Typed' /\ Frame(t) /\ pc'[t] = "readHeadSeq" /\ loc'[t] = r
  BY <1>2, <1>4, GetsTyped DEF Labels
<1>6. TailRead(t)' /\ HeadRead(t)'
  BY <1>1, <1>2, <1>4, <1>5, LocalTypes, Fields DEF Ends, TailRead, HeadRead, Gets
<1> QED BY <1>1, <1>2, <1>4, <1>5, <1>6 DEF LocalStep, Gets, PushLabels

(* A pNext that is the end, although the tail is elsewhere.                 *)
LEMMA ReadElemFails ==
    ASSUME Typed, NEW t \in Threads, TailRead(t), HeadRead(t), Linked, ReadElem(t),
           loc[t].nxt = End
    PROVE  LocalStep(t)
<1> DEFINE r == NoLocals
<1>1. pc[t] = "checkTail" /\ loc[t].link.node # tail.node
  BY DEF ReadElem
<1>2. r \in Locals
  BY <1>1, LocalTypes, NoLocalsTyped DEF Locals, Links, Ends, Elems, TailRead, HeadRead
<1>4. Gets(t, "readHeadSeq", r) /\ tail' = tail
  BY <1>1, LocalTypes DEF ReadElem, Gets, Retry, MoveTail, shared
<1> HIDE DEF r
<1>5. Typed' /\ Frame(t) /\ pc'[t] = "readHeadSeq" /\ loc'[t] = r
  BY <1>2, <1>4, GetsTyped DEF Labels
<1>6. TailRead(t)' /\ HeadRead(t)'
  BY <1>1, <1>2, <1>4, <1>5, LocalTypes, Fields DEF Ends, TailRead, HeadRead, Gets
<1> QED BY <1>1, <1>2, <1>4, <1>5, <1>6 DEF LocalStep, Gets, PushLabels

(* Reading the item.                                                        *)
LEMMA ReadElemReads ==
    ASSUME Typed, NEW t \in Threads, TailRead(t), HeadRead(t), Linked, ReadElem(t),
           loc[t].nxt # End
    PROVE  LocalStep(t)
<1> DEFINE r == [loc[t] EXCEPT !.item = elem[loc[t].nxt]]
<1>1. pc[t] = "checkTail" /\ loc[t].link.node # tail.node
  BY DEF ReadElem
<1>2. r \in Locals /\ r.link = loc[t].link /\ r.nxt = loc[t].nxt /\ r.item = elem[loc[t].nxt]
  BY <1>1, LocalTypes, NoLocalsTyped DEF Locals, Links, Ends, Elems, TailRead, HeadRead
<1>4. Gets(t, "moveHead", r) /\ tail' = tail
  BY <1>1, LocalTypes DEF ReadElem, Gets, Retry, MoveTail, shared
<1> HIDE DEF r
<1>5. Typed' /\ Frame(t) /\ pc'[t] = "moveHead" /\ loc'[t] = r
  BY <1>2, <1>4, GetsTyped DEF Labels
<1>6. TailRead(t)' /\ HeadRead(t)'
  BY <1>1, <1>2, <1>4, <1>5, LocalTypes, Fields DEF Ends, TailRead, HeadRead, Gets
<1> QED BY <1>1, <1>2, <1>4, <1>5, <1>6 DEF LocalStep, Gets, PushLabels

(* A head that moved before it could be taken.                              *)
LEMMA MoveHeadFails ==
    ASSUME Typed, NEW t \in Threads, TailRead(t), HeadRead(t), Linked, MoveHead(t),
           head # loc[t].link
    PROVE  LocalStep(t)
<1> DEFINE r == NoLocals
<1>1. pc[t] = "moveHead"
  BY DEF MoveHead
<1>2. r \in Locals
  BY <1>1, LocalTypes, NoLocalsTyped DEF Locals, Links, Ends, Elems, TailRead, HeadRead
<1>4. Gets(t, "readHeadSeq", r) /\ tail' = tail
  BY <1>1, LocalTypes DEF MoveHead, Gets, Retry, MoveTail, shared
<1> HIDE DEF r
<1>5. Typed' /\ Frame(t) /\ pc'[t] = "readHeadSeq" /\ loc'[t] = r
  BY <1>2, <1>4, GetsTyped DEF Labels
<1>6. TailRead(t)' /\ HeadRead(t)'
  BY <1>1, <1>2, <1>4, <1>5, LocalTypes, Fields DEF Ends, TailRead, HeadRead, Gets
<1> QED BY <1>1, <1>2, <1>4, <1>5, <1>6 DEF LocalStep, Gets, PushLabels

(* Counting a pop.                                                          *)
LEMMA CountPopLocal ==
    ASSUME Typed, NEW t \in Threads, TailRead(t), HeadRead(t), Linked, CountPop(t)
    PROVE  LocalStep(t)
<1> DEFINE r == loc[t]
<1>1. pc[t] = "countPop"
  BY DEF CountPop
<1>2. r \in Locals /\ r = loc[t]
  BY <1>1, LocalTypes, NoLocalsTyped DEF Locals, Links, Ends, Elems, TailRead, HeadRead
<1>4. Gets(t, "freeNode", r) /\ tail' = tail
  BY <1>1, LocalTypes DEF CountPop, Gets, Retry, MoveTail, shared
<1> HIDE DEF r
<1>5. Typed' /\ Frame(t) /\ pc'[t] = "freeNode" /\ loc'[t] = r
  BY <1>2, <1>4, GetsTyped DEF Labels
<1>6. TailRead(t)' /\ HeadRead(t)'
  BY <1>1, <1>2, <1>4, <1>5, LocalTypes, Fields DEF Ends, TailRead, HeadRead, Gets
<1> QED BY <1>1, <1>2, <1>4, <1>5, <1>6 DEF LocalStep, Gets, PushLabels

-----------------------------------------------------------------------------
(* What one thread has read is as it was after a step of another.          *)

\* What no step does to the two ends: a link that was changed has a new number;
\* as long as it has not, what follows it stays.
EndsKept ==
    /\ tail' = tail \/ tail'.seq = tail.seq + 1
    /\ head' = head \/ head'.seq = head.seq + 1
    /\ tail' = tail /\ next[tail.node] \in Nodes => next'[tail.node] = next[tail.node]
    /\ head' = head /\ next[head.node] \in Nodes =>
          /\ next'[head.node] = next[head.node]
          /\ elem'[next[head.node]] = elem[next[head.node]]
    /\ head' = head /\ tail.node # head.node => tail'.node # head.node

(* Another thread's reads are as good as before.                            *)
LEMMA OthersKept ==
    ASSUME Typed, NEW t \in Threads, NEW u \in Threads, u # t, Frame(t), EndsKept,
           Linked, TailRead(u), HeadRead(u)
    PROVE  TailRead(u)' /\ HeadRead(u)'
<1>1. pc'[u] = pc[u] /\ loc'[u] = loc[u]
  BY DEF Frame
<1>2. /\ head.seq \in Nat /\ tail.seq \in Nat /\ loc[u].link.seq \in Nat /\ loc[u].tseq \in Nat
      /\ next[tail.node] \in Nodes \cup {End}
  BY LocalTypes DEF Linked
<1>3. TailRead(u)'
  <2>1. CASE tail' = tail
    BY <1>1, <1>2, <2>1, QueueAssumption DEF EndsKept, TailRead
  <2>2. CASE tail'.seq = tail.seq + 1
    BY <1>1, <1>2, <2>2 DEF EndsKept, TailRead
  <2> QED BY <2>1, <2>2 DEF EndsKept
<1>4. HeadRead(u)'
  <2>1. CASE tail' = tail /\ head' = head
    BY <1>1, <1>2, <2>1 DEF EndsKept, HeadRead
  <2>2. CASE tail'.seq = tail.seq + 1 /\ head' = head
    BY <1>1, <1>2, <2>2 DEF EndsKept, HeadRead
  <2>3. CASE tail' = tail /\ head'.seq = head.seq + 1
    BY <1>1, <1>2, <2>3 DEF EndsKept, HeadRead
  <2>4. CASE tail'.seq = tail.seq + 1 /\ head'.seq = head.seq + 1
    BY <1>1, <1>2, <2>4 DEF EndsKept, HeadRead
  <2> QED BY <2>1, <2>2, <2>3, <2>4 DEF EndsKept
<1> QED BY <1>3, <1>4

-----------------------------------------------------------------------------
(* What the lists say of the queue.                                        *)

(* What the lists say of both ends of the queue.                            *)
LEMMA EndsOn ==
    ASSUME Typed, NEW M, NEW H, NEW F, NEW K, NEW O, Lists(M, H, F, K, O)
    PROVE  /\ head.node \in On(M) /\ tail.node \in On(M)
           /\ \A n \in On(M) : n \in Nodes /\ next[n] \in Nodes \cup {End}
           /\ \A n \in On(M) : next[n] \in Nodes => next[n] \in On(M) /\ next[n] # head.node
           /\ M = <<head.node>> \/ next[head.node] \in Nodes
<1>1. Path(next, head.node, M, End) /\ tail.node \in On(M)
  BY DEF Lists
<1>2. head.node \in Nodes /\ End \notin Nodes
  BY Types, QueueAssumption
<1>3. head.node \in On(M)
  BY <1>1, <1>2, PathStart
<1>4. \A n \in On(M) : /\ n \in Nodes /\ next[n] \in Nodes \cup {End}
                       /\ next[n] \in Nodes => next[n] \in On(M) /\ next[n] # head.node
  BY <1>1, <1>2, PathLinks
<1>5. next[head.node] = End => M = <<head.node>>
  <2> SUFFICES ASSUME next[head.node] = End PROVE M = <<head.node>>
    OBVIOUS
  <2>1. /\ M \in Seq(Nodes) /\ Len(M) \in Nat \ {0} /\ M[1] = head.node
        /\ head.node = M[Len(M)]
    BY <1>1, <1>2, <1>3, PathStart, PathLinks DEF Path
  <2>2. Len(M) = 1
    <3>1. 1 \in 1 .. Len(M) /\ Len(M) \in 1 .. Len(M)
      BY <2>1
    <3>2. \A i, j \in 1 .. Len(M) : M[i] = M[j] => i = j
      BY <1>1, PathFacts
    <3> QED BY <2>1, <3>1, <3>2
  <2> QED BY <2>1, <2>2
<1> QED BY <1>1, <1>3, <1>4, <1>5

(* What is behind the dummy are the items of the path but for its first.    *)
LEMMA InsideIs ==
    ASSUME NEW nx \in [Nodes -> Ends], NEW el \in [Nodes -> Elems], NEW n \in Nodes, NEW M,
           Path(nx, n, M, End)
    PROVE  ChainOf(nx, el, nx[n]) = Vals(el, Tail(M))
<1>1. Path(nx, nx[n], Tail(M), End)
  BY PathTail, QueueAssumption
<1> QED BY <1>1, ChainIsPath

(* The lists are linked as the steps need it.                               *)
LEMMA ListsLinked ==
    ASSUME Typed, NEW M, NEW H, NEW F, NEW K, NEW O, Lists(M, H, F, K, O)
    PROVE  Linked
<1>1. \A t \in Pushing : loc[t].node \in Nodes
  <2> TAKE t \in Pushing
  <2>1. t \in Threads /\ Path(next, loc[t].node, H[t], End)
    BY DEF Pushing, Lists
  <2>2. loc[t].node # End
    BY <2>1, Types, Fields, QueueAssumption
  <2> QED BY <2>1, <2>2, PathNodes
<1>2. next[tail.node] \in Nodes \cup {End}
  BY EndsOn
<1>3. next[head.node] = End => Inside = <<>>
  <2> SUFFICES ASSUME next[head.node] = End PROVE Inside = <<>>
    OBVIOUS
  <2>1. Inside = ChainOf(next, elem, End)
    BY DEF Inside, Chain, ChainOf
  <2>2. Path(next, End, <<>>, End)
    BY PathNone
  <2>3. ChainOf(next, elem, End) = Vals(elem, <<>>)
    BY <2>2, Types, ChainIsPath
  <2> QED BY <2>1, <2>3, ValsNone
<1> QED BY <1>1, <1>2, <1>3 DEF Linked

(* A step that leaves the lists alone keeps the invariant.                  *)
LEMMA LocalKept ==
    ASSUME Typed, NEW t \in Threads, LocalStep(t), Reads, NEW M, NEW H, NEW F, NEW K, NEW O, NEW B,
           Witnesses(M, H, F, K, O, B), Parts(M, H, F, K, O, B)
    PROVE  Reads' /\ Parts(M, H, F, K, O, B)'
<1>1. /\ recycle' = recycle /\ head' = head /\ next' = next /\ elem' = elem /\ freeTop' = freeTop
      /\ fresh' = fresh /\ pushed' = pushed /\ popped' = popped
      /\ \A u \in Threads : u # t => pc'[u] = pc[u] /\ loc'[u] = loc[u]
  BY DEF LocalStep, Frame
<1>2. Pushing' = Pushing /\ \A u \in Pushing : loc'[u].node = loc[u].node
  BY <1>1 DEF LocalStep, Pushing, PushLabels
<1>3. tail.node \in On(M) /\ tail'.node \in On(M) /\ (tail' # tail => tail'.node # head.node)
  BY EndsOn DEF LocalStep, MoveTail, Parts
<1>4. Reads'
  <2>1. Linked /\ EndsKept
    BY <1>1, <1>3, ListsLinked DEF LocalStep, MoveTail, EndsKept, Parts
  <2>2. \A u \in Threads : u # t => TailRead(u)' /\ HeadRead(u)'
    BY <2>1, OthersKept DEF LocalStep, Reads
  <2> QED BY <2>2 DEF LocalStep, Reads
<1>5. Lists(M, H, F, K, O)'
  <2>1. Path(next, head.node, M, End)' /\ Path(next, freeTop, F, Null)'
    BY <1>1 DEF Parts, Lists
  <2>2. \A u \in Pushing' : Path(next, loc[u].node, H[u], End)'
    BY <1>1, <1>2 DEF Parts, Lists
  <2>3. \A u \in Threads : pc'[u] \in {"countPop", "freeNode"} =>
          pc[u] \in {"countPop", "freeNode"} /\ loc'[u].link.node = loc[u].link.node
    BY <1>1 DEF LocalStep
  <2> QED BY <1>1, <1>2, <1>3, <2>1, <2>2, <2>3 DEF Parts, Lists
<1>6. Order(H, B)'
  <2>1. ASSUME NEW u \in Pushing', NEW v \in Pushing', pc'[u] = "linkNode", loc'[u].link.node \in On(H[v])
        PROVE  v \in B[u]
    <3>1. u \in Pushing /\ v \in Pushing
      BY <1>2
    <3>2. CASE u = t
      <4>1. loc'[u].link.node \in On(M)
        BY <1>3, <2>1, <3>2 DEF LocalStep
      <4>2. K[loc'[u].link.node] = "main" /\ K[loc'[u].link.node] = "hang"
        BY <2>1, <3>1, <4>1 DEF Parts, Lists
      <4> QED BY <4>2
    <3>3. CASE u # t
      BY <1>1, <2>1, <3>1, <3>3 DEF Parts, Order, Pushing
    <3> QED BY <3>2, <3>3
  <2> QED BY <2>1 DEF Parts, Order
<1>7. Content(M, H)'
  <2>1. Bearing(M, H)' = Bearing(M, H) /\ Begun' = Begun
    BY <1>1, <1>2 DEF Bearing, Begun
  <2>2. \A u \in Pushing' : pushed'[u] > 0 /\ elem'[loc'[u].node] = <<u, pushed'[u]>>
    BY <1>1, <1>2 DEF Parts, Content
  <2> QED BY <1>1, <2>1, <2>2 DEF Parts, Content
<1>8. Straight(H, K)'
  <2>1. Plain' = Plain
    BY <1>1 DEF Plain
  <2>2. \A u \in Threads : pc'[u] = "linkNode" =>
           \/ loc'[u].link.node = tail.node
           \/ pc[u] = "linkNode" /\ loc'[u].link.node = loc[u].link.node
    BY <1>1 DEF LocalStep
  <2>3. K[tail.node] = "main"
    BY <1>3 DEF Parts, Lists
  <2> QED BY <1>1, <1>2, <2>1, <2>2, <2>3 DEF Parts, Straight
<1> QED BY <1>4, <1>5, <1>6, <1>7, <1>8 DEF Parts

-----------------------------------------------------------------------------
(* Items and threads.                                                      *)

(* What a thread began: the k-th item, for k up to the number it pushed.    *)
LEMMA BegunIs ==
    ASSUME Typed, NEW i
    PROVE  i \in Begun <=> \E t \in Threads : \E k \in 1 .. pushed[t] : i = <<t, k>>
BY DEF Begun

(* A queue that is plain was plain when fewer threads had pushed.           *)
LEMMA PlainBefore ==
    ASSUME Typed, recycle' = recycle, pushed' \in [Threads -> Nat],
           \A t \in Threads : pushed[t] <= pushed'[t]
    PROVE  Plain' => Plain
<1> DEFINE Q == {t \in Threads : pushed[t] > 0}
           R == {t \in Threads : pushed'[t] > 0}
<1>1. Q \subseteq R /\ R \subseteq Threads
  BY Types
<1>2. IsFiniteSet(R)
  BY <1>1, QueueAssumption, FS_Subset
<1>3. Cardinality(Q) <= Cardinality(R) /\ Cardinality(Q) \in Nat /\ Cardinality(R) \in Nat
  BY <1>1, <1>2, FS_Subset, FS_CardinalityType
<1>4. Plain' <=> (~recycle \/ Cardinality(R) <= 1)
  BY DEF Plain
<1>5. Plain <=> (~recycle \/ Cardinality(Q) <= 1)
  BY DEF Plain
<1> HIDE DEF Q, R
<1> QED BY <1>3, <1>4, <1>5

-----------------------------------------------------------------------------
(* Taking a node.                                                          *)

(* The node taken is free or fresh, and becomes a path of its own.          *)
LEMMA TakeNodeKept ==
    ASSUME Typed, NEW t \in Threads, TakeNode(t), Reads, NEW M, NEW H, NEW F, NEW K, NEW O, NEW B,
           Witnesses(M, H, F, K, O, B), Parts(M, H, F, K, O, B)
    PROVE  /\ Inv' /\ Path(next', head'.node, M, End)
           /\ \A m \in On(M) : elem'[m] = elem[m]
<1> DEFINE n == IF freeTop # Null THEN freeTop ELSE FreshNode
           r == [loc[t] EXCEPT !.node = n]
<1>1. /\ pc[t] = "idle" /\ Goto(t, "readTailSeq")
      /\ freeTop' = IF n = freeTop THEN next[n] ELSE freeTop
      /\ fresh' = fresh \ {n}
      /\ elem' = [elem EXCEPT ![n] = <<t, pushed[t] + 1>>]
      /\ next' = [next EXCEPT ![n] = End]
      /\ loc' = [loc EXCEPT ![t] = r]
      /\ pushed' = [pushed EXCEPT ![t] = pushed[t] + 1]
      /\ recycle' = recycle /\ head' = head /\ tail' = tail /\ count' = count /\ popped' = popped
      /\ freeTop # Null \/ fresh # {}
  BY DEF TakeNode
<1>t. /\ freeTop \in Nodes \cup {Null} /\ fresh \subseteq Nodes /\ count \in Int
      /\ recycle \in BOOLEAN /\ popped \in Seq(Items) /\ pushed[t] \in Nat
  BY DEF Typed, TypeOK
<1>2. n \in Nodes /\ K[n] \in {"free", "fresh"} /\ (freeTop = Null => n \in fresh /\ K[n] = "fresh")
  <2>1. CASE freeTop # Null
    <3>1. freeTop \in On(F)
      BY <1>t, <2>1, PathStart, QueueAssumption DEF Parts, Lists
    <3> QED BY <1>t, <2>1, <3>1 DEF Parts, Lists
  <2>2. CASE freeTop = Null
    BY <1>1, <1>t, <2>2 DEF FreshNode, Parts, Lists
  <2> QED BY <2>1, <2>2
<1>3. r \in Locals /\ r.node = n
  BY <1>2, LocalTypes DEF Locals
<1> HIDE DEF n, r
<1>4. Frame(t) /\ pc' \in [Threads -> Labels] /\ loc' \in [Threads -> Locals]
      /\ pc'[t] = "readTailSeq" /\ loc'[t] = r
  BY <1>1, <1>3, Moves DEF Labels
<1>5. /\ Pushing' = Pushing \cup {t} /\ t \notin Pushing
      /\ \A u \in Pushing : u # t /\ loc'[u] = loc[u] /\ pc'[u] = pc[u]
  BY <1>1, <1>4 DEF Frame, Pushing
<1>6. /\ \A m \in Nodes : m # n => next'[m] = next[m] /\ elem'[m] = elem[m]
      /\ next'[n] = End /\ elem'[n] = <<t, pushed[t] + 1>>
      /\ next' \in [Nodes -> Ends] /\ elem' \in [Nodes -> Elems]
      /\ pushed' \in [Threads -> Nat] /\ pushed'[t] = pushed[t] + 1
      /\ \A u \in Threads : u # t => pushed'[u] = pushed[u]
  BY <1>1, <1>2, <1>t, Types DEF Ends, Elems, Items
<1>l. /\ On(M) \subseteq Nodes /\ n \notin On(M)
      /\ \A u \in Pushing : On(H[u]) \subseteq Nodes /\ n \notin On(H[u]) /\ loc[u].node \in On(H[u])
      /\ On(F) \subseteq Nodes
  <2>1. \A u \in Pushing : On(H[u]) \subseteq Nodes
    BY PathFacts DEF Parts, Lists, On
  <2>2. \A u \in Pushing : loc[u].node \in On(H[u])
    <3>1. \A u \in Pushing : loc[u].node \in Nodes
      BY ListsLinked DEF Linked, Parts
    <3> QED BY <3>1, PathStart, QueueAssumption DEF Parts, Lists
  <2>3. On(M) \subseteq Nodes /\ On(F) \subseteq Nodes
    BY PathFacts DEF Parts, Lists, On
  <2> QED BY <1>2, <2>1, <2>2, <2>3 DEF Parts, Lists
<1>7. PICK F2 : /\ F2 \in Seq(Nodes) /\ Path(next', freeTop', F2, Null) /\ On(F2) \subseteq On(F) \ {n}
                /\ freeTop' \in Nodes \cup {Null} /\ (freeTop = Null => freeTop' = Null)
  <2>1. CASE freeTop # Null
    <3>1. n = freeTop /\ freeTop' = next[n]
      BY <1>1, <2>1 DEF n
    <3>2. Path(next, next[n], Tail(F), Null) /\ On(Tail(F)) = On(F) \ {n}
      BY <1>2, <3>1, PathTail, QueueAssumption DEF Parts, Lists
    <3>3. Path(next', next[n], Tail(F), Null)
      BY <1>6, <1>l, <3>2, PathKept
    <3>4. next[n] \in Nodes \cup {Null}
      BY <3>2, PathNodes
    <3>5. Tail(F) \in Seq(Nodes)
      BY <3>2 DEF Path
    <3> QED BY <2>1, <3>1, <3>2, <3>3, <3>4, <3>5
  <2>2. CASE freeTop = Null
    <3>1. freeTop' = freeTop
      BY <1>1, <1>2, <2>2, QueueAssumption
    <3>2. n \notin On(F)
      BY <1>2, <2>2 DEF Parts, Lists
    <3>3. Path(next', freeTop, F, Null) /\ F \in Seq(Nodes)
      BY <1>6, <1>l, <3>2, PathKept, PathFacts DEF Parts, Lists
    <3> QED BY <1>t, <2>2, <3>1, <3>2, <3>3
  <2> QED BY <2>1, <2>2
<1>8. PICK H2 \in [Threads -> Seq(Nodes)] :
          /\ H2[t] = <<n>> /\ \A u \in Threads : u # t => H2[u] = H[u]
  <2>1. [H EXCEPT ![t] = <<n>>] \in [Threads -> Seq(Nodes)]
    BY <1>2 DEF Witnesses
  <2> QED BY <2>1 DEF Witnesses
<1>9. PICK K2 \in [Nodes -> Kinds] : K2[n] = "hang" /\ \A m \in Nodes : m # n => K2[m] = K[m]
  <2>1. [K EXCEPT ![n] = "hang"] \in [Nodes -> Kinds]
    BY <1>2 DEF Witnesses, Kinds
  <2> QED BY <1>2, <2>1 DEF Witnesses
<1>10. PICK O2 \in [Nodes -> Threads \cup {Null}] : O2[n] = t /\ \A m \in Nodes : m # n => O2[m] = O[m]
  <2>1. [O EXCEPT ![n] = t] \in [Nodes -> Threads \cup {Null}]
    BY <1>2 DEF Witnesses
  <2> QED BY <1>2, <2>1 DEF Witnesses
<1>11. PICK B2 \in [Threads -> SUBSET Threads] :
           B2[t] = {} /\ \A u \in Threads : u # t => B2[u] = B[u] \cup {t}
  <2>1. [u \in Threads |-> IF u = t THEN {} ELSE B[u] \cup {t}] \in [Threads -> SUBSET Threads]
    BY DEF Witnesses
  <2> QED BY <2>1
<1>12. On(<<n>>) = {n} /\ Path(next', n, <<n>>, End)
  BY <1>2, <1>6, PathOne
<1>13. Typed'
  <2>1. elem' \in [Nodes -> Items \cup {Nothing}] /\ next' \in [Nodes -> Nodes \cup {End, Null}]
    BY <1>6 DEF Elems, Ends
  <2>2. \A u \in Threads : loc'[u].nxt \in Nodes \cup {End, Null}
    BY <1>4, Fields DEF Ends
  <2>3. fresh' \subseteq Nodes
    BY <1>1, <1>t
  <2> QED BY <1>1, <1>4, <1>6, <1>7, <1>t, <2>1, <2>2, <2>3, Types DEF Typed, TypeOK
<1>14. Lists(M, H2, F2, K2, O2)'
  <2>1. Path(next', head.node, M, End) /\ \A m \in On(M) : K2[m] = "main"
    <3>1. \A m \in On(M) : next'[m] = next[m] /\ K2[m] = K[m]
      BY <1>6, <1>9, <1>l
    <3>2. Path(next, head.node, M, End) /\ \A m \in On(M) : K[m] = "main"
      BY DEF Parts, Lists
    <3> QED BY <3>1, <3>2, PathKept
  <2>2. ASSUME NEW u \in Pushing'
        PROVE  Path(next', loc'[u].node, H2[u], End) /\ \A m \in On(H2[u]) : K2[m] = "hang" /\ O2[m] = u
    <3>1. CASE u = t
      BY <1>3, <1>4, <1>8, <1>9, <1>10, <1>12, <3>1
    <3>2. CASE u # t
      <4>1. u \in Pushing /\ u \in Threads /\ H2[u] = H[u] /\ loc'[u] = loc[u]
        BY <1>5, <1>8, <3>2 DEF Pushing
      <4>2. \A m \in On(H[u]) : next'[m] = next[m] /\ K2[m] = K[m] /\ O2[m] = O[m]
        BY <1>6, <1>9, <1>10, <1>l, <4>1
      <4>3. Path(next, loc[u].node, H[u], End) /\ \A m \in On(H[u]) : K[m] = "hang" /\ O[m] = u
        BY <4>1 DEF Parts, Lists
      <4>4. Path(next', loc[u].node, H[u], End)
        BY <4>2, <4>3, PathKept
      <4> QED BY <4>1, <4>2, <4>3, <4>4
    <3> QED BY <3>1, <3>2
  <2>3. (\A m \in On(F2) : K2[m] = "free") /\ (\A m \in fresh' : K2[m] = "fresh")
    BY <1>1, <1>7, <1>9, <1>l, <1>t DEF Parts, Lists
  <2>4. ASSUME NEW u \in Threads, pc'[u] \in {"countPop", "freeNode"}
        PROVE  LET m == loc'[u].link.node
               IN  m \in Nodes /\ K2[m] = "held" /\ O2[m] = u /\ next'[m] \in Nodes
    <3>1. u # t /\ pc[u] = pc'[u] /\ loc'[u] = loc[u]
      BY <1>4, <2>4 DEF Frame
    <3>2. LET m == loc[u].link.node
          IN  m \in Nodes /\ K[m] = "held" /\ O[m] = u /\ next[m] \in Nodes
      BY <2>4, <3>1 DEF Parts, Lists
    <3> QED BY <1>2, <1>6, <1>9, <1>10, <3>1, <3>2
  <2>5. ASSUME NEW m \in Nodes, next'[m] = End
        PROVE  m \in On(M) \/ \E u \in Pushing' : m \in On(H2[u])
    <3>1. CASE m = n
      BY <1>5, <1>8, <1>12, <3>1
    <3>2. CASE m # n
      <4>1. m \in On(M) \/ \E u \in Pushing : m \in On(H[u])
        BY <1>6, <2>5, <3>2 DEF Parts, Lists
      <4> QED BY <1>5, <1>8, <4>1 DEF Pushing
    <3> QED BY <3>1, <3>2
  <2>6. tail'.node \in On(M)
    BY <1>1 DEF Parts, Lists
  <2> QED BY <1>1, <1>7, <2>1, <2>2, <2>3, <2>4, <2>5, <2>6 DEF Lists
<1>15. Order(H2, B2)'
  <2>0. /\ \A u \in Threads : u \notin B[u]
        /\ \A u, v, w \in Threads : v \in B[u] /\ w \in B[v] => w \in B[u]
    BY DEF Parts, Order
  <2>b. \A u, v \in Threads : v \in B2[u] <=> u # t /\ (v = t \/ v \in B[u])
    BY <1>11
  <2>1. \A u \in Threads : u \notin B2[u]
    BY <2>0, <2>b
  <2>2. \A u, v, w \in Threads : v \in B2[u] /\ w \in B2[v] => w \in B2[u]
    BY <2>0, <2>b
  <2>3. ASSUME NEW u \in Pushing', NEW v \in Pushing', pc'[u] = "linkNode", loc'[u].link.node \in On(H2[v])
        PROVE  v \in B2[u]
    <3>1. u \in Pushing /\ u # t /\ u \in Threads
      BY <1>4, <1>5, <2>3 DEF Pushing
    <3>2. CASE v = t
      BY <2>b, <3>1, <3>2
    <3>3. CASE v # t
      <4>1. v \in Pushing /\ v \in Threads /\ H2[v] = H[v] /\ loc'[u] = loc[u] /\ pc'[u] = pc[u]
        BY <1>5, <1>8, <3>1, <3>3 DEF Pushing
      <4>2. v \in B[u]
        BY <2>3, <3>1, <4>1 DEF Parts, Order
      <4> QED BY <2>b, <3>1, <4>1, <4>2
    <3> QED BY <3>2, <3>3
  <2> QED BY <2>1, <2>2, <2>3 DEF Order
<1>16. Content(M, H2)'
  <2>1. Bearing(M, H2)' = Bearing(M, H) \cup {n} /\ n \notin Bearing(M, H) /\ Bearing(M, H) \subseteq Nodes
    <3>1. \A m : m \in Bearing(M, H) <=>
               (m \in On(M) /\ m # head.node) \/ \E u \in Pushing : m \in On(H[u])
      BY DEF Bearing
    <3>2. \A m : m \in Bearing(M, H2)' <=>
               (m \in On(M) /\ m # head'.node) \/ \E u \in Pushing' : m \in On(H2[u])
      BY DEF Bearing
    <3>3. \A u \in Pushing : H2[u] = H[u]
      BY <1>5, <1>8 DEF Pushing
    <3>4. \A m : (\E u \in Pushing' : m \in On(H2[u])) <=> m = n \/ \E u \in Pushing : m \in On(H[u])
      BY <1>5, <1>8, <1>12, <3>3
    <3>5. \A m : m \in Bearing(M, H2)' <=> m \in Bearing(M, H) \/ m = n
      BY <1>1, <3>1, <3>2, <3>4
    <3>6. n \notin Bearing(M, H) /\ \A m \in Bearing(M, H) : m \in Nodes
      BY <1>l, <3>1
    <3> QED BY <3>5, <3>6
  <2>2. Begun' = Begun \cup {<<t, pushed[t] + 1>>} /\ <<t, pushed[t] + 1>> \notin Begun
    <3>1. \A i : i \in Begun' <=> \E u \in Threads : \E k \in 1 .. pushed'[u] : i = <<u, k>>
      BY DEF Begun
    <3>2. \A i : i \in Begun <=> \E u \in Threads : \E k \in 1 .. pushed[u] : i = <<u, k>>
      BY BegunIs
    <3>3. 1 .. pushed[t] + 1 = 1 .. pushed[t] \cup {pushed[t] + 1}
      BY <1>t
    <3>4. \A u \in Threads : u # t => 1 .. pushed'[u] = 1 .. pushed[u]
      BY <1>6
    <3>5. <<t, pushed[t] + 1>> \notin Begun
      BY <1>t, <3>2
    <3>6. \A i \in Begun' : i \in Begun \/ i = <<t, pushed[t] + 1>>
      <4> TAKE i \in Begun'
      <4>1. PICK u \in Threads : \E k \in 1 .. pushed'[u] : i = <<u, k>>
        BY <3>1
      <4>2. CASE u = t
        BY <1>6, <3>2, <3>3, <4>1, <4>2
      <4>3. CASE u # t
        BY <3>2, <3>4, <4>1, <4>3
      <4> QED BY <4>2, <4>3
    <3>7. \A i \in Begun : i \in Begun'
      <4> TAKE i \in Begun
      <4>1. PICK u \in Threads : \E k \in 1 .. pushed[u] : i = <<u, k>>
        BY <3>2
      <4>2. 1 .. pushed[u] \subseteq 1 .. pushed'[u]
        BY <1>6, <3>3, <3>4
      <4> QED BY <3>1, <4>1, <4>2
    <3>8. <<t, pushed[t] + 1>> \in Begun'
      BY <1>6, <1>t, <3>1
    <3> QED BY <3>5, <3>6, <3>7, <3>8
  <2>3. \A m \in Bearing(M, H) : elem'[m] = elem[m] /\ elem[m] \in Begun /\ m # n
    BY <1>6, <2>1 DEF Parts, Content
  <2>4. \A m, k \in Bearing(M, H2)' : elem'[m] = elem'[k] => m = k
    <3>1. \A m, k \in Bearing(M, H) : elem[m] = elem[k] => m = k
      BY DEF Parts, Content
    <3>2. \A m \in Bearing(M, H2)' : m \in Bearing(M, H) \/ m = n
      BY <2>1
    <3>3. elem'[n] \notin Begun
      BY <1>6, <2>2
    <3>4. \A m \in Bearing(M, H) : elem'[m] = elem[m] /\ elem'[m] \in Begun
      BY <2>3
    <3> QED BY <3>1, <3>2, <3>3, <3>4
  <2>5. On(popped') = On(popped) /\ On(popped) \subseteq Begun
    BY <1>1 DEF Parts, Content
  <2>6. \A m \in Bearing(M, H2)' : elem'[m] \notin On(popped')
    BY <1>6, <2>1, <2>2, <2>3, <2>5 DEF Parts, Content
  <2>7. Begun' = On(popped') \cup {elem'[m] : m \in Bearing(M, H2)'}
    <3>1. \A i : i \in {elem'[m] : m \in Bearing(M, H2)'} <=>
                   i = <<t, pushed[t] + 1>> \/ \E m \in Bearing(M, H) : i = elem[m]
      <4>1. elem'[n] = <<t, pushed[t] + 1>> /\ \A m \in Bearing(M, H) : elem'[m] = elem[m]
        BY <1>6, <2>3
      <4>2. \A m : m \in Bearing(M, H2)' <=> m \in Bearing(M, H) \/ m = n
        BY <2>1
      <4> QED BY <4>1, <4>2
    <3>2. \A i : i \in Begun <=> i \in On(popped) \/ \E m \in Bearing(M, H) : i = elem[m]
      BY DEF Parts, Content
    <3> QED BY <2>2, <2>5, <3>1, <3>2
  <2>8. ASSUME NEW u \in Pushing' PROVE pushed'[u] > 0 /\ elem'[loc'[u].node] = <<u, pushed'[u]>>
    <3>1. CASE u = t
      BY <1>3, <1>4, <1>6, <1>t, <3>1
    <3>2. CASE u # t
      <4>1. u \in Pushing /\ u \in Threads /\ loc'[u] = loc[u] /\ pushed'[u] = pushed[u]
        BY <1>5, <1>6, <3>2 DEF Pushing
      <4>2. elem'[loc[u].node] = elem[loc[u].node]
        BY <1>6, <1>l, <4>1
      <4> QED BY <4>1, <4>2 DEF Parts, Content
    <3> QED BY <3>1, <3>2
  <2>9. \A i, j \in 1 .. Len(popped') : popped'[i] = popped'[j] => i = j
    BY <1>1 DEF Parts, Content
  <2> QED BY <2>4, <2>6, <2>7, <2>8, <2>9 DEF Content
<1>17. Straight(H2, K2)'
  <2>1. Plain' => Plain
    <3>1. \A u \in Threads : pushed[u] <= pushed'[u]
      <4>1. \A u \in Threads : pushed[u] \in Nat
        BY Types
      <4>2. pushed'[t] = pushed[t] + 1 /\ \A u \in Threads : u # t => pushed'[u] = pushed[u]
        BY <1>6
      <4> TAKE u \in Threads
      <4>3. pushed[u] \in Nat /\ (pushed'[u] = pushed[u] + 1 \/ pushed'[u] = pushed[u])
        BY <4>1, <4>2
      <4> QED BY <4>3
    <3> QED BY <1>1, <1>6, <3>1, PlainBefore
  <2>2. ASSUME Plain', NEW u \in Pushing' PROVE next'[loc'[u].node] = End
    <3>1. CASE u = t
      BY <1>3, <1>4, <1>6, <3>1
    <3>2. CASE u # t
      <4>1. u \in Pushing /\ u \in Threads /\ loc'[u] = loc[u]
        BY <1>5, <1>6, <3>2 DEF Pushing
      <4>2. next[loc[u].node] = End
        BY <2>1, <2>2, <4>1 DEF Parts, Straight
      <4> QED BY <1>6, <1>l, <4>1, <4>2
    <3> QED BY <3>1, <3>2
  <2>3. ASSUME ~recycle, NEW u \in Threads, pc'[u] = "linkNode"
        PROVE  K2[loc'[u].link.node] \in {"main", "held", "gone"}
    <3>1. u # t /\ pc[u] = "linkNode" /\ loc'[u] = loc[u]
      BY <1>4, <2>3 DEF Frame
    <3>2. loc[u].link.node \in Nodes
      BY <3>1 DEF Reads, TailRead
    <3> QED BY <1>2, <1>9, <2>3, <3>1, <3>2 DEF Parts, Straight
  <2> QED BY <1>1, <1>7, <2>2, <2>3 DEF Straight, Parts
<1>18. Reads'
  <2>1. Linked /\ tail.node \in On(M) /\ (next[head.node] \in Nodes => next[head.node] \in On(M)) /\ head.node \in On(M)
    BY ListsLinked, EndsOn DEF Parts
  <2>2. EndsKept
    BY <1>1, <1>6, <1>l, <2>1 DEF EndsKept
  <2>3. TailRead(t)' /\ HeadRead(t)'
    BY <1>4 DEF TailRead, HeadRead
  <2>4. \A u \in Threads : u # t => TailRead(u)' /\ HeadRead(u)'
    BY <1>4, <2>1, <2>2, OthersKept DEF Reads
  <2> QED BY <2>3, <2>4 DEF Reads
<1>19. Parts(M, H2, F2, K2, O2, B2)' /\ Witnesses(M, H2, F2, K2, O2, B2)
  BY <1>7, <1>14, <1>15, <1>16, <1>17 DEF Parts, Witnesses
<1>20. Path(next', head'.node, M, End) /\ \A m \in On(M) : elem'[m] = elem[m]
  BY <1>1, <1>6, <1>14, <1>l DEF Lists
<1>21. Inv'
  BY <1>13, <1>18, <1>19 DEF Inv
<1> QED BY <1>20, <1>21

-----------------------------------------------------------------------------
(* Linking a node.                                                         *)

(* The nodes of the lists.                                                  *)
LEMMA ListNodes ==
    ASSUME Typed, NEW M, NEW H, NEW F, NEW K, NEW O, Lists(M, H, F, K, O)
    PROVE  /\ \A n \in On(M) : n \in Nodes /\ K[n] = "main"
           /\ \A n \in On(F) : n \in Nodes /\ K[n] = "free"
           /\ \A u \in Pushing : /\ \A n \in On(H[u]) : n \in Nodes /\ K[n] = "hang" /\ O[n] = u
                                 /\ loc[u].node \in Nodes /\ loc[u].node \in On(H[u])
                                 /\ u \in Threads
<1>1. \A u \in Pushing : loc[u].node \in Nodes /\ u \in Threads
  BY ListsLinked DEF Linked, Pushing
<1>2. \A u \in Pushing : loc[u].node \in On(H[u])
  BY <1>1, PathStart, QueueAssumption DEF Lists
<1>3. \A u \in Pushing : \A n \in On(H[u]) : n \in Nodes
  BY PathFacts DEF Lists, On
<1>4. (\A n \in On(M) : n \in Nodes) /\ (\A n \in On(F) : n \in Nodes)
  BY PathFacts DEF Lists, On
<1> QED BY <1>1, <1>2, <1>3, <1>4 DEF Lists

(* The nodes that bear an item, one by one.                                 *)
LEMMA BearingIs ==
    ASSUME NEW M, NEW H, NEW m
    PROVE  m \in Bearing(M, H) <=>
               (m \in On(M) /\ m # head.node) \/ \E u \in Pushing : m \in On(H[u])
BY DEF Bearing

\* t has linked its nodes behind a node that was an end.
Linking(t, last) ==
    /\ last \in Nodes /\ next[last] = End /\ loc[t].link.node = last
    /\ pc[t] = "linkNode" /\ pc'[t] = "finishPush" /\ Frame(t) /\ loc' = loc
    /\ next' = [next EXCEPT ![last] = loc[t].node]
    /\ UNCHANGED <<recycle, head, tail, elem, freeTop, fresh, pushed, popped>>
    /\ loc[t].node \in Nodes
    /\ Pushing' = Pushing \ {t} /\ t \in Pushing
    /\ Typed'

(* What is common to both kinds of last node.                               *)
LEMMA LinkNodeLinks ==
    ASSUME Typed, NEW t \in Threads, LinkNode(t), next[loc[t].link.node] = End, Reads,
           NEW M, NEW H, NEW F, NEW K, NEW O, Lists(M, H, F, K, O)
    PROVE  Linking(t, loc[t].link.node) /\ Reads'
<1> DEFINE last == loc[t].link.node
<1>1. /\ pc[t] = "linkNode" /\ Goto(t, "finishPush") /\ loc' = loc /\ count' = count
      /\ next' = [next EXCEPT ![last] = loc[t].node]
      /\ UNCHANGED <<recycle, head, tail, elem, freeTop, fresh, pushed, popped>>
  BY DEF LinkNode
<1>2. last \in Nodes
  BY <1>1 DEF Reads, TailRead
<1> HIDE DEF last
<1>3. Frame(t) /\ pc' \in [Threads -> Labels] /\ loc' \in [Threads -> Locals] /\ pc'[t] = "finishPush"
  BY <1>1, Stays DEF Labels
<1>4. Pushing' = Pushing \ {t} /\ t \in Pushing
  BY <1>1, <1>3 DEF Frame, Pushing
<1>5. loc[t].node \in Nodes
  BY <1>4, ListNodes
<1>6. Typed'
  <2>1. next' \in [Nodes -> Nodes \cup {End, Null}]
    BY <1>1, <1>2, <1>5, Types DEF Ends
  <2>2. \A u \in Threads : loc'[u].nxt \in Nodes \cup {End, Null}
    BY <1>1, Types, Fields DEF Ends
  <2> QED BY <1>1, <1>3, <2>1, <2>2 DEF Typed, TypeOK
<1>7. EndsKept
  <2>1. \A n \in Nodes : next[n] \in Nodes => next'[n] = next[n]
    BY <1>1, <1>2, Types, QueueAssumption DEF last
  <2> QED BY <1>1, <2>1, Types DEF EndsKept
<1>8. Reads'
  <2>1. \A u \in Threads : u # t => TailRead(u)' /\ HeadRead(u)'
    BY <1>3, <1>7, ListsLinked, OthersKept DEF Reads
  <2>2. TailRead(t)'
    <3>1. /\ loc[t].link.seq <= tail.seq /\ loc[t].link.node \in Nodes
          /\ loc[t].link.seq = tail.seq => loc[t].link.node = tail.node
      BY <1>1 DEF Reads, TailRead
    <3>2. next'[loc[t].link.node] = loc[t].node
      BY <1>1, <1>2, Types DEF last
    <3> QED BY <1>1, <1>3, <1>5, <3>1, <3>2 DEF TailRead
  <2>3. HeadRead(t)'
    BY <1>3 DEF HeadRead
  <2> QED BY <2>1, <2>2, <2>3 DEF Reads
<1> QED BY <1>1, <1>2, <1>3, <1>4, <1>5, <1>6, <1>8 DEF Linking, last

(* The items stay what they are when the same nodes bear them.              *)
LEMMA ContentKept ==
    ASSUME NEW M, NEW H, NEW M2, NEW H2, Content(M, H), Bearing(M2, H2)' = Bearing(M, H),
           \A m \in Bearing(M, H) : elem'[m] = elem[m], popped' = popped, pushed' = pushed,
           \A u \in Pushing' : u \in Pushing /\ loc'[u].node = loc[u].node
                               /\ elem'[loc[u].node] = elem[loc[u].node]
    PROVE  Content(M2, H2)'
<1> DEFINE P == Bearing(M, H)
<1>1. Begun' = Begun
  BY DEF Begun
<1>2. \A m, n \in Bearing(M2, H2)' : elem'[m] = elem'[n] => m = n
  BY DEF Content
<1>3. \A n \in Bearing(M2, H2)' : elem'[n] \notin On(popped')
  BY DEF Content
<1>4. Begun' = On(popped') \cup {elem'[n] : n \in Bearing(M2, H2)'}
  <2>1. Begun = On(popped) \cup {elem[n] : n \in Bearing(M, H)}
    BY DEF Content
  <2>2. {elem'[n] : n \in Bearing(M2, H2)'} = {elem[n] : n \in Bearing(M, H)}
    OBVIOUS
  <2> QED BY <1>1, <2>1, <2>2
<1>5. \A u \in Pushing' : pushed'[u] > 0 /\ elem'[loc'[u].node] = <<u, pushed'[u]>>
  BY DEF Content
<1>6. \A i, j \in 1 .. Len(popped') : popped'[i] = popped'[j] => i = j
  BY DEF Content
<1> QED BY <1>2, <1>3, <1>4, <1>5, <1>6 DEF Content

(* Behind the last node of the queue: everything that hung off t's node is  *)
(* in the queue now.                                                        *)
LEMMA LinkedMain ==
    ASSUME Typed, Reads, NEW t \in Threads, NEW last, Linking(t, last),
           NEW M, NEW H, NEW F, NEW K, NEW O, NEW B,
           Witnesses(M, H, F, K, O, B), Parts(M, H, F, K, O, B), last \in On(M)
    PROVE  /\ \E K2 : Witnesses(M \o H[t], H, F, K2, O, B) /\ Parts(M \o H[t], H, F, K2, O, B)'
           /\ Path(next', head.node, M \o H[t], End)
<1>1. /\ next' = [next EXCEPT ![last] = loc[t].node] /\ loc' = loc
      /\ recycle' = recycle /\ head' = head /\ tail' = tail /\ elem' = elem /\ freeTop' = freeTop
      /\ fresh' = fresh /\ pushed' = pushed /\ popped' = popped
      /\ pc'[t] = "finishPush" /\ Pushing' = Pushing \ {t} /\ t \in Pushing
      /\ \A u \in Threads : u # t => pc'[u] = pc[u]
      /\ last \in Nodes /\ next[last] = End /\ loc[t].node \in Nodes
  BY DEF Linking, Frame
<1>2. \A n \in Nodes : n # last => next'[n] = next[n]
  BY <1>1, Types
<1>n. next'[last] = loc[t].node
  BY <1>1, Types
<1>3. /\ \A n \in On(M) : n \in Nodes /\ K[n] = "main"
      /\ \A n \in On(F) : n \in Nodes /\ K[n] = "free"
      /\ \A u \in Pushing : /\ \A n \in On(H[u]) : n \in Nodes /\ K[n] = "hang" /\ O[n] = u
                            /\ loc[u].node \in Nodes /\ loc[u].node \in On(H[u])
                            /\ u \in Threads
  BY ListNodes DEF Parts
<1>4. PICK M2 \in Seq(Nodes) : M2 = M \o H[t]
  <2>1. M \in Seq(Nodes) /\ H[t] \in Seq(Nodes)
    BY DEF Witnesses
  <2> QED BY <2>1, ConcatProperties
<1>5. Path(next', head.node, M2, End) /\ On(M2) = On(M) \cup On(H[t])
  <2>1. Path(next, head.node, M, End) /\ Path(next, loc[t].node, H[t], End)
    BY <1>1 DEF Parts, Lists
  <2>2. M[Len(M)] = last
    BY <1>1, <2>1, PathLinks, QueueAssumption
  <2>3. \A k \in On(M) : k \notin On(H[t])
    BY <1>1, <1>3
  <2>4. head.node \in Nodes /\ loc[t].node \in Nodes /\ End \notin Nodes
    BY <1>1, Types, QueueAssumption
  <2>5. next'[M[Len(M)]] = loc[t].node /\ \A k \in Nodes : k # M[Len(M)] => next'[k] = next[k]
    BY <1>2, <1>n, <2>2
  <2>6. Path(next', head.node, M \o H[t], End) /\ On(M \o H[t]) = On(M) \cup On(H[t])
    <3>1. Joining(next, next', head.node, M, loc[t].node, H[t], End)
      BY <2>1, <2>3, <2>4, <2>5 DEF Joining
    <3> QED BY <3>1, PathJoin
  <2> QED BY <1>4, <2>6
<1>6. PICK K2 \in [Nodes -> Kinds] :
          /\ \A m \in On(H[t]) : K2[m] = "main"
          /\ \A m \in Nodes : m \notin On(H[t]) => K2[m] = K[m]
  <2>1. [m \in Nodes |-> IF m \in On(H[t]) THEN "main" ELSE K[m]] \in [Nodes -> Kinds]
    BY DEF Witnesses, Kinds
  <2> QED BY <1>1, <1>3, <2>1
<1>7. Lists(M2, H, F, K2, O)'
  <2>1. \A m \in On(M2) : K2[m] = "main"
    BY <1>3, <1>5, <1>6
  <2>2. ASSUME NEW u \in Pushing'
        PROVE  Path(next', loc'[u].node, H[u], End) /\ \A m \in On(H[u]) : K2[m] = "hang" /\ O[m] = u
    <3>1. u \in Pushing /\ u # t
      BY <1>1
    <3>2. \A m \in On(H[u]) : next'[m] = next[m] /\ K2[m] = K[m]
      BY <1>1, <1>2, <1>3, <1>6, <3>1
    <3>3. Path(next, loc[u].node, H[u], End)
      BY <3>1 DEF Parts, Lists
    <3>4. Path(next', loc[u].node, H[u], End)
      BY <3>2, <3>3, PathKept
    <3> QED BY <1>1, <1>3, <3>1, <3>2, <3>4
  <2>3. Path(next', freeTop, F, Null) /\ \A m \in On(F) : K2[m] = "free"
    <3>1. \A m \in On(F) : next'[m] = next[m] /\ K2[m] = K[m]
      BY <1>1, <1>2, <1>3, <1>6
    <3>2. Path(next, freeTop, F, Null)
      BY DEF Parts, Lists
    <3> QED BY <1>3, <3>1, <3>2, PathKept
  <2>4. \A m \in fresh : K2[m] = "fresh"
    <3>1. \A m \in fresh : m \in Nodes /\ K[m] = "fresh"
      BY DEF Parts, Lists, Typed, TypeOK
    <3> QED BY <1>1, <1>3, <1>6, <3>1
  <2>5. ASSUME NEW u \in Threads, pc'[u] \in {"countPop", "freeNode"}
        PROVE  LET m == loc'[u].link.node
               IN  m \in Nodes /\ K2[m] = "held" /\ O[m] = u /\ next'[m] \in Nodes
    <3>1. u # t /\ pc[u] = pc'[u] /\ loc'[u] = loc[u]
      BY <1>1, <2>5
    <3>2. LET m == loc[u].link.node
          IN  m \in Nodes /\ K[m] = "held" /\ O[m] = u /\ next[m] \in Nodes
      BY <2>5, <3>1 DEF Parts, Lists
    <3>3. LET m == loc[u].link.node IN m # last /\ m \notin On(H[t])
      BY <1>1, <1>3, <3>2
    <3> QED BY <1>2, <1>6, <3>1, <3>2, <3>3
  <2>6. ASSUME NEW m \in Nodes, next'[m] = End
        PROVE  m \in On(M2) \/ \E u \in Pushing' : m \in On(H[u])
    <3>1. m # last /\ next[m] = End
      BY <1>1, <1>2, <1>n, <2>6, QueueAssumption
    <3>2. m \in On(M) \/ \E u \in Pushing : m \in On(H[u])
      BY <3>1 DEF Parts, Lists
    <3> QED BY <1>1, <1>5, <3>2
  <2>7. tail.node \in On(M2)
    BY <1>5 DEF Parts, Lists
  <2> QED BY <1>1, <1>5, <2>1, <2>2, <2>3, <2>4, <2>5, <2>6, <2>7 DEF Lists
<1>8. Order(H, B)'
  <2>1. \A u \in Pushing' : u \in Pushing /\ pc'[u] = pc[u] /\ loc'[u] = loc[u]
    BY <1>1, <1>3
  <2> QED BY <2>1 DEF Parts, Order
<1>9. Content(M2, H)'
  <2>1. head.node \in On(M)
    BY EndsOn DEF Parts
  <2>2. \A m : m \in Bearing(M2, H)' <=>
               (m \in On(M2) /\ m # head'.node) \/ \E u \in Pushing' : m \in On(H[u])
    BY DEF Bearing
  <2>3. \A m : m \in Bearing(M2, H)' <=> m \in Bearing(M, H)
    <3>1. head.node \notin On(H[t])
      BY <1>1, <1>3, <2>1
    <3> QED BY <1>1, <1>5, <2>2, <3>1, BearingIs
  <2>4. Bearing(M2, H)' = Bearing(M, H)
    BY <2>3
  <2> QED BY <1>1, <2>4, ContentKept DEF Parts
<1>10. Straight(H, K2)'
  <2>1. Plain' = Plain
    BY <1>1 DEF Plain
  <2>2. ASSUME Plain, NEW u \in Pushing' PROVE next'[loc'[u].node] = End
    <3>1. u \in Pushing /\ loc[u].node # last /\ loc[u].node \in Nodes
      BY <1>1, <1>3
    <3> QED BY <1>1, <1>2, <2>2, <3>1 DEF Parts, Straight
  <2>3. ASSUME ~recycle, NEW u \in Threads, pc'[u] = "linkNode"
        PROVE  K2[loc'[u].link.node] \in {"main", "held", "gone"}
    <3>1. u # t /\ pc[u] = "linkNode" /\ loc'[u] = loc[u]
      BY <1>1, <2>3
    <3>2. K[loc[u].link.node] \in {"main", "held", "gone"}
      BY <2>3, <3>1 DEF Parts, Straight
    <3>3. loc[u].link.node \in Nodes
      BY <3>1 DEF Reads, TailRead
    <3> QED BY <1>6, <3>1, <3>2, <3>3
  <2> QED BY <1>1, <2>1, <2>2, <2>3 DEF Straight, Parts
<1> QED BY <1>4, <1>5, <1>6, <1>7, <1>8, <1>9, <1>10 DEF Parts, Witnesses

(* Behind the last node that hangs off another thread's: both hang there.   *)
LEMMA LinkedHung ==
    ASSUME Typed, Reads, NEW t \in Threads, NEW last, Linking(t, last),
           NEW M, NEW H, NEW F, NEW K, NEW O, NEW B,
           Witnesses(M, H, F, K, O, B), Parts(M, H, F, K, O, B),
           NEW v \in Pushing, last \in On(H[v])
    PROVE  /\ \E H2, O2 : Witnesses(M, H2, F, K, O2, B) /\ Parts(M, H2, F, K, O2, B)'
           /\ Path(next', head.node, M, End)
<1>1. /\ next' = [next EXCEPT ![last] = loc[t].node] /\ loc' = loc
      /\ recycle' = recycle /\ head' = head /\ tail' = tail /\ elem' = elem /\ freeTop' = freeTop
      /\ fresh' = fresh /\ pushed' = pushed /\ popped' = popped
      /\ pc[t] = "linkNode" /\ loc[t].link.node = last
      /\ pc'[t] = "finishPush" /\ Pushing' = Pushing \ {t} /\ t \in Pushing
      /\ \A u \in Threads : u # t => pc'[u] = pc[u]
      /\ last \in Nodes /\ next[last] = End /\ loc[t].node \in Nodes
  BY DEF Linking, Frame
<1>2. \A n \in Nodes : n # last => next'[n] = next[n]
  BY <1>1, Types
<1>n. next'[last] = loc[t].node
  BY <1>1, Types
<1>3. /\ \A n \in On(M) : n \in Nodes /\ K[n] = "main"
      /\ \A n \in On(F) : n \in Nodes /\ K[n] = "free"
      /\ \A u \in Pushing : /\ \A n \in On(H[u]) : n \in Nodes /\ K[n] = "hang" /\ O[n] = u
                            /\ loc[u].node \in Nodes /\ loc[u].node \in On(H[u])
                            /\ u \in Threads
  BY ListNodes DEF Parts
<1>b. /\ \A u \in Threads : u \notin B[u]
      /\ \A u, w, x \in Threads : w \in B[u] /\ x \in B[w] => x \in B[u]
      /\ \A u, w \in Pushing : pc[u] = "linkNode" /\ loc[u].link.node \in On(H[w]) => w \in B[u]
  BY DEF Parts, Order
<1>c. v \in B[t] /\ v # t /\ v \in Threads
  BY <1>1, <1>3, <1>b
<1>d. \A k \in On(H[v]) : k \notin On(H[t])
  <2>1. (\A k \in On(H[v]) : O[k] = v) /\ (\A k \in On(H[t]) : O[k] = t)
    BY <1>1, <1>3
  <2> QED BY <1>c, <2>1
<1>4. PICK H2 \in [Threads -> Seq(Nodes)] :
          H2[v] = H[v] \o H[t] /\ \A u \in Threads : u # v => H2[u] = H[u]
  <2>1. H[v] \in Seq(Nodes) /\ H[t] \in Seq(Nodes) /\ H \in [Threads -> Seq(Nodes)]
    BY <1>3, <1>c DEF Witnesses
  <2>2. H[v] \o H[t] \in Seq(Nodes)
    BY <2>1, ConcatProperties
  <2>3. [H EXCEPT ![v] = H[v] \o H[t]] \in [Threads -> Seq(Nodes)]
    BY <2>1, <2>2
  <2> QED BY <1>c, <2>1, <2>3
<1>5. Path(next', loc[v].node, H2[v], End) /\ On(H2[v]) = On(H[v]) \cup On(H[t])
  <2>1. Path(next, loc[v].node, H[v], End) /\ Path(next, loc[t].node, H[t], End)
    BY <1>1 DEF Parts, Lists
  <2>2. H[v][Len(H[v])] = last
    BY <1>1, <2>1, PathLinks, QueueAssumption
  <2>4. loc[v].node \in Nodes /\ loc[t].node \in Nodes /\ End \notin Nodes
    BY <1>1, <1>3, QueueAssumption
  <2>5. /\ next'[H[v][Len(H[v])]] = loc[t].node
        /\ \A k \in Nodes : k # H[v][Len(H[v])] => next'[k] = next[k]
    BY <1>2, <1>n, <2>2
  <2>6. Path(next', loc[v].node, H[v] \o H[t], End) /\ On(H[v] \o H[t]) = On(H[v]) \cup On(H[t])
    <3>1. Joining(next, next', loc[v].node, H[v], loc[t].node, H[t], End)
      BY <1>d, <2>1, <2>4, <2>5 DEF Joining
    <3> QED BY <3>1, PathJoin
  <2> QED BY <1>4, <2>6
<1>6. PICK O2 \in [Nodes -> Threads \cup {Null}] :
          /\ \A m \in On(H[t]) : O2[m] = v
          /\ \A m \in Nodes : m \notin On(H[t]) => O2[m] = O[m]
  <2>1. [m \in Nodes |-> IF m \in On(H[t]) THEN v ELSE O[m]] \in [Nodes -> Threads \cup {Null}]
    BY <1>c DEF Witnesses
  <2> QED BY <1>1, <1>3, <2>1
<1>p. Path(next', head.node, M, End) /\ last \notin On(M)
  <2>1. last \notin On(M)
    BY <1>3
  <2>2. \A k \in On(M) : next'[k] = next[k]
    BY <1>2, <1>3, <2>1
  <2>3. Path(next, head.node, M, End)
    BY DEF Parts, Lists
  <2> QED BY <2>1, <2>2, <2>3, PathKept
<1>7. Lists(M, H2, F, K, O2)'
  <2>2. ASSUME NEW u \in Pushing'
        PROVE  Path(next', loc'[u].node, H2[u], End) /\ \A m \in On(H2[u]) : K[m] = "hang" /\ O2[m] = u
    <3>0. u \in Pushing /\ u # t /\ u \in Threads
      BY <1>1, <1>3
    <3>1. CASE u = v
      <4>2. \A m \in On(H[v]) : O2[m] = v
        BY <1>3, <1>6, <1>d
      <4> QED BY <1>1, <1>3, <1>5, <1>6, <3>1, <4>2
    <3>2. CASE u # v
      <4>1. \A m \in On(H[u]) : next'[m] = next[m] /\ O2[m] = O[m]
        BY <1>1, <1>2, <1>3, <1>6, <3>0, <3>2
      <4>2. Path(next, loc[u].node, H[u], End)
        BY <3>0 DEF Parts, Lists
      <4>3. Path(next', loc[u].node, H[u], End)
        BY <4>1, <4>2, PathKept
      <4>4. loc'[u] = loc[u] /\ H2[u] = H[u] /\ \A m \in On(H[u]) : K[m] = "hang" /\ O[m] = u
        BY <1>1, <1>3, <1>4, <3>0, <3>2
      <4> QED BY <4>1, <4>3, <4>4
    <3> QED BY <3>1, <3>2
  <2>3. Path(next', freeTop, F, Null) /\ \A m \in On(F) : K[m] = "free"
    <3>1. \A m \in On(F) : next'[m] = next[m]
      BY <1>2, <1>3
    <3>2. Path(next, freeTop, F, Null)
      BY DEF Parts, Lists
    <3> QED BY <1>3, <3>1, <3>2, PathKept
  <2>4. \A m \in fresh : K[m] = "fresh"
    BY DEF Parts, Lists
  <2>5. ASSUME NEW u \in Threads, pc'[u] \in {"countPop", "freeNode"}
        PROVE  LET m == loc'[u].link.node
               IN  m \in Nodes /\ K[m] = "held" /\ O2[m] = u /\ next'[m] \in Nodes
    <3>1. u # t /\ pc[u] = pc'[u] /\ loc'[u] = loc[u]
      BY <1>1, <2>5
    <3>2. LET m == loc[u].link.node
          IN  m \in Nodes /\ K[m] = "held" /\ O[m] = u /\ next[m] \in Nodes
      BY <2>5, <3>1 DEF Parts, Lists
    <3>3. LET m == loc[u].link.node IN m # last /\ m \notin On(H[t])
      BY <1>1, <1>3, <3>2
    <3> QED BY <1>2, <1>6, <3>1, <3>2, <3>3
  <2>6. ASSUME NEW m \in Nodes, next'[m] = End
        PROVE  m \in On(M) \/ \E u \in Pushing' : m \in On(H2[u])
    <3>1. m # last /\ next[m] = End
      BY <1>1, <1>2, <1>n, <2>6, QueueAssumption
    <3>2. m \in On(M) \/ \E u \in Pushing : m \in On(H[u])
      BY <3>1 DEF Parts, Lists
    <3>3. ASSUME NEW u \in Pushing, m \in On(H[u]) PROVE \E w \in Pushing' : m \in On(H2[w])
      BY <1>1, <1>3, <1>4, <1>5, <1>c, <3>3
    <3> QED BY <3>2, <3>3
  <2> QED BY <1>1, <1>3, <1>p, <2>2, <2>3, <2>4, <2>5, <2>6 DEF Lists, Parts
<1>8. Order(H2, B)'
  <2>1. ASSUME NEW u \in Pushing', NEW w \in Pushing', pc'[u] = "linkNode", loc'[u].link.node \in On(H2[w])
        PROVE  w \in B[u]
    <3>1. u \in Pushing /\ w \in Pushing /\ pc[u] = "linkNode" /\ u \in Threads /\ w \in Threads
      BY <1>1, <1>3, <2>1
    <3>2. CASE w # v
      BY <1>1, <1>4, <1>b, <2>1, <3>1, <3>2
    <3>3. CASE w = v
      <4>1. loc[u].link.node \in On(H[v]) \/ loc[u].link.node \in On(H[t])
        BY <1>1, <1>5, <2>1, <3>3
      <4> QED BY <1>1, <1>b, <1>c, <3>1, <3>3, <4>1
    <3> QED BY <3>2, <3>3
  <2> QED BY <1>b, <2>1 DEF Order
<1>9. Content(M, H2)'
  <2>2. \A m : m \in Bearing(M, H2)' <=>
               (m \in On(M) /\ m # head'.node) \/ \E u \in Pushing' : m \in On(H2[u])
    BY DEF Bearing
  <2>3. ASSUME NEW m PROVE (\E u \in Pushing' : m \in On(H2[u])) <=> (\E u \in Pushing : m \in On(H[u]))
    <3>1. ASSUME NEW u \in Pushing, m \in On(H[u]) PROVE \E w \in Pushing' : m \in On(H2[w])
      BY <1>1, <1>3, <1>4, <1>5, <1>c, <3>1
    <3>2. ASSUME NEW u \in Pushing', m \in On(H2[u]) PROVE \E w \in Pushing : m \in On(H[w])
      BY <1>1, <1>3, <1>4, <1>5, <1>c, <3>2
    <3> QED BY <3>1, <3>2
  <2>4. Bearing(M, H2)' = Bearing(M, H)
    <3>1. \A m : m \in Bearing(M, H2)' <=> m \in Bearing(M, H)
      BY <1>1, <2>2, <2>3, BearingIs
    <3> QED BY <3>1
  <2> QED BY <1>1, <2>4, ContentKept DEF Parts
<1>10. Straight(H2, K)'
  <2>1. Plain' = Plain
    BY <1>1 DEF Plain
  <2>2. recycle
    BY <1>1, <1>3 DEF Parts, Straight
  <2>3. ~Plain
    <3>1. pushed[t] > 0 /\ pushed[v] > 0
      BY <1>1 DEF Parts, Content
    <3>2. {t, v} \subseteq {u \in Threads : pushed[u] > 0} /\ IsFiniteSet({u \in Threads : pushed[u] > 0})
      BY <1>c, <3>1, QueueAssumption, FS_Subset
    <3>3. Cardinality({t, v}) = 2
      <4>1. IsFiniteSet({t}) /\ Cardinality({t}) = 1
        BY FS_Singleton
      <4>2. {t, v} = {t} \cup {v} /\ v \notin {t}
        BY <1>c
      <4>3. Cardinality({t} \cup {v}) = Cardinality({t}) + 1
        BY <4>1, <4>2, FS_AddElement
      <4>4. Cardinality({t, v}) = 1 + 1
        BY <4>1, <4>2, <4>3, Zenon
      <4> QED BY <4>4
    <3>4. Cardinality({u \in Threads : pushed[u] > 0}) >= 2 /\ Cardinality({u \in Threads : pushed[u] > 0}) \in Nat
      BY <3>2, <3>3, FS_Subset, FS_CardinalityType
    <3> QED BY <2>2, <3>4 DEF Plain
  <2>4. recycle' /\ ~Plain'
    BY <1>1, <2>1, <2>2, <2>3
  <2> QED BY <2>4 DEF Straight
<1>11. Witnesses(M, H2, F, K, O2, B) /\ Parts(M, H2, F, K, O2, B)'
  BY <1>7, <1>8, <1>9, <1>10 DEF Parts, Witnesses
<1> QED BY <1>p, <1>11

-----------------------------------------------------------------------------
(* Taking the head, and giving its old node back.                          *)

(* What a thread that still has the head in hand is about to take.          *)
LEMMA MoveHeadTakes ==
    ASSUME Typed, NEW t \in Threads, MoveHead(t), head = loc[t].link, Reads,
           NEW M, NEW H, NEW F, NEW K, NEW O, NEW B,
           Witnesses(M, H, F, K, O, B), Parts(M, H, F, K, O, B)
    PROVE  LET nxt == next[head.node]
           IN  /\ nxt \in Nodes /\ nxt \in On(M) /\ nxt # head.node /\ nxt \in Bearing(M, H)
               /\ head'.node = nxt /\ head'.seq = head.seq + 1 /\ head' \in Links
               /\ popped' = Append(popped, elem[nxt]) /\ elem[nxt] \in Items
               /\ tail.node # head.node /\ loc[t].link.node = head.node
<1>1. /\ pc[t] = "moveHead" /\ loc[t].link.seq = head.seq /\ loc[t].link.node = head.node
      /\ head' = [node |-> loc[t].nxt, seq |-> head.seq + 1]
      /\ popped' = Append(popped, loc[t].item)
  BY DEF MoveHead
<1>2. /\ loc[t].nxt \in Nodes /\ loc[t].nxt = next[head.node]
      /\ loc[t].item = elem[next[head.node]] /\ tail.node # head.node
  BY <1>1 DEF Reads, HeadRead
<1>3. next[head.node] \in On(M) /\ next[head.node] # head.node
  BY <1>2, EndsOn DEF Parts
<1>4. next[head.node] \in Bearing(M, H)
  BY <1>3, BearingIs
<1>5. elem[next[head.node]] \in Items
  <2>1. elem[next[head.node]] \in Begun
    BY <1>4 DEF Parts, Content
  <2>2. PICK u \in Threads : \E k \in 1 .. pushed[u] : elem[next[head.node]] = <<u, k>>
    BY <2>1, BegunIs
  <2>3. pushed[u] \in Nat
    BY Types
  <2> QED BY <2>2, <2>3 DEF Items
<1>6. head.seq \in Nat
  BY Types
<1> QED BY <1>1, <1>2, <1>3, <1>4, <1>5, <1>6 DEF Links

(* The node behind the dummy is the new dummy; t holds the old one.         *)
LEMMA MoveHeadKept ==
    ASSUME Typed, NEW t \in Threads, MoveHead(t), head = loc[t].link, Reads,
           NEW M, NEW H, NEW F, NEW K, NEW O, NEW B,
           Witnesses(M, H, F, K, O, B), Parts(M, H, F, K, O, B)
    PROVE  Inv' /\ Path(next, head'.node, Tail(M), End)
<1> DEFINE old == head.node
           nxt == next[head.node]
<1>1. /\ pc[t] = "moveHead" /\ Goto(t, "countPop") /\ loc' = loc
      /\ recycle' = recycle /\ tail' = tail /\ next' = next /\ elem' = elem /\ count' = count
      /\ freeTop' = freeTop /\ fresh' = fresh /\ pushed' = pushed
  BY DEF MoveHead
<1>2. /\ nxt \in Nodes /\ nxt \in On(M) /\ nxt # old /\ nxt \in Bearing(M, H)
      /\ head'.node = nxt /\ head'.seq = head.seq + 1 /\ head' \in Links
      /\ popped' = Append(popped, elem[nxt]) /\ elem[nxt] \in Items
      /\ tail.node # old /\ loc[t].link.node = old
  BY MoveHeadTakes
<1>3. Frame(t) /\ pc' \in [Threads -> Labels] /\ pc'[t] = "countPop"
  BY <1>1, Stays DEF Labels
<1>4. Pushing' = Pushing
  BY <1>1, <1>3 DEF Frame, Pushing
<1>t. popped \in Seq(Items) /\ old \in Nodes /\ head.seq \in Nat
  BY Types
<1>5. Typed'
  <2>1. popped' \in Seq(Items)
    BY <1>2, <1>t
  <2>2. loc' \in [Threads -> Locals] /\ \A u \in Threads : loc'[u].nxt \in Nodes \cup {End, Null}
    BY <1>1, Types, Fields DEF Ends
  <2> QED BY <1>1, <1>2, <1>3, <2>1, <2>2 DEF Typed, TypeOK
<1>6. PICK M2 \in Seq(Nodes) : M2 = Tail(M) /\ Path(next, nxt, M2, End) /\ On(M2) = On(M) \ {old}
  <2>1. Path(next, old, M, End)
    BY DEF Parts, Lists
  <2>2. Path(next, nxt, Tail(M), End) /\ On(Tail(M)) = On(M) \ {old}
    BY <1>t, <2>1, PathTail, QueueAssumption
  <2>3. Tail(M) \in Seq(Nodes)
    BY <2>2 DEF Path
  <2> QED BY <2>2, <2>3
<1>7. PICK K2 \in [Nodes -> Kinds] : K2[old] = "held" /\ \A m \in Nodes : m # old => K2[m] = K[m]
  <2>1. [K EXCEPT ![old] = "held"] \in [Nodes -> Kinds]
    BY <1>t DEF Witnesses, Kinds
  <2> QED BY <1>t, <2>1 DEF Witnesses
<1>8. PICK O2 \in [Nodes -> Threads \cup {Null}] : O2[old] = t /\ \A m \in Nodes : m # old => O2[m] = O[m]
  <2>1. [O EXCEPT ![old] = t] \in [Nodes -> Threads \cup {Null}]
    BY <1>t DEF Witnesses
  <2> QED BY <1>t, <2>1 DEF Witnesses
<1>9. /\ \A n \in On(M) : n \in Nodes /\ K[n] = "main"
      /\ \A n \in On(F) : n \in Nodes /\ K[n] = "free"
      /\ \A u \in Pushing : /\ \A n \in On(H[u]) : n \in Nodes /\ K[n] = "hang" /\ O[n] = u
                            /\ loc[u].node \in Nodes /\ loc[u].node \in On(H[u])
                            /\ u \in Threads
      /\ old \in On(M) /\ tail.node \in On(M)
  BY ListNodes, EndsOn DEF Parts
<1> HIDE DEF old, nxt
<1>10. Lists(M2, H, F, K2, O2)'
  <2>1. \A m \in On(M2) : K2[m] = "main"
    BY <1>6, <1>7, <1>9
  <2>2. ASSUME NEW u \in Pushing'
        PROVE  Path(next', loc'[u].node, H[u], End) /\ \A m \in On(H[u]) : K2[m] = "hang" /\ O2[m] = u
    <3>1. u \in Pushing /\ loc'[u] = loc[u] /\ next' = next
      BY <1>1, <1>4
    <3>2. \A m \in On(H[u]) : m # old
      BY <1>9, <3>1
    <3> QED BY <1>7, <1>8, <1>9, <3>1, <3>2 DEF Parts, Lists
  <2>3. \A m \in On(F) : K2[m] = "free"
    BY <1>7, <1>9
  <2>4. \A m \in fresh' : K2[m] = "fresh"
    <3>1. \A m \in fresh' : m \in Nodes /\ K[m] = "fresh"
      BY <1>1 DEF Parts, Lists, Typed, TypeOK
    <3> QED BY <1>7, <1>9, <3>1
  <2>5. ASSUME NEW u \in Threads, pc'[u] \in {"countPop", "freeNode"}
        PROVE  LET m == loc'[u].link.node
               IN  m \in Nodes /\ K2[m] = "held" /\ O2[m] = u /\ next'[m] \in Nodes
    <3>1. CASE u = t
      BY <1>1, <1>2, <1>7, <1>8, <1>t, <3>1 DEF old, nxt
    <3>2. CASE u # t
      <4>1. pc[u] = pc'[u] /\ loc'[u] = loc[u]
        BY <1>3, <3>2 DEF Frame
      <4>2. LET m == loc[u].link.node
            IN  m \in Nodes /\ K[m] = "held" /\ O[m] = u /\ next[m] \in Nodes
        BY <2>5, <4>1 DEF Parts, Lists
      <4>3. loc[u].link.node # old
        BY <1>9, <4>2
      <4> QED BY <1>1, <1>7, <1>8, <4>1, <4>2, <4>3
    <3> QED BY <3>1, <3>2
  <2>6. ASSUME NEW m \in Nodes, next'[m] = End
        PROVE  m \in On(M2) \/ \E u \in Pushing' : m \in On(H[u])
    <3>1. m # old /\ next[m] = End
      BY <1>1, <1>2, <2>6, QueueAssumption DEF old, nxt
    <3>2. m \in On(M) \/ \E u \in Pushing : m \in On(H[u])
      BY <3>1 DEF Parts, Lists
    <3> QED BY <1>4, <1>6, <3>1, <3>2
  <2>7. tail'.node \in On(M2)
    BY <1>1, <1>2, <1>6, <1>9
  <2>8. Path(next', head'.node, M2, End)
    BY <1>1, <1>2, <1>6
  <2>9. Path(next', freeTop', F, Null)
    BY <1>1 DEF Parts, Lists
  <2> QED BY <2>1, <2>2, <2>3, <2>4, <2>5, <2>6, <2>7, <2>8, <2>9 DEF Lists
<1>11. Order(H, B)'
  <2>1. \A u \in Pushing' : u \in Pushing /\ pc'[u] = pc[u] /\ loc'[u] = loc[u]
    BY <1>1, <1>3, <1>4, <1>9 DEF Frame, Pushing
  <2> QED BY <2>1 DEF Parts, Order
<1>12. Content(M2, H)'
  <2>1. \A m : m \in Bearing(M2, H)' <=>
               (m \in On(M2) /\ m # head'.node) \/ \E u \in Pushing' : m \in On(H[u])
    BY DEF Bearing
  <2>2. \A u \in Pushing : nxt \notin On(H[u]) /\ old \notin On(H[u])
    BY <1>2, <1>9
  <2>3. \A m : m \in Bearing(M2, H)' <=> m \in Bearing(M, H) /\ m # nxt
    <3>1. \A m : m \in Bearing(M, H) <=>
               (m \in On(M) /\ m # old) \/ \E u \in Pushing : m \in On(H[u])
      BY BearingIs DEF old
    <3> QED BY <1>2, <1>4, <1>6, <2>1, <2>2, <3>1
  <2>4. /\ \A m, n \in Bearing(M, H) : elem[m] = elem[n] => m = n
        /\ \A i, j \in 1 .. Len(popped) : popped[i] = popped[j] => i = j
        /\ \A n \in Bearing(M, H) : elem[n] \notin On(popped)
        /\ Begun = On(popped) \cup {elem[n] : n \in Bearing(M, H)}
        /\ \A u \in Pushing : pushed[u] > 0 /\ elem[loc[u].node] = <<u, pushed[u]>>
    BY DEF Parts, Content
  <2>5. /\ Len(popped') = Len(popped) + 1 /\ Len(popped) \in Nat
        /\ popped'[Len(popped) + 1] = elem[nxt]
        /\ \A i \in 1 .. Len(popped) : popped'[i] = popped[i]
    BY <1>2, <1>t, AppendProperties
  <2>6. \A i \in 1 .. Len(popped') : i \in 1 .. Len(popped) \/ i = Len(popped) + 1
    BY <2>5
  <2>7. \A x : x \in On(popped') <=> x \in On(popped) \/ x = elem[nxt]
    <3>1. \A x \in On(popped') : x \in On(popped) \/ x = elem[nxt]
      BY <2>5, <2>6 DEF On
    <3>2. \A i \in 1 .. Len(popped) : i \in 1 .. Len(popped')
      BY <2>5
    <3>3. \A x \in On(popped) : x \in On(popped')
      BY <2>5, <3>2 DEF On
    <3>4. elem[nxt] \in On(popped')
      <4>1. Len(popped) + 1 \in 1 .. Len(popped')
        BY <2>5
      <4> QED BY <2>5, <4>1 DEF On
    <3> QED BY <3>1, <3>3, <3>4
  <2>8. \A i, j \in 1 .. Len(popped') : popped'[i] = popped'[j] => i = j
    <3>1. \A i \in 1 .. Len(popped) : popped[i] # elem[nxt]
      BY <1>2, <2>4 DEF On
    <3> QED BY <2>4, <2>5, <2>6, <3>1
  <2>9. \A m \in Bearing(M2, H)' : elem'[m] \notin On(popped')
    BY <1>1, <1>2, <2>3, <2>4, <2>7
  <2>10. Begun' = On(popped') \cup {elem'[m] : m \in Bearing(M2, H)'}
    <3>1. Begun' = Begun
      BY <1>1 DEF Begun
    <3>2. \A x : x \in Begun <=> x \in On(popped) \/ \E m \in Bearing(M, H) : x = elem[m]
      BY <2>4
    <3>3. \A x : x \in Begun <=> x \in On(popped') \/ \E m \in Bearing(M2, H)' : x = elem'[m]
      BY <1>1, <1>2, <2>3, <2>7, <3>2
    <3> QED BY <3>1, <3>3
  <2>11. \A m, n \in Bearing(M2, H)' : elem'[m] = elem'[n] => m = n
    BY <1>1, <2>3, <2>4
  <2>12. \A u \in Pushing' : pushed'[u] > 0 /\ elem'[loc'[u].node] = <<u, pushed'[u]>>
    BY <1>1, <1>4, <2>4
  <2> QED BY <2>8, <2>9, <2>10, <2>11, <2>12 DEF Content
<1>13. Straight(H, K2)'
  <2>1. Plain' = Plain
    BY <1>1 DEF Plain
  <2>2. ASSUME ~recycle, NEW u \in Threads, pc'[u] = "linkNode"
        PROVE  K2[loc'[u].link.node] \in {"main", "held", "gone"}
    <3>1. u # t /\ pc[u] = "linkNode" /\ loc'[u] = loc[u]
      BY <1>1, <1>3, <2>2 DEF Frame
    <3>2. K[loc[u].link.node] \in {"main", "held", "gone"}
      BY <2>2, <3>1 DEF Parts, Straight
    <3>3. loc[u].link.node \in Nodes
      BY <3>1 DEF Reads, TailRead
    <3> QED BY <1>7, <3>1, <3>2, <3>3
  <2> QED BY <1>1, <1>4, <2>1, <2>2 DEF Straight, Parts
<1>14. Reads'
  <2>1. EndsKept
    <3>1. head' # head
      BY <1>2, <1>t
    <3> QED BY <1>1, <1>2, <3>1 DEF EndsKept
  <2>2. TailRead(t)' /\ HeadRead(t)'
    BY <1>3 DEF TailRead, HeadRead
  <2>3. \A u \in Threads : u # t => TailRead(u)' /\ HeadRead(u)'
    BY <1>3, <2>1, ListsLinked, OthersKept DEF Reads, Parts
  <2> QED BY <2>2, <2>3 DEF Reads
<1>15. Parts(M2, H, F, K2, O2, B)' /\ Witnesses(M2, H, F, K2, O2, B)
  BY <1>10, <1>11, <1>12, <1>13 DEF Parts, Witnesses
<1>16. Inv'
  BY <1>5, <1>14, <1>15 DEF Inv
<1> QED BY <1>2, <1>6, <1>16

(* The node given back is free, or gone for good.                           *)
LEMMA FreeNodeKept ==
    ASSUME Typed, NEW t \in Threads, FreeNode(t), Reads,
           NEW M, NEW H, NEW F, NEW K, NEW O, NEW B,
           Witnesses(M, H, F, K, O, B), Parts(M, H, F, K, O, B)
    PROVE  /\ Inv' /\ Path(next', head'.node, M, End)
           /\ \A m \in On(M) : elem'[m] = elem[m] /\ next'[m] = next[m]
<1> DEFINE n == loc[t].link.node
<1>1. /\ pc[t] = "freeNode" /\ Goto(t, "idle") /\ loc' = [loc EXCEPT ![t] = NoLocals]
      /\ elem' = [elem EXCEPT ![n] = loc[t].item]
      /\ next' = IF recycle THEN [next EXCEPT ![n] = freeTop] ELSE next
      /\ freeTop' = IF recycle THEN n ELSE freeTop
      /\ recycle' = recycle /\ head' = head /\ tail' = tail /\ count' = count
      /\ fresh' = fresh /\ pushed' = pushed /\ popped' = popped
  BY DEF FreeNode
<1>2. n \in Nodes /\ K[n] = "held" /\ O[n] = t /\ next[n] \in Nodes
  BY <1>1 DEF Parts, Lists
<1>t. freeTop \in Nodes \cup {Null} /\ loc[t].item \in Elems
  BY Types, Fields DEF Typed, TypeOK
<1> HIDE DEF n
<1>3. Frame(t) /\ pc' \in [Threads -> Labels] /\ loc' \in [Threads -> Locals] /\ pc'[t] = "idle"
  BY <1>1, Moves, NoLocalsTyped DEF Labels
<1>4. Pushing' = Pushing /\ \A u \in Pushing : loc'[u] = loc[u] /\ pc'[u] = pc[u] /\ u \in Threads
  BY <1>1, <1>3 DEF Frame, Pushing
<1>5. /\ \A m \in Nodes : m # n => next'[m] = next[m] /\ elem'[m] = elem[m]
      /\ recycle => next'[n] = freeTop
      /\ ~recycle => next'[n] = next[n]
      /\ next' \in [Nodes -> Ends] /\ elem' \in [Nodes -> Elems]
  BY <1>1, <1>2, <1>t, Types DEF Ends
<1>6. Typed'
  <2>1. elem' \in [Nodes -> Items \cup {Nothing}] /\ next' \in [Nodes -> Nodes \cup {End, Null}]
    BY <1>5 DEF Elems, Ends
  <2>2. \A u \in Threads : loc'[u].nxt \in Nodes \cup {End, Null}
    BY <1>3, Fields DEF Ends
  <2>3. freeTop' \in Nodes \cup {Null}
    BY <1>1, <1>2, <1>t
  <2> QED BY <1>1, <1>3, <2>1, <2>2, <2>3 DEF Typed, TypeOK
<1>9. /\ \A m \in On(M) : m \in Nodes /\ K[m] = "main"
      /\ \A m \in On(F) : m \in Nodes /\ K[m] = "free"
      /\ \A u \in Pushing : /\ \A m \in On(H[u]) : m \in Nodes /\ K[m] = "hang" /\ O[m] = u
                            /\ loc[u].node \in Nodes /\ loc[u].node \in On(H[u])
                            /\ u \in Threads
      /\ head.node \in On(M) /\ tail.node \in On(M)
      /\ next[head.node] \in Nodes => next[head.node] \in On(M)
  BY ListNodes, EndsOn DEF Parts
<1>l. n \notin On(M) /\ n \notin On(F) /\ \A u \in Pushing : n \notin On(H[u])
  BY <1>2, <1>9
<1>7. PICK K2 \in [Nodes -> Kinds] : /\ K2[n] = IF recycle THEN "free" ELSE "gone"
                                     /\ \A m \in Nodes : m # n => K2[m] = K[m]
  <2>1. [K EXCEPT ![n] = IF recycle THEN "free" ELSE "gone"] \in [Nodes -> Kinds]
    BY <1>2 DEF Witnesses, Kinds
  <2> QED BY <1>2, <2>1 DEF Witnesses
<1>8. PICK F2 \in Seq(Nodes) : Path(next', freeTop', F2, Null) /\ \A m \in On(F2) : K2[m] = "free"
  <2>0. Path(next, freeTop, F, Null) /\ F \in Seq(Nodes)
    BY DEF Parts, Lists, Path
  <2>1. \A m \in On(F) : next'[m] = next[m] /\ K2[m] = "free"
    BY <1>5, <1>7, <1>9, <1>l
  <2>2. Path(next', freeTop, F, Null)
    BY <2>0, <2>1, PathKept
  <2>3. CASE recycle
    <3>1. Path(next', n, <<n>> \o F, Null) /\ On(<<n>> \o F) = On(F) \cup {n}
      BY <1>2, <1>5, <1>l, <2>2, <2>3, PathCons, QueueAssumption
    <3>2. <<n>> \o F \in Seq(Nodes)
      BY <3>1 DEF Path
    <3>3. freeTop' = n
      BY <1>1, <2>3
    <3> QED BY <1>7, <2>1, <2>3, <3>1, <3>2, <3>3
  <2>4. CASE ~recycle
    BY <1>1, <2>0, <2>1, <2>2, <2>4
  <2> QED BY <2>3, <2>4
<1>10. Path(next', head'.node, M, End) /\ \A m \in On(M) : elem'[m] = elem[m] /\ next'[m] = next[m]
  <2>1. \A m \in On(M) : next'[m] = next[m] /\ elem'[m] = elem[m]
    BY <1>5, <1>9, <1>l
  <2>2. Path(next, head.node, M, End)
    BY DEF Parts, Lists
  <2> QED BY <1>1, <2>1, <2>2, PathKept
<1>11. Lists(M, H, F2, K2, O)'
  <2>1. \A m \in On(M) : K2[m] = "main"
    BY <1>7, <1>9, <1>l
  <2>2. ASSUME NEW u \in Pushing'
        PROVE  Path(next', loc'[u].node, H[u], End) /\ \A m \in On(H[u]) : K2[m] = "hang" /\ O[m] = u
    <3>1. u \in Pushing /\ loc'[u] = loc[u]
      BY <1>4
    <3>2. \A m \in On(H[u]) : K2[m] = K[m] /\ next'[m] = next[m]
      BY <1>5, <1>7, <1>9, <1>l, <3>1
    <3>3. Path(next, loc[u].node, H[u], End)
      BY <3>1 DEF Parts, Lists
    <3>4. Path(next', loc[u].node, H[u], End)
      BY <3>2, <3>3, PathKept
    <3> QED BY <1>9, <3>1, <3>2, <3>4
  <2>4. \A m \in fresh' : K2[m] = "fresh"
    <3>1. \A m \in fresh' : m \in Nodes /\ K[m] = "fresh"
      BY <1>1 DEF Parts, Lists, Typed, TypeOK
    <3> QED BY <1>2, <1>7, <3>1
  <2>5. ASSUME NEW u \in Threads, pc'[u] \in {"countPop", "freeNode"}
        PROVE  LET m == loc'[u].link.node
               IN  m \in Nodes /\ K2[m] = "held" /\ O[m] = u /\ next'[m] \in Nodes
    <3>1. u # t /\ pc[u] = pc'[u] /\ loc'[u] = loc[u]
      BY <1>3, <2>5 DEF Frame
    <3>2. LET m == loc[u].link.node
          IN  m \in Nodes /\ K[m] = "held" /\ O[m] = u /\ next[m] \in Nodes
      BY <2>5, <3>1 DEF Parts, Lists
    <3>3. loc[u].link.node # n
      BY <1>2, <3>1, <3>2
    <3> QED BY <1>5, <1>7, <3>1, <3>2, <3>3
  <2>6. ASSUME NEW m \in Nodes, next'[m] = End
        PROVE  m \in On(M) \/ \E u \in Pushing' : m \in On(H[u])
    <3>1. m # n
      BY <1>2, <1>5, <1>t, <2>6, QueueAssumption
    <3>2. m \in On(M) \/ \E u \in Pushing : m \in On(H[u])
      BY <1>5, <2>6, <3>1 DEF Parts, Lists
    <3> QED BY <1>4, <3>2
  <2>7. tail'.node \in On(M)
    BY <1>1, <1>9
  <2> QED BY <1>8, <1>10, <2>1, <2>2, <2>4, <2>5, <2>6, <2>7 DEF Lists
<1>12. Order(H, B)'
  <2>1. \A u \in Pushing' : u \in Pushing /\ pc'[u] = pc[u] /\ loc'[u] = loc[u]
    BY <1>4
  <2> QED BY <2>1 DEF Parts, Order
<1>13. Content(M, H)'
  <2>1. Bearing(M, H)' = Bearing(M, H)
    BY <1>1, <1>4 DEF Bearing
  <2>2. n \notin Bearing(M, H) /\ \A m \in Bearing(M, H) : m \in Nodes
    BY <1>9, <1>l, BearingIs
  <2>3. \A m \in Bearing(M, H) : elem'[m] = elem[m]
    BY <1>5, <2>2
  <2>4. \A u \in Pushing' : u \in Pushing /\ loc'[u].node = loc[u].node
                            /\ elem'[loc[u].node] = elem[loc[u].node]
    BY <1>4, <1>5, <1>9, <1>l
  <2> QED BY <1>1, <2>1, <2>3, <2>4, ContentKept DEF Parts
<1>14. Straight(H, K2)'
  <2>1. Plain' = Plain
    BY <1>1 DEF Plain
  <2>2. ASSUME ~recycle, NEW u \in Threads, pc'[u] = "linkNode"
        PROVE  K2[loc'[u].link.node] \in {"main", "held", "gone"}
    <3>1. u # t /\ pc[u] = "linkNode" /\ loc'[u] = loc[u]
      BY <1>3, <2>2 DEF Frame
    <3>2. K[loc[u].link.node] \in {"main", "held", "gone"}
      BY <2>2, <3>1 DEF Parts, Straight
    <3>3. loc[u].link.node \in Nodes
      BY <3>1 DEF Reads, TailRead
    <3> QED BY <1>7, <2>2, <3>1, <3>2, <3>3
  <2>3. ASSUME Plain, NEW u \in Pushing' PROVE next'[loc'[u].node] = End
    <3>1. u \in Pushing /\ loc'[u] = loc[u] /\ next'[loc[u].node] = next[loc[u].node]
      BY <1>4, <1>5, <1>9, <1>l
    <3> QED BY <2>3, <3>1 DEF Parts, Straight
  <2> QED BY <1>1, <2>1, <2>2, <2>3 DEF Straight, Parts
<1>15. Reads'
  <2>1. EndsKept
    BY <1>1, <1>9, <1>10 DEF EndsKept
  <2>2. TailRead(t)' /\ HeadRead(t)'
    BY <1>3 DEF TailRead, HeadRead
  <2>3. \A u \in Threads : u # t => TailRead(u)' /\ HeadRead(u)'
    BY <1>3, <2>1, ListsLinked, OthersKept DEF Reads, Parts
  <2> QED BY <2>2, <2>3 DEF Reads
<1>16. Parts(M, H, F2, K2, O, B)' /\ Witnesses(M, H, F2, K2, O, B)
  BY <1>8, <1>11, <1>12, <1>13, <1>14 DEF Parts, Witnesses
<1>17. Inv'
  BY <1>6, <1>15, <1>16 DEF Inv
<1> QED BY <1>10, <1>17

-----------------------------------------------------------------------------
(* The invariant holds.                                                    *)

(* One node, the dummy, and nothing else but fresh ones.                    *)
LEMMA InitInv == Init => Inv
<1> SUFFICES ASSUME Init PROVE Inv
  OBVIOUS
<1>1. /\ recycle \in BOOLEAN /\ head = [node |-> Dummy, seq |-> 0] /\ tail = [node |-> Dummy, seq |-> 0]
      /\ next = [n \in Nodes |-> IF n = Dummy THEN End ELSE Null]
      /\ elem = [n \in Nodes |-> Nothing] /\ count = 0 /\ freeTop = Null /\ fresh = Nodes \ {Dummy}
      /\ pc = [t \in Threads |-> "idle"] /\ loc = [t \in Threads |-> NoLocals]
      /\ pushed = [t \in Threads |-> 0] /\ pops = 0 /\ popped = <<>>
      /\ Dummy \in Nodes /\ End \notin Nodes /\ Null \notin Nodes /\ End # Null
  BY QueueAssumption DEF Init
<1>2. Typed
  <2>1. \A t \in Threads : loc[t] = NoLocals /\ loc[t].nxt = Null
    BY <1>1 DEF NoLocals
  <2>2. loc \in [Threads -> Locals] /\ pc \in [Threads -> Labels]
    BY <1>1, NoLocalsTyped DEF Labels
  <2>3. head \in Links /\ tail \in Links
    BY <1>1 DEF Links
  <2>4. next \in [Nodes -> Nodes \cup {End, Null}] /\ elem \in [Nodes -> Items \cup {Nothing}]
    BY <1>1
  <2> QED BY <1>1, <2>1, <2>2, <2>3, <2>4 DEF Typed, TypeOK
<1>3. Reads
  BY <1>1 DEF Reads, TailRead, HeadRead
<1> DEFINE M == <<Dummy>>
           H == [t \in Threads |-> <<>>]
           F == <<>>
           K == [n \in Nodes |-> IF n = Dummy THEN "main" ELSE "fresh"]
           O == [n \in Nodes |-> Null]
           B == [t \in Threads |-> {}]
<1>4. Witnesses(M, H, F, K, O, B)
  BY <1>1 DEF Witnesses, Kinds
<1>5. Pushing = {}
  BY <1>1 DEF Pushing
<1>6. Path(next, Dummy, M, End) /\ On(M) = {Dummy}
  BY <1>1, PathOne
<1>7. Lists(M, H, F, K, O)
  <2>1. Path(next, freeTop, F, Null) /\ On(F) = {}
    BY <1>1, PathNone
  <2>2. head.node = Dummy /\ tail.node = Dummy
    BY <1>1
  <2>3. \A n \in Nodes : next[n] = End => n = Dummy
    BY <1>1
  <2>4. \A t \in Threads : pc[t] = "idle"
    BY <1>1
  <2>5. (\A n \in On(M) : K[n] = "main") /\ (\A n \in fresh : K[n] = "fresh")
    BY <1>1, <1>6
  <2> QED BY <1>5, <1>6, <2>1, <2>2, <2>3, <2>4, <2>5 DEF Lists
<1>8. Order(H, B)
  BY <1>5 DEF Order
<1>9. Content(M, H)
  <2>1. Bearing(M, H) = {}
    BY <1>1, <1>5, <1>6 DEF Bearing
  <2>2. Begun = {}
    BY <1>1 DEF Begun
  <2>3. On(popped) = {} /\ Len(popped) = 0
    BY <1>1 DEF On
  <2> QED BY <1>5, <2>1, <2>2, <2>3 DEF Content
<1>10. Straight(H, K)
  BY <1>1, <1>5 DEF Straight
<1> HIDE DEF M, H, F, K, O, B
<1> QED BY <1>2, <1>3, <1>4, <1>7, <1>8, <1>9, <1>10 DEF Inv, Parts

(* The items inside are those of the nodes behind the dummy.                *)
LEMMA InsideVals ==
    ASSUME Typed, NEW M, Path(next, head.node, M, End)
    PROVE  Inside = Vals(elem, Tail(M))
<1>1. Inside = ChainOf(next, elem, next[head.node])
  BY DEF Inside, Chain, ChainOf
<1> QED BY <1>1, Types, InsideIs

(* The same after a step.                                                   *)
LEMMA InsideValsNext ==
    ASSUME Typed', NEW M, Path(next', head'.node, M, End)
    PROVE  Inside' = Vals(elem', Tail(M))
<1>1. Inside' = ChainOf(next', elem', next'[head'.node])
  BY DEF Inside, Chain, ChainOf
<1>2. next' \in [Nodes -> Ends] /\ elem' \in [Nodes -> Elems] /\ head'.node \in Nodes
  BY DEF Typed, TypeOK, Links, Ends, Elems
<1> QED BY <1>1, <1>2, InsideIs

(* The same nodes with the same items: the queue is the same.               *)
LEMMA InsideSame ==
    ASSUME Typed, Typed', NEW M, Path(next, head.node, M, End), Path(next', head'.node, M, End),
           \A m \in On(M) : elem'[m] = elem[m]
    PROVE  Inside' = Inside
<1>1. M \in Seq(Nodes) /\ M # <<>>
  BY Types, PathStart, QueueAssumption DEF Path
<1>2. \A i \in 1 .. Len(Tail(M)) : Tail(M)[i] \in On(M)
  <2>1. head.node \in Nodes /\ On(Tail(M)) = On(M) \ {head.node}
    BY Types, PathTail, QueueAssumption
  <2> QED BY <2>1 DEF On
<1>3. Vals(elem', Tail(M)) = Vals(elem, Tail(M))
  BY <1>2 DEF Vals
<1> QED BY <1>3, InsideVals, InsideValsNext

(* The dummy moved on: the front item is gone.                              *)
LEMMA InsidePopped ==
    ASSUME Typed, Typed', NEW M, Path(next, head.node, M, End), Path(next', head'.node, Tail(M), End),
           elem' = elem, next[head.node] \in Nodes
    PROVE  Inside # <<>> /\ Inside' = Tail(Inside) /\ Head(Inside) = elem[next[head.node]]
<1> DEFINE r == Tail(M)
<1>1. Path(next, next[head.node], r, End)
  BY Types, PathTail, QueueAssumption
<1>2. r \in Seq(Nodes) /\ r # <<>> /\ Len(r) \in Nat \ {0} /\ r[1] = next[head.node]
  BY <1>1, PathStart, QueueAssumption DEF Path
<1>3. Inside = Vals(elem, r) /\ Inside' = Vals(elem, Tail(r))
  BY InsideVals, InsideValsNext
<1> HIDE DEF r
<1>4. /\ Vals(elem, r) = <<elem[r[1]]>> \o Vals(elem, Tail(r))
      /\ Vals(elem, r) \in Seq(Elems) /\ Vals(elem, Tail(r)) \in Seq(Elems)
  BY <1>2, Types, ValsTail
<1>5. Len(Vals(elem, r)) = Len(r) /\ Vals(elem, r)[1] = elem[r[1]]
  BY <1>2, <1>4 DEF Vals
<1>6. Tail(<<elem[r[1]]>> \o Vals(elem, Tail(r))) = Vals(elem, Tail(r))
  <2>1. elem[r[1]] \in Elems
    BY <1>2, Types
  <2> QED BY <1>4, <2>1, ConcatSimplifications
<1> QED BY <1>2, <1>3, <1>4, <1>5, <1>6

(* Nodes linked behind the last one: items are added at the back.           *)
LEMMA InsideGrows ==
    ASSUME Typed, Typed', NEW M, NEW h \in Seq(Nodes), h # <<>>, head' = head, elem' = elem,
           Path(next, head.node, M, End), Path(next', head.node, M \o h, End)
    PROVE  IsStrictPrefix(Inside, Inside')
<1> DEFINE q == M \o h
           r == Tail(M)
           p == Tail(q)
           v == Vals(elem, r)
           w == Vals(elem, p)
<1>1. M \in Seq(Nodes) /\ M # <<>> /\ Len(M) \in Nat \ {0} /\ Len(h) \in Nat \ {0}
  <2>1. M \in Seq(Nodes) /\ M # <<>> /\ Len(M) \in Nat \ {0}
    BY Types, PathStart, QueueAssumption DEF Path
  <2>2. Len(h) \in Nat /\ Len(h) # 0
    BY EmptySeq, LenProperties
  <2> QED BY <2>1, <2>2
<1>2. /\ q \in Seq(Nodes) /\ Len(q) = Len(M) + Len(h) /\ q # <<>>
      /\ \A i \in 1 .. Len(M) : q[i] = M[i]
  <2>1. /\ q \in Seq(Nodes) /\ Len(q) = Len(M) + Len(h)
        /\ \A i \in 1 .. Len(q) : q[i] = IF i <= Len(M) THEN M[i] ELSE h[i - Len(M)]
    BY <1>1, ConcatProperties
  <2> HIDE DEF q
  <2>2. \A i \in 1 .. Len(M) : i \in 1 .. Len(q) /\ i <= Len(M)
    BY <1>1, <2>1
  <2>3. q # <<>>
    BY <1>1, <2>1
  <2> QED BY <2>1, <2>2, <2>3
<1>3. r \in Seq(Nodes) /\ Len(r) = Len(M) - 1 /\ \A i \in 1 .. Len(r) : r[i] = M[i + 1]
  BY <1>1, HeadTailProperties
<1> HIDE DEF q
<1>4. p \in Seq(Nodes) /\ Len(p) = Len(q) - 1 /\ \A i \in 1 .. Len(p) : p[i] = q[i + 1]
  BY <1>2, HeadTailProperties
<1> HIDE DEF r, p
<1>5. Len(r) \in Nat /\ Len(p) \in Nat /\ Len(r) < Len(p) /\ \A i \in 1 .. Len(r) : p[i] = r[i]
  <2>1. Len(r) \in Nat /\ Len(p) \in Nat /\ Len(r) < Len(p)
    BY <1>1, <1>2, <1>3, <1>4
  <2>2. \A i \in 1 .. Len(r) : i \in 1 .. Len(p) /\ i + 1 \in 1 .. Len(M)
    BY <1>1, <1>3, <2>1
  <2> QED BY <1>2, <1>3, <1>4, <2>1, <2>2
<1>6. Len(v) = Len(r) /\ Len(w) = Len(p) /\ (\A i \in 1 .. Len(r) : w[i] = v[i] /\ v[i] = elem[r[i]])
  <2>1. \A i \in 1 .. Len(r) : i \in 1 .. Len(p)
    BY <1>5
  <2> QED BY <1>5, <2>1 DEF Vals
<1>7. \A i \in 1 .. Len(r) : v[i] \in Elems /\ w[i] \in Elems
  BY <1>3, <1>6, Types
<1>8. Inside = v /\ Inside' = w
  <2>1. Inside' = Vals(elem, Tail(M \o h))
    BY InsideValsNext
  <2> QED BY <2>1, InsideVals DEF r, p, q
<1> HIDE DEF v, w
<1>9. /\ SubSeq(v, 1, Len(r)) \in Seq(Elems) /\ SubSeq(w, 1, Len(r)) \in Seq(Elems)
      /\ Len(SubSeq(v, 1, Len(r))) = Len(r) /\ Len(SubSeq(w, 1, Len(r))) = Len(r)
      /\ \A i \in 1 .. Len(r) : SubSeq(v, 1, Len(r))[i] = v[i] /\ SubSeq(w, 1, Len(r))[i] = w[i]
  BY <1>5, <1>7, SubSeqProperties
<1>10. SubSeq(v, 1, Len(r)) = SubSeq(w, 1, Len(r))
  BY <1>6, <1>9, SeqEqual
<1>11. IsPrefix(v, w)
  BY <1>5, <1>6, <1>10 DEF IsPrefix
<1>12. v # w
  BY <1>5, <1>6
<1> QED BY <1>8, <1>11, <1>12 DEF IsStrictPrefix

-----------------------------------------------------------------------------
(* Every step keeps the invariant, and is a step of a queue or none.       *)

\* What a step may do to the queue: Push, Pop, or nothing.
Moved == Queue!Push \/ Queue!Pop \/ UNCHANGED <<Inside, popped>>

(* A step that leaves the lists alone.                                      *)
LEMMA LocalStepKeeps ==
    ASSUME Inv, NEW t \in Threads, LocalStep(t)
    PROVE  Inv' /\ Moved
<1>1. PICK M, H, F, K, O, B : Witnesses(M, H, F, K, O, B) /\ Parts(M, H, F, K, O, B)
  BY DEF Inv
<1>2. Typed /\ Reads
  BY DEF Inv
<1>3. Reads' /\ Parts(M, H, F, K, O, B)'
  BY <1>1, <1>2, LocalKept
<1>4. /\ Typed' /\ head' = head /\ next' = next /\ elem' = elem /\ popped' = popped
  BY DEF LocalStep
<1>5. Inv'
  BY <1>1, <1>3, <1>4 DEF Inv, Witnesses
<1>6. Inside' = Inside
  BY <1>4 DEF Inside, Chain
<1> QED BY <1>4, <1>5, <1>6 DEF Moved

(* TakeNode.                                                                *)
LEMMA TakeNodeKeeps ==
    ASSUME Inv, NEW t \in Threads, TakeNode(t)
    PROVE  Inv' /\ Moved
<1>1. PICK M, H, F, K, O, B : Witnesses(M, H, F, K, O, B) /\ Parts(M, H, F, K, O, B)
  BY DEF Inv
<1>2. Typed /\ Reads
  BY DEF Inv
<1>3. Inv' /\ Path(next', head'.node, M, End) /\ (\A m \in On(M) : elem'[m] = elem[m])
  BY <1>1, <1>2, TakeNodeKept
<1>4. Path(next, head.node, M, End)
  BY <1>1 DEF Parts, Lists
<1>5. Typed'
  BY <1>3 DEF Inv
<1>6. Inside' = Inside
  BY <1>2, <1>3, <1>4, <1>5, InsideSame
<1>7. popped' = popped
  BY DEF TakeNode
<1> QED BY <1>3, <1>6, <1>7 DEF Moved

(* LinkNode.                                                                *)
LEMMA LinkNodeKeeps ==
    ASSUME Inv, NEW t \in Threads, LinkNode(t)
    PROVE  Inv' /\ Moved
<1> DEFINE last == loc[t].link.node
<1>1. PICK M, H, F, K, O, B : Witnesses(M, H, F, K, O, B) /\ Parts(M, H, F, K, O, B)
  BY DEF Inv
<1>2. Typed /\ Reads /\ TailRead(t) /\ HeadRead(t)
  BY DEF Inv, Reads
<1>3. Lists(M, H, F, K, O) /\ Path(next, head.node, M, End)
  BY <1>1 DEF Parts, Lists
<1>4. CASE next[last] # End
  <2>1. Linked
    BY <1>2, <1>3, ListsLinked
  <2>2. LocalStep(t)
    BY <1>2, <1>4, <2>1, LinkNodeFails
  <2> QED BY <2>2, LocalStepKeeps
<1>5. CASE next[last] = End
  <2>1. Linking(t, last) /\ Reads'
    BY <1>2, <1>3, <1>5, LinkNodeLinks
  <2>2. /\ Typed' /\ head' = head /\ elem' = elem /\ popped' = popped /\ last \in Nodes
        /\ t \in Pushing
    BY <2>1 DEF Linking
  <2>3. last \in On(M) \/ \E v \in Pushing : last \in On(H[v])
    BY <1>3, <1>5, <2>2 DEF Lists
  <2> HIDE DEF last
  <2>4. CASE last \in On(M)
    <3>1. /\ \E K2 : Witnesses(M \o H[t], H, F, K2, O, B) /\ Parts(M \o H[t], H, F, K2, O, B)'
          /\ Path(next', head.node, M \o H[t], End)
      BY <1>1, <1>2, <2>1, <2>4, LinkedMain
    <3>2. Inv'
      BY <2>1, <2>2, <3>1 DEF Inv, Witnesses
    <3>3. H[t] \in Seq(Nodes) /\ H[t] # <<>>
      <4>1. loc[t].node \in On(H[t])
        BY <1>2, <1>3, <2>2, ListNodes
      <4>2. H[t] \in Seq(Nodes)
        BY <1>1 DEF Witnesses
      <4> QED BY <4>1, <4>2 DEF On
    <3>4. IsStrictPrefix(Inside, Inside')
      BY <1>2, <1>3, <2>2, <3>1, <3>3, InsideGrows
    <3>5. Queue!Push
      BY <2>2, <3>4 DEF Queue!Push, Queue!IsStrictPrefix, Queue!IsPrefix, IsStrictPrefix, IsPrefix
    <3> QED BY <3>2, <3>5 DEF Moved
  <2>5. CASE \E v \in Pushing : last \in On(H[v])
    <3>1. PICK v \in Pushing : last \in On(H[v])
      BY <2>5
    <3>2. /\ \E H2, O2 : Witnesses(M, H2, F, K, O2, B) /\ Parts(M, H2, F, K, O2, B)'
          /\ Path(next', head.node, M, End)
      BY <1>1, <1>2, <2>1, <3>1, LinkedHung
    <3>3. Inv'
      BY <2>1, <2>2, <3>2 DEF Inv, Witnesses
    <3>4. Inside' = Inside
      <4>1. Path(next', head'.node, M, End) /\ (\A m \in On(M) : elem'[m] = elem[m])
        BY <2>2, <3>2
      <4> QED BY <1>2, <1>3, <2>2, <4>1, InsideSame
    <3> QED BY <2>2, <3>3, <3>4 DEF Moved
  <2> QED BY <2>3, <2>4, <2>5
<1> QED BY <1>4, <1>5

(* MoveHead.                                                                *)
LEMMA MoveHeadKeeps ==
    ASSUME Inv, NEW t \in Threads, MoveHead(t)
    PROVE  Inv' /\ Moved
<1>1. PICK M, H, F, K, O, B : Witnesses(M, H, F, K, O, B) /\ Parts(M, H, F, K, O, B)
  BY DEF Inv
<1>2. Typed /\ Reads /\ TailRead(t) /\ HeadRead(t)
  BY DEF Inv, Reads
<1>3. Lists(M, H, F, K, O) /\ Path(next, head.node, M, End)
  BY <1>1 DEF Parts, Lists
<1>4. CASE head # loc[t].link
  <2>1. Linked
    BY <1>2, <1>3, ListsLinked
  <2>2. LocalStep(t)
    BY <1>2, <1>4, <2>1, MoveHeadFails
  <2> QED BY <2>2, LocalStepKeeps
<1>5. CASE head = loc[t].link
  <2>1. Inv' /\ Path(next, head'.node, Tail(M), End)
    BY <1>1, <1>2, <1>5, MoveHeadKept
  <2>2. next[head.node] \in Nodes /\ popped' = Append(popped, elem[next[head.node]])
    BY <1>1, <1>2, <1>5, MoveHeadTakes
  <2>3. next' = next /\ elem' = elem
    BY DEF MoveHead
  <2>4. Typed' /\ Path(next', head'.node, Tail(M), End)
    BY <2>1, <2>3 DEF Inv
  <2>5. Inside # <<>> /\ Inside' = Tail(Inside) /\ Head(Inside) = elem[next[head.node]]
    BY <1>2, <1>3, <2>2, <2>3, <2>4, InsidePopped
  <2>6. Queue!Pop
    BY <2>2, <2>5 DEF Queue!Pop
  <2> QED BY <2>1, <2>6 DEF Moved
<1> QED BY <1>4, <1>5

(* FreeNode.                                                                *)
LEMMA FreeNodeKeeps ==
    ASSUME Inv, NEW t \in Threads, FreeNode(t)
    PROVE  Inv' /\ Moved
<1>1. PICK M, H, F, K, O, B : Witnesses(M, H, F, K, O, B) /\ Parts(M, H, F, K, O, B)
  BY DEF Inv
<1>2. Typed /\ Reads
  BY DEF Inv
<1>3. Inv' /\ Path(next', head'.node, M, End) /\ (\A m \in On(M) : elem'[m] = elem[m])
  BY <1>1, <1>2, FreeNodeKept
<1>4. Path(next, head.node, M, End)
  BY <1>1 DEF Parts, Lists
<1>5. Typed'
  BY <1>3 DEF Inv
<1>6. Inside' = Inside
  BY <1>2, <1>3, <1>4, <1>5, InsideSame
<1>7. popped' = popped
  BY DEF FreeNode
<1> QED BY <1>3, <1>6, <1>7 DEF Moved

(* One step.                                                                *)
LEMMA StepKeeps ==
    ASSUME Inv, [Next]_vars
    PROVE  Inv' /\ Moved
<1>1. CASE UNCHANGED vars
  <2>1. UNCHANGED <<recycle, head, tail, next, elem, count, freeTop, fresh, pc, loc, pushed, pops, popped>>
    BY <1>1 DEF vars, shared
  <2>2. Inv'
    <3>1. PICK M, H, F, K, O, B : Witnesses(M, H, F, K, O, B) /\ Parts(M, H, F, K, O, B)
      BY DEF Inv
    <3>2. Typed'
      BY <2>1 DEF Inv, Typed, TypeOK
    <3>3. Inside' = Inside /\ Pushing' = Pushing /\ Begun' = Begun /\ (Plain' <=> Plain)
      BY <2>1 DEF Inside, Chain, Pushing, Begun, Plain
    <3>4. Reads'
      BY <2>1 DEF Inv, Reads, TailRead, HeadRead
    <3>5. Lists(M, H, F, K, O)'
      BY <2>1, <3>1, <3>3 DEF Parts, Lists, Path
    <3>6. Order(H, B)'
      BY <2>1, <3>1, <3>3 DEF Parts, Order
    <3>7. Content(M, H)'
      <4>1. Bearing(M, H)' = Bearing(M, H)
        BY <2>1, <3>3 DEF Bearing
      <4> QED BY <2>1, <3>1, <3>3, <4>1 DEF Parts, Content
    <3>8. Straight(H, K)'
      BY <2>1, <3>1, <3>3 DEF Parts, Straight
    <3> QED BY <3>1, <3>2, <3>4, <3>5, <3>6, <3>7, <3>8 DEF Inv, Parts, Witnesses
  <2>3. Inside' = Inside
    BY <2>1 DEF Inside, Chain
  <2> QED BY <2>1, <2>2, <2>3 DEF Moved
<1>2. CASE Next
  <2>1. PICK t \in Threads : TakeNode(t) \/ BeginPop(t) \/ PushStep(t) \/ PopStep(t)
    BY <1>2 DEF Next
  <2>2. Typed /\ TailRead(t) /\ HeadRead(t)
    BY DEF Inv, Reads
  <2>3. Linked
    BY ListsLinked DEF Inv, Parts
  <2>4. CASE TakeNode(t)
    BY <2>4, TakeNodeKeeps
  <2>5. CASE LinkNode(t)
    BY <2>5, LinkNodeKeeps
  <2>6. CASE MoveHead(t)
    BY <2>6, MoveHeadKeeps
  <2>7. CASE FreeNode(t)
    BY <2>7, FreeNodeKeeps
  <2>8. CASE CheckHead(t)
    <3>1. LocalStep(t)
      BY <2>2, <2>3, <2>8, CheckHeadFails, CheckHeadHolds
    <3> QED BY <3>1, LocalStepKeeps
  <2>9. CASE ReadElem(t)
    <3>1. LocalStep(t)
      BY <2>2, <2>3, <2>9, ReadElemFails, ReadElemReads
    <3> QED BY <3>1, LocalStepKeeps
  <2>10. CASE \/ ReadTailSeq(t) \/ ReadTailNode(t) \/ ReadTailNext(t) \/ HelpPush(t)
              \/ FinishOwnPush(t) \/ CountPush(t)
    <3>1. LocalStep(t)
      BY <2>2, <2>3, <2>10, ReadTailSeqLocal, ReadTailNodeLocal, ReadTailNextLocal,
          HelpPushLocal, FinishOwnPushLocal, CountPushLocal
    <3> QED BY <3>1, LocalStepKeeps
  <2>11. CASE \/ BeginPop(t) \/ ReadHeadSeq(t) \/ ReadHeadNode(t) \/ ReadPopTail(t) \/ ReadNext(t)
              \/ PopEmpty(t) \/ SeePush(t) \/ PopHelp(t) \/ CountPop(t)
    <3>1. LocalStep(t)
      BY <2>2, <2>3, <2>11, BeginPopLocal, ReadHeadSeqLocal, ReadHeadNodeLocal, ReadPopTailLocal,
          ReadNextLocal, PopEmptyLocal, SeePushLocal, PopHelpLocal, CountPopLocal
    <3> QED BY <3>1, LocalStepKeeps
  <2> QED BY <2>1, <2>4, <2>5, <2>6, <2>7, <2>8, <2>9, <2>10, <2>11 DEF PushStep, PopStep
<1> QED BY <1>1, <1>2

(* Inv is an invariant of the queue.                                        *)
THEOREM InvHolds == Spec => []Inv
<1>1. Init => Inv
  BY InitInv
<1>2. Inv /\ [Next]_vars => Inv'
  BY StepKeeps
<1> QED BY <1>1, <1>2, PTL DEF Spec

(* QueueSpec: pushes and pops move the queue as a first-in-first-out queue  *)
(* moves, whoever of how many threads does what (tslist.h 628-1020).        *)
THEOREM QueueImplements == Spec => QueueSpec
<1>1. Init => Queue!Init
  <2> SUFFICES ASSUME Init PROVE Inside = <<>> /\ popped = <<>>
    BY DEF Queue!Init
  <2>1. Inv
    BY InitInv
  <2>2. Linked
    BY <2>1, ListsLinked DEF Inv, Parts
  <2>3. next[head.node] = End /\ popped = <<>>
    BY QueueAssumption DEF Init
  <2> QED BY <2>2, <2>3 DEF Linked
<1>2. Inv /\ [Next]_vars => [Queue!Push \/ Queue!Pop]_<<Inside, popped>>
  BY StepKeeps DEF Moved
<1> QED BY <1>1, <1>2, InvHolds, PTL DEF Spec, QueueSpec, Queue!Spec

(* EmptyHonest: a pop that answers that there is nothing saw an empty queue  *)
(* (tslist.h 788-815).                                                       *)
THEOREM EmptyHonestHolds == Spec => []EmptyHonest
<1>1. Inv => EmptyHonest
  BY DEF Inv, Reads, HeadRead, EmptyHonest
<1> QED BY <1>1, InvHolds, PTL

-----------------------------------------------------------------------------
(* Where the items are.                                                    *)

(* The items of distinct nodes that bear distinct items.                    *)
LEMMA ValsOn ==
    ASSUME NEW el, NEW s \in Seq(Nodes), \A i, j \in 1 .. Len(s) : s[i] = s[j] => i = j,
           \A m, n \in On(s) : el[m] = el[n] => m = n
    PROVE  ToSet(Vals(el, s)) = {el[n] : n \in On(s)} /\ IsInjective(Vals(el, s))
<1>1. DOMAIN Vals(el, s) = 1 .. Len(s) /\ \A i \in 1 .. Len(s) : Vals(el, s)[i] = el[s[i]] /\ s[i] \in On(s)
  BY DEF Vals, On
<1>2. IsInjective(Vals(el, s))
  BY <1>1 DEF IsInjective
<1>3. \A x : x \in ToSet(Vals(el, s)) <=> x \in {el[n] : n \in On(s)}
  BY <1>1 DEF ToSet, On
<1> QED BY <1>2, <1>3

(* The items popped and inside are those popped and those of the nodes       *)
(* behind the dummy, each once.                                             *)
LEMMA OutIs ==
    ASSUME Typed, NEW M, NEW H, Path(next, head.node, M, End), Content(M, H)
    PROVE  /\ ToSet(popped \o Inside) = On(popped) \cup {elem[n] : n \in On(M) \ {head.node}}
           /\ IsInjective(popped \o Inside)
<1> DEFINE r == Tail(M)
           v == Vals(elem, r)
           out == popped \o v
           a == Len(popped)
           b == Len(v)
<1>1. Path(next, next[head.node], r, End) /\ On(r) = On(M) \ {head.node}
  BY Types, PathTail, QueueAssumption
<1>2. Inside = v
  BY InsideVals
<1>3. /\ \A m, n \in On(r) : elem[m] = elem[n] => m = n
      /\ \A n \in On(r) : n \in Bearing(M, H)
  BY <1>1 DEF Content, Bearing
<1> HIDE DEF r
<1>4. r \in Seq(Nodes) /\ Len(r) \in Nat /\ \A i, j \in 1 .. Len(r) : r[i] = r[j] => i = j
  BY <1>1, PathFacts
<1>5. ToSet(v) = {elem[n] : n \in On(r)} /\ IsInjective(v)
  BY <1>3, <1>4, ValsOn
<1>6. v \in Seq(Elems) /\ b = Len(r)
  <2>1. \A i \in 1 .. Len(r) : elem[r[i]] \in Elems
    BY <1>4, Types
  <2>2. v \in [1 .. Len(r) -> Elems]
    BY <2>1 DEF Vals
  <2> HIDE DEF v
  <2> QED BY <1>4, <2>2
<1> HIDE DEF v
<1>7. popped \in Seq(Elems) /\ a \in Nat /\ b \in Nat
  BY <1>6, Types DEF Elems
<1>8. /\ out \in Seq(Elems) /\ Len(out) = a + b
      /\ \A i \in 1 .. Len(out) : out[i] = IF i <= a THEN popped[i] ELSE v[i - a]
  BY <1>6, <1>7, ConcatProperties
<1> HIDE DEF out
<1>9. DOMAIN out = 1 .. a + b /\ DOMAIN v = 1 .. b /\ DOMAIN popped = 1 .. a
  BY <1>6, <1>7, <1>8
<1>10. \A i \in 1 .. b : v[i] \in ToSet(v)
  BY <1>9 DEF ToSet
<1>11. \A x : x \in ToSet(out) <=> x \in On(popped) \cup ToSet(v)
  <2> TAKE x
  <2>1. ASSUME NEW i \in 1 .. a PROVE popped[i] \in ToSet(out)
    <3>1. i \in 1 .. a + b /\ out[i] = popped[i]
      BY <1>7, <1>8
    <3> QED BY <1>9, <3>1 DEF ToSet
  <2>2. ASSUME NEW i \in 1 .. b PROVE v[i] \in ToSet(out)
    <3>1. i + a \in 1 .. a + b /\ out[i + a] = v[i]
      BY <1>7, <1>8
    <3> QED BY <1>9, <3>1 DEF ToSet
  <2>3. ASSUME NEW i \in 1 .. a + b PROVE out[i] \in On(popped) \cup ToSet(v)
    <3>1. CASE i <= a
      BY <1>7, <1>8, <3>1 DEF On
    <3>2. CASE ~(i <= a)
      <4>1. i - a \in 1 .. b /\ out[i] = v[i - a]
        BY <1>7, <1>8, <3>2
      <4> QED BY <1>10, <4>1
    <3> QED BY <3>1, <3>2
  <2> QED BY <1>9, <2>1, <2>2, <2>3 DEF ToSet, On
<1>12. \A i \in 1 .. b : v[i] \notin On(popped)
  BY <1>3, <1>5, <1>10 DEF Content
<1>13. IsInjective(out)
  <2> SUFFICES ASSUME NEW i \in 1 .. a + b, NEW j \in 1 .. a + b, out[i] = out[j] PROVE i = j
    BY <1>9 DEF IsInjective
  <2>1. CASE i <= a /\ j <= a
    <3>1. i \in 1 .. a /\ j \in 1 .. a /\ popped[i] = popped[j]
      BY <1>7, <1>8, <2>1
    <3> QED BY <3>1 DEF Content
  <2>2. CASE ~(i <= a) /\ ~(j <= a)
    <3>1. i - a \in 1 .. b /\ j - a \in 1 .. b /\ v[i - a] = v[j - a]
      BY <1>7, <1>8, <2>2
    <3>2. i - a = j - a
      BY <1>5, <1>9, <3>1 DEF IsInjective
    <3> QED BY <1>7, <3>2
  <2>3. CASE i <= a /\ ~(j <= a)
    <3>1. i \in 1 .. a /\ j - a \in 1 .. b /\ popped[i] = v[j - a]
      BY <1>7, <1>8, <2>3
    <3> QED BY <1>12, <3>1 DEF On
  <2>4. CASE ~(i <= a) /\ j <= a
    <3>1. j \in 1 .. a /\ i - a \in 1 .. b /\ popped[j] = v[i - a]
      BY <1>7, <1>8, <2>4
    <3> QED BY <1>12, <3>1 DEF On
  <2> QED BY <2>1, <2>2, <2>3, <2>4
<1> QED BY <1>1, <1>2, <1>5, <1>11, <1>13 DEF out

(* What hangs off the node of a push under way.                             *)
LEMMA HangingIs ==
    ASSUME Typed, NEW M, NEW H, NEW F, NEW K, NEW O, Lists(M, H, F, K, O), Content(M, H),
           NEW t \in Threads
    PROVE  /\ t \in Pushing => ToSet(Hanging(t)) = {elem[n] : n \in On(H[t])}
           /\ t \notin Pushing => ToSet(Hanging(t)) = {}
           /\ IsInjective(Hanging(t))
<1>1. CASE t \notin Pushing
  BY <1>1 DEF Hanging, ToSet, IsInjective
<1>2. CASE t \in Pushing
  <2>1. Path(next, loc[t].node, H[t], End)
    BY <1>2 DEF Lists
  <2>2. Hanging(t) = Vals(elem, H[t])
    <3>1. Hanging(t) = ChainOf(next, elem, loc[t].node)
      BY <1>2 DEF Hanging, Chain, ChainOf
    <3> QED BY <2>1, <3>1, ChainIsPath, Types
  <2>3. H[t] \in Seq(Nodes) /\ \A i, j \in 1 .. Len(H[t]) : H[t][i] = H[t][j] => i = j
    BY <2>1, PathFacts
  <2>4. \A m, n \in On(H[t]) : elem[m] = elem[n] => m = n
    BY <1>2 DEF Content, Bearing
  <2> QED BY <1>2, <2>2, <2>3, <2>4, ValsOn
<1> QED BY <1>1, <1>2

(* NothingLost: every item begun was popped, is inside, or hangs off a push  *)
(* still under way, and is in only one of these places, once.               *)
THEOREM NothingLostHolds == Spec => []NothingLost
<1>1. Inv => NothingLost
  <2> SUFFICES ASSUME Inv PROVE NothingLost
    OBVIOUS
  <2> DEFINE out == popped \o Inside
  <2>1. PICK M, H, F, K, O, B : Witnesses(M, H, F, K, O, B) /\ Parts(M, H, F, K, O, B)
    BY DEF Inv
  <2>2. Typed /\ TypeOK /\ Lists(M, H, F, K, O) /\ Content(M, H) /\ Path(next, head.node, M, End)
    BY <2>1 DEF Inv, Parts, Lists, Typed
  <2>3. /\ ToSet(out) = On(popped) \cup {elem[n] : n \in On(M) \ {head.node}}
        /\ IsInjective(out)
    BY <2>2, OutIs
  <2>4. \A t \in Threads :
            /\ t \in Pushing => ToSet(Hanging(t)) = {elem[n] : n \in On(H[t])}
            /\ t \notin Pushing => ToSet(Hanging(t)) = {}
            /\ IsInjective(Hanging(t))
    BY <2>2, HangingIs
  <2> HIDE DEF out
  <2>5. /\ \A n \in On(M) : K[n] = "main"
        /\ \A u \in Pushing : u \in Threads /\ \A n \in On(H[u]) : K[n] = "hang" /\ O[n] = u
    BY <2>2, ListNodes
  <2>6. Begun = On(popped) \cup {elem[n] : n \in Bearing(M, H)}
    BY <2>2 DEF Content
  <2>7. \A x : x \in Begun <=> x \in ToSet(out) \cup UNION {ToSet(Hanging(t)) : t \in Threads}
    <3> TAKE x
    <3>1. x \in Begun <=> x \in On(popped) \/ \E n \in Bearing(M, H) : x = elem[n]
      BY <2>6
    <3>2. (\E n \in Bearing(M, H) : x = elem[n])
             <=> \/ \E n \in On(M) \ {head.node} : x = elem[n]
                 \/ \E t \in Pushing : \E n \in On(H[t]) : x = elem[n]
      BY BearingIs
    <3>3. x \in UNION {ToSet(Hanging(t)) : t \in Threads} <=> \E t \in Threads : x \in ToSet(Hanging(t))
      OBVIOUS
    <3>4. (\E t \in Threads : x \in ToSet(Hanging(t)))
             <=> \E t \in Pushing : \E n \in On(H[t]) : x = elem[n]
      BY <2>4, <2>5
    <3> QED BY <2>3, <3>1, <3>2, <3>3, <3>4
  <2>8. ASSUME NEW t \in Threads PROVE ToSet(Hanging(t)) \cap ToSet(out) = {}
    <3> SUFFICES ASSUME t \in Pushing, NEW n \in On(H[t]), elem[n] \in ToSet(out) PROVE FALSE
      BY <2>4
    <3>1. n \in Bearing(M, H) /\ K[n] = "hang"
      BY <2>5, BearingIs
    <3>2. elem[n] \notin On(popped)
      BY <2>2, <3>1 DEF Content
    <3>3. PICK m \in On(M) \ {head.node} : elem[n] = elem[m]
      BY <2>3, <3>2
    <3>4. m \in Bearing(M, H) /\ K[m] = "main"
      BY <2>5, BearingIs
    <3> QED BY <2>2, <3>1, <3>3, <3>4 DEF Content
  <2>9. ASSUME NEW t \in Threads, NEW u \in Threads \ {t}
        PROVE  ToSet(Hanging(t)) \cap ToSet(Hanging(u)) = {}
    <3> SUFFICES ASSUME t \in Pushing, u \in Pushing, NEW n \in On(H[t]), NEW m \in On(H[u]),
                        elem[n] = elem[m]
                 PROVE  FALSE
      BY <2>4
    <3>1. n \in Bearing(M, H) /\ m \in Bearing(M, H) /\ O[n] = t /\ O[m] = u
      BY <2>5, BearingIs
    <3> QED BY <2>2, <3>1 DEF Content
  <2> QED BY <2>2, <2>3, <2>4, <2>7, <2>8, <2>9 DEF NothingLost, out
<1> QED BY <1>1, InvHolds, PTL

(* CompletedVisible: in a plain queue nothing hangs off another push, so an  *)
(* item whose push has returned was popped or is inside.                    *)
THEOREM CompletedVisibleHolds == Spec => []CompletedVisible
<1>1. Inv => CompletedVisible
  <2> SUFFICES ASSUME Inv, Plain, NEW i \in Begun, Finished(i)
               PROVE  i \in ToSet(popped \o Inside)
    BY DEF CompletedVisible
  <2>1. PICK M, H, F, K, O, B : Witnesses(M, H, F, K, O, B) /\ Parts(M, H, F, K, O, B)
    BY DEF Inv
  <2>2. /\ Typed /\ Lists(M, H, F, K, O) /\ Content(M, H) /\ Straight(H, K)
        /\ Path(next, head.node, M, End)
    BY <2>1 DEF Inv, Parts, Lists
  <2>3. ToSet(popped \o Inside) = On(popped) \cup {elem[n] : n \in On(M) \ {head.node}}
    BY <2>2, OutIs
  <2> SUFFICES ASSUME NEW t \in Pushing, NEW n \in On(H[t]), i = elem[n] PROVE FALSE
    <3>1. i \in On(popped) \/ \E n \in Bearing(M, H) : i = elem[n]
      BY <2>2 DEF Content
    <3> QED BY <2>3, <3>1, BearingIs
  <2>4. /\ t \in Threads /\ Path(next, loc[t].node, H[t], End)
        /\ loc[t].node \in On(H[t]) /\ loc[t].node \in Nodes
    <3>1. t \in Threads /\ loc[t].node \in On(H[t]) /\ loc[t].node \in Nodes
      BY <2>2, ListNodes
    <3> QED BY <2>2, <3>1 DEF Lists
  <2>5. next[loc[t].node] = End
    BY <2>2 DEF Straight
  <2>6. n = loc[t].node
    <3>1. H[t][1] = loc[t].node /\ H[t] # <<>> /\ Len(H[t]) \in Nat \ {0}
      BY <2>4, PathStart, QueueAssumption
    <3>2. loc[t].node = H[t][Len(H[t])]
      BY <2>4, <2>5, PathLinks, QueueAssumption
    <3>3. Len(H[t]) = 1
      <4>1. \A j, k \in 1 .. Len(H[t]) : H[t][j] = H[t][k] => j = k
        BY <2>4, PathFacts
      <4>2. 1 \in 1 .. Len(H[t]) /\ Len(H[t]) \in 1 .. Len(H[t])
        BY <3>1
      <4> QED BY <3>1, <3>2, <4>1, <4>2
    <3> QED BY <3>1, <3>3 DEF On
  <2>7. i = <<t, pushed[t]>>
    BY <2>2, <2>6 DEF Content
  <2>8. i[1] = t /\ i[2] = pushed[t] /\ pushed[t] \in Nat
    BY <2>2, <2>4, <2>7, Types
  <2> QED BY <2>8 DEF Finished
<1> QED BY <1>1, InvHolds, PTL
=============================================================================
