------------------------------ MODULE NatLemmas ------------------------------
(***************************************************************************)
(* Facts about the naturals, stated for sets and functions and not for     *)
(* operators, so that the proofs of this project can use them by name: the *)
(* least element of a set, induction, and recursion.                       *)
(***************************************************************************)
EXTENDS Integers, WellFoundedInduction, TLAPS

(* A nonempty set of naturals has a least element: the reason why "the      *)
(* first entry that holds a string" names an entry whenever there is one.   *)
LEMMA LeastNat ==
    ASSUME NEW T \in SUBSET Nat, T # {}
    PROVE  \E m \in T : \A n \in T : m <= n
<1> DEFINE R == {ss \in Nat \X Nat : ss[1] < ss[2]}
<1>1. R = OpToRel(<, Nat)
  BY DEF OpToRel
<1>2. IsWellFoundedOn(R, Nat)
  BY <1>1, NatLessThanWellFounded
<1>3. PICK m \in T : \A n \in T : ~(<<n, m>> \in R)
  <2> HIDE DEF R
  <2> QED BY <1>2, WFMin
<1>4. \A n \in T : ~(n < m)
  BY <1>3
<1> QED BY <1>4

(* Induction up to a bound, the property being a set of numbers.            *)
LEMMA InductionTo ==
    ASSUME NEW N \in Nat, NEW S, 0 \in S, \A k \in 0 .. N - 1 : k \in S => k + 1 \in S
    PROVE  0 .. N \subseteq S
<1> DEFINE T == {k \in 0 .. N : k \notin S}
<1> SUFFICES ASSUME T # {} PROVE FALSE
  OBVIOUS
<1>1. PICK m \in T : \A k \in T : m <= k
  <2>1. T \in SUBSET Nat
    OBVIOUS
  <2> HIDE DEF T
  <2> QED BY <2>1, LeastNat
<1>2. m # 0 /\ m - 1 \in 0 .. N - 1
  BY <1>1
<1>3. m - 1 \in S
  BY <1>1, <1>2
<1> QED BY <1>1, <1>2, <1>3

\* f is given by a first value and a step from each value to the next.
Steps(V, N) == [1 .. N -> [V -> V]]
Recursive(f, V, N, base, step) ==
    /\ f \in [0 .. N -> V]
    /\ \A k \in 0 .. N : f[k] = IF k = 0 THEN base ELSE step[k][f[k - 1]]

(* A function defined by recursion on a number up to N exists.              *)
LEMMA Recursion ==
    ASSUME NEW V, NEW N \in Nat, NEW base \in V, NEW step \in Steps(V, N)
    PROVE  \E f : Recursive(f, V, N, base, step)
<1> USE DEF Steps
<1> DEFINE S == {n \in 0 .. N : \E f \in [0 .. n -> V] :
                    \A k \in 0 .. n : f[k] = IF k = 0 THEN base ELSE step[k][f[k - 1]]}
<1>1. 0 \in S
  <2> DEFINE f == [k \in 0 .. 0 |-> base]
  <2>1. f \in [0 .. 0 -> V] /\ \A k \in 0 .. 0 : f[k] = base /\ k = 0
    OBVIOUS
  <2>2. \E h \in [0 .. 0 -> V] :
            \A k \in 0 .. 0 : h[k] = IF k = 0 THEN base ELSE step[k][h[k - 1]]
    <3> HIDE DEF f
    <3> QED BY <2>1
  <2> QED BY <2>2
<1>2. ASSUME NEW n \in 0 .. N - 1, n \in S PROVE n + 1 \in S
  <2>1. PICK f \in [0 .. n -> V] :
            \A k \in 0 .. n : f[k] = IF k = 0 THEN base ELSE step[k][f[k - 1]]
    BY <1>2
  <2> DEFINE g == [k \in 0 .. n + 1 |-> IF k = n + 1 THEN step[n + 1][f[n]] ELSE f[k]]
  <2>2. f[n] \in V /\ step[n + 1] \in [V -> V]
    BY <2>1
  <2>3. g \in [0 .. n + 1 -> V]
    BY <2>1, <2>2
  <2>4. \A k \in 0 .. n + 1 : g[k] = IF k = 0 THEN base ELSE step[k][g[k - 1]]
    <3> TAKE k \in 0 .. n + 1
    <3>1. CASE k = n + 1
      BY <3>1
    <3>2. CASE k \in 0 .. n
      BY <2>1, <3>2
    <3> QED BY <3>1, <3>2
  <2>5. \E h \in [0 .. n + 1 -> V] :
            \A k \in 0 .. n + 1 : h[k] = IF k = 0 THEN base ELSE step[k][h[k - 1]]
    <3> HIDE DEF g
    <3> QED BY <2>3, <2>4
  <2> QED BY <2>5
<1>3. N \in S
  <2>1. \A n \in 0 .. N - 1 : n \in S => n + 1 \in S
    BY <1>2
  <2> HIDE DEF S
  <2>2. 0 .. N \subseteq S
    BY <1>1, <2>1, InductionTo
  <2> QED BY <2>2
<1> QED BY <1>3 DEF Recursive
=============================================================================
