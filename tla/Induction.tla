----------------------------- MODULE Induction -----------------------------
(***************************************************************************)
(* Induction over the natural numbers, for the set of the numbers that     *)
(* have a property: the provers can instantiate a set, but not a formula.  *)
(***************************************************************************)
EXTENDS Integers, TLAPS, WellFoundedInduction

LEMMA Least ==
  ASSUME NEW T \in SUBSET Nat, T # {}
  PROVE  \E x \in T : \A y \in T : x <= y
<1>1. PICK x \in T : \A y \in T : ~ (<<y, x>> \in OpToRel(<, Nat))
  BY WFMin, NatLessThanWellFounded
<1>2. x \in Nat
  OBVIOUS
<1>3. ASSUME NEW y \in T
      PROVE  x <= y
  <2>1. y \in Nat
    OBVIOUS
  <2>2. ~(y < x)
    BY <1>1, <1>2, <2>1, Zenon DEF OpToRel
  <2>. QED BY <1>2, <2>1, <2>2
<1>. QED BY <1>3

(* From all smaller numbers to the next one.                               *)
LEMMA StrongInduction ==
  ASSUME NEW S, \A n \in Nat : (\A k \in 0 .. n - 1 : k \in S) => n \in S
  PROVE  Nat \subseteq S
<1>. SUFFICES ASSUME Nat \ S # {} PROVE FALSE
  OBVIOUS
<1>1. PICK n \in Nat \ S : \A k \in Nat \ S : n <= k
  BY Least
<1>2. \A k \in 0 .. n - 1 : k \in S
  BY <1>1
<1>. QED BY <1>1, <1>2

(* From a number to the next one, up to a bound.                           *)
LEMMA UpwardInduction ==
  ASSUME NEW top \in Nat, NEW S, 0 \in S,
         \A n \in 0 .. top - 1 : n \in S => n + 1 \in S
  PROVE  0 .. top \subseteq S
<1>. SUFFICES ASSUME (0 .. top) \ S # {} PROVE FALSE
  OBVIOUS
<1>1. PICK n \in (0 .. top) \ S : \A k \in (0 .. top) \ S : n <= k
  <2>1. (0 .. top) \ S \in SUBSET Nat
    OBVIOUS
  <2>. QED BY <2>1, Least
<1>2. n # 0 /\ n - 1 \in 0 .. top - 1 /\ n - 1 \in S
  BY <1>1
<1>3. (n - 1) + 1 \in S
  BY <1>2
<1>. QED BY <1>1, <1>3

(* The functions that a definition by recursion speaks of: the value of 0, *)
(* and the next value from the one before.                                 *)
Recursion(g, a, F, top) == g[0] = a /\ \A k \in 1 .. top : g[k] = F[k][g[k - 1]]

LEMMA RecursionExists ==
  ASSUME NEW V, NEW a \in V, NEW top \in Nat, NEW F \in [1 .. top -> [V -> V]]
  PROVE  \E g \in [0 .. top -> V] : Recursion(g, a, F, top)
<1>. DEFINE S == {m \in 0 .. top : \E g \in [0 .. m -> V] : Recursion(g, a, F, m)}
<1>1. 0 \in S
  <2>. DEFINE g == [k \in 0 .. 0 |-> a]
  <2>1. g \in [0 .. 0 -> V] /\ Recursion(g, a, F, 0)
    BY DEF Recursion
  <2>. QED BY <2>1
<1>2. ASSUME NEW m \in 0 .. top - 1, m \in S
      PROVE  m + 1 \in S
  <2>1. PICK h \in [0 .. m -> V] : Recursion(h, a, F, m)
    BY <1>2
  <2>. DEFINE g == [k \in 0 .. m + 1 |-> IF k <= m THEN h[k] ELSE F[m + 1][h[m]]]
  <2>2. g \in [0 .. m + 1 -> V]
    <3>1. h[m] \in V /\ m + 1 \in 1 .. top
      OBVIOUS
    <3>2. F[m + 1][h[m]] \in V
      BY <3>1
    <3>. QED BY <3>2
  <2>3. ASSUME NEW k \in 1 .. m + 1
        PROVE  g[k] = F[k][g[k - 1]]
    <3>1. g[k - 1] = h[k - 1]
      OBVIOUS
    <3>2. CASE k = m + 1
      BY <3>1, <3>2
    <3>3. CASE k # m + 1
      <4>1. k \in 1 .. m /\ g[k] = h[k]
        BY <3>3
      <4>2. h[k] = F[k][h[k - 1]]
        BY <2>1, <4>1 DEF Recursion
      <4>. QED BY <3>1, <4>1, <4>2
    <3>. QED BY <3>2, <3>3
  <2>4. g[0] = a
    BY <2>1 DEF Recursion
  <2>5. Recursion(g, a, F, m + 1)
    <3>. HIDE DEF g
    <3>. QED BY <2>3, <2>4 DEF Recursion
  <2>. QED BY <2>2, <2>5
<1>3. 0 .. top \subseteq S
  <2>. HIDE DEF S
  <2>. QED BY <1>1, <1>2, UpwardInduction
<1>. QED BY <1>3
=============================================================================
