--------------------------- MODULE InductionLemmas ---------------------------
(***************************************************************************)
(* Induction over the numbers with sets in the place of predicates: what   *)
(* the proofs about loops, counts and sequences rest on.                   *)
(***************************************************************************)
EXTENDS Naturals, WellFoundedInduction, TLAPS

\* The numbers are well-founded.
LEMMA LeastNumber ==
  ASSUME NEW T, T \subseteq Nat, T # {}
  PROVE  \E n \in T : \A m \in T : n <= m
<1>1. OpToRel(<, Nat) = { p \in Nat \X Nat : p[1] < p[2] }
  BY Zenon DEF OpToRel
<1>2. PICK R : R = { p \in Nat \X Nat : p[1] < p[2] } /\ IsWellFoundedOn(R, Nat)
  BY <1>1, NatLessThanWellFounded, Zenon
<1>3. PICK x \in T : \A y \in T : << y, x >> \notin R
  BY <1>2, WFMin
<1>4. ASSUME NEW y \in T, y < x PROVE FALSE
  <2>1. << y, x >> \in Nat \X Nat /\ << y, x >>[1] < << y, x >>[2]
    BY <1>4
  <2>2. << y, x >> \in R
    BY <2>1, <1>2, Zenon
  <2> QED
    BY <2>2, <1>3
<1> QED
  BY <1>4

\* Induction up to n over the numbers that are in a set.
LEMMA Climb ==
  ASSUME NEW n \in Nat, NEW Good, 0 \in Good,
         \A k \in 1..n : k - 1 \in Good => k \in Good
  PROVE  0..n \subseteq Good
<1> DEFINE Bad == (0..n) \ Good
<1>1. SUFFICES ASSUME Bad # {} PROVE FALSE
  OBVIOUS
<1>2. Bad \subseteq Nat
  OBVIOUS
<1>3. PICK k \in Bad : \A m \in Bad : k <= m
  BY <1>1, <1>2, LeastNumber
<1>4. k \in 1..n /\ k - 1 \in 0..n /\ ~(k <= k - 1)
  OBVIOUS
<1>5. k - 1 \in Good
  BY <1>3, <1>4
<1> QED
  BY <1>3, <1>4, <1>5

\* f is defined by recursion on the numbers up to n: from b, with the steps of `step`.
Iterates(f, S, b, step, n) ==
  f \in [0..n -> S] /\ f[0] = b /\ \A m \in 1..n : f[m] = step[m][f[m - 1]]

LEMMA Recursion ==
  ASSUME NEW S, NEW b \in S, NEW step \in [Nat -> [S -> S]], NEW n \in Nat
  PROVE  \E f : Iterates(f, S, b, step, n)
<1> DEFINE Is(f, k) == f \in [0..k -> S] /\ f[0] = b /\ \A m \in 1..k : f[m] = step[m][f[m - 1]]
<1> DEFINE Bad == { k \in 0..n : ~ \E f : Is(f, k) }
<1>1. SUFFICES Bad = {}
  <2>1. n \in 0..n
    OBVIOUS
  <2>2. SUFFICES ASSUME n \notin Bad PROVE \E f : Iterates(f, S, b, step, n)
    OBVIOUS
  <2>3. PICK f : Is(f, n)
    BY <2>1, <2>2
  <2> QED
    BY <2>3 DEF Iterates
<1>2. ASSUME Bad # {} PROVE FALSE
  <2>1. Bad \subseteq Nat
    OBVIOUS
  <2>2. PICK k \in Bad : \A m \in Bad : k <= m
    BY <1>2, <2>1, LeastNumber
  <2>3. k \in Nat /\ k <= n /\ ~ \E f : Is(f, k)
    OBVIOUS
  <2>4. CASE k = 0
    <3>1. Is([m \in 0..0 |-> b], 0)
      OBVIOUS
    <3> QED
      BY <2>3, <2>4, <3>1
  <2>5. CASE k # 0
    <3>1. k - 1 \in 0..n /\ k - 1 \notin Bad
      <4>1. k - 1 \in 0..n /\ ~(k <= k - 1)
        BY <2>3, <2>5
      <4> HIDE DEF Bad
      <4> QED
        BY <2>2, <4>1
    <3>2. PICK f : Is(f, k - 1)
      BY <3>1
    <3>3. k - 1 \in 0..(k - 1) /\ k - 1 \in Nat
      BY <2>3, <2>5
    <3>4. f[k - 1] \in S
      BY <3>2, <3>3
    <3>5. PICK last \in S : last = step[k][f[k - 1]]
      BY <2>3, <3>4
    <3>6. PICK g : g = [m \in 0..k |-> IF m = k THEN last ELSE f[m]]
      OBVIOUS
    <3>7. \A m \in 0..k : g[m] = IF m = k THEN last ELSE f[m]
      BY <3>6
    <3>8. \A m \in 0..(k - 1) : m \in 0..k /\ m # k /\ f[m] \in S
      BY <2>3, <2>5, <3>2
    <3>9. g \in [0..k -> S]
      BY <2>3, <2>5, <3>5, <3>6, <3>8
    <3>10. g[0] = b
      BY <2>3, <2>5, <3>2, <3>7
    <3>11. ASSUME NEW m \in 1..k PROVE g[m] = step[m][g[m - 1]]
      <4>1. m - 1 \in 0..k /\ m - 1 # k /\ g[m - 1] = f[m - 1]
        BY <2>3, <3>7
      <4>2. CASE m = k
        BY <2>3, <3>5, <3>7, <4>1, <4>2
      <4>3. CASE m # k
        <5>1. m \in 1..(k - 1) /\ m \in 0..k
          BY <2>3, <4>3
        <5>2. g[m] = f[m]
          BY <3>7, <4>3, <5>1
        <5> QED
          BY <3>2, <4>1, <5>1, <5>2
      <4> QED
        BY <4>2, <4>3
    <3>12. Is(g, k)
      BY <3>9, <3>10, <3>11
    <3> QED
      BY <2>3, <3>12
  <2> QED
    BY <2>4, <2>5
<1> QED
  BY <1>2
=============================================================================
