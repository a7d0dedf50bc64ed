---------------------------- MODULE SetInduction ----------------------------
(***************************************************************************)
(* Induction on the natural numbers for sets of them, where the property   *)
(* to be proved is membership of a set; and the fact about counting that   *)
(* the proofs about linked lists rest on.                                  *)
(***************************************************************************)
EXTENDS Integers, WellFoundedInduction, TLAPS

\* A set of natural numbers that is not empty has a least element.
LEMMA LeastNat ==
  ASSUME NEW T \in SUBSET Nat, T # {}
  PROVE  \E m \in T : \A k \in T : m <= k
<1> DEFINE R == OpToRel(<, Nat)
<1>1. IsWellFoundedOn(R, Nat)
  BY NatLessThanWellFounded
<1>2. \A x, y \in Nat : <<y, x>> \in R <=> y < x
  BY DEF OpToRel
<1> HIDE DEF R
<1>3. PICK m \in T : \A k \in T : ~ (<<k, m>> \in R)
  BY <1>1, WFMin
<1>4. ASSUME NEW k \in T PROVE m <= k
  <2>1. ~ (k < m)
    BY <1>2, <1>3
  <2>2. QED
    BY <2>1
<1>5. QED
  BY <1>4

\* A set with 0 and the successor of each of its numbers has all of them.
LEMMA NatSetInduction ==
  ASSUME NEW T, 0 \in T, \A n \in Nat : n \in T => n + 1 \in T
  PROVE  \A n \in Nat : n \in T
<1>1. SUFFICES ASSUME Nat \ T # {} PROVE FALSE
  OBVIOUS
<1>2. PICK m \in Nat \ T : \A k \in Nat \ T : m <= k
  BY <1>1, LeastNat
<1>3. m # 0 /\ m - 1 \in Nat /\ m - 1 \in T
  BY <1>2
<1>4. QED
  BY <1>2, <1>3

\* Only m slots can be different: a list of numbers up to m without repetition has
\* no more than m of them.
LEMMA Pigeonhole ==
  ASSUME NEW m \in Nat, NEW n \in Nat, NEW f, \A i \in 1..n : f[i] \in 1..m,
         \A i, j \in 1..n : f[i] = f[j] => i = j
  PROVE  n <= m
<1> DEFINE Within(g, k, l) == /\ \A i \in 1..k : g[i] \in 1..l
                              /\ \A i, j \in 1..k : g[i] = g[j] => i = j
           Good == {l \in Nat : \A k \in Nat : \A g : Within(g, k, l) => k <= l}
<1>1. 0 \in Good
  <2>1. ASSUME NEW k \in Nat, NEW g, Within(g, k, 0) PROVE k <= 0
    <3>1. k # 0 => 1 \in 1..k
      OBVIOUS
    <3>2. QED
      BY <2>1, <3>1
  <2>2. QED
    BY <2>1
<1>2. ASSUME NEW l \in Nat, l \in Good PROVE l + 1 \in Good
  <2>1. SUFFICES ASSUME NEW k \in Nat, NEW g, Within(g, k, l + 1), k # 0 PROVE k <= l + 1
    OBVIOUS
  <2> DEFINE h == [i \in 1..(k - 1) |-> IF g[i] = l + 1 THEN g[k] ELSE g[i]]
  <2>2. k - 1 \in Nat /\ k \in 1..k /\ \A i \in 1..(k - 1) : i \in 1..k /\ i # k
    BY <2>1
  <2>3. \A i \in 1..k : g[i] \in 1..(l + 1)
    BY <2>1
  <2>4. \A i, j \in 1..k : g[i] = g[j] => i = j
    BY <2>1
  <2>5. ASSUME NEW i \in 1..(k - 1) PROVE h[i] \in 1..l
    <3>1. g[i] \in 1..(l + 1) /\ g[k] \in 1..(l + 1) /\ g[i] # g[k]
      BY <2>2, <2>3, <2>4
    <3>2. QED
      BY <3>1
  <2>6. ASSUME NEW i \in 1..(k - 1), NEW j \in 1..(k - 1), h[i] = h[j] PROVE i = j
    <3>1. g[i] # g[k] /\ g[j] # g[k] /\ (g[i] = g[j] => i = j)
      BY <2>2, <2>4
    <3>2. QED
      BY <2>6, <3>1
  <2> HIDE DEF h
  <2>7. Within(h, k - 1, l)
    BY <2>5, <2>6
  <2> HIDE DEF Within
  <2>8. k - 1 <= l
    BY <1>2, <2>2, <2>7
  <2>9. QED
    BY <2>8
<1>3. \A l \in Nat : l \in Good
  <2> HIDE DEF Good
  <2> QED
    BY <1>1, <1>2, NatSetInduction
<1>4. Within(f, n, m)
  OBVIOUS
<1> HIDE DEF Within
<1>5. QED
  BY <1>3, <1>4

\* The first n values that step makes from v, one after the other.
IsWalk(f, v, step, n) == f[0] = v /\ \A k \in 1..n : f[k] = step[k][f[k - 1]]

\* A walk that starts at v and goes on by step has a place after each number of steps.
LEMMA Iterates ==
  ASSUME NEW V, NEW v \in V, NEW step \in [Nat -> [V -> V]], NEW n \in Nat
  PROVE  \E f \in [0..n -> V] : IsWalk(f, v, step, n)
<1> DEFINE Walk(f, m) == f[0] = v /\ \A k \in 1..m : f[k] = step[k][f[k - 1]]
           Good == {m \in Nat : \E f \in [0..m -> V] : Walk(f, m)}
<1>1. 0 \in Good
  <2>1. [k \in 0..0 |-> v] \in [0..0 -> V] /\ Walk([k \in 0..0 |-> v], 0)
    OBVIOUS
  <2>2. QED
    BY <2>1
<1>2. ASSUME NEW m \in Nat, m \in Good PROVE m + 1 \in Good
  <2>1. PICK f \in [0..m -> V] : Walk(f, m)
    BY <1>2
  <2>2. PICK last \in V : last = step[m + 1][f[m]]
    <3>1. m + 1 \in Nat /\ m \in 0..m
      OBVIOUS
    <3>2. QED
      BY <2>1, <3>1
  <2> DEFINE g == [k \in 0..(m + 1) |-> IF k = m + 1 THEN last ELSE f[k]]
  <2>3. \A k \in 0..(m + 1) : k = m + 1 \/ k \in 0..m
    OBVIOUS
  <2>4. \A k \in 0..m : k \in 0..(m + 1) /\ k # m + 1
    OBVIOUS
  <2>5. g \in [0..(m + 1) -> V] /\ g[m + 1] = last /\ \A k \in 0..m : g[k] = f[k]
    BY <2>2, <2>3, <2>4
  <2> HIDE DEF g
  <2>6. ASSUME NEW k \in 1..(m + 1) PROVE g[k] = step[k][g[k - 1]]
    <3>1. CASE k = m + 1
      <4>1. k - 1 = m /\ m \in 0..m
        BY <3>1
      <4>2. QED
        BY <2>2, <2>5, <3>1, <4>1
    <3>2. CASE k # m + 1
      <4>1. k \in 1..m /\ k \in 0..m /\ k - 1 \in 0..m
        BY <3>2
      <4>2. QED
        BY <2>1, <2>5, <4>1
    <3>3. QED
      BY <3>1, <3>2
  <2>7. Walk(g, m + 1)
    <3>1. 0 \in 0..m
      OBVIOUS
    <3>2. QED
      BY <2>1, <2>5, <2>6, <3>1
  <2> HIDE DEF Walk
  <2>8. QED
    BY <2>5, <2>7
<1>3. \A m \in Nat : m \in Good
  <2> HIDE DEF Good
  <2> QED
    BY <1>1, <1>2, NatSetInduction
<1>4. PICK f \in [0..n -> V] : Walk(f, n)
  BY <1>3
<1>5. IsWalk(f, v, step, n)
  BY <1>4 DEF IsWalk
<1>6. QED
  BY <1>5
=============================================================================
