----------------------------- MODULE Induction -----------------------------
(***************************************************************************)
(* Induction and recursion over natural numbers in a form that first-order *)
(* provers can use: a property is the set of the numbers that have it, and *)
(* a recursive definition is a function of the number and the value before *)
(* it.  The lemmas rest on the well-foundedness of "<".                    *)
(***************************************************************************)
EXTENDS Integers, Sequences, TLAPS, WellFoundedInduction

LEMMA LeastNat ==
    ASSUME NEW T \in SUBSET Nat, T # {}
    PROVE  \E x \in T : \A y \in T : x <= y
<1>1. PICK R : R = OpToRel(<, Nat)
  OBVIOUS
<1>2. \E x \in T : \A y \in T : ~(<<y, x>> \in R)
  BY <1>1, NatLessThanWellFounded, WFMin
<1>3. \A x, y \in Nat : x < y => <<x, y>> \in R
  BY <1>1 DEF OpToRel
<1>4. PICK x \in T : \A y \in T : ~(<<y, x>> \in R)
  BY <1>2
<1>5. ASSUME NEW y \in T
      PROVE  x <= y
  <2>1. x \in Nat /\ y \in Nat
    OBVIOUS
  <2>2. ~(y < x)
    BY <1>3, <1>4, <2>1, Zenon
  <2> QED
    BY <2>1, <2>2
<1> QED
  BY <1>4, <1>5

LEMMA UpTo ==
    ASSUME NEW N \in Nat, NEW S, 0 \in S, \A n \in 0..N - 1 : n \in S => n + 1 \in S
    PROVE  \A n \in 0..N : n \in S
<1>1. PICK T \in SUBSET Nat : T = {n \in 0..N : n \notin S}
  <2>1. {n \in 0..N : n \notin S} \in SUBSET Nat
    OBVIOUS
  <2> QED
    BY <2>1
<1>2. SUFFICES ASSUME T # {} PROVE FALSE
  BY <1>1
<1>3. PICK x \in T : \A y \in T : x <= y
  BY <1>2, LeastNat
<1>4. x \in 0..N /\ x \notin S /\ x # 0
  BY <1>1
<1>5. x - 1 \in 0..N - 1 /\ (x - 1) + 1 = x /\ x - 1 \in 0..N /\ ~(x <= x - 1)
  BY <1>4
<1>6. x - 1 \in S
  BY <1>1, <1>3, <1>5
<1> QED
  BY <1>4, <1>5, <1>6

\* Is p[i] an earlier number than i?
Earlier(p, N) == \A i \in 1..N : p[i] < i

\* The value of g for i is made from that for p[i].
Solves(g, N, a, F, p) == g[0] = a /\ \A i \in 1..N : g[i] = F[<<i, g[p[i]]>>]

LEMMA RecursionExists ==
    ASSUME NEW N \in Nat, NEW V, NEW a \in V, NEW F \in [(1..N) \X V -> V],
           NEW p \in [1..N -> Nat], Earlier(p, N)
    PROVE  \E g \in [0..N -> V] : Solves(g, N, a, F, p)
<1> USE DEF Earlier, Solves
<1>1. PICK S : S = {n \in 0..N : \E g \in [0..n -> V] :
                       g[0] = a /\ \A i \in 1..n : g[i] = F[<<i, g[p[i]]>>]}
  OBVIOUS
<1>2. 0 \in S
  <2>1. PICK g \in [0..0 -> V] : g = [i \in 0..0 |-> a]
    OBVIOUS
  <2>2. g[0] = a /\ \A i \in 1..0 : g[i] = F[<<i, g[p[i]]>>]
    BY <2>1
  <2> QED
    BY <1>1, <2>2
<1>3. ASSUME NEW n \in 0..N - 1, n \in S
      PROVE  n + 1 \in S
  <2>1. PICK g \in [0..n -> V] : g[0] = a /\ \A i \in 1..n : g[i] = F[<<i, g[p[i]]>>]
    BY <1>1, <1>3
  <2>2. n + 1 \in 1..N /\ p[n + 1] \in 0..n
    BY <1>3
  <2>3. PICK v \in V : v = F[<<n + 1, g[p[n + 1]]>>]
    <3>1. g[p[n + 1]] \in V
      BY <2>2
    <3>2. <<n + 1, g[p[n + 1]]>> \in (1..N) \X V
      BY <2>2, <3>1
    <3> QED
      BY <3>2
  <2>4. PICK h \in [0..n + 1 -> V] : h = [i \in 0..n + 1 |-> IF i <= n THEN g[i] ELSE v]
    <3>1. [i \in 0..n + 1 |-> IF i <= n THEN g[i] ELSE v] \in [0..n + 1 -> V]
      <4>1. \A i \in 0..n + 1 : i <= n => i \in 0..n
        OBVIOUS
      <4> QED
        BY <4>1
    <3> QED
      BY <3>1
  <2>5. \A i \in 0..n : h[i] = g[i]
    BY <2>4
  <2>6. h[n + 1] = v
    BY <2>4
  <2>7. ASSUME NEW i \in 1..n + 1
        PROVE  h[i] = F[<<i, h[p[i]]>>]
    <3>1. CASE i = n + 1
      <4>1. h[p[i]] = g[p[n + 1]]
        BY <2>2, <2>5, <3>1
      <4> QED
        BY <2>3, <2>6, <3>1, <4>1
    <3>2. CASE i # n + 1
      <4>1. i \in 1..n /\ i \in 0..n /\ p[i] \in 0..n
        <5>1. i \in 1..n /\ i \in 0..n /\ i \in 1..N
          BY <1>3, <3>2
        <5> QED
          BY <5>1
      <4>2. h[i] = g[i] /\ h[p[i]] = g[p[i]]
        BY <2>5, <4>1
      <4> QED
        BY <2>1, <4>1, <4>2
    <3> QED
      BY <3>1, <3>2
  <2>8. h[0] = a /\ n + 1 \in 0..N
    BY <1>3, <2>1, <2>5
  <2> QED
    BY <1>1, <2>7, <2>8
<1>4. N \in S
  <2>1. \A n \in 0..N - 1 : n \in S => n + 1 \in S
    BY <1>3
  <2>2. \A n \in 0..N : n \in S
    BY <1>2, <2>1, UpTo
  <2> QED
    BY <2>2
<1> QED
  BY <1>1, <1>4
=============================================================================
