--------------------------- MODULE InductionLemmas ---------------------------
(***************************************************************************)
(* Facts that the proofs of several components share: induction over the   *)
(* naturals for a set instead of a predicate (by a least counterexample),  *)
(* the existence of iterations, which is what a recursive function needs   *)
(* to satisfy its own equation, and arithmetic of ring buffers.            *)
(***************************************************************************)
EXTENDS Integers, FiniteSets, FiniteSetTheorems, WellFoundedInduction, TLAPS

(* A set of naturals that is not empty has a least member. *)
LEMMA LeastMember ==
  ASSUME NEW S \in SUBSET Nat, NEW n \in S
  PROVE  \E m \in S : \A k \in S : m <= k
<1>1. PICK m \in S : \A k \in S : ~ (<<k, m>> \in OpToRel(<, Nat))
  BY NatLessThanWellFounded, WFMin
<1>2. ASSUME NEW k \in S PROVE m <= k
  <2>1. ~ (<<k, m>> \in OpToRel(<, Nat))
    BY <1>1, <1>2
  <2>2. m \in Nat /\ k \in Nat
    BY <1>2
  <2>3. ~ (k < m)
    BY <2>1, <2>2 DEF OpToRel
  <2> QED
    BY <2>2, <2>3
<1> QED
  BY <1>2

(* A set that holds 0 and with every n < N also n + 1 holds 0 .. N. *)
LEMMA SetInduction ==
  ASSUME NEW N \in Nat, NEW S, 0 \in S,
         \A k \in 0 .. N - 1 : k \in S => k + 1 \in S
  PROVE  0 .. N \subseteq S
<1> DEFINE Bad == {k \in 0 .. N : k \notin S}
<1>1. SUFFICES ASSUME NEW b \in Bad PROVE FALSE
  OBVIOUS
<1>2. PICK m \in Bad : \A k \in Bad : m <= k
  <2>1. Bad \in SUBSET Nat
    OBVIOUS
  <2> QED
    BY <2>1, LeastMember, Zenon
<1>3. m # 0 /\ m - 1 \in 0 .. N - 1
  OBVIOUS
<1>4. m - 1 \notin Bad
  BY <1>2, <1>3
<1>5. m - 1 + 1 \in S
  BY <1>3, <1>4
<1> QED
  BY <1>3, <1>5

(* g is the iteration of the steps F, the k-th one F[k], from x. *)
IteratesFrom(g, N, X, x, F) ==
  g \in [0 .. N -> X] /\ g[0] = x /\ \A k \in 1 .. N : g[k] = F[k][g[k - 1]]

(* Every sequence of steps on a set has an iteration from every member. *)
LEMMA Iteration ==
  ASSUME NEW N \in Nat, NEW X, NEW x \in X, NEW F \in [1 .. N -> [X -> X]]
  PROVE  \E g : IteratesFrom(g, N, X, x, F)
<1> DEFINE Is(g, n) == g[0] = x /\ \A k \in 1 .. n : g[k] = F[k][g[k - 1]]
           S == {n \in 0 .. N : \E g \in [0 .. n -> X] : Is(g, n)}
<1>1. 0 \in S
  <2>1. [i \in 0 .. 0 |-> x] \in [0 .. 0 -> X] /\ Is([i \in 0 .. 0 |-> x], 0)
    OBVIOUS
  <2>2. 0 \in 0 .. N
    OBVIOUS
  <2> HIDE DEF Is
  <2> QED
    BY <2>1, <2>2
<1>2. ASSUME NEW n \in 0 .. N - 1, n \in S PROVE n + 1 \in S
  <2>1. PICK g \in [0 .. n -> X] : Is(g, n)
    BY <1>2
  <2> DEFINE h == [i \in 0 .. n + 1 |-> IF i = n + 1 THEN F[n + 1][g[n]] ELSE g[i]]
  <2>2. n + 1 \in 1 .. N /\ g[n] \in X
    OBVIOUS
  <2>3. F[n + 1][g[n]] \in X
    BY <2>2
  <2>4. h \in [0 .. n + 1 -> X]
    BY <2>3
  <2>5. h[0] = x
    BY <2>1
  <2>6. ASSUME NEW k \in 1 .. n + 1 PROVE h[k] = F[k][h[k - 1]]
    <3>1. CASE k = n + 1
      BY <3>1
    <3>2. CASE k # n + 1
      <4>1. k \in 1 .. n /\ k - 1 \in 0 .. n /\ k - 1 # n + 1
        BY <3>2
      <4> QED
        BY <4>1, <2>1
    <3> QED
      BY <3>1, <3>2
  <2>7. Is(h, n + 1)
    BY <2>5, <2>6
  <2>8. n + 1 \in 0 .. N
    OBVIOUS
  <2> HIDE DEF Is, h
  <2> QED
    BY <2>4, <2>7, <2>8
<1>3. N \in S
  <2> HIDE DEF S
  <2>1. 0 .. N \subseteq S
    BY <1>1, <1>2, SetInduction
  <2> QED
    BY <2>1
<1> QED
  BY <1>3 DEF IteratesFrom

(* Two positions less than M apart never share a place of a ring of M. *)
LEMMA RingPlaces ==
  ASSUME NEW M \in Nat \ {0}, NEW i \in Nat, NEW j \in Nat, i < j, j - i < M
  PROVE  i % M # j % M
<1> DEFINE p == i \div M
           q == j \div M
<1>1. i = M * p + (i % M) /\ j = M * q + (j % M) /\ p \in Int /\ q \in Int
  OBVIOUS
<1>2. SUFFICES ASSUME i % M = j % M PROVE FALSE
  OBVIOUS
<1>3. i % M \in Int
  OBVIOUS
<1> HIDE DEF p, q
<1>4. j - i = M * (q - p)
  BY <1>1, <1>2, <1>3
<1>5. CASE q - p >= 1
  <2>1. M * (q - p) >= M
    BY <1>5, <1>1
  <2> QED
    BY <2>1, <1>4
<1>6. CASE q - p <= 0
  <2>1. M * (q - p) <= 0
    BY <1>6, <1>1
  <2> QED
    BY <2>1, <1>4
<1> QED
  BY <1>1, <1>5, <1>6
=============================================================================
