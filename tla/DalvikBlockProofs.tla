-------------------------- MODULE DalvikBlockProofs --------------------------
(***************************************************************************)
(* Proofs about the parser and the block graph builder, for every set of   *)
(* class texts, every size of the tables and every hash function: the      *)
(* binary search finds the first key at or behind an instruction           *)
(* (FindBlockFirst), the keys cut the code of a method into straight       *)
(* pieces (KeysCut), every setup leads where the code goes on              *)
(* (SetupLeads); from these the inductive invariant of the parser, the     *)
(* cache and the graphs, and from it the invariants that the run blocks    *)
(* checks.                                                                 *)
(***************************************************************************)
EXTENDS DalvikBlock, FiniteSetTheorems, InductionLemmas

-----------------------------------------------------------------------------
(***************************************************************************)
(* The sorted list and the binary search.                                  *)
(***************************************************************************)
(* The number of members of S below x *)
Rank(S, x) == Cardinality({y \in S : y < x})

(* A larger member has more members below it. *)
LEMMA RankGrows ==
  ASSUME NEW S \in SUBSET Int, IsFiniteSet(S), NEW x \in S, NEW y \in Int, x < y
  PROVE  Rank(S, x) < Rank(S, y)
<1> DEFINE A == {z \in S : z < x}
           B == {z \in S : z < y}
<1>1. A \in SUBSET B /\ B \in SUBSET S /\ x \in B /\ x \notin A
  <2>1. \A z \in S : z \in Int /\ (z < x => z < y)
    OBVIOUS
  <2>2. x \in Int /\ ~ (x < x)
    OBVIOUS
  <2>3. A \subseteq B
    BY <2>1
  <2> QED
    BY <2>2, <2>3
<1>2. IsFiniteSet(B)
  BY <1>1, FS_Subset
<1>3. IsFiniteSet(A) /\ Cardinality(A) <= Cardinality(B) /\ (Cardinality(B) = Cardinality(A) => B = A)
  BY <1>1, <1>2, FS_Subset
<1>4. Cardinality(A) \in Nat /\ Cardinality(B) \in Nat
  BY <1>2, <1>3, FS_CardinalityType
<1>5. Rank(S, x) = Cardinality(A) /\ Rank(S, y) = Cardinality(B)
  BY DEF Rank
<1> HIDE DEF A, B
<1> QED
  BY <1>1, <1>3, <1>4, <1>5

(* A member of S has less members below it than S has. *)
LEMMA RankType ==
  ASSUME NEW S \in SUBSET Int, IsFiniteSet(S), NEW x \in S
  PROVE  Rank(S, x) \in 0 .. Cardinality(S) - 1
<1> DEFINE A == {z \in S : z < x}
<1>1. A \in SUBSET S /\ x \notin A
  OBVIOUS
<1>2. IsFiniteSet(A) /\ Cardinality(A) <= Cardinality(S) /\ (Cardinality(S) = Cardinality(A) => S = A)
  BY <1>1, FS_Subset
<1>3. Cardinality(A) \in Nat /\ Cardinality(S) \in Nat
  BY <1>2, FS_CardinalityType
<1>5. Rank(S, x) = Cardinality(A)
  BY DEF Rank
<1> HIDE DEF A
<1> QED
  BY <1>1, <1>2, <1>3, <1>5

(* Every place of the list has a member. *)
LEMMA RankOnto ==
  ASSUME NEW S \in SUBSET Int, IsFiniteSet(S), NEW n \in 0 .. Cardinality(S) - 1
  PROVE  \E x \in S : Rank(S, x) = n
<1> DEFINE T == 0 .. Cardinality(S) - 1
           f == [x \in S |-> Rank(S, x)]
<1>1. Cardinality(S) \in Nat
  BY FS_CardinalityType
<1>2. IsFiniteSet(T) /\ Cardinality(T) = Cardinality(S)
  <2>1. 0 \in Int /\ Cardinality(S) - 1 \in Int
    BY <1>1
  <2> QED
    BY <1>1, <2>1, FS_Interval
<1>3. f \in [S -> T]
  BY RankType
<1>4. ASSUME NEW x \in S, NEW y \in S, f[x] = f[y] PROVE x = y
  <2>1. Rank(S, x) = Rank(S, y)
    BY <1>4
  <2>2. Rank(S, x) \in Int /\ x \in Int /\ y \in Int
    BY RankType
  <2>3. ~ (x < y) /\ ~ (y < x)
    BY <2>1, <2>2, RankGrows
  <2> QED
    BY <2>2, <2>3
<1>5. f \in Injection(S, T)
  BY <1>3, <1>4 DEF Injection, IsInjective
<1>6. f \in Surjection(S, T)
  BY <1>2, <1>5, FS_Injection
<1>7. \E x \in S : f[x] = n
  BY <1>6 DEF Surjection
<1> QED
  BY <1>7

(* s lists the members of S in increasing order *)
Lists(s, S) ==
  /\ s \in Seq(S)
  /\ \A x \in S : \E n \in 1 .. Len(s) : s[n] = x
  /\ \A a, b \in 1 .. Len(s) : a < b => s[a] < s[b]

(* Sorted lists every finite set of numbers. *)
LEMMA SortedLists ==
  ASSUME NEW S \in SUBSET Int, IsFiniteSet(S)
  PROVE  /\ Lists(Sorted(S), S)
         /\ Len(Sorted(S)) = Cardinality(S)
         /\ \A n \in 1 .. Cardinality(S) : Rank(S, Sorted(S)[n]) = n - 1
<1> DEFINE N == Cardinality(S)
           s == Sorted(S)
<1>1. N \in Nat
  BY FS_CardinalityType
<1>2. s = [n \in 1 .. N |-> CHOOSE x \in S : Rank(S, x) = n - 1]
  BY DEF Sorted, Rank
<1> HIDE DEF s
<1>3. ASSUME NEW n \in 1 .. N PROVE s[n] \in S /\ Rank(S, s[n]) = n - 1
  <2>1. n - 1 \in 0 .. N - 1
    BY <1>1
  <2>2. \E x \in S : Rank(S, x) = n - 1
    BY <2>1, RankOnto
  <2>3. s[n] = CHOOSE x \in S : Rank(S, x) = n - 1
    BY <1>2
  <2> QED
    BY <2>2, <2>3
<1> HIDE DEF N
<1>4. s \in Seq(S) /\ Len(s) = N
  BY <1>1, <1>2, <1>3
<1>5. ASSUME NEW x \in S PROVE \E n \in 1 .. N : s[n] = x
  <2>1. Rank(S, x) \in 0 .. N - 1
    BY RankType DEF N
  <2> DEFINE n == Rank(S, x) + 1
  <2>2. n \in 1 .. N /\ n - 1 = Rank(S, x)
    BY <1>1, <2>1
  <2>3. s[n] \in S /\ Rank(S, s[n]) = Rank(S, x)
    BY <1>3, <2>2
  <2>4. ~ (x < s[n]) /\ ~ (s[n] < x)
    <3>1. Rank(S, x) \in Int
      BY <2>1, <1>1
    <3> HIDE DEF n
    <3>2. x \in Int /\ s[n] \in Int
      BY <2>3
    <3>3. ASSUME x < s[n] PROVE FALSE
      <4>1. Rank(S, x) < Rank(S, s[n])
        BY <3>2, <3>3, RankGrows
      <4> QED
        BY <2>3, <3>1, <4>1
    <3>4. ASSUME s[n] < x PROVE FALSE
      <4>1. Rank(S, s[n]) < Rank(S, x)
        BY <2>3, <3>2, <3>4, RankGrows
      <4> QED
        BY <2>3, <3>1, <4>1
    <3> QED
      BY <3>3, <3>4
  <2>5. x \in Int /\ s[n] \in Int
    BY <2>3
  <2> HIDE DEF n
  <2> QED
    BY <2>2, <2>4, <2>5
<1>6. ASSUME NEW a \in 1 .. N, NEW b \in 1 .. N, a < b PROVE s[a] < s[b]
  <2>1. s[a] \in Int /\ s[b] \in S /\ s[b] \in Int /\ Rank(S, s[a]) = a - 1 /\ Rank(S, s[b]) = b - 1
    BY <1>3
  <2>2. s[a] # s[b]
    BY <1>6, <1>1, <2>1
  <2>3. ~ (s[b] < s[a])
    BY <1>6, <1>1, <2>1, RankGrows
  <2> QED
    BY <2>1, <2>2, <2>3
<1> QED
  BY <1>3, <1>4, <1>5, <1>6 DEF Lists, s, N

(* The binary search finds the first key at or behind the instruction. *)
LEMMA FindBlockFirst ==
  ASSUME NEW key \in Seq(Nat), NEW i \in Nat,
         \A a, b \in 1 .. Len(key) : a < b => key[a] < key[b],
         key # <<>>, i <= key[Len(key)]
  PROVE  /\ FindBlock(key, i) \in 1 .. Len(key)
         /\ i <= key[FindBlock(key, i)]
         /\ \A a \in 1 .. FindBlock(key, i) - 1 : key[a] < i
<1> DEFINE n == Len(key)
           W == (1 .. n + 1) \X (1 .. n + 1)
           F == [k \in 1 .. n |-> [w \in W |-> Halved(key, i, w)]]
           Def(r) == [k \in 0 .. n |-> IF k = 0 THEN <<1, n + 1>> ELSE Halved(key, i, r[k - 1])]
<1>1. n \in Nat \ {0} /\ \A a \in 1 .. n : key[a] \in Nat
  OBVIOUS
<1> HIDE DEF n
<1>2. ASSUME NEW w \in W
      PROVE  /\ Halved(key, i, w) \in W
             /\ w[2] - w[1] <= 1 => Halved(key, i, w) = w
             /\ w[2] - w[1] > 1 =>
                  \E m \in w[1] + 1 .. w[2] - 1 :
                    Halved(key, i, w) = IF key[m] < i THEN <<m, w[2]>> ELSE <<w[1], m>>
  <2> DEFINE m == (w[1] + w[2]) \div 2
  <2>1. w[1] \in 1 .. n + 1 /\ w[2] \in 1 .. n + 1 /\ w = <<w[1], w[2]>>
    OBVIOUS
  <2>2. m \in 1 .. n + 1 /\ (w[2] - w[1] > 1 => m \in w[1] + 1 .. w[2] - 1)
    BY <1>1, <2>1
  <2>3. Halved(key, i, w) =
          IF w[2] - w[1] <= 1 THEN w ELSE IF key[m] < i THEN <<m, w[2]>> ELSE <<w[1], m>>
    BY DEF Halved
  <2> HIDE DEF m
  <2>4. ~ (w[2] - w[1] <= 1 /\ w[2] - w[1] > 1) /\ (w[2] - w[1] <= 1 \/ w[2] - w[1] > 1)
    BY <1>1, <2>1
  <2>5. CASE w[2] - w[1] <= 1
    BY <2>3, <2>4, <2>5
  <2>6. CASE w[2] - w[1] > 1
    <3>1. Halved(key, i, w) = IF key[m] < i THEN <<m, w[2]>> ELSE <<w[1], m>>
      BY <2>3, <2>4, <2>6
    <3>2. <<m, w[2]>> \in W /\ <<w[1], m>> \in W
      BY <2>1, <2>2
    <3> HIDE DEF W
    <3> QED
      BY <3>1, <3>2, <2>2, <2>4, <2>6
  <2> QED
    BY <2>4, <2>5, <2>6
<1>3. F \in [1 .. n -> [W -> W]] /\ <<1, n + 1>> \in W
  BY <1>1, <1>2
<1>4. PICK g : IteratesFrom(g, n, W, <<1, n + 1>>, F)
  <2> HIDE DEF F, W
  <2> QED
    BY <1>1, <1>3, Iteration
<1>5. g = Def(g)
  <2>1. g \in [0 .. n -> W] /\ g[0] = <<1, n + 1>> /\ \A k \in 1 .. n : g[k] = F[k][g[k - 1]]
    BY <1>4 DEF IteratesFrom
  <2>2. ASSUME NEW k \in 1 .. n PROVE g[k] = Halved(key, i, g[k - 1])
    <3>1. k - 1 \in 0 .. n
      BY <1>1
    <3>2. g[k - 1] \in W
      BY <2>1, <3>1
    <3>3. F[k][g[k - 1]] = Halved(key, i, g[k - 1])
      BY <3>2, Zenon
    <3> QED
      BY <2>1, <3>3
  <2> HIDE DEF F, W
  <2>3. \A k \in 0 .. n : k = 0 \/ k \in 1 .. n
    BY <1>1
  <2>4. \A k \in 0 .. n : g[k] = IF k = 0 THEN <<1, n + 1>> ELSE Halved(key, i, g[k - 1])
    BY <2>1, <2>2, <2>3
  <2> QED
    BY <2>1, <2>4
<1>6. \E r : r = Def(r)
  BY <1>5
<1> DEFINE window == CHOOSE r : r = Def(r)
<1>7. window = Def(window)
  <2> HIDE DEF Def
  <2> QED
    BY <1>6, Zenon
<1>8. FindBlock(key, i) = IF n = 0 \/ key[n] < i THEN 0 ELSE IF i <= key[1] THEN 1 ELSE window[n][2]
  BY Zenon DEF FindBlock, n
<1> HIDE DEF window
<1>9. FindBlock(key, i) = IF i <= key[1] THEN 1 ELSE window[n][2]
  BY <1>1, <1>8 DEF n
<1>10. CASE i <= key[1]
  BY <1>1, <1>9, <1>10 DEF n
<1>11. CASE ~ (i <= key[1])
  <2> DEFINE Good(w, k) ==
               /\ w \in W
               /\ w[1] < w[2] /\ w[1] <= n
               /\ key[w[1]] < i
               /\ w[2] <= n => i <= key[w[2]]
               /\ w[2] - w[1] <= 1 \/ w[2] - w[1] <= n - k
             S == {k \in 0 .. n : Good(window[k], k)}
  <2>1. 0 \in S
    <3>1. window[0] = <<1, n + 1>>
      BY <1>7, <1>1
    <3>2. Good(<<1, n + 1>>, 0)
      BY <1>1, <1>3, <1>11
    <3>3. 0 \in 0 .. n
      BY <1>1
    <3>4. Good(window[0], 0)
      BY <3>1, <3>2
    <3> HIDE DEF Good
    <3> QED
      BY <3>3, <3>4
  <2>2. ASSUME NEW k \in 0 .. n - 1, k \in S PROVE k + 1 \in S
    <3>1. k + 1 \in 0 .. n /\ k + 1 # 0 /\ k + 1 - 1 = k
      BY <1>1
    <3>2. window[k + 1] = Halved(key, i, window[k])
      <4>1. window[k + 1] = Def(window)[k + 1]
        BY <1>7
      <4>2. Def(window)[k + 1] = Halved(key, i, window[k + 1 - 1])
        BY <3>1
      <4> QED
        BY <3>1, <4>1, <4>2
    <3>3. PICK w : w = window[k]
      OBVIOUS
    <3>4. Good(w, k)
      BY <2>2, <3>3
    <3>5. w[1] \in 1 .. n + 1 /\ w[2] \in 1 .. n + 1
      BY <3>4
    <3>6. Good(Halved(key, i, w), k + 1)
      <4>1. CASE w[2] - w[1] <= 1
        BY <4>1, <1>2, <3>4
      <4>2. CASE ~ (w[2] - w[1] <= 1)
        <5>1. w[2] - w[1] > 1
          BY <4>2, <3>5, <1>1
        <5>2. PICK m \in w[1] + 1 .. w[2] - 1 :
                Halved(key, i, w) = IF key[m] < i THEN <<m, w[2]>> ELSE <<w[1], m>>
          BY <5>1, <3>4, <1>2
        <5>3. m \in 1 .. n /\ key[m] \in Nat /\ w[1] < m /\ m < w[2]
          BY <1>1, <3>5
        <5>4. CASE key[m] < i
          <6>1. <<m, w[2]>> \in W
            BY <5>3, <3>5, <1>1
          <6>2. Good(<<m, w[2]>>, k + 1)
            BY <6>1, <5>3, <5>4, <5>1, <3>4, <3>5, <1>1
          <6> QED
            BY <5>2, <5>4, <6>2
        <5>5. CASE ~ (key[m] < i)
          <6>1. <<w[1], m>> \in W
            BY <5>3, <3>5, <1>1
          <6>2. Good(<<w[1], m>>, k + 1)
            <7>1. i <= key[m]
              BY <5>3, <5>5
            <7>2. w[1] < m /\ w[1] <= n /\ key[w[1]] < i
              BY <5>3, <3>4
            <7>3. m - w[1] <= 1 \/ m - w[1] <= n - (k + 1)
              BY <5>3, <3>4, <3>5, <5>1, <1>1
            <7> QED
              BY <6>1, <7>1, <7>2, <7>3
          <6> QED
            BY <5>2, <5>5, <6>2
        <5> QED
          BY <5>4, <5>5
      <4> QED
        BY <4>1, <4>2
    <3> QED
      BY <3>1, <3>2, <3>3, <3>6
  <2>3. n \in S
    <3> HIDE DEF S
    <3>1. 0 .. n \subseteq S
      BY <1>1, <2>1, <2>2, SetInduction
    <3> QED
      BY <1>1, <3>1
  <2>4. PICK w : w = window[n]
    OBVIOUS
  <2>5. Good(w, n)
    BY <2>3, <2>4
  <2>6. w[1] \in 1 .. n /\ w[2] = w[1] + 1 /\ key[w[1]] < i /\ (w[2] <= n => i <= key[w[2]])
    BY <2>5, <1>1
  <2>7. w[2] <= n
    <3>1. w[1] # n
      BY <2>6, <1>1 DEF n
    <3> QED
      BY <3>1, <2>6, <1>1
  <2>8. ASSUME NEW a \in 1 .. w[2] - 1 PROVE key[a] < i
    <3>1. a \in 1 .. n /\ (a = w[1] \/ a < w[1])
      BY <2>6, <2>7, <1>1
    <3>2. key[a] <= key[w[1]]
      BY <3>1, <2>6, <1>1 DEF n
    <3> QED
      BY <3>1, <3>2, <2>6, <1>1
  <2>9. FindBlock(key, i) = w[2]
    BY <1>9, <1>11, <2>4
  <2>10. w[2] \in 1 .. n
    BY <2>6, <2>7, <1>1
  <2> QED
    BY <2>6, <2>7, <2>8, <2>9, <2>10 DEF n
<1> QED
  BY <1>10, <1>11

-----------------------------------------------------------------------------
(***************************************************************************)
(* The parser.                                                             *)
(***************************************************************************)
InstructionType ==
  [op : STRING, operands : Seq([label : Nat, isDefault : BOOLEAN]), next : Nat, handlers : Seq(Nat)]
CatchType == [from : Nat, to : Nat, using : Nat, st : 0 .. 2]

(* The labels that the operands and handlers of instruction i name are in  *)
(* L, and a jump has one                                                   *)
Names(i, L) ==
  /\ pool[i].op \in {"goto", "if"} => DOMAIN pool[i].operands = {1}
  /\ \A k \in DOMAIN pool[i].operands : pool[i].operands[k].label \in L
  /\ \A k \in DOMAIN pool[i].handlers : pool[i].handlers[k] \in L

(* Instructions e to z of the pool are linked in order, name labels of     *)
(* method m only, and these lead back to them when they are bound          *)
Segment(e, z, m) ==
  /\ e \in 1 .. Len(pool) /\ z \in e .. Len(pool)
  /\ \A i \in e .. z - 1 : pool[i].next = i + 1
  /\ pool[z].next = Invalid
  /\ \A i \in e .. z : Names(i, Mentioned(text[m].body))
  /\ \A l \in Mentioned(text[m].body) : l \in DOMAIN jump => jump[l] \in e .. z

(* The method that is read: what waits for its next instruction belongs to *)
(* it, and so does the pool from its first instruction on                  *)
Current ==
  /\ \A n \in DOMAIN stack : stack[n] \in Labels(meth)
  /\ \A n \in DOMAIN catches : catches[n].using \in Mentioned(Body)
  /\ \A n \in DOMAIN ehset : ehset[n] \in Mentioned(Body)
  /\ first = Invalid =>
       /\ \A l \in Mentioned(Body) : l \notin DOMAIN jump
       /\ \A k \in DOMAIN Body : k < line => Body[k].op \in Pseudo
  /\ first # Invalid => Segment(first, Len(pool), meth)

(* Entry e is that of a method that has been read *)
Entry(e) ==
  \E m \in DOMAIN text, z \in Nat :
    m < meth /\ Segment(e, z, m) /\ (Reading /\ first # Invalid => z < first)

ParserTypes ==
  /\ text \in Classes /\ meth \in Nat \ {0} /\ line \in Nat \ {0} /\ first \in Nat
  /\ pool \in Seq(InstructionType) /\ Len(pool) < Invalid
  /\ stack \in Seq(Nat) /\ catches \in Seq(CatchType) /\ ehset \in Seq(Nat)
  /\ \A l \in DOMAIN jump : jump[l] \in 1 .. Len(pool)

ParserInv ==
  /\ ParserTypes
  /\ \A l \in DOMAIN jump : \E n \in DOMAIN text : n <= meth /\ l \in Labels(n)
  /\ Reading => Current
  /\ \A k \in DOMAIN methods : Entry(methods[k])

(* What the assumptions say of the text that is read. *)
LEMMA TextOK ==
  ASSUME text \in Classes
  PROVE  /\ Len(text) \in Nat /\ DOMAIN text = 1 .. Len(text)
         /\ \A m \in DOMAIN text :
              /\ text[m].body \in Seq(Sentence)
              /\ \A k \in DOMAIN text[m].body : Complete(text[m].body[k])
              /\ \E k \in DOMAIN text[m].body : text[m].body[k].op \notin Pseudo
              /\ \A n \in DOMAIN text : n # m =>
                   \A l \in Mentioned(text[m].body) : l \notin Defined(text[n].body)
<1>1. text \in Seq(Range(text))
  BY ParserAssumption
<1>2. Len(text) \in Nat /\ DOMAIN text = 1 .. Len(text)
  BY <1>1
<1>3. ASSUME NEW m \in DOMAIN text
      PROVE  /\ text[m].body \in Seq(Sentence)
             /\ \A k \in DOMAIN text[m].body : Complete(text[m].body[k])
             /\ \E k \in DOMAIN text[m].body : text[m].body[k].op \notin Pseudo
             /\ \A n \in DOMAIN text \ {m} : Mentioned(text[m].body) \cap Defined(text[n].body) = {}
  BY ParserAssumption
<1>4. ASSUME NEW m \in DOMAIN text, NEW n \in DOMAIN text, n # m,
             NEW l \in Mentioned(text[m].body)
      PROVE  l \notin Defined(text[n].body)
  BY <1>3, <1>4, Zenon
<1> QED
  BY <1>2, <1>3, <1>4, Zenon

(* A segment stays one while the pool grows behind it and no label of its *)
(* method is bound.                                                       *)
LEMMA SegmentKept ==
  ASSUME NEW e, NEW z, NEW m, Segment(e, z, m), text' = text,
         Len(pool) \in Nat, Len(pool') \in Nat, Len(pool) <= Len(pool'),
         \A i \in e .. z : pool'[i] = pool[i],
         \A l \in Mentioned(text[m].body) : l \in DOMAIN jump' => l \in DOMAIN jump /\ jump'[l] = jump[l]
  PROVE  Segment(e, z, m)'
<1>1. e \in 1 .. Len(pool) /\ z \in e .. Len(pool)
  BY DEF Segment
<1>2. e \in 1 .. Len(pool') /\ z \in e .. Len(pool')
  BY <1>1
<1>3. \A i \in e .. z - 1 : i \in e .. z
  BY <1>1
<1>4. z \in e .. z
  BY <1>1
<1> QED
  BY <1>2, <1>3, <1>4 DEF Segment, Names

(* The statement that is read, and the labels it defines or names. *)
LEMMA StatementOK ==
  ASSUME text \in Classes, Reading, meth \in Nat \ {0}, line \in Nat \ {0}
  PROVE  /\ meth \in DOMAIN text
         /\ Body \in Seq(Sentence)
         /\ line <= Len(Body) =>
              /\ line \in DOMAIN Body
              /\ Statement \in Sentence
              /\ Complete(Statement)
              /\ Statement.op = "label" => Statement.labels[1] \in Labels(meth) /\ Statement.labels[1] \in Nat
              /\ Statement.op # "label" =>
                   \A k \in DOMAIN Statement.labels : Statement.labels[k] \in Mentioned(Body)
<1>1. meth \in DOMAIN text
  BY TextOK DEF Reading
<1>2. Body \in Seq(Sentence)
  BY <1>1, TextOK DEF Body
<1>3. ASSUME line <= Len(Body)
      PROVE  line \in DOMAIN Body /\ Statement \in Sentence /\ Complete(Statement)
  <2>1. line \in DOMAIN Body
    BY <1>2, <1>3
  <2>2. Statement \in Sentence
    BY <1>2, <2>1 DEF Statement
  <2> QED
    BY <1>1, <2>1, <2>2, TextOK DEF Statement, Body
<1>4. ASSUME line <= Len(Body), Statement.op = "label"
      PROVE  Statement.labels[1] \in Labels(meth) /\ Statement.labels[1] \in Nat
  <2>1. Statement.labels # <<>> /\ Statement.labels \in Seq(Nat)
    BY <1>3, <1>4 DEF Complete, Pseudo, Sentence
  <2>2. Statement.labels[1] \in Nat
    BY <2>1
  <2>3. Statement.labels[1] \in Labels(meth)
    BY <1>3, <1>4 DEF Labels, Defined, Statement, Body
  <2> QED
    BY <2>2, <2>3
<1>5. ASSUME line <= Len(Body), Statement.op # "label", NEW k \in DOMAIN Statement.labels
      PROVE  Statement.labels[k] \in Mentioned(Body)
  <2>1. Statement.labels[k] \in Range(Body[line].labels)
    BY <1>5 DEF Range, Statement
  <2>2. line \in {j \in DOMAIN Body : Body[j].op # "label"}
    BY <1>3, <1>5 DEF Statement
  <2> QED
    BY <2>1, <2>2 DEF Mentioned
<1> QED
  BY <1>1, <1>2, <1>3, <1>4, <1>5

(* The handlers in force are handlers of the method. *)
LEMMA HandlerSetOK ==
  ASSUME NEW cs \in Seq(CatchType), NEW M, \A n \in DOMAIN cs : cs[n].using \in M
  PROVE  HandlerSet(cs) \in Seq(Nat) /\ \A n \in DOMAIN HandlerSet(cs) : HandlerSet(cs)[n] \in M
<1> DEFINE S == {k \in DOMAIN cs : cs[k].st = 1}
           on == Sorted(S)
<1>1. S \in SUBSET Nat /\ S \in SUBSET Int /\ \A s \in S : s <= Len(cs)
  OBVIOUS
<1>2. Len(cs) \in Nat
  OBVIOUS
<1>3. IsFiniteSet(S)
  <2> HIDE DEF S
  <2> QED
    BY <1>1, <1>2, FS_BoundedSetOfNaturals
<1>4. on \in Seq(S)
  <2> HIDE DEF S
  <2> QED
    BY <1>1, <1>3, SortedLists DEF Lists
<1>5. HandlerSet(cs) = [n \in DOMAIN on |-> cs[on[n]].using]
  BY DEF HandlerSet
<1>6. \A n \in DOMAIN on : on[n] \in DOMAIN cs
  BY <1>4
<1>7. \A n \in DOMAIN on : cs[on[n]].using \in Nat /\ cs[on[n]].using \in M
  <2>1. \A j \in DOMAIN cs : cs[j] \in CatchType /\ cs[j].using \in M
    OBVIOUS
  <2> QED
    BY <1>6, <2>1 DEF CatchType
<1>8. DOMAIN on = 1 .. Len(on) /\ Len(on) \in Nat
  BY <1>4
<1> HIDE DEF on
<1> QED
  BY <1>5, <1>7, <1>8

(* A step that only adds to the pool, or links the end of the method that  *)
(* is read, and binds labels of this method only keeps the methods before. *)
LEMMA EntryKept ==
  ASSUME NEW e, Entry(e), ParserTypes, text' = text, meth' \in Nat, meth <= meth',
         Len(pool') \in Nat, Len(pool) <= Len(pool'),
         \A i \in 1 .. Len(pool) : ~ (Reading /\ first # Invalid) \/ i < first => pool'[i] = pool[i],
         \A l \in DOMAIN jump' : \/ l \in DOMAIN jump /\ jump'[l] = jump[l]
                                 \/ Reading /\ l \in Labels(meth),
         (Reading /\ first # Invalid)' =>
           (Reading /\ first # Invalid /\ first' = first) \/ (first' \in Nat /\ first' > Len(pool))
  PROVE  Entry(e)'
<1>1. PICK m \in DOMAIN text, z \in Nat :
        m < meth /\ Segment(e, z, m) /\ (Reading /\ first # Invalid => z < first)
  BY DEF Entry
<1>2. text \in Classes /\ Len(pool) \in Nat /\ meth \in Nat /\ first \in Nat
  BY DEF ParserTypes
<1>3. m \in Nat
  BY <1>2, TextOK
<1>4. e \in 1 .. Len(pool) /\ z \in e .. Len(pool)
  BY <1>1 DEF Segment
<1>5. \A i \in e .. z : pool'[i] = pool[i]
  BY <1>1, <1>2, <1>4
<1>6. ASSUME NEW l \in Mentioned(text[m].body), l \in DOMAIN jump'
      PROVE  l \in DOMAIN jump /\ jump'[l] = jump[l]
  <2>1. ASSUME Reading, l \in Labels(meth) PROVE FALSE
    <3>1. meth \in DOMAIN text /\ meth # m
      BY <2>1, <1>1, <1>2, <1>3, TextOK DEF Reading, ParserTypes
    <3> QED
      BY <1>2, <1>6, <2>1, <3>1, TextOK DEF Labels
  <2> QED
    BY <1>6, <2>1
<1>7. Segment(e, z, m)'
  BY <1>1, <1>2, <1>5, <1>6, SegmentKept
<1>8. (Reading /\ first # Invalid)' => z < first'
  BY <1>1, <1>2, <1>4
<1>9. m < meth'
  BY <1>1, <1>2, <1>3
<1> QED
  BY <1>1, <1>7, <1>8, <1>9 DEF Entry

(* A class that is given up keeps the methods read before. *)
LEMMA RejectOK ==
  ASSUME ParserInv, Reject, Reading
  PROVE  ParserInv'
<1>1. ParserTypes /\ text \in Classes /\ meth \in Nat \ {0} /\ Len(text) \in Nat
  BY TextOK DEF ParserInv, ParserTypes
<1>2. ParserTypes'
  BY <1>1, ParserAssumption DEF Reject, Fresh, ParserTypes
<1>3. ~ Reading' /\ meth' \in Nat /\ meth <= meth'
  BY <1>1 DEF Reject, Reading
<1>4. (\A l \in DOMAIN jump : \E n \in DOMAIN text : n <= meth /\ l \in Labels(n))'
  <2>1. \A n \in DOMAIN text : n \in Nat
    BY <1>1, TextOK
  <2> QED
    BY <1>1, <1>3, <2>1 DEF ParserInv, Reject, Labels
<1>5. ASSUME NEW k \in DOMAIN methods' PROVE Entry(methods[k])'
  <2>1. PICK e : e = methods[k]
    OBVIOUS
  <2>2. methods'[k] = e /\ Entry(e) /\ text' = text /\ pool' = pool /\ jump' = jump
    BY <2>1, <1>5 DEF Reject, ParserInv
  <2>3. Len(pool) \in Nat
    BY <1>1 DEF ParserTypes
  <2>4. Entry(e)'
    BY <1>1, <1>3, <2>2, <2>3, EntryKept
  <2>5. Entry(methods[k])' = Entry(e)'
    BY <2>2
  <2> QED
    BY <2>4, <2>5
<1> QED
  BY <1>2, <1>3, <1>4, <1>5 DEF ParserInv

(* Reading a label keeps the invariant. *)
LEMMA LabelOK ==
  ASSUME ParserInv, Label
  PROVE  ParserInv'
<1> DEFINE l == Statement.labels[1]
<1>1. /\ ParserTypes /\ Reading /\ line <= Len(Body) /\ Statement.op = "label"
      /\ text \in Classes /\ meth \in Nat \ {0} /\ line \in Nat \ {0} /\ Len(text) \in Nat
      /\ Len(pool) \in Nat /\ first \in Nat
  BY TextOK DEF ParserInv, ParserTypes, Label
<1>2. /\ stack' = IF Len(stack) < MaxStack THEN Append(stack, l) ELSE stack
      /\ catches' = [k \in DOMAIN catches |-> Seen(catches[k], l)]
      /\ ehset' = HandlerSet(catches')
      /\ line' = line + 1
      /\ text' = text /\ meth' = meth /\ pool' = pool /\ jump' = jump /\ first' = first
      /\ methods' = methods
  BY DEF Label
<1>3. l \in Nat /\ l \in Labels(meth) /\ line \in DOMAIN Body /\ meth \in DOMAIN text
  BY <1>1, StatementOK
<1> HIDE DEF l
<1>4. Reading' /\ Body' = Body /\ \A n : Labels(n)' = Labels(n)
  BY <1>1, <1>2 DEF Reading, Body, Labels
<1>5. catches \in Seq(CatchType) /\ Len(catches) \in Nat /\ stack \in Seq(Nat) /\ Current
  BY <1>1 DEF ParserInv, ParserTypes
<1>6. \A k \in DOMAIN catches : Seen(catches[k], l) \in CatchType /\ Seen(catches[k], l).using = catches[k].using
  <2>1. ASSUME NEW k \in DOMAIN catches
        PROVE  Seen(catches[k], l) \in CatchType /\ Seen(catches[k], l).using = catches[k].using
    <3>1. catches[k] \in CatchType
      BY <1>5
    <3> QED
      BY <3>1 DEF CatchType, Seen
  <2> QED
    BY <2>1
<1>7. catches' \in Seq(CatchType) /\ \A n \in DOMAIN catches' : catches'[n].using \in Mentioned(Body)
  <2>1. DOMAIN catches = 1 .. Len(catches) /\ \A n \in DOMAIN catches : catches[n].using \in Mentioned(Body)
    BY <1>5 DEF Current
  <2>2. \A n \in 1 .. Len(catches) : catches'[n] \in CatchType /\ catches'[n].using \in Mentioned(Body)
    BY <1>2, <1>6, <2>1
  <2>3. catches' = [n \in 1 .. Len(catches) |-> Seen(catches[n], l)]
    BY <1>2, <2>1
  <2>4. catches' \in Seq(CatchType)
    BY <1>5, <1>6, <2>1, <2>3
  <2> QED
    BY <2>2, <2>3, <2>4
<1>8. ehset' \in Seq(Nat) /\ \A n \in DOMAIN ehset' : ehset'[n] \in Mentioned(Body)
  BY <1>2, <1>7, HandlerSetOK
<1>9. stack' \in Seq(Nat) /\ \A n \in DOMAIN stack' : stack'[n] \in Labels(meth)
  BY <1>2, <1>3, <1>5 DEF Current
<1>10. ParserTypes'
  BY <1>1, <1>2, <1>7, <1>8, <1>9 DEF ParserTypes
<1>11. (first = Invalid =>
          /\ \A j \in Mentioned(Body) : j \notin DOMAIN jump
          /\ \A k \in DOMAIN Body : k < line => Body[k].op \in Pseudo)'
  <2>1. ASSUME first = Invalid, NEW k \in DOMAIN Body, k < line + 1 PROVE Body[k].op \in Pseudo
    <3>1. k \in Nat
      BY <1>1, StatementOK
    <3>2. CASE k = line
      BY <3>2, <1>1 DEF Statement, Pseudo
    <3>3. CASE k < line
      BY <3>3, <2>1, <1>5 DEF Current
    <3> QED
      BY <3>1, <3>2, <3>3, <2>1, <1>1
  <2> QED
    BY <1>2, <1>4, <1>5, <2>1 DEF Current
<1>12. (first # Invalid => Segment(first, Len(pool), meth))'
  BY <1>2, <1>5 DEF Current, Segment, Names
<1>13. Current'
  BY <1>2, <1>4, <1>7, <1>8, <1>9, <1>11, <1>12 DEF Current
<1>14. (\A j \in DOMAIN jump : \E n \in DOMAIN text : n <= meth /\ j \in Labels(n))'
  BY <1>2, <1>4 DEF ParserInv
<1>15. ASSUME NEW k \in DOMAIN methods' PROVE Entry(methods[k])'
  BY <1>2, <1>4, <1>15, <1>1 DEF ParserInv, Entry, Segment, Names
<1> QED
  BY <1>10, <1>13, <1>14, <1>15 DEF ParserInv

(* Reading a catch statement keeps the invariant. *)
LEMMA CatchOK ==
  ASSUME ParserInv, Catch
  PROVE  ParserInv'
<1>1. /\ ParserTypes /\ Reading /\ line <= Len(Body) /\ Statement.op = "catch"
      /\ text \in Classes /\ meth \in Nat \ {0} /\ line \in Nat \ {0} /\ Len(text) \in Nat
      /\ Len(pool) \in Nat /\ first \in Nat
  BY TextOK DEF ParserInv, ParserTypes, Catch
<1> DEFINE c == [from |-> Statement.labels[1], to |-> Statement.labels[2],
                 using |-> Statement.labels[3], st |-> 0]
<1>2. /\ catches' = Append(catches, c) /\ stack' = stack /\ ehset' = ehset
      /\ line' = line + 1
      /\ text' = text /\ meth' = meth /\ pool' = pool /\ jump' = jump /\ first' = first
      /\ methods' = methods
  BY DEF Catch
<1>3. Statement \in Sentence /\ Complete(Statement) /\ line \in DOMAIN Body /\ meth \in DOMAIN text
  BY <1>1, StatementOK
<1>4. Statement.labels \in Seq(Nat) /\ Len(Statement.labels) = 3
  BY <1>1, <1>3 DEF Sentence, Complete
<1>5. \A k \in DOMAIN Statement.labels : Statement.labels[k] \in Mentioned(Body)
  BY <1>1, StatementOK
<1>6. c \in CatchType /\ c.using \in Mentioned(Body)
  BY <1>4, <1>5 DEF CatchType
<1> HIDE DEF c
<1>7. Reading' /\ Body' = Body /\ \A n : Labels(n)' = Labels(n)
  BY <1>1, <1>2 DEF Reading, Body, Labels
<1>8. catches \in Seq(CatchType) /\ Len(catches) \in Nat /\ Current
  BY <1>1 DEF ParserInv, ParserTypes
<1>9. catches' \in Seq(CatchType) /\ \A n \in DOMAIN catches' : catches'[n].using \in Mentioned(Body)
  BY <1>2, <1>6, <1>8 DEF Current
<1>10. ParserTypes'
  BY <1>1, <1>2, <1>9 DEF ParserTypes
<1>11. (first = Invalid =>
          /\ \A j \in Mentioned(Body) : j \notin DOMAIN jump
          /\ \A k \in DOMAIN Body : k < line => Body[k].op \in Pseudo)'
  <2>1. ASSUME first = Invalid, NEW k \in DOMAIN Body, k < line + 1 PROVE Body[k].op \in Pseudo
    <3>1. k \in Nat
      BY <1>1, StatementOK
    <3>2. CASE k = line
      BY <3>2, <1>1 DEF Statement, Pseudo
    <3>3. CASE k < line
      BY <3>3, <2>1, <1>8 DEF Current
    <3> QED
      BY <3>1, <3>2, <3>3, <2>1, <1>1
  <2> QED
    BY <1>2, <1>7, <1>8, <2>1 DEF Current
<1>12. (first # Invalid => Segment(first, Len(pool), meth))'
  BY <1>2, <1>8 DEF Current, Segment, Names
<1>13. Current'
  BY <1>2, <1>7, <1>8, <1>9, <1>11, <1>12 DEF Current
<1>14. (\A j \in DOMAIN jump : \E n \in DOMAIN text : n <= meth /\ j \in Labels(n))'
  BY <1>2, <1>7 DEF ParserInv
<1>15. ASSUME NEW k \in DOMAIN methods' PROVE Entry(methods[k])'
  BY <1>2, <1>7, <1>15, <1>1 DEF ParserInv, Entry, Segment, Names
<1> QED
  BY <1>10, <1>13, <1>14, <1>15 DEF ParserInv

(* The operands of a new instruction are labels of its statement. *)
LEMMA NewInstructionOK ==
  ASSUME NEW s \in Sentence, Complete(s), NEW hs \in Seq(Nat)
  PROVE  /\ NewInstruction(s, hs) \in InstructionType
         /\ NewInstruction(s, hs).next = Invalid
         /\ NewInstruction(s, hs).handlers = hs
         /\ NewInstruction(s, hs).op = s.op
         /\ s.op \in {"goto", "if"} => DOMAIN NewInstruction(s, hs).operands = {1}
         /\ \A k \in DOMAIN NewInstruction(s, hs).operands :
              k \in DOMAIN s.labels /\ NewInstruction(s, hs).operands[k].label = s.labels[k]
<1> DEFINE O == [label : Nat, isDefault : BOOLEAN]
<1>1. s.labels \in Seq(Nat) /\ s.op \in STRING /\ Len(s.labels) \in Nat /\ DOMAIN s.labels = 1 .. Len(s.labels)
  BY DEF Sentence
<1>2. \A k \in DOMAIN s.labels : s.labels[k] \in Nat
  BY <1>1
<1>3. Operands(s) \in Seq(O) /\ (s.op \in {"goto", "if"} => DOMAIN Operands(s) = {1})
      /\ \A k \in DOMAIN Operands(s) : k \in DOMAIN s.labels /\ Operands(s)[k].label = s.labels[k]
  <2>1. CASE s.op \in {"goto", "if"}
    <3>1. s.labels # <<>>
      BY <2>1 DEF Complete, Branching
    <3>2. 1 \in DOMAIN s.labels /\ s.labels[1] \in Nat
      BY <1>1, <3>1
    <3>3. Operands(s) = <<[label |-> s.labels[1], isDefault |-> FALSE]>>
      BY <2>1 DEF Operands, Single
    <3>4. [label |-> s.labels[1], isDefault |-> FALSE] \in O
      BY <3>2
    <3>5. Operands(s) \in Seq(O) /\ DOMAIN Operands(s) = {1}
      BY <3>3, <3>4
    <3> QED
      BY <3>2, <3>3, <3>5
  <2>2. CASE s.op = "packed"
    <3>1. Operands(s) = [k \in 1 .. Len(s.labels) |-> [label |-> s.labels[k], isDefault |-> FALSE]]
      BY <1>1, <2>2 DEF Operands, LabelVector
    <3> QED
      BY <1>1, <1>2, <2>2, <3>1
  <2>3. CASE s.op = "sparse"
    <3>1. Operands(s) = [k \in 1 .. Len(s.labels) |-> [label |-> s.labels[k], isDefault |-> k = s.default]]
      BY <1>1, <2>3 DEF Operands, SparseTable
    <3>2. \A k \in 1 .. Len(s.labels) : [label |-> s.labels[k], isDefault |-> k = s.default] \in O
      BY <1>1, <1>2
    <3>3. Operands(s) \in Seq(O)
      BY <1>1, <3>1, <3>2
    <3> QED
      BY <1>1, <2>3, <3>1, <3>3
  <2>4. CASE s.op \notin {"goto", "if", "packed", "sparse"}
    <3>1. Operands(s) = <<>>
      BY <2>4 DEF Operands
    <3> QED
      BY <2>4, <3>1
  <2> QED
    BY <2>1, <2>2, <2>3, <2>4
<1>4. Invalid \in Nat
  BY ParserAssumption
<1> QED
  BY <1>1, <1>3, <1>4 DEF NewInstruction, InstructionType

(* Reading an instruction keeps the invariant. *)
LEMMA InstructionOK ==
  ASSUME ParserInv, Instruction
  PROVE  ParserInv'
<1> DEFINE new == NewInstruction(Statement, ehset)
<1>0. PICK i : i = Len(pool) + 1
  OBVIOUS
<1>1. /\ ParserTypes /\ Reading /\ line <= Len(Body) /\ Statement.op \notin Pseudo /\ Statement.op # "label"
      /\ text \in Classes /\ meth \in Nat \ {0} /\ line \in Nat \ {0} /\ Len(text) \in Nat
      /\ Len(pool) \in Nat /\ first \in Nat /\ pool \in Seq(InstructionType)
      /\ Current /\ i < Invalid /\ Len(pool) < Invalid /\ Invalid \in Nat /\ ehset \in Seq(Nat)
  BY <1>0, TextOK, ParserAssumption DEF ParserInv, ParserTypes, Instruction, Pseudo
<1>2. /\ pool' = Append(IF first = Invalid THEN pool ELSE [pool EXCEPT ![i - 1].next = i], new)
      /\ first' = IF first = Invalid THEN i ELSE first
      /\ jump' = IF stack = <<>> THEN jump ELSE Bind(i)
      /\ stack' = <<>> /\ line' = line + 1
      /\ text' = text /\ meth' = meth /\ catches' = catches /\ ehset' = ehset /\ methods' = methods
  BY <1>0 DEF Instruction
<1>3. /\ Statement \in Sentence /\ Complete(Statement) /\ line \in DOMAIN Body /\ meth \in DOMAIN text
      /\ \A k \in DOMAIN Statement.labels : Statement.labels[k] \in Mentioned(Body)
  BY <1>1, StatementOK
<1>4. /\ new \in InstructionType /\ new.next = Invalid
      /\ new.op \in {"goto", "if"} => DOMAIN new.operands = {1}
      /\ \A k \in DOMAIN new.operands : new.operands[k].label \in Mentioned(Body)
      /\ \A k \in DOMAIN new.handlers : new.handlers[k] \in Mentioned(Body)
  <2>1. \A k \in DOMAIN ehset : ehset[k] \in Mentioned(Body)
    BY <1>1 DEF Current
  <2> QED
    BY <1>1, <1>3, <2>1, NewInstructionOK
<1>5. Reading' /\ Body' = Body /\ \A n : Labels(n)' = Labels(n)
  BY <1>1, <1>2 DEF Reading, Body, Labels
<1> HIDE DEF new
<1>6. i \in Nat /\ i # Invalid /\ Len(pool) = i - 1
  BY <1>0, <1>1
<1>7. first # Invalid => first \in 1 .. i - 1 /\ Segment(first, i - 1, meth)
  BY <1>1, <1>6 DEF Current, Segment
<1>8. PICK q : q = IF first = Invalid THEN pool ELSE [pool EXCEPT ![i - 1].next = i]
  OBVIOUS
<1>9. /\ q \in Seq(InstructionType) /\ Len(q) = i - 1
      /\ \A j \in 1 .. i - 2 : q[j] = pool[j]
      /\ first = Invalid => q = pool
      /\ first # Invalid => q[i - 1].next = i /\ q[i - 1].op = pool[i - 1].op
                            /\ q[i - 1].operands = pool[i - 1].operands
                            /\ q[i - 1].handlers = pool[i - 1].handlers
  <2>1. CASE first = Invalid
    BY <2>1, <1>1, <1>6, <1>8
  <2>2. CASE first # Invalid
    <3>1. i - 1 \in 1 .. Len(pool)
      BY <2>2, <1>6, <1>7
    <3>2. PICK p : p = pool[i - 1]
      OBVIOUS
    <3>3. p \in InstructionType
      BY <1>1, <3>1, <3>2
    <3>4. [p EXCEPT !.next = i] \in InstructionType
      BY <3>3, <1>6 DEF InstructionType
    <3>5. q = [pool EXCEPT ![i - 1] = [p EXCEPT !.next = i]]
      BY <1>8, <2>2, <3>2
    <3>6. [p EXCEPT !.next = i].next = i /\ [p EXCEPT !.next = i].op = p.op
          /\ [p EXCEPT !.next = i].operands = p.operands
          /\ [p EXCEPT !.next = i].handlers = p.handlers
      BY <3>3 DEF InstructionType
    <3>7. PICK r : r = [p EXCEPT !.next = i]
      OBVIOUS
    <3>8. q = [pool EXCEPT ![i - 1] = r] /\ r \in InstructionType
      BY <3>4, <3>5, <3>7
    <3>9. q \in Seq(InstructionType) /\ Len(q) = Len(pool) /\ q[i - 1] = r
          /\ \A j \in 1 .. Len(pool) : j # i - 1 => q[j] = pool[j]
      BY <1>1, <3>1, <3>8
    <3> QED
      BY <1>6, <2>2, <3>2, <3>6, <3>7, <3>9
  <2> QED
    BY <2>1, <2>2
<1>10. /\ pool' \in Seq(InstructionType) /\ Len(pool') = i
       /\ \A j \in 1 .. i - 1 : pool'[j] = q[j]
       /\ pool'[i] = new
  BY <1>2, <1>4, <1>6, <1>8, <1>9
<1>11. ASSUME NEW l \in DOMAIN jump'
       PROVE  \/ l \in DOMAIN jump /\ jump'[l] = jump[l]
              \/ l \in Labels(meth) /\ jump'[l] = i
  <2>1. CASE stack = <<>>
    BY <2>1, <1>2, <1>11
  <2>2. CASE stack # <<>>
    <3>1. jump' = [j \in DOMAIN jump \cup Range(stack) |-> IF j \in Range(stack) THEN i ELSE jump[j]]
      BY <1>2, <2>2 DEF Bind
    <3>2. \A j \in Range(stack) : j \in Labels(meth)
      BY <1>1 DEF Current, Range
    <3> QED
      BY <3>1, <3>2, <1>11
  <2> QED
    BY <2>1, <2>2
<1>12. \A l \in DOMAIN jump' : jump'[l] \in 1 .. i
  <2>1. \A l \in DOMAIN jump : jump[l] \in 1 .. i - 1
    BY <1>1, <1>6 DEF ParserTypes
  <2>2. i \in 1 .. i /\ \A j \in 1 .. i - 1 : j \in 1 .. i
    BY <1>1, <1>6
  <2> QED
    BY <1>11, <2>1, <2>2
<1>13. first' \in Nat /\ first' # Invalid
  BY <1>1, <1>2, <1>6
<1>14. ParserTypes'
  <2>1. stack' \in Seq(Nat) /\ catches' \in Seq(CatchType) /\ ehset' \in Seq(Nat)
    BY <1>1, <1>2 DEF ParserTypes
  <2>2. Len(pool') < Invalid
    BY <1>1, <1>10
  <2> QED
    BY <1>1, <1>2, <1>10, <1>12, <1>13, <2>1, <2>2 DEF ParserTypes
<1>15. (\A l \in DOMAIN jump : \E n \in DOMAIN text : n <= meth /\ l \in Labels(n))'
  <2>1. ASSUME NEW l \in DOMAIN jump' PROVE \E n \in DOMAIN text : n <= meth /\ l \in Labels(n)
    <3>1. CASE l \in DOMAIN jump
      BY <3>1 DEF ParserInv
    <3>2. CASE l \in Labels(meth)
      BY <3>2, <1>1, <1>3
    <3> QED
      BY <1>11, <3>1, <3>2
  <2> QED
    BY <1>2, <1>5, <2>1
<1>16. PICK e : e = first'
  OBVIOUS
<1>17. PICK M : M = Mentioned(Body)
  OBVIOUS
<1>18. Segment(e, i, meth)'
  <2>1. e \in 1 .. i
    BY <1>2, <1>6, <1>7, <1>16
  <2>2. ASSUME NEW j \in e .. i - 1 PROVE pool'[j].next = j + 1
    <3>1. first # Invalid /\ e = first
      BY <2>1, <2>2, <1>2, <1>6, <1>16
    <3>2. j \in 1 .. i - 1
      BY <2>1, <2>2, <1>6
    <3>3. CASE j = i - 1
      BY <1>6, <1>9, <1>10, <3>1, <3>2, <3>3
    <3>4. CASE j # i - 1
      <4>1. j \in 1 .. i - 2 /\ j \in first .. i - 1 - 1
        BY <1>6, <2>2, <3>1, <3>2, <3>4
      <4> QED
        BY <1>7, <1>9, <1>10, <3>1, <3>2, <4>1 DEF Segment
    <3> QED
      BY <3>3, <3>4
  <2>3. pool'[i].next = Invalid
    BY <1>4, <1>10
  <2>4. ASSUME NEW j \in e .. i
        PROVE  /\ pool'[j].op \in {"goto", "if"} => DOMAIN pool'[j].operands = {1}
               /\ \A k \in DOMAIN pool'[j].operands : pool'[j].operands[k].label \in M
               /\ \A k \in DOMAIN pool'[j].handlers : pool'[j].handlers[k] \in M
    <3>1. CASE j = i
      BY <3>1, <1>4, <1>10, <1>17
    <3>2. CASE j # i
      <4>1. first # Invalid /\ e = first /\ j \in 1 .. i - 1 /\ j \in first .. i - 1
        BY <3>2, <2>1, <2>4, <1>2, <1>6, <1>16
      <4>2. Names(j, M)
        BY <4>1, <1>7, <1>17 DEF Segment, Body
      <4>3. pool'[j].op = pool[j].op /\ pool'[j].operands = pool[j].operands
            /\ pool'[j].handlers = pool[j].handlers
        <5>1. CASE j = i - 1
          BY <4>1, <5>1, <1>9, <1>10
        <5>2. CASE j # i - 1
          <6>1. j \in 1 .. i - 2
            BY <4>1, <5>2, <1>6
          <6> QED
            BY <4>1, <6>1, <1>9, <1>10
        <5> QED
          BY <5>1, <5>2
      <4> QED
        BY <4>2, <4>3 DEF Names
    <3> QED
      BY <3>1, <3>2
  <2>5. ASSUME NEW l \in M, l \in DOMAIN jump' PROVE jump'[l] \in e .. i
    <3>1. CASE jump'[l] = i
      BY <3>1, <2>1, <1>6
    <3>2. CASE l \in DOMAIN jump /\ jump'[l] = jump[l]
      <4>1. first # Invalid
        BY <2>5, <3>2, <1>1, <1>17 DEF Current
      <4>2. jump[l] \in first .. i - 1
        BY <4>1, <2>5, <3>2, <1>7, <1>17 DEF Segment, Body
      <4>3. e = first
        BY <4>1, <1>2, <1>16
      <4> QED
        BY <4>2, <4>3, <3>2, <1>1, <1>6
    <3> QED
      BY <2>5, <3>1, <3>2, <1>11
  <2>6. Mentioned(text[meth].body)' = M
    BY <1>2, <1>17 DEF Body
  <2>7. i \in e .. i
    BY <2>1, <1>6
  <2> QED
    BY <1>10, <2>1, <2>2, <2>3, <2>4, <2>5, <2>6, <2>7, Zenon DEF Segment, Names
<1>19. Current'
  <2>1. \A n \in DOMAIN stack' : stack'[n] \in Labels(meth)'
    BY <1>2
  <2>2. Segment(first, Len(pool), meth)'
    BY <1>10, <1>16, <1>18, Zenon DEF Segment, Names
  <2> QED
    BY <1>1, <1>2, <1>5, <1>13, <2>1, <2>2 DEF Current
<1>20. ASSUME NEW k \in DOMAIN methods' PROVE Entry(methods[k])'
  <2>1. PICK x : x = methods[k]
    OBVIOUS
  <2>2. methods'[k] = x /\ Entry(x)
    BY <2>1, <1>2, <1>20 DEF ParserInv
  <2>3. \A j \in 1 .. Len(pool) : ~ (Reading /\ first # Invalid) \/ j < first => pool'[j] = pool[j]
    <3>1. ASSUME NEW j \in 1 .. i - 1, first = Invalid \/ j < first PROVE pool'[j] = pool[j]
      <4>1. CASE first = Invalid
        BY <4>1, <1>9, <1>10
      <4>2. CASE first # Invalid
        <5>1. j \in 1 .. i - 2
          BY <3>1, <4>2, <1>6, <1>7
        <5> QED
          BY <5>1, <1>9, <1>10
      <4> QED
        BY <4>1, <4>2
    <3> QED
      BY <3>1, <1>1, <1>6
  <2>4. first' = first \/ first' > Len(pool)
    BY <1>1, <1>2, <1>6
  <2>5. first # Invalid \/ first' > Len(pool)
    BY <1>1, <1>2, <1>6
  <2>6. Len(pool') \in Nat /\ Len(pool) <= Len(pool') /\ meth' \in Nat /\ meth <= meth'
    BY <1>1, <1>2, <1>6, <1>10
  <2>7. \A l \in DOMAIN jump' : \/ l \in DOMAIN jump /\ jump'[l] = jump[l]
                                \/ Reading /\ l \in Labels(meth)
    BY <1>1, <1>11
  <2>8. (Reading /\ first # Invalid)' =>
           (Reading /\ first # Invalid /\ first' = first) \/ (first' \in Nat /\ first' > Len(pool))
    BY <1>1, <1>2, <1>6, <1>13, <2>4, <2>5
  <2>9. Entry(x)'
    BY <1>1, <1>2, <2>2, <2>3, <2>6, <2>7, <2>8, EntryKept
  <2>10. Entry(methods[k])' = Entry(x)'
    BY <2>2
  <2> QED
    BY <2>9, <2>10
<1> QED
  BY <1>14, <1>15, <1>19, <1>20 DEF ParserInv

(* An instruction that no constructor accepts ends the class. *)
LEMMA BadInstructionOK ==
  ASSUME ParserInv, BadInstruction
  PROVE  ParserInv'
<1> DEFINE new == NewInstruction(Statement, <<>>)
<1>1. /\ ParserTypes /\ Reading /\ line <= Len(Body)
      /\ text \in Classes /\ meth \in Nat \ {0} /\ line \in Nat \ {0} /\ Len(text) \in Nat
      /\ Len(pool) \in Nat /\ pool \in Seq(InstructionType) /\ Len(pool) + 1 < Invalid
  BY TextOK DEF ParserInv, ParserTypes, BadInstruction
<1>2. pool' = Append(pool, new) /\ meth' = Len(text) + 1 /\ Fresh /\ text' = text /\ jump' = jump
      /\ methods' = methods
  BY DEF BadInstruction
<1>3. new \in InstructionType
  <2>1. <<>> \in Seq(Nat) /\ Statement \in Sentence /\ Complete(Statement)
    BY <1>1, StatementOK
  <2> QED
    BY <2>1, NewInstructionOK
<1> HIDE DEF new
<1>4. pool' \in Seq(InstructionType) /\ Len(pool') = Len(pool) + 1
      /\ \A j \in 1 .. Len(pool) : pool'[j] = pool[j]
  BY <1>1, <1>2, <1>3
<1>5. ParserTypes'
  <2>1. \A l \in DOMAIN jump : jump[l] \in 1 .. Len(pool')
    BY <1>1, <1>4 DEF ParserTypes
  <2> QED
    BY <1>1, <1>2, <1>4, <2>1, ParserAssumption DEF Fresh, ParserTypes
<1>6. ~ Reading' /\ meth' \in Nat /\ meth <= meth'
  BY <1>1, <1>2 DEF Reading
<1>7. (\A l \in DOMAIN jump : \E n \in DOMAIN text : n <= meth /\ l \in Labels(n))'
  <2>1. \A n \in DOMAIN text : n \in Nat
    BY <1>1, TextOK
  <2> QED
    BY <1>1, <1>2, <1>6, <2>1 DEF ParserInv, Labels
<1>8. ASSUME NEW k \in DOMAIN methods' PROVE Entry(methods[k])'
  <2>1. PICK e : e = methods[k]
    OBVIOUS
  <2>2. methods'[k] = e /\ Entry(e)
    BY <2>1, <1>2, <1>8 DEF ParserInv
  <2>3. Entry(e)'
    BY <1>1, <1>2, <1>4, <1>6, <2>2, EntryKept
  <2>4. Entry(methods[k])' = Entry(e)'
    BY <2>2
  <2> QED
    BY <2>3, <2>4
<1> QED
  BY <1>5, <1>6, <1>7, <1>8 DEF ParserInv

(* The end of a body: a new entry, and nothing that waits. *)
LEMMA EndMethodOK ==
  ASSUME ParserInv, EndMethod
  PROVE  ParserInv'
<1>1. /\ ParserTypes /\ Reading /\ line > Len(Body)
      /\ text \in Classes /\ meth \in Nat \ {0} /\ line \in Nat \ {0} /\ Len(text) \in Nat
      /\ Len(pool) \in Nat /\ Current /\ first \in Nat /\ meth <= Len(text)
  BY TextOK DEF ParserInv, ParserTypes, EndMethod, Reading
<1>2. /\ Fresh /\ text' = text /\ pool' = pool /\ jump' = jump
      /\ \/ meth' = Len(text) + 1 /\ methods' = methods
         \/ /\ meth' = meth + 1
            /\ methods' = [k \in DOMAIN methods \cup {text[meth].key} |->
                             IF k = text[meth].key THEN first ELSE methods[k]]
  BY DEF EndMethod
<1>3. meth \in DOMAIN text /\ Body \in Seq(Sentence)
  BY <1>1, StatementOK
<1>4. first # Invalid /\ Segment(first, Len(pool), meth)
  <2>1. PICK k \in DOMAIN Body : Body[k].op \notin Pseudo
    BY <1>1, <1>3, TextOK DEF Body
  <2>2. k < line
    BY <1>1, <1>3
  <2> QED
    BY <1>1, <2>1, <2>2 DEF Current
<1>5. ParserTypes'
  BY <1>1, <1>2, ParserAssumption DEF ParserTypes, Fresh
<1>6. meth' \in Nat /\ meth < meth' /\ first' = Invalid
  BY <1>1, <1>2 DEF Fresh
<1>7. (\A l \in DOMAIN jump : \E n \in DOMAIN text : n <= meth /\ l \in Labels(n))'
  <2>1. \A n \in DOMAIN text : n \in Nat
    BY <1>1, TextOK
  <2>2. \A l \in DOMAIN jump : \E n \in DOMAIN text : n <= meth' /\ l \in Labels(n)
    BY <1>1, <1>6, <2>1 DEF ParserInv
  <2> QED
    BY <1>2, <2>2 DEF Labels
<1>8. ASSUME Reading' PROVE Current'
  <2>1. meth' = meth + 1 /\ meth' \in DOMAIN text
    BY <1>1, <1>2, <1>8, TextOK DEF Reading
  <2>2. ASSUME NEW l \in Mentioned(text[meth'].body), l \in DOMAIN jump PROVE FALSE
    <3>1. PICK n \in DOMAIN text : n <= meth /\ l \in Labels(n)
      BY <2>2 DEF ParserInv
    <3>2. n # meth'
      BY <1>1, <2>1, <3>1, TextOK
    <3> QED
      BY <1>1, <2>1, <2>2, <3>1, <3>2, TextOK DEF Labels
  <2>3. (Body \in Seq(Sentence))'
    BY <1>1, <1>2, <2>1, TextOK DEF Body
  <2>4. \A k \in DOMAIN Body' : ~ (k < line')
    BY <1>2, <2>3 DEF Fresh
  <2>5. stack' = <<>> /\ catches' = <<>> /\ ehset' = <<>>
    BY <1>2 DEF Fresh
  <2>6. \A l \in Mentioned(Body)' : l \notin DOMAIN jump'
    BY <1>2, <2>2 DEF Body
  <2> QED
    BY <1>6, <2>4, <2>5, <2>6 DEF Current
<1>9. ASSUME NEW k \in DOMAIN methods' PROVE Entry(methods[k])'
  <2>1. CASE k \in DOMAIN methods /\ methods'[k] = methods[k]
    <3>1. PICK e : e = methods[k]
      OBVIOUS
    <3>2. methods'[k] = e /\ Entry(e)
      BY <3>1, <2>1 DEF ParserInv
    <3>3. Entry(e)'
      BY <1>1, <1>2, <1>6, <3>2, EntryKept
    <3>4. Entry(methods[k])' = Entry(e)'
      BY <3>2
    <3> QED
      BY <3>3, <3>4
  <2>2. CASE methods'[k] = first
    <3>1. PICK e, z, m : e = first /\ z = Len(pool) /\ m = meth
      OBVIOUS
    <3>2. Segment(e, z, m)
      BY <1>4, <3>1
    <3>3. Segment(e, z, m)'
      BY <1>1, <1>2, <3>2, SegmentKept
    <3>4. Entry(e)'
      BY <1>1, <1>2, <1>3, <1>6, <3>1, <3>3 DEF Entry
    <3>5. Entry(methods[k])' = Entry(e)'
      BY <2>2, <3>1
    <3> QED
      BY <3>4, <3>5
  <2> QED
    BY <1>2, <1>9, <2>1, <2>2
<1> QED
  BY <1>5, <1>7, <1>8, <1>9 DEF ParserInv

(* The parser starts with the invariant. *)
LEMMA ParserStarts ==
  Init => ParserInv
<1> SUFFICES ASSUME Init PROVE ParserInv
  OBVIOUS
<1>1. ParserTypes
  BY ParserAssumption DEF Init, ParserTypes
<1>2. DOMAIN jump = {} /\ DOMAIN methods = {} /\ DOMAIN stack = {} /\ DOMAIN catches = {} /\ DOMAIN ehset = {}
  BY DEF Init
<1>3. ASSUME Reading PROVE Current
  <2>1. line = 1 /\ first = Invalid
    BY DEF Init
  <2>2. Body \in Seq(Sentence)
    BY <1>1, <1>3, StatementOK DEF ParserTypes
  <2>3. \A k \in DOMAIN Body : ~ (k < line)
    BY <2>1, <2>2
  <2> QED
    BY <1>2, <2>1, <2>3 DEF Current
<1> QED
  BY <1>1, <1>2, <1>3 DEF ParserInv

(* Every statement that the parser reads keeps the invariant. *)
LEMMA ParserKept ==
  ASSUME ParserInv, Parse
  PROVE  ParserInv'
<1>1. CASE RedefinedLabel
  BY <1>1, RejectOK DEF RedefinedLabel
<1>2. CASE TooManyCatches
  BY <1>2, RejectOK DEF TooManyCatches
<1> QED
  BY <1>1, <1>2, LabelOK, CatchOK, InstructionOK, BadInstructionOK, EndMethodOK DEF Parse

(* The rest of the program leaves the parser alone. *)
LEMMA ParserUnchanged ==
  ASSUME ParserInv, UNCHANGED pvars
  PROVE  ParserInv'
<1>1. text' = text /\ meth' = meth /\ line' = line /\ pool' = pool /\ jump' = jump /\ stack' = stack
      /\ catches' = catches /\ ehset' = ehset /\ first' = first /\ methods' = methods
  BY DEF pvars
<1>2. ParserTypes' = ParserTypes
  BY <1>1 DEF ParserTypes
<1>3. Reading' = Reading /\ Current' = Current
  BY <1>1 DEF Reading, Current, Segment, Names, Labels, Body
<1>4. \A e : Entry(e)' = Entry(e)
  BY <1>1 DEF Entry, Segment, Names, Reading
<1>5. \A n : Labels(n)' = Labels(n)
  BY <1>1 DEF Labels
<1> QED
  BY <1>1, <1>2, <1>3, <1>4, <1>5 DEF ParserInv

-----------------------------------------------------------------------------
(***************************************************************************)
(* The key instructions.                                                   *)
(***************************************************************************)
(* The chain of an entry is its segment. *)
LEMMA ChainOK ==
  ASSUME ParserTypes, NEW e, NEW z, NEW m, Segment(e, z, m)
  PROVE  Chain(e) = e .. z /\ LastOf(e) = z
<1>1. e \in 1 .. Len(pool) /\ z \in e .. Len(pool) /\ Len(pool) \in Nat /\ Invalid \in Nat /\ Len(pool) < Invalid
  BY ParserAssumption DEF Segment, ParserTypes
<1>2. ASSUME NEW i \in e .. z - 1 PROVE pool[i].next # Invalid
  <2>1. pool[i].next = i + 1
    BY DEF Segment
  <2>2. i + 1 <= Len(pool)
    BY <1>1
  <2> QED
    BY <2>1, <2>2, <1>1
<1>3. pool[z].next = Invalid
  BY DEF Segment
<1>4. ASSUME NEW i \in e .. z PROVE i \in Chain(e)
  <2>1. i \in e .. Len(pool) /\ \A j \in e .. i - 1 : j \in e .. z - 1
    BY <1>1
  <2> QED
    BY <1>2, <2>1 DEF Chain
<1>5. ASSUME NEW i \in Chain(e) PROVE i \in e .. z
  <2>1. i \in e .. Len(pool) /\ \A j \in e .. i - 1 : pool[j].next # Invalid
    BY DEF Chain
  <2>2. z \notin e .. i - 1
    BY <1>3, <2>1
  <2> QED
    BY <1>1, <2>1, <2>2
<1>6. Chain(e) = e .. z
  BY <1>4, <1>5
<1>7. z \in e .. z /\ \A i \in e .. z : i # z => i \in e .. z - 1
  BY <1>1
<1>8. \A i \in e .. z : pool[i].next = Invalid <=> i = z
  BY <1>2, <1>3, <1>7
<1> QED
  BY <1>6, <1>7, <1>8 DEF LastOf

(* A key is the last instruction, or was pushed by one of the chain. *)
LEMMA KeySetOK ==
  ASSUME ParserTypes, NEW e, NEW z, NEW m, Segment(e, z, m), NEW v
  PROVE  v \in KeySet(e) <=>
           v = z \/ (v >= e /\ \E i \in e .. z : \E n \in DOMAIN Pushes(e, i) : v = Pushes(e, i)[n])
<1>1. KeySet(e) = {p[3] : p \in Pushed(e)} \cup {z}
  BY ChainOK DEF KeySet
<1>2. Pushed(e) = {p \in UNION {{<<i, n, Pushes(e, i)[n]>> : n \in DOMAIN Pushes(e, i)} : i \in e .. z} :
                     p[3] >= e}
  BY ChainOK DEF Pushed
<1>3. ASSUME NEW p \in Pushed(e)
      PROVE  p[3] >= e /\ \E i \in e .. z : \E n \in DOMAIN Pushes(e, i) : p[3] = Pushes(e, i)[n]
  <2>1. p[3] >= e /\ p \in UNION {{<<i, n, Pushes(e, i)[n]>> : n \in DOMAIN Pushes(e, i)} : i \in e .. z}
    BY <1>2, <1>3
  <2>2. PICK i \in e .. z : p \in {<<i, n, Pushes(e, i)[n]>> : n \in DOMAIN Pushes(e, i)}
    BY <2>1
  <2>3. PICK n \in DOMAIN Pushes(e, i) : p = <<i, n, Pushes(e, i)[n]>>
    BY <2>2
  <2>4. p[3] = Pushes(e, i)[n]
    BY <2>3
  <2> QED
    BY <2>1, <2>4
<1>4. ASSUME v >= e, NEW i \in e .. z, NEW n \in DOMAIN Pushes(e, i), v = Pushes(e, i)[n]
      PROVE  \E p \in Pushed(e) : p[3] = v
  <2>1. PICK p : p = <<i, n, Pushes(e, i)[n]>>
    OBVIOUS
  <2>2. p[3] = v
    BY <2>1, <1>4
  <2>3. p \in UNION {{<<j, k, Pushes(e, j)[k]>> : k \in DOMAIN Pushes(e, j)} : j \in e .. z}
    BY <2>1
  <2>4. p \in Pushed(e)
    BY <1>2, <1>4, <2>2, <2>3
  <2> QED
    BY <2>2, <2>4
<1> QED
  BY <1>1, <1>3, <1>4

(* Why instruction i pushes v *)
Cause(i, v) ==
  \/ ~ Plain(i) /\ v = i
  \/ ~ Plain(i) /\ pool[i].op \notin Branching /\ v = i - 1
  \/ /\ pool[i].op \in Branching
     /\ \E k \in DOMAIN pool[i].operands : v = PushLabel(pool[i].operands[k].label)

(* What an instruction pushes: at least itself unless it is plain, the     *)
(* instruction before it when it stands alone, the one before each target, *)
(* and nothing of the pool behind the end.                                 *)
LEMMA PushesOK ==
  ASSUME ParserTypes, NEW e, NEW z, NEW m, Segment(e, z, m), NEW i \in e .. z
  PROVE  /\ \A n \in DOMAIN Pushes(e, i) :
              /\ Pushes(e, i)[n] \in Nat
              /\ Pushes(e, i)[n] <= Invalid
              /\ Pushes(e, i)[n] <= Len(pool) => Pushes(e, i)[n] <= z
              /\ Cause(i, Pushes(e, i)[n])
         /\ ~ Plain(i) => \E n \in DOMAIN Pushes(e, i) : Pushes(e, i)[n] = i
         /\ ~ Plain(i) /\ pool[i].op \notin Branching /\ i # e =>
              \E n \in DOMAIN Pushes(e, i) : Pushes(e, i)[n] = i - 1
         /\ pool[i].op \in Branching =>
              \A k \in DOMAIN pool[i].operands :
                \E n \in DOMAIN Pushes(e, i) : Pushes(e, i)[n] = PushLabel(pool[i].operands[k].label)
<1>1. /\ e \in 1 .. Len(pool) /\ z \in e .. Len(pool) /\ Len(pool) \in Nat
      /\ Invalid \in Nat /\ Len(pool) < Invalid /\ i \in 1 .. Len(pool) /\ i \in Nat
  BY ParserAssumption DEF Segment, ParserTypes
<1>2. pool[i] \in InstructionType
  BY <1>1 DEF ParserTypes
<1>3. PICK ops : ops = pool[i].operands
  OBVIOUS
<1>4. ops \in Seq([label : Nat, isDefault : BOOLEAN]) /\ Len(ops) \in Nat /\ DOMAIN ops = 1 .. Len(ops)
  BY <1>2, <1>3 DEF InstructionType
<1>5. ASSUME NEW k \in DOMAIN ops
      PROVE  /\ PushLabel(ops[k].label) \in Nat
             /\ PushLabel(ops[k].label) <= Invalid
             /\ PushLabel(ops[k].label) <= Len(pool) => PushLabel(ops[k].label) <= z
  <2>1. PICK l : l = ops[k].label
    OBVIOUS
  <2>2. l \in Mentioned(text[m].body)
    BY <1>3, <1>5, <2>1 DEF Segment, Names
  <2>3. CASE l \in DOMAIN jump /\ jump[l] > 1
    <3>1. jump[l] \in e .. z
      BY <2>2, <2>3 DEF Segment
    <3>2. PushLabel(l) = jump[l] - 1
      BY <2>3 DEF PushLabel
    <3> QED
      BY <1>1, <2>1, <3>1, <3>2
  <2>4. CASE ~ (l \in DOMAIN jump /\ jump[l] > 1)
    <3>1. PushLabel(l) = Invalid
      BY <2>4 DEF PushLabel
    <3> QED
      BY <1>1, <2>1, <3>1
  <2> QED
    BY <2>3, <2>4
<1>6. CASE pool[i].op \in Branching
  <2>1. Pushes(e, i) = <<i>> \o [k \in 1 .. Len(ops) |-> PushLabel(ops[k].label)]
    <3>1. Pushes(e, i) = <<i>> \o [k \in DOMAIN ops |-> PushLabel([j \in DOMAIN ops |-> ops[j].label][k])]
      BY <1>3, <1>6, Zenon DEF Pushes, LabelsOf
    <3>2. \A k \in DOMAIN ops : [j \in DOMAIN ops |-> ops[j].label][k] = ops[k].label
      OBVIOUS
    <3>3. [k \in DOMAIN ops |-> PushLabel([j \in DOMAIN ops |-> ops[j].label][k])]
            = [k \in 1 .. Len(ops) |-> PushLabel(ops[k].label)]
      BY <1>4, <3>2
    <3> QED
      BY <3>1, <3>3
  <2> DEFINE t == [k \in 1 .. Len(ops) |-> PushLabel(ops[k].label)]
  <2>2. t \in Seq(Nat) /\ Len(t) = Len(ops) /\ \A k \in 1 .. Len(ops) : t[k] = PushLabel(ops[k].label)
    BY <1>4, <1>5
  <2> HIDE DEF t
  <2>3. /\ DOMAIN (<<i>> \o t) = 1 .. Len(ops) + 1
        /\ (<<i>> \o t)[1] = i
        /\ \A k \in 1 .. Len(ops) : (<<i>> \o t)[k + 1] = t[k]
    BY <1>1, <1>4, <2>2
  <2>4. Pushes(e, i) = <<i>> \o t
    BY <2>1 DEF t
  <2>5. PICK P : P = Pushes(e, i)
    OBVIOUS
  <2>6. DOMAIN P = 1 .. Len(ops) + 1 /\ P[1] = i /\ \A k \in 1 .. Len(ops) : P[k + 1] = PushLabel(ops[k].label)
    BY <2>2, <2>3, <2>4, <2>5
  <2>7. ASSUME NEW n \in DOMAIN P
        PROVE  P[n] \in Nat /\ P[n] <= Invalid /\ (P[n] <= Len(pool) => P[n] <= z) /\ Cause(i, P[n])
    <3>1. CASE n = 1
      <4>1. ~ Plain(i)
        BY <1>6 DEF Plain
      <4> QED
        BY <1>1, <2>6, <3>1, <4>1 DEF Cause
    <3>2. CASE n # 1
      <4>1. n - 1 \in 1 .. Len(ops) /\ n - 1 + 1 = n
        BY <1>4, <2>6, <3>2
      <4>2. P[n] = PushLabel(ops[n - 1].label)
        BY <2>6, <4>1
      <4>3. Cause(i, P[n])
        BY <1>3, <1>4, <1>6, <4>1, <4>2 DEF Cause
      <4> QED
        BY <1>4, <1>5, <4>1, <4>2, <4>3
    <3> QED
      BY <3>1, <3>2
  <2>8. 1 \in DOMAIN P
    BY <1>4, <2>6
  <2>9. ASSUME NEW k \in DOMAIN ops PROVE \E n \in DOMAIN P : P[n] = PushLabel(ops[k].label)
    <3>1. k + 1 \in DOMAIN P /\ k \in 1 .. Len(ops)
      BY <1>4, <2>6
    <3> QED
      BY <2>6, <3>1
  <2> QED
    BY <1>3, <1>6, <2>5, <2>6, <2>7, <2>8, <2>9
<1>7. CASE pool[i].op \notin Branching /\ (pool[i].op \in {"invoke", "return"} \/ pool[i].handlers # <<>>)
  <2>1. Pushes(e, i) = IF i # e THEN <<i - 1, i>> ELSE <<i>>
    BY <1>7 DEF Pushes
  <2>0. Cause(i, i) /\ Cause(i, i - 1)
    BY <1>7 DEF Cause, Plain
  <2>2. CASE i = e
    <3>1. PICK P : P = Pushes(e, i)
      OBVIOUS
    <3>2. DOMAIN P = {1} /\ P[1] = i
      BY <2>1, <2>2, <3>1
    <3> QED
      BY <1>1, <1>7, <2>0, <2>2, <3>1, <3>2
  <2>3. CASE i # e
    <3>1. i - 1 \in Nat /\ i - 1 <= z /\ i - 1 <= Invalid /\ i <= z /\ i <= Invalid
      BY <1>1, <2>3
    <3>2. PICK P : P = Pushes(e, i)
      OBVIOUS
    <3>3. P = <<i - 1, i>>
      BY <2>1, <2>3, <3>2
    <3>4. DOMAIN P = {1, 2} /\ P[1] = i - 1 /\ P[2] = i
      BY <3>3
    <3> QED
      BY <1>1, <1>7, <2>0, <3>1, <3>2, <3>4
  <2> QED
    BY <2>2, <2>3
<1>8. CASE pool[i].op \notin Branching /\ pool[i].op \notin {"invoke", "return"} /\ pool[i].handlers = <<>>
  <2>1. Pushes(e, i) = <<>> /\ Plain(i)
    BY <1>8 DEF Pushes, Plain
  <2> QED
    BY <1>8, <2>1
<1> QED
  BY <1>6, <1>7, <1>8

(* Instruction t is the first of a block when the keys cut e .. z *)
Target(t, key, e, z) == t \in e .. z /\ (t = e \/ \E n \in 1 .. Len(key) : key[n] = t - 1)

(* The keys cut the code from e to z behind every instruction that is not  *)
(* plain and before every target of a jump, the last of them is z, and the *)
(* pieces between them start where they should                             *)
Cut(key, e, z) ==
  /\ key \in Seq(Nat) /\ key # <<>>
  /\ \A a, b \in 1 .. Len(key) : a < b => key[a] < key[b]
  /\ \A n \in 1 .. Len(key) : key[n] \in e .. z
  /\ key[Len(key)] = z
  /\ \A i \in e .. z : ~ Plain(i) => \E n \in 1 .. Len(key) : key[n] = i
  /\ \A i \in e .. z : pool[i].op \in Branching =>
       \A k \in DOMAIN pool[i].operands :
         /\ pool[i].operands[k].label \in DOMAIN jump
         /\ Target(jump[pool[i].operands[k].label], key, e, z)
  /\ \A t \in e .. z : Target(t, key, e, z) <=> Starts(e, t)

(* Keys that all lie in the pool cut the method. *)
LEMMA KeysCut ==
  ASSUME ParserTypes, NEW e, NEW z, NEW m, Segment(e, z, m),
         NEW key, key = Keys(e), key # <<>>, Range(key) \subseteq DOMAIN pool
  PROVE  Cut(key, e, z)
<1> DEFINE K == KeySet(e)
<1>1. /\ e \in 1 .. Len(pool) /\ z \in e .. Len(pool) /\ Len(pool) \in Nat /\ DOMAIN pool = 1 .. Len(pool)
      /\ Invalid \in Nat /\ Len(pool) < Invalid
  BY ParserAssumption DEF Segment, ParserTypes
<1>2. key = Sorted(K)
  BY DEF Keys
<1>3. \A v \in K : v \in Nat /\ v <= Invalid /\ e <= v /\ (v <= Len(pool) => v <= z)
  <2>1. ASSUME NEW v \in K PROVE v \in Nat /\ v <= Invalid /\ e <= v /\ (v <= Len(pool) => v <= z)
    <3>1. CASE v = z
      BY <3>1, <1>1
    <3>2. CASE v # z
      <4>1. v >= e /\ \E i \in e .. z : \E n \in DOMAIN Pushes(e, i) : v = Pushes(e, i)[n]
        BY <2>1, <3>2, KeySetOK
      <4>2. PICK i \in e .. z : \E n \in DOMAIN Pushes(e, i) : v = Pushes(e, i)[n]
        BY <4>1
      <4>3. v \in Nat /\ v <= Invalid /\ (v <= Len(pool) => v <= z)
        BY <4>2, PushesOK
      <4> QED
        BY <1>1, <4>1, <4>3
    <3> QED
      BY <3>1, <3>2
  <2> QED
    BY <2>1
<1>4. ASSUME NEW i \in e .. z, NEW n \in DOMAIN Pushes(e, i), Pushes(e, i)[n] >= e PROVE Pushes(e, i)[n] \in K
  BY <1>4, KeySetOK
<1>5. z \in K
  BY KeySetOK
<1> HIDE DEF K
<1>6. Lists(key, K)
  <2>1. K \in SUBSET Nat /\ K \in SUBSET Int /\ \A s \in K : s <= Invalid
    BY <1>3
  <2>2. IsFiniteSet(K)
    BY <1>1, <2>1, FS_BoundedSetOfNaturals
  <2> QED
    BY <1>2, <2>1, <2>2, SortedLists
<1>7. key \in Seq(K) /\ (\A x \in K : \E n \in 1 .. Len(key) : key[n] = x)
      /\ \A a, b \in 1 .. Len(key) : a < b => key[a] < key[b]
  BY <1>6 DEF Lists
<1>8. Len(key) \in Nat \ {0} /\ DOMAIN key = 1 .. Len(key) /\ \A n \in 1 .. Len(key) : key[n] \in K
  BY <1>7
<1>9. \A x \in K : x \in e .. z
  <2>1. \A x \in K : x \in DOMAIN pool
    BY <1>7, <1>8 DEF Range
  <2> QED
    BY <1>1, <1>3, <2>1
<1>10. key \in Seq(Nat)
  BY <1>3, <1>7, <1>8
<1>11. key[Len(key)] = z
  <2>1. PICK n \in 1 .. Len(key) : key[n] = z
    BY <1>5, <1>7
  <2>2. key[Len(key)] \in e .. z
    BY <1>8, <1>9
  <2>3. n < Len(key) => key[n] < key[Len(key)]
    BY <1>7, <1>8
  <2> QED
    BY <1>1, <1>8, <2>1, <2>2, <2>3
<1>12. ASSUME NEW i \in e .. z, ~ Plain(i) PROVE \E n \in 1 .. Len(key) : key[n] = i
  <2>1. PICK n \in DOMAIN Pushes(e, i) : Pushes(e, i)[n] = i
    BY <1>12, PushesOK
  <2>2. i >= e
    BY <1>1
  <2>3. i \in K
    BY <1>4, <2>1, <2>2
  <2> QED
    BY <1>7, <2>3
<1>13. ASSUME NEW i \in e .. z, pool[i].op \in Branching, NEW k \in DOMAIN pool[i].operands
       PROVE  /\ pool[i].operands[k].label \in DOMAIN jump
              /\ Target(jump[pool[i].operands[k].label], key, e, z)
  <2>1. PICK l : l = pool[i].operands[k].label
    OBVIOUS
  <2>2. PICK n \in DOMAIN Pushes(e, i) : Pushes(e, i)[n] = PushLabel(l)
    BY <1>13, <2>1, PushesOK
  <2>3. l \in Mentioned(text[m].body)
    BY <1>13, <2>1 DEF Segment, Names
  <2>4. PushLabel(l) # Invalid
    <3>1. ASSUME PushLabel(l) = Invalid PROVE FALSE
      <4>1. Invalid \in K
        BY <1>1, <1>4, <2>2, <3>1
      <4> QED
        BY <1>1, <1>9, <4>1
    <3> QED
      BY <3>1
  <2>5. l \in DOMAIN jump /\ jump[l] > 1 /\ PushLabel(l) = jump[l] - 1
    BY <2>4 DEF PushLabel
  <2>6. jump[l] \in e .. z
    BY <2>3, <2>5 DEF Segment
  <2>7. CASE jump[l] = e
    BY <2>1, <2>5, <2>6, <2>7 DEF Target
  <2>8. CASE jump[l] # e
    <3>1. jump[l] - 1 >= e
      BY <1>1, <2>6, <2>8
    <3>2. jump[l] - 1 \in K
      BY <1>4, <2>2, <2>5, <3>1
    <3> QED
      BY <1>7, <2>1, <2>5, <2>6, <3>2 DEF Target
  <2> QED
    BY <2>7, <2>8
<1>14. ASSUME NEW t \in e .. z, Target(t, key, e, z) PROVE Starts(e, t)
  <2>1. CASE t = e
    BY <2>1 DEF Starts
  <2>2. CASE t # e
    <3>1. t - 1 \in K /\ t - 1 \in Nat /\ t - 1 # z /\ t - 1 <= Len(pool) /\ t \in Nat
      BY <1>1, <1>7, <1>8, <1>14, <2>2 DEF Target
    <3>2. PICK i \in e .. z : \E n \in DOMAIN Pushes(e, i) : t - 1 = Pushes(e, i)[n]
      BY <3>1, KeySetOK DEF K
    <3>3. Cause(i, t - 1)
      BY <3>2, PushesOK
    <3>4. CASE ~ Plain(i) /\ t - 1 = i
      BY <3>4 DEF Starts
    <3>5. CASE ~ Plain(i) /\ pool[i].op \notin Branching /\ t - 1 = i - 1
      <4>1. t = i
        BY <1>1, <3>1, <3>5
      <4> QED
        BY <3>5, <4>1 DEF Starts
    <3>6. CASE /\ pool[i].op \in Branching
               /\ \E k \in DOMAIN pool[i].operands : t - 1 = PushLabel(pool[i].operands[k].label)
      <4>1. PICK k \in DOMAIN pool[i].operands : t - 1 = PushLabel(pool[i].operands[k].label)
        BY <3>6
      <4>2. PICK l : l = pool[i].operands[k].label
        OBVIOUS
      <4>3. l \in DOMAIN jump /\ jump[l] - 1 = t - 1
        BY <1>1, <3>1, <4>1, <4>2 DEF PushLabel
      <4>4. jump[l] \in Nat
        BY <1>1, <4>3 DEF ParserTypes
      <4>5. jump[l] = t
        BY <3>1, <4>3, <4>4
      <4>6. l \in Range(LabelsOf(i))
        BY <4>2 DEF LabelsOf, Range
      <4>7. i \in Chain(e)
        BY ChainOK
      <4> QED
        BY <3>6, <4>3, <4>5, <4>6, <4>7 DEF Starts
    <3> QED
      BY <3>3, <3>4, <3>5, <3>6 DEF Cause
  <2> QED
    BY <2>1, <2>2
<1>15. ASSUME NEW t \in e .. z, Starts(e, t) PROVE Target(t, key, e, z)
  <2>1. CASE t = e
    BY <2>1 DEF Target
  <2>2. CASE t # e /\ ~ Plain(t - 1)
    <3>1. t - 1 \in e .. z
      BY <1>1, <2>2
    <3> QED
      BY <1>12, <2>2, <3>1 DEF Target
  <2>3. CASE t # e /\ ~ Plain(t) /\ pool[t].op \notin Branching
    <3>1. PICK n \in DOMAIN Pushes(e, t) : Pushes(e, t)[n] = t - 1
      BY <2>3, PushesOK
    <3>2. t - 1 >= e
      BY <1>1, <2>3
    <3>3. t - 1 \in K
      BY <1>4, <3>1, <3>2
    <3> QED
      BY <1>7, <3>3 DEF Target
  <2>4. CASE \E j \in Chain(e) : pool[j].op \in Branching /\
               \E l \in Range(LabelsOf(j)) \cap DOMAIN jump : jump[l] = t
    <3>1. PICK j \in e .. z : pool[j].op \in Branching /\
            \E l \in Range(LabelsOf(j)) \cap DOMAIN jump : jump[l] = t
      BY <2>4, ChainOK
    <3>2. PICK k \in DOMAIN pool[j].operands : jump[pool[j].operands[k].label] = t
      BY <3>1 DEF LabelsOf, Range
    <3> QED
      BY <1>13, <3>1, <3>2
  <2> QED
    BY <1>15, <2>1, <2>2, <2>3, <2>4 DEF Starts
<1> QED
  BY <1>7, <1>8, <1>9, <1>10, <1>11, <1>12, <1>13, <1>14, <1>15 DEF Cut

(* The first instruction of block n *)
Begin(key, e, n) == IF n = 1 THEN e ELSE pool[key[n - 1]].next

(* The blocks of a cut lie in the code, each behind the one before. *)
LEMMA BeginOK ==
  ASSUME NEW e, NEW z, NEW m, ParserTypes, Segment(e, z, m), NEW key, Cut(key, e, z), NEW n \in 1 .. Len(key)
  PROVE  /\ Begin(key, e, n) = IF n = 1 THEN e ELSE key[n - 1] + 1
         /\ Begin(key, e, n) \in e .. key[n]
         /\ key[n] \in e .. z
<1>1. /\ key \in Seq(Nat) /\ Len(key) \in Nat /\ key[n] \in e .. z /\ key[Len(key)] = z
      /\ \A k \in 1 .. Len(key) : key[k] \in e .. z
  BY DEF Cut
<1>2. e \in Nat /\ z \in Nat
  BY DEF Segment, ParserTypes
<1>3. CASE n = 1
  BY <1>1, <1>2, <1>3 DEF Begin
<1>4. CASE n # 1
  <2>1. n - 1 \in 1 .. Len(key) /\ n - 1 < n
    BY <1>1, <1>4
  <2>2. key[n - 1] \in e .. z /\ key[n - 1] < key[n]
    BY <1>1, <2>1 DEF Cut
  <2>3. key[n - 1] \in e .. z - 1
    BY <1>1, <1>2, <2>2
  <2>4. pool[key[n - 1]].next = key[n - 1] + 1
    BY <2>3 DEF Segment
  <2> QED
    BY <1>1, <1>2, <1>4, <2>2, <2>4 DEF Begin
<1> QED
  BY <1>3, <1>4

(* The search finds the block around an instruction, and for a target the *)
(* block that begins with it.                                             *)
LEMMA FindBlockAround ==
  ASSUME NEW e, NEW z, NEW m, ParserTypes, Segment(e, z, m), NEW key, Cut(key, e, z), NEW t \in e .. z
  PROVE  /\ FindBlock(key, t) \in 1 .. Len(key)
         /\ Begin(key, e, FindBlock(key, t)) <= t /\ t <= key[FindBlock(key, t)]
         /\ Target(t, key, e, z) => Begin(key, e, FindBlock(key, t)) = t
<1>1. PICK n : n = FindBlock(key, t)
  OBVIOUS
<1>2. /\ key \in Seq(Nat) /\ key # <<>> /\ key[Len(key)] = z /\ Len(key) \in Nat
      /\ \A a, b \in 1 .. Len(key) : a < b => key[a] < key[b]
  BY DEF Cut
<1>3. e \in Nat /\ z \in Nat /\ t \in Nat /\ t <= z
  BY DEF Segment, ParserTypes
<1>4. n \in 1 .. Len(key) /\ t <= key[n] /\ \A a \in 1 .. n - 1 : key[a] < t
  BY <1>1, <1>2, <1>3, FindBlockFirst
<1>5. Begin(key, e, n) = (IF n = 1 THEN e ELSE key[n - 1] + 1) /\ key[n] \in e .. z
  BY <1>4, BeginOK
<1>6. n # 1 => n - 1 \in 1 .. n - 1 /\ n - 1 \in 1 .. Len(key) /\ key[n - 1] \in Nat /\ key[n - 1] < t
  BY <1>2, <1>4
<1>7. Begin(key, e, n) <= t
  BY <1>3, <1>5, <1>6
<1>8. ASSUME Target(t, key, e, z) PROVE Begin(key, e, n) = t
  <2>1. CASE t = e
    <3>1. n = 1
      <4>1. n # 1 => key[n - 1] \in e .. z
        BY <1>6 DEF Cut
      <4> QED
        BY <1>3, <1>6, <2>1, <4>1
    <3> QED
      BY <2>1, <3>1, <1>5
  <2>2. CASE t # e
    <3>1. PICK p \in 1 .. Len(key) : key[p] = t - 1
      BY <1>8, <2>2 DEF Target
    <3>2. p < n
      <4>1. p # n
        BY <1>3, <1>4, <3>1
      <4>2. ~ (n < p)
        <5>1. ASSUME n < p PROVE FALSE
          <6>1. key[n] < key[p] /\ key[n] \in Nat
            BY <1>2, <1>4, <3>1, <5>1
          <6> QED
            BY <1>3, <1>4, <3>1, <6>1
        <5> QED
          BY <5>1
      <4> QED
        BY <1>2, <1>4, <3>1, <4>1, <4>2
    <3>3. n # 1
      BY <1>4, <3>1, <3>2
    <3>4. p = n - 1
      <4>1. ASSUME p < n - 1 PROVE FALSE
        <5>1. key[p] < key[n - 1]
          BY <1>2, <1>6, <3>1, <3>3, <4>1
        <5> QED
          BY <1>3, <1>6, <3>1, <3>3, <5>1
      <4> QED
        BY <1>2, <1>4, <3>1, <3>2, <4>1
    <3> QED
      BY <1>3, <1>5, <3>1, <3>3, <3>4
  <2> QED
    BY <2>1, <2>2
<1> QED
  BY <1>1, <1>4, <1>7, <1>8

(* The search finds the block that begins with the piece around an *)
(* instruction.                                                    *)
LEMMA FindBlockEntered ==
  ASSUME NEW e, NEW z, NEW m, ParserTypes, Segment(e, z, m), NEW key, Cut(key, e, z), NEW t \in e .. z
  PROVE  Begin(key, e, FindBlock(key, t)) = Entered(e, t)
<1>1. PICK n : n = FindBlock(key, t)
  OBVIOUS
<1>2. PICK b : b = Begin(key, e, n)
  OBVIOUS
<1>3. n \in 1 .. Len(key) /\ b <= t /\ t <= key[n]
  BY <1>1, <1>2, FindBlockAround
<1>4. b = (IF n = 1 THEN e ELSE key[n - 1] + 1) /\ b \in e .. key[n]
  BY <1>2, <1>3, BeginOK
<1>5. /\ key \in Seq(Nat) /\ Len(key) \in Nat /\ e \in Nat /\ z \in Nat
      /\ \A c, d \in 1 .. Len(key) : c < d => key[c] < key[d]
      /\ \A s \in e .. z : Target(s, key, e, z) <=> Starts(e, s)
  BY DEF Cut, Segment, ParserTypes
<1>6. b \in e .. t /\ b \in e .. z /\ b \in Nat /\ t \in Nat
  BY <1>3, <1>4, <1>5
<1>7. Starts(e, b)
  <2>1. n # 1 => n - 1 \in 1 .. Len(key) /\ key[n - 1] \in Nat
    BY <1>3, <1>5
  <2>2. n # 1 => key[n - 1] = b - 1
    BY <1>4, <2>1
  <2>3. Target(b, key, e, z)
    BY <1>4, <1>6, <2>1, <2>2 DEF Target
  <2> QED
    BY <1>5, <1>6, <2>3
<1>8. ASSUME NEW u \in b + 1 .. t, Starts(e, u) PROVE FALSE
  <2>1. u \in e .. z /\ u # e /\ u \in Nat
    BY <1>5, <1>6
  <2>2. PICK p \in 1 .. Len(key) : key[p] = u - 1
    BY <1>5, <1>8, <2>1 DEF Target
  <2>3. key[p] < key[n] /\ key[n] \in Nat
    BY <1>3, <1>5, <1>6, <2>1, <2>2
  <2>4. p < n
    <3>1. ~ (n < p) /\ p # n
      BY <1>3, <1>5, <2>2, <2>3
    <3> QED
      BY <1>3, <1>5, <3>1
  <2>5. n # 1 /\ n - 1 \in 1 .. Len(key) /\ (p = n - 1 \/ p < n - 1) /\ key[n - 1] \in Nat
    BY <1>3, <1>5, <2>4
  <2>6. p < n - 1 => key[p] < key[n - 1]
    BY <1>5, <2>5
  <2>7. key[n - 1] = b - 1
    BY <1>4, <1>6, <2>5
  <2> QED
    BY <1>6, <2>1, <2>2, <2>5, <2>6, <2>7
<1> DEFINE P(s) == Starts(e, s) /\ \A u \in s + 1 .. t : ~ Starts(e, u)
<1>9. b \in e .. t /\ P(b)
  BY <1>6, <1>7, <1>8
<1>10. ASSUME NEW s \in e .. t, P(s) PROVE s = b
  <2>1. s \in Nat /\ (s < b => b \in s + 1 .. t) /\ (b < s => s \in b + 1 .. t)
    BY <1>5, <1>6
  <2> QED
    BY <1>6, <1>9, <1>10, <2>1
<1>11. Entered(e, t) = CHOOSE s \in e .. t : P(s)
  BY DEF Entered
<1> HIDE DEF P
<1> QED
  BY <1>1, <1>2, <1>9, <1>10, <1>11

-----------------------------------------------------------------------------
(***************************************************************************)
(* The branches.                                                           *)
(***************************************************************************)
(* A branch to the next block, and one to a handler *)
Goes(r) == r.disabled = 0 /\ ~ IsReturn(r) /\ ~ IsException(r)
Handles(r) == r.disabled = 0 /\ IsException(r)

(* The bits of the branches that the setups make. *)
LEMMA BranchBits ==
  ASSUME NEW id \in Nat
  PROVE  /\ Branch(id) \in BranchType /\ Branch(id).id = id /\ Goes(Branch(id)) /\ ~ Handles(Branch(id))
         /\ Cond(id) \in BranchType /\ Cond(id).id = id /\ Goes(Cond(id)) /\ ~ Handles(Cond(id))
         /\ Disabled \in BranchType /\ ~ Goes(Disabled) /\ ~ Handles(Disabled)
         /\ [Branch(id) EXCEPT !.lt = 1] \in BranchType /\ [Branch(id) EXCEPT !.lt = 1].id = id
         /\ Handles([Branch(id) EXCEPT !.lt = 1]) /\ ~ Goes([Branch(id) EXCEPT !.lt = 1])
         /\ [Branch(id) EXCEPT !.eq = 1] \in BranchType /\ ~ Goes([Branch(id) EXCEPT !.eq = 1])
         /\ ~ Handles([Branch(id) EXCEPT !.eq = 1])
         /\ [Cond(id) EXCEPT !.conditional = 1] = Cond(id)
         /\ [Cond(id) EXCEPT !.conditional = 0] \in BranchType
         /\ ~ Goes([Cond(id) EXCEPT !.conditional = 0]) /\ ~ Handles([Cond(id) EXCEPT !.conditional = 0])
<1>1. Branch(id) = [conditional |-> 0, eq |-> 0, lt |-> 0, id |-> id, disabled |-> 0]
  BY DEF Branch
<1>2. Cond(id) = [conditional |-> 1, eq |-> 1, lt |-> 0, id |-> id, disabled |-> 0]
  <2>1. PICK b : b = [Branch(id) EXCEPT !.conditional = 1]
    OBVIOUS
  <2>2. b = [conditional |-> 1, eq |-> 0, lt |-> 0, id |-> id, disabled |-> 0]
    BY <1>1, <2>1
  <2>3. Cond(id) = [b EXCEPT !.eq = 1]
    BY <2>1, Zenon DEF Cond
  <2> QED
    BY <2>2, <2>3
<1>3. Disabled = [conditional |-> 0, eq |-> 0, lt |-> 0, id |-> 0, disabled |-> 1]
  BY DEF Disabled, Branch
<1>4. [Branch(id) EXCEPT !.lt = 1] = [conditional |-> 0, eq |-> 0, lt |-> 1, id |-> id, disabled |-> 0]
  BY <1>1
<1>5. [Branch(id) EXCEPT !.eq = 1] = [conditional |-> 0, eq |-> 1, lt |-> 0, id |-> id, disabled |-> 0]
  BY <1>1
<1>6. [Cond(id) EXCEPT !.conditional = 0] = [conditional |-> 0, eq |-> 1, lt |-> 0, id |-> id, disabled |-> 0]
  BY <1>2
<1>7. [Cond(id) EXCEPT !.conditional = 1] = Cond(id)
  BY <1>2
<1>8. ASSUME NEW c \in {0, 1}, NEW q \in {0, 1}, NEW t \in {0, 1}, NEW d \in {0, 1}, NEW r,
             r = [conditional |-> c, eq |-> q, lt |-> t, id |-> id, disabled |-> d]
      PROVE  /\ r \in BranchType /\ r.id = id
             /\ Goes(r) <=> d = 0 /\ (c = 1 \/ (q + 2 * t # 1 /\ q + 2 * t # 2))
             /\ Handles(r) <=> d = 0 /\ c = 0 /\ q + 2 * t = 2
  BY <1>8 DEF BranchType, Goes, Handles, IsReturn, IsException, UncondType
<1>9. Branch(id) \in BranchType /\ Branch(id).id = id /\ Goes(Branch(id)) /\ ~ Handles(Branch(id))
  BY <1>1, <1>8
<1>10. Cond(id) \in BranchType /\ Cond(id).id = id /\ Goes(Cond(id)) /\ ~ Handles(Cond(id))
  BY <1>2, <1>8
<1>11. Disabled \in BranchType /\ ~ Goes(Disabled) /\ ~ Handles(Disabled)
  BY <1>3 DEF BranchType, Goes, Handles
<1>12. [Branch(id) EXCEPT !.lt = 1] \in BranchType /\ [Branch(id) EXCEPT !.lt = 1].id = id
       /\ Handles([Branch(id) EXCEPT !.lt = 1]) /\ ~ Goes([Branch(id) EXCEPT !.lt = 1])
  BY <1>4, <1>8
<1>13. [Branch(id) EXCEPT !.eq = 1] \in BranchType /\ ~ Goes([Branch(id) EXCEPT !.eq = 1])
       /\ ~ Handles([Branch(id) EXCEPT !.eq = 1])
  BY <1>5, <1>8
<1>14. [Cond(id) EXCEPT !.conditional = 0] \in BranchType
       /\ ~ Goes([Cond(id) EXCEPT !.conditional = 0]) /\ ~ Handles([Cond(id) EXCEPT !.conditional = 0])
  BY <1>6, <1>8
<1> QED
  BY <1>7, <1>9, <1>10, <1>11, <1>12, <1>13, <1>14

(* Where the branches of instruction i lead that are not for exceptions *)
Onto(i) == (Following(i) \ PackedDefault(i)) \cup PastThrow(i)

(* The branches brs of the key i of block n: they lead to blocks; those    *)
(* that are not for exceptions lead where the code goes on, and those that *)
(* are lead to the pieces of the handlers                                  *)
Leads(brs, key, e, i) ==
  /\ brs \in Seq(BranchType)
  /\ \A r \in Range(brs) : Goes(r) \/ Handles(r) => r.id \in 1 .. Len(key)
  /\ HandlersBound(i) =>
       /\ \A r \in Range(brs) : Goes(r) => Begin(key, e, r.id) \in Onto(i)
       /\ \A t \in Onto(i) : \E r \in Range(brs) : Goes(r) /\ Begin(key, e, r.id) = t
       /\ \A r \in Range(brs) : Handles(r) => Begin(key, e, r.id) \in Caught(e, i)
       /\ \A t \in Caught(e, i) : \E r \in Range(brs) : Handles(r) /\ Begin(key, e, r.id) = t

(* A jump and a return do not go on like a throw, and catch nothing. *)
LEMMA NothingCaught ==
  ASSUME NEW e, NEW i, pool[i].op \in Branching \cup {"return"}
  PROVE  Onto(i) = Following(i) \ PackedDefault(i) /\ Caught(e, i) = {}
<1>1. PastThrow(i) = {}
  BY DEF PastThrow, Branching
<1> QED
  BY <1>1 DEF Onto, Caught

(* The operands of a branching key lead to blocks that begin with their *)
(* targets.                                                             *)
LEMMA OperandsLead ==
  ASSUME NEW e, NEW z, NEW m, ParserTypes, Segment(e, z, m), NEW key, Cut(key, e, z), NEW i \in e .. z,
         pool[i].op \in Branching
  PROVE  /\ DOMAIN LabelsOf(i) = DOMAIN pool[i].operands
         /\ DOMAIN LabelsOf(i) = 1 .. Len(LabelsOf(i)) /\ Len(LabelsOf(i)) \in Nat
         /\ \A k \in DOMAIN LabelsOf(i) :
              /\ To(key, LabelsOf(i)[k]) \in 1 .. Len(key)
              /\ Begin(key, e, To(key, LabelsOf(i)[k])) = jump[LabelsOf(i)[k]]
<1>1. i \in 1 .. Len(pool)
  BY DEF Segment, ParserTypes
<1>2. PICK ops : ops = pool[i].operands
  OBVIOUS
<1>3. ops \in Seq([label : Nat, isDefault : BOOLEAN])
  <2>1. pool[i] \in InstructionType
    BY <1>1 DEF ParserTypes
  <2> QED
    BY <1>2, <2>1 DEF InstructionType
<1>4. LabelsOf(i) = [k \in 1 .. Len(ops) |-> ops[k].label] /\ DOMAIN ops = 1 .. Len(ops) /\ Len(ops) \in Nat
  BY <1>2, <1>3 DEF LabelsOf
<1>5. DOMAIN LabelsOf(i) = 1 .. Len(ops) /\ LabelsOf(i) \in Seq(Nat) /\ Len(LabelsOf(i)) = Len(ops)
  <2>0. PICK T : T = [label : Nat, isDefault : BOOLEAN]
    OBVIOUS
  <2>1. \A k \in 1 .. Len(ops) : ops[k] \in T
    <3>1. ops \in Seq(T)
      BY <1>3, <2>0
    <3> QED
      BY <3>1
  <2>2. \A k \in 1 .. Len(ops) : ops[k].label \in Nat
    BY <2>0, <2>1
  <2> QED
    BY <1>4, <2>2
<1>6. ASSUME NEW k \in DOMAIN LabelsOf(i)
      PROVE  /\ To(key, LabelsOf(i)[k]) \in 1 .. Len(key)
             /\ Begin(key, e, To(key, LabelsOf(i)[k])) = jump[LabelsOf(i)[k]]
  <2>1. PICK l : l = ops[k].label
    OBVIOUS
  <2>2. LabelsOf(i)[k] = l
    BY <1>4, <1>5, <2>1
  <2>3. l \in DOMAIN jump /\ Target(jump[l], key, e, z)
    BY <1>2, <1>4, <1>5, <2>1 DEF Cut
  <2>4. jump[l] \in e .. z
    BY <2>3 DEF Target
  <2>5. FindBlock(key, jump[l]) \in 1 .. Len(key) /\ Begin(key, e, FindBlock(key, jump[l])) = jump[l]
    BY <2>3, <2>4, FindBlockAround
  <2> QED
    BY <2>2, <2>5 DEF To
<1> QED
  BY <1>2, <1>4, <1>5, <1>6

(* Going on from a key leads to the block that begins with the next *)
(* instruction.                                                     *)
LEMMA OnwardLeads ==
  ASSUME NEW e, NEW z, NEW m, ParserTypes, Segment(e, z, m), NEW key, Cut(key, e, z),
         NEW n \in 1 .. Len(key), NEW i, i = key[n]
  PROVE  /\ Onward(key, i) \in BranchType
         /\ ~ Handles(Onward(key, i))
         /\ Goes(Onward(key, i)) <=> pool[i].next # Invalid
         /\ Goes(Onward(key, i)) =>
              /\ Onward(key, i).id \in 1 .. Len(key)
              /\ Begin(key, e, Onward(key, i).id) = pool[i].next
<1>1. i \in e .. z /\ key \in Seq(Nat) /\ Len(key) \in Nat
  BY BeginOK DEF Cut
<1>2. CASE pool[i].next = Invalid
  BY <1>2, BranchBits DEF Onward
<1>3. CASE pool[i].next # Invalid
  <2>1. i \in e .. z - 1 /\ i + 1 \in e .. z /\ i + 1 - 1 = i
    <3>1. i # z
      BY <1>3 DEF Segment
    <3>2. e \in Nat /\ z \in Nat
      BY DEF Segment, ParserTypes
    <3> QED
      BY <1>1, <3>1, <3>2
  <2>2. pool[i].next = i + 1
    BY <2>1 DEF Segment
  <2>3. Target(i + 1, key, e, z)
    BY <2>1 DEF Target
  <2>4. PICK d : d = FindBlock(key, i + 1)
    OBVIOUS
  <2>5. d \in 1 .. Len(key) /\ Begin(key, e, d) = i + 1
    BY <2>1, <2>3, <2>4, FindBlockAround
  <2>6. Onward(key, i) = Branch(d) /\ d \in Nat
    BY <1>1, <1>3, <2>2, <2>4, <2>5 DEF Onward
  <2> QED
    BY <1>3, <2>2, <2>5, <2>6, BranchBits
<1> QED
  BY <1>2, <1>3

(* The branches of a jump, a condition, the switches and a return. *)
LEMMA GotoLeads ==
  ASSUME NEW e, NEW z, NEW m, ParserTypes, Segment(e, z, m), NEW key, Cut(key, e, z),
         NEW n \in 1 .. Len(key), NEW i, i = key[n], pool[i].op = "goto"
  PROVE  Leads(SetupGoto(key, i), key, e, i)
<1>1. i \in e .. z /\ pool[i].op \in Branching
  BY BeginOK DEF Branching
<1>2. PICK ls : ls = LabelsOf(i)
  OBVIOUS
<1>3. DOMAIN ls = {1}
  <2>1. DOMAIN ls = DOMAIN pool[i].operands
    BY <1>1, <1>2, OperandsLead
  <2>2. Names(i, Mentioned(text[m].body))
    BY <1>1 DEF Segment
  <2> QED
    BY <2>1, <2>2 DEF Names
<1>4. PICK d : d = To(key, ls[1])
  OBVIOUS
<1>5. d \in 1 .. Len(key) /\ Begin(key, e, d) = jump[ls[1]]
  BY <1>1, <1>2, <1>3, <1>4, OperandsLead
<1>6. Following(i) = {jump[ls[1]]} /\ PackedDefault(i) = {}
  <2>1. Following(i) = {jump[l] : l \in Range(ls)}
    BY <1>1, <1>2 DEF Following
  <2> QED
    BY <1>3, <2>1 DEF Range, PackedDefault
<1>7. d \in Nat
  BY <1>5 DEF Cut
<1>8. PICK b : b = Branch(d)
  OBVIOUS
<1>9. b \in BranchType /\ b.id = d /\ Goes(b) /\ ~ Handles(b)
  BY <1>7, <1>8, BranchBits
<1>10. SetupGoto(key, i) = <<b>> /\ Range(<<b>>) = {b} /\ <<b>> \in Seq(BranchType)
  BY <1>2, <1>4, <1>8, <1>9 DEF SetupGoto, Range
<1>11. Onto(i) = {jump[ls[1]]} /\ Caught(e, i) = {}
  BY <1>1, <1>6, NothingCaught
<1> QED
  BY <1>1, <1>5, <1>9, <1>10, <1>11 DEF Leads

LEMMA IfLeads ==
  ASSUME NEW e, NEW z, NEW m, ParserTypes, Segment(e, z, m), NEW key, Cut(key, e, z),
         NEW n \in 1 .. Len(key), NEW i, i = key[n], pool[i].op = "if"
  PROVE  Leads(SetupIf(key, i), key, e, i)
<1>1. i \in e .. z /\ pool[i].op \in Branching
  BY BeginOK DEF Branching
<1>2. PICK ls : ls = LabelsOf(i)
  OBVIOUS
<1>3. DOMAIN ls = {1}
  <2>1. DOMAIN ls = DOMAIN pool[i].operands
    BY <1>1, <1>2, OperandsLead
  <2>2. Names(i, Mentioned(text[m].body))
    BY <1>1 DEF Segment
  <2> QED
    BY <2>1, <2>2 DEF Names
<1>4. PICK d : d = To(key, ls[1])
  OBVIOUS
<1>5. d \in 1 .. Len(key) /\ Begin(key, e, d) = jump[ls[1]]
  BY <1>1, <1>2, <1>3, <1>4, OperandsLead
<1>6. Following(i) = {jump[ls[1]]} \cup (IF pool[i].next # Invalid THEN {pool[i].next} ELSE {})
      /\ PackedDefault(i) = {}
  <2>1. Following(i) = {jump[l] : l \in Range(ls)} \cup (IF pool[i].next # Invalid THEN {pool[i].next} ELSE {})
    BY <1>1, <1>2 DEF Following
  <2> QED
    BY <1>3, <2>1 DEF Range, PackedDefault
<1>7. d \in Nat
  BY <1>5 DEF Cut
<1>8. PICK b, c : b = Cond(d) /\ c = Onward(key, i)
  OBVIOUS
<1>9. b \in BranchType /\ b.id = d /\ Goes(b) /\ ~ Handles(b)
  BY <1>7, <1>8, BranchBits
<1>10. /\ c \in BranchType /\ ~ Handles(c) /\ (Goes(c) <=> pool[i].next # Invalid)
       /\ Goes(c) => c.id \in 1 .. Len(key) /\ Begin(key, e, c.id) = pool[i].next
  BY <1>8, OnwardLeads
<1>11. SetupIf(key, i) = <<b, c>> /\ Range(<<b, c>>) = {b, c} /\ <<b, c>> \in Seq(BranchType)
  BY <1>2, <1>4, <1>8, <1>9, <1>10 DEF SetupIf, Range
<1>12. Onto(i) = {jump[ls[1]]} \cup (IF pool[i].next # Invalid THEN {pool[i].next} ELSE {})
       /\ Caught(e, i) = {}
  BY <1>1, <1>6, NothingCaught
<1> QED
  BY <1>1, <1>5, <1>9, <1>10, <1>11, <1>12 DEF Leads

LEMMA ReturnLeads ==
  ASSUME NEW key, NEW e, NEW i, pool[i].op = "return"
  PROVE  Leads(SetupReturn, key, e, i)
<1>1. PICK b : b = [Branch(0) EXCEPT !.eq = 1]
  OBVIOUS
<1>2. b \in BranchType /\ ~ Goes(b) /\ ~ Handles(b)
  BY <1>1, BranchBits
<1>3. SetupReturn = <<b>> /\ Range(<<b>>) = {b} /\ <<b>> \in Seq(BranchType)
  BY <1>1, <1>2 DEF SetupReturn, Range
<1>4. Onto(i) = {} /\ Caught(e, i) = {}
  <2>1. Following(i) = {}
    BY DEF Following, Branching
  <2> QED
    BY <2>1, NothingCaught
<1> QED
  BY <1>2, <1>3, <1>4 DEF Leads

(* The last branch of a packed switch reads as a return. *)
LEMMA PackedLeads ==
  ASSUME NEW e, NEW z, NEW m, ParserTypes, Segment(e, z, m), NEW key, Cut(key, e, z),
         NEW n \in 1 .. Len(key), NEW i, i = key[n], pool[i].op = "packed"
  PROVE  Leads(SetupSwitch(key, i), key, e, i)
<1>1. i \in e .. z /\ pool[i].op \in Branching
  BY BeginOK DEF Branching
<1>2. PICK ls : ls = LabelsOf(i)
  OBVIOUS
<1>3. PICK N : N = Len(ls)
  OBVIOUS
<1>4. N \in Nat /\ DOMAIN ls = 1 .. N
  BY <1>1, <1>2, <1>3, OperandsLead
<1>5. \A k \in 1 .. N : To(key, ls[k]) \in 1 .. Len(key) /\ Begin(key, e, To(key, ls[k])) = jump[ls[k]]
  BY <1>1, <1>2, <1>4, OperandsLead
<1>6. PICK brs : brs = SetupSwitch(key, i)
  OBVIOUS
<1>7. brs = [k \in 1 .. N |-> [Cond(To(key, ls[k])) EXCEPT !.conditional = IF k = N THEN 0 ELSE 1]]
  BY <1>2, <1>3, <1>4, <1>6 DEF SetupSwitch
<1>8. ASSUME NEW k \in 1 .. N
      PROVE  /\ brs[k] \in BranchType /\ ~ Handles(brs[k])
             /\ k = N => ~ Goes(brs[k])
             /\ k # N => Goes(brs[k]) /\ brs[k].id = To(key, ls[k])
  <2>1. PICK d : d = To(key, ls[k])
    OBVIOUS
  <2>2. d \in Nat
    BY <1>5, <2>1 DEF Cut
  <2>3. brs[k] = [Cond(d) EXCEPT !.conditional = IF k = N THEN 0 ELSE 1]
    BY <1>7, <2>1
  <2>4. CASE k = N
    <3>1. brs[k] = [Cond(d) EXCEPT !.conditional = 0]
      BY <2>3, <2>4
    <3> QED
      BY <2>2, <2>4, <3>1, BranchBits
  <2>5. CASE k # N
    <3>1. brs[k] = [Cond(d) EXCEPT !.conditional = 1]
      BY <2>3, <2>5
    <3>2. brs[k] = Cond(d)
      BY <2>2, <3>1, BranchBits
    <3> QED
      BY <2>1, <2>2, <2>5, <3>2, BranchBits
  <2> QED
    BY <2>4, <2>5
<1>9. brs \in Seq(BranchType) /\ DOMAIN brs = 1 .. N
  <2>1. DOMAIN brs = 1 .. N /\ brs = [k \in 1 .. N |-> brs[k]]
    BY <1>7
  <2> QED
    BY <1>4, <1>8, <2>1
<1>10. Following(i) = {jump[l] : l \in Range(ls)}
  BY <1>1, <1>2 DEF Following
<1>11. PackedDefault(i) = {jump[ls[N]]} \ {jump[ls[k]] : k \in 1 .. N - 1}
  BY <1>2, <1>3 DEF PackedDefault
<1>12. ASSUME NEW r \in Range(brs) PROVE \E k \in 1 .. N : r = brs[k]
  BY <1>9, <1>12 DEF Range
<1>13. ASSUME NEW k \in 1 .. N - 1 PROVE jump[ls[k]] \in Following(i) \ PackedDefault(i)
  <2>1. k \in 1 .. N
    BY <1>4
  <2> QED
    BY <1>4, <1>10, <1>11, <2>1 DEF Range
<1>14. ASSUME NEW r \in Range(brs), Goes(r)
       PROVE  r.id \in 1 .. Len(key) /\ Begin(key, e, r.id) \in Following(i) \ PackedDefault(i)
  <2>1. PICK k \in 1 .. N : r = brs[k]
    BY <1>12
  <2>2. k \in 1 .. N - 1
    BY <1>4, <1>8, <1>14, <2>1
  <2>3. r.id = To(key, ls[k])
    BY <1>4, <1>8, <2>1, <2>2
  <2> QED
    BY <1>5, <1>13, <2>2, <2>3, <2>1
<1>15. ASSUME NEW t \in Following(i) \ PackedDefault(i)
       PROVE  \E r \in Range(brs) : Goes(r) /\ Begin(key, e, r.id) = t
  <2>1. PICK k \in 1 .. N : t = jump[ls[k]]
    BY <1>4, <1>10 DEF Range
  <2>2. PICK j \in 1 .. N - 1 : t = jump[ls[j]]
    <3>1. CASE k = N
      BY <1>11, <1>15, <2>1, <3>1
    <3>2. CASE k # N
      <4>1. k \in 1 .. N - 1
        BY <1>4, <3>2
      <4> QED
        BY <2>1, <4>1
    <3> QED
      BY <3>1, <3>2
  <2>3. j \in 1 .. N /\ j # N
    BY <1>4
  <2>4. Goes(brs[j]) /\ Begin(key, e, brs[j].id) = t /\ brs[j] \in Range(brs)
    BY <1>5, <1>8, <1>9, <2>2, <2>3 DEF Range
  <2> QED
    BY <2>4
<1>16. \A r \in Range(brs) : ~ Handles(r)
  BY <1>8, <1>12
<1>17. Onto(i) = Following(i) \ PackedDefault(i) /\ Caught(e, i) = {}
  BY <1>1, NothingCaught
<1> QED
  BY <1>1, <1>6, <1>9, <1>14, <1>15, <1>16, <1>17 DEF Leads

LEMMA SparseLeads ==
  ASSUME NEW e, NEW z, NEW m, ParserTypes, Segment(e, z, m), NEW key, Cut(key, e, z),
         NEW n \in 1 .. Len(key), NEW i, i = key[n], pool[i].op = "sparse"
  PROVE  Leads(SetupSwitch(key, i), key, e, i)
<1>1. i \in e .. z /\ pool[i].op \in Branching
  BY BeginOK DEF Branching
<1>2. PICK ls : ls = LabelsOf(i)
  OBVIOUS
<1>3. PICK N : N = Len(ls)
  OBVIOUS
<1>4. N \in Nat /\ DOMAIN ls = 1 .. N
  BY <1>1, <1>2, <1>3, OperandsLead
<1>5. \A k \in 1 .. N : To(key, ls[k]) \in 1 .. Len(key) /\ Begin(key, e, To(key, ls[k])) = jump[ls[k]]
  BY <1>1, <1>2, <1>4, OperandsLead
<1>6. PICK brs : brs = SetupSwitch(key, i)
  OBVIOUS
<1>7. brs = [k \in 1 .. N |-> IF pool[i].operands[k].isDefault THEN Branch(To(key, ls[k])) ELSE Cond(To(key, ls[k]))]
  BY <1>2, <1>3, <1>4, <1>6 DEF SetupSwitch
<1>8. ASSUME NEW k \in 1 .. N
      PROVE  brs[k] \in BranchType /\ ~ Handles(brs[k]) /\ Goes(brs[k]) /\ brs[k].id = To(key, ls[k])
  <2>1. PICK d : d = To(key, ls[k])
    OBVIOUS
  <2>2. d \in Nat
    BY <1>5, <2>1 DEF Cut
  <2>3. PICK b : b = brs[k]
    OBVIOUS
  <2>4. b = Branch(d) \/ b = Cond(d)
    BY <1>7, <2>1, <2>3
  <2>5. b \in BranchType /\ ~ Handles(b) /\ Goes(b) /\ b.id = d
    <3>1. /\ Branch(d) \in BranchType /\ Branch(d).id = d /\ Goes(Branch(d)) /\ ~ Handles(Branch(d))
          /\ Cond(d) \in BranchType /\ Cond(d).id = d /\ Goes(Cond(d)) /\ ~ Handles(Cond(d))
      BY <2>2, BranchBits
    <3> QED
      BY <2>4, <3>1
  <2> QED
    BY <2>1, <2>3, <2>5
<1>9. brs \in Seq(BranchType) /\ DOMAIN brs = 1 .. N
  BY <1>4, <1>7, <1>8
<1>10. Following(i) = {jump[l] : l \in Range(ls)} /\ PackedDefault(i) = {}
  BY <1>1, <1>2 DEF Following, PackedDefault
<1>11. ASSUME NEW r \in Range(brs) PROVE \E k \in 1 .. N : r = brs[k]
  BY <1>9, <1>11 DEF Range
<1>12. ASSUME NEW r \in Range(brs)
       PROVE  r.id \in 1 .. Len(key) /\ Begin(key, e, r.id) \in Following(i) /\ ~ Handles(r)
  <2>1. PICK k \in 1 .. N : r = brs[k]
    BY <1>11
  <2>2. r.id = To(key, ls[k]) /\ ~ Handles(r)
    BY <1>8, <2>1
  <2> QED
    BY <1>4, <1>5, <1>10, <2>1, <2>2 DEF Range
<1>13. ASSUME NEW t \in Following(i)
       PROVE  \E r \in Range(brs) : Goes(r) /\ Begin(key, e, r.id) = t
  <2>1. PICK k \in 1 .. N : t = jump[ls[k]]
    BY <1>4, <1>10 DEF Range
  <2>2. Goes(brs[k]) /\ Begin(key, e, brs[k].id) = t /\ brs[k] \in Range(brs)
    BY <1>5, <1>8, <1>9, <2>1 DEF Range
  <2> QED
    BY <2>2
<1>14. Onto(i) = Following(i) /\ Caught(e, i) = {}
  BY <1>1, <1>10, NothingCaught
<1> QED
  BY <1>1, <1>6, <1>9, <1>12, <1>13, <1>14 DEF Leads

(* Any other instruction leads on, and to the handlers up to the first *)
(* that is not bound.                                                  *)
LEMMA LinearLeads ==
  ASSUME NEW e, NEW z, NEW m, ParserTypes, Segment(e, z, m), NEW key, Cut(key, e, z),
         NEW n \in 1 .. Len(key), NEW i, i = key[n], pool[i].op \notin Branching \cup {"return"}
  PROVE  Leads(SetupLinear(key, i), key, e, i)
<1>1. i \in e .. z /\ i \in 1 .. Len(pool) /\ Len(key) \in Nat \ {0}
  BY BeginOK DEF Segment, ParserTypes, Cut
<1>2. PICK hs : hs = pool[i].handlers
  OBVIOUS
<1>3. hs \in Seq(Nat) /\ DOMAIN hs = 1 .. Len(hs) /\ Len(hs) \in Nat
  <2>1. pool[i] \in InstructionType
    BY <1>1 DEF ParserTypes
  <2> QED
    BY <1>2, <2>1 DEF InstructionType
<1> DEFINE bound(k) == \A j \in 1 .. k : hs[j] \in DOMAIN jump
           tl == [k \in 1 .. Len(hs) |->
                    IF bound(k) THEN [Branch(To(key, hs[k])) EXCEPT !.lt = 1]
                    ELSE IF bound(k - 1) THEN Disabled ELSE Branch(1)]
<1>4. PICK c : c = Onward(key, i)
  OBVIOUS
<1>5. /\ c \in BranchType /\ ~ Handles(c) /\ (Goes(c) <=> pool[i].next # Invalid)
      /\ Goes(c) => c.id \in 1 .. Len(key) /\ Begin(key, e, c.id) = pool[i].next
  BY <1>4, OnwardLeads
<1>6. SetupLinear(key, i) = <<c>> \o tl
  BY <1>2, <1>3, <1>4, Zenon DEF SetupLinear
<1>7. ASSUME NEW k \in 1 .. Len(hs)
      PROVE  /\ tl[k] \in BranchType
             /\ Goes(tl[k]) \/ Handles(tl[k]) => tl[k].id \in 1 .. Len(key)
             /\ bound(k) => /\ Handles(tl[k]) /\ ~ Goes(tl[k])
                            /\ Begin(key, e, tl[k].id) = Entered(e, jump[hs[k]])
  <2>1. CASE bound(k)
    <3>1. k \in 1 .. k
      BY <1>3
    <3>2. PICK h : h = hs[k]
      OBVIOUS
    <3>3. h \in DOMAIN jump
      BY <2>1, <3>1, <3>2
    <3>4. h \in Mentioned(text[m].body)
      BY <1>1, <1>2, <1>3, <3>2 DEF Segment, Names
    <3>5. jump[h] \in e .. z
      BY <3>3, <3>4 DEF Segment
    <3>6. PICK d : d = To(key, h)
      OBVIOUS
    <3>7. d \in 1 .. Len(key) /\ Begin(key, e, d) = Entered(e, jump[h])
      BY <3>5, <3>6, FindBlockAround, FindBlockEntered DEF To
    <3>8. tl[k] = [Branch(d) EXCEPT !.lt = 1]
      BY <2>1, <3>2, <3>6
    <3>9. d \in Nat
      BY <1>1, <3>7
    <3> HIDE DEF tl, bound
    <3>10. tl[k] \in BranchType /\ tl[k].id = d /\ Handles(tl[k]) /\ ~ Goes(tl[k])
      BY <3>8, <3>9, BranchBits
    <3> QED
      BY <3>2, <3>7, <3>10
  <2>2. CASE ~ bound(k)
    <3>1. tl[k] = Disabled \/ tl[k] = Branch(1)
      BY <2>2
    <3>2. 1 \in 1 .. Len(key)
      BY <1>1
    <3>3. /\ Branch(1) \in BranchType /\ Branch(1).id = 1
          /\ Disabled \in BranchType /\ ~ Goes(Disabled) /\ ~ Handles(Disabled)
      BY BranchBits
    <3>4. PICK b : b = tl[k]
      OBVIOUS
    <3>5. b \in BranchType /\ (Goes(b) \/ Handles(b) => b.id \in 1 .. Len(key))
      <4>1. b = Disabled \/ b = Branch(1)
        BY <3>1, <3>4
      <4> QED
        BY <3>2, <3>3, <4>1
    <3> HIDE DEF tl, bound
    <3> QED
      BY <2>2, <3>4, <3>5
  <2> QED
    BY <2>1, <2>2
<1>8. tl \in Seq(BranchType) /\ Len(tl) = Len(hs)
  BY <1>3, <1>7
<1>9. ASSUME HandlersBound(i), NEW k \in 1 .. Len(hs) PROVE bound(k)
  <2>1. \A j \in 1 .. k : j \in DOMAIN hs
    BY <1>3
  <2>2. \A j \in DOMAIN hs : hs[j] \in DOMAIN jump
    BY <1>2, <1>9 DEF HandlersBound, Range
  <2> QED
    BY <2>1, <2>2
<1> HIDE DEF tl, bound
<1>10. PICK brs : brs = <<c>> \o tl
  OBVIOUS
<1>11. /\ brs \in Seq(BranchType) /\ DOMAIN brs = 1 .. Len(hs) + 1 /\ brs[1] = c
       /\ \A k \in 1 .. Len(hs) : brs[k + 1] = tl[k]
  BY <1>3, <1>5, <1>8, <1>10
<1>12. ASSUME NEW r \in Range(brs) PROVE r = c \/ \E k \in 1 .. Len(hs) : r = tl[k]
  <2>1. PICK j \in 1 .. Len(hs) + 1 : r = brs[j]
    BY <1>11 DEF Range
  <2>2. CASE j = 1
    BY <1>11, <2>1, <2>2
  <2>3. CASE j # 1
    <3>1. j - 1 \in 1 .. Len(hs) /\ j - 1 + 1 = j
      BY <1>3, <2>3
    <3> QED
      BY <1>11, <2>1, <3>1
  <2> QED
    BY <2>2, <2>3
<1>13. c \in Range(brs) /\ \A k \in 1 .. Len(hs) : tl[k] \in Range(brs)
  <2>1. 1 \in DOMAIN brs /\ \A k \in 1 .. Len(hs) : k + 1 \in DOMAIN brs
    BY <1>3, <1>11
  <2> QED
    BY <1>11, <2>1 DEF Range
<1>14. Onto(i) = (IF pool[i].next = Invalid THEN {} ELSE {pool[i].next})
  <2>1. PackedDefault(i) = {}
    BY DEF PackedDefault, Branching
  <2>2. Following(i) = IF pool[i].op = "throw" \/ pool[i].next = Invalid THEN {} ELSE {pool[i].next}
    BY DEF Following
  <2> QED
    BY <2>1, <2>2 DEF Onto, PastThrow
<1>17. Caught(e, i) = {Entered(e, jump[h]) : h \in Range(hs)}
  BY <1>2 DEF Caught
<1>15. \A r \in Range(brs) : Goes(r) \/ Handles(r) => r.id \in 1 .. Len(key)
  BY <1>5, <1>7, <1>12
<1>16. ASSUME HandlersBound(i)
       PROVE  /\ \A r \in Range(brs) : Goes(r) => Begin(key, e, r.id) \in Onto(i)
              /\ \A t \in Onto(i) : \E r \in Range(brs) : Goes(r) /\ Begin(key, e, r.id) = t
              /\ \A r \in Range(brs) : Handles(r) => Begin(key, e, r.id) \in Caught(e, i)
              /\ \A t \in Caught(e, i) : \E r \in Range(brs) : Handles(r) /\ Begin(key, e, r.id) = t
  <2>1. \A r \in Range(brs) : Goes(r) => r = c
    BY <1>7, <1>9, <1>12, <1>16
  <2>2. \A t \in Onto(i) : Goes(c) /\ Begin(key, e, c.id) = t
    BY <1>5, <1>14
  <2>3. ASSUME NEW t \in Caught(e, i)
        PROVE  \E r \in Range(brs) : Handles(r) /\ Begin(key, e, r.id) = t
    <3>1. PICK k \in 1 .. Len(hs) : t = Entered(e, jump[hs[k]])
      BY <1>3, <1>17, <2>3 DEF Range
    <3> QED
      BY <1>7, <1>9, <1>13, <1>16, <3>1
  <2>4. ASSUME NEW r \in Range(brs), Handles(r) PROVE Begin(key, e, r.id) \in Caught(e, i)
    <3>1. PICK k \in 1 .. Len(hs) : r = tl[k]
      BY <1>5, <1>12, <2>4
    <3>2. Begin(key, e, r.id) = Entered(e, jump[hs[k]])
      BY <1>7, <1>9, <1>16, <3>1
    <3> QED
      BY <1>3, <1>17, <3>2 DEF Range
  <2> QED
    BY <1>5, <1>13, <1>14, <2>1, <2>2, <2>3, <2>4
<1> QED
  BY <1>2, <1>6, <1>10, <1>11, <1>14, <1>15, <1>16 DEF Leads

(* The branches of every key lead where they should. *)
LEMMA SetupLeads ==
  ASSUME NEW e, NEW z, NEW m, ParserTypes, Segment(e, z, m), NEW key, Cut(key, e, z),
         NEW n \in 1 .. Len(key), NEW i, i = key[n]
  PROVE  Leads(Setup(key, i), key, e, i)
<1>1. CASE pool[i].op = "goto"
  BY <1>1, GotoLeads DEF Setup
<1>2. CASE pool[i].op = "if"
  BY <1>2, IfLeads DEF Setup
<1>3. CASE pool[i].op = "packed"
  BY <1>3, PackedLeads DEF Setup
<1>4. CASE pool[i].op = "sparse"
  BY <1>4, SparseLeads DEF Setup
<1>5. CASE pool[i].op = "return"
  BY <1>5, ReturnLeads DEF Setup
<1>6. CASE pool[i].op \notin {"goto", "if", "packed", "sparse", "return"}
  <2>1. Setup(key, i) = SetupLinear(key, i)
    BY <1>6 DEF Setup
  <2> QED
    BY <1>6, <2>1, LinearLeads DEF Branching
<1> QED
  BY <1>1, <1>2, <1>3, <1>4, <1>5, <1>6

-----------------------------------------------------------------------------
(***************************************************************************)
(* The graph of a method.                                                  *)
(***************************************************************************)
(* What GraphFaithful says of block n of graph g *)
Exact(g, n) ==
  HandlersBound(g[n].key) =>
    /\ \A i \in g[n].begin .. g[n].key - 1 : Plain(i) /\ pool[i].next = i + 1
    /\ {g[r.id].begin : r \in Jumps(g[n])} =
         (Following(g[n].key) \ PackedDefault(g[n].key)) \cup PastThrow(g[n].key)
    /\ {g[r.id].begin : r \in Catches(g[n])} = Caught(g[1].begin, g[n].key)

Sound(g) ==
  /\ 1 \in DOMAIN g
  /\ \A n \in DOMAIN g :
       g[n].begin \in 1 .. Len(pool) /\ g[n].branches \in Seq(BranchType) /\ Exact(g, n)

(* The graph that is built for an entry is sound, and starts there. *)
LEMMA BuildSound ==
  ASSUME ParserTypes, NEW e, Entry(e), NEW key, key = Keys(e), key # <<>>, Range(key) \subseteq DOMAIN pool,
         NEW g, g = BuildGraph(e, key)
  PROVE  Sound(g) /\ g[1].begin = e
<1>1. PICK m \in DOMAIN text, z \in Nat : Segment(e, z, m)
  BY DEF Entry
<1>2. Cut(key, e, z)
  BY <1>1, KeysCut
<1>3. key \in Seq(Nat) /\ Len(key) \in Nat \ {0} /\ DOMAIN key = 1 .. Len(key)
  BY <1>2 DEF Cut
<1>4. e \in 1 .. Len(pool) /\ z \in e .. Len(pool) /\ Len(pool) \in Nat
  BY <1>1 DEF Segment, ParserTypes
<1>5. DOMAIN g = 1 .. Len(key)
      /\ \A n \in 1 .. Len(key) : /\ g[n].begin = Begin(key, e, n)
                                  /\ g[n].key = key[n]
                                  /\ g[n].branches = Setup(key, key[n])
  BY <1>3 DEF BuildGraph, Begin
<1>6. ASSUME NEW n \in 1 .. Len(key)
      PROVE  g[n].begin \in 1 .. Len(pool) /\ g[n].branches \in Seq(BranchType) /\ Exact(g, n)
  <2>1. PICK i, b, brs : i = key[n] /\ b = g[n].begin /\ brs = g[n].branches
    OBVIOUS
  <2>2. b = (IF n = 1 THEN e ELSE key[n - 1] + 1) /\ b \in e .. i /\ i \in e .. z
    BY <1>1, <1>2, <1>5, <2>1, BeginOK
  <2>3. Leads(brs, key, e, i)
    BY <1>1, <1>2, <1>5, <2>1, SetupLeads
  <2>4. b \in 1 .. Len(pool)
    BY <1>4, <2>2
  <2>5. ASSUME NEW j \in b .. i - 1 PROVE Plain(j) /\ pool[j].next = j + 1
    <3>1. j \in e .. z - 1 /\ j \in e .. z
      BY <1>4, <2>2
    <3>2. pool[j].next = j + 1
      BY <1>1, <3>1 DEF Segment
    <3>3. ASSUME NEW p \in 1 .. Len(key), key[p] = j PROVE FALSE
      <4>1. \A c, d \in 1 .. Len(key) : c < d => key[c] < key[d]
        BY <1>2 DEF Cut
      <4>2. ~ (n < p) /\ p # n
        <5>1. n < p => i < j
          BY <2>1, <3>3, <4>1
        <5> QED
          BY <1>4, <2>1, <2>2, <3>3, <5>1
      <4>3. p < n
        BY <1>3, <4>2
      <4>4. n # 1 /\ n - 1 \in 1 .. Len(key) /\ key[n - 1] \in Nat /\ key[n - 1] < j
        <5>1. n # 1 /\ n - 1 \in 1 .. Len(key)
          BY <1>3, <4>3
        <5>2. key[n - 1] \in Nat
          BY <1>3, <5>1
        <5> QED
          BY <1>4, <2>2, <5>1, <5>2
      <4>5. p < n - 1 => key[p] < key[n - 1]
        BY <4>1, <4>4
      <4>6. j \in Nat
        BY <1>4, <3>1
      <4>7. p = n - 1 \/ p < n - 1
        BY <1>3, <4>3
      <4> QED
        BY <3>3, <4>4, <4>5, <4>6, <4>7
    <3>4. Plain(j)
      BY <1>2, <3>1, <3>3 DEF Cut
    <3> QED
      BY <3>2, <3>4
  <2>6. ASSUME HandlersBound(i)
        PROVE  {g[r.id].begin : r \in Jumps(g[n])} = Onto(i)
    <3>1. Jumps(g[n]) = {r \in Range(brs) : Goes(r)}
      BY <2>1 DEF Jumps, Goes
    <3>2. ASSUME NEW r \in Range(brs), Goes(r)
          PROVE  g[r.id].begin = Begin(key, e, r.id) /\ Begin(key, e, r.id) \in Onto(i)
      BY <1>5, <2>3, <2>6, <3>2 DEF Leads
    <3>3. ASSUME NEW t \in Onto(i)
          PROVE  \E r \in Range(brs) : Goes(r) /\ g[r.id].begin = t
      <4>1. PICK r \in Range(brs) : Goes(r) /\ Begin(key, e, r.id) = t
        BY <2>3, <2>6 DEF Leads
      <4> QED
        BY <3>2, <4>1
    <3> QED
      BY <3>1, <3>2, <3>3
  <2>7. ASSUME HandlersBound(i)
        PROVE  {g[r.id].begin : r \in Catches(g[n])} = Caught(e, i)
    <3>1. Catches(g[n]) = {r \in Range(brs) : Handles(r)}
      BY <2>1 DEF Catches, Handles
    <3>2. ASSUME NEW r \in Range(brs), Handles(r)
          PROVE  g[r.id].begin = Begin(key, e, r.id) /\ Begin(key, e, r.id) \in Caught(e, i)
      BY <1>5, <2>3, <2>7, <3>2 DEF Leads
    <3>3. ASSUME NEW t \in Caught(e, i)
          PROVE  \E r \in Range(brs) : Handles(r) /\ g[r.id].begin = t
      <4>1. PICK r \in Range(brs) : Handles(r) /\ Begin(key, e, r.id) = t
        BY <2>3, <2>7 DEF Leads
      <4> QED
        BY <3>2, <4>1
    <3> QED
      BY <3>1, <3>2, <3>3
  <2>8. g[n].key = i /\ g[n].begin = b /\ g[1].begin = e
    <3>1. 1 \in 1 .. Len(key)
      BY <1>3
    <3> QED
      BY <1>5, <2>1, <3>1 DEF Begin
  <2>9. Exact(g, n)
    BY <2>5, <2>6, <2>7, <2>8 DEF Exact, Onto
  <2>10. brs \in Seq(BranchType)
    BY <2>3 DEF Leads
  <2> QED
    BY <2>1, <2>4, <2>9, <2>10
<1>7. 1 \in 1 .. Len(key)
  BY <1>3
<1>8. g[1].begin = e
  BY <1>5, <1>7 DEF Begin
<1> QED
  BY <1>5, <1>6, <1>7, <1>8 DEF Sound

-----------------------------------------------------------------------------
(***************************************************************************)
(* The cache.                                                              *)
(***************************************************************************)
(* While the class is read there is no graph; then every graph is sound,   *)
(* and one in the cache starts at the entry of the method of its key       *)
CacheInv ==
  /\ Reading => cache = {} /\ graphs = <<>> /\ answer.graph = NoGraph
  /\ graphs \in Seq(Range(graphs))
  /\ \A k \in DOMAIN graphs : Sound(graphs[k])
  /\ cache \in SUBSET [key : DOMAIN methods \cap DOMAIN Bucket, graph : {NoGraph} \cup DOMAIN graphs]
  /\ \A c \in cache : c.graph # NoGraph => graphs[c.graph][1].begin = methods[c.key]
  /\ answer.graph \in {Closed, WildGraph, NoGraph} \cup DOMAIN graphs

BlockInv == ParserInv /\ CacheInv /\ HeapExact /\ LookupExact

(* A sound graph stays sound once the class has been read. *)
LEMMA SoundKept ==
  ASSUME NEW g, UNCHANGED pvars
  PROVE  Sound(g)' = Sound(g)
<1>1. pool' = pool /\ jump' = jump
  BY DEF pvars
<1> QED
  BY <1>1 DEF Sound, Exact, HandlersBound, Plain, Jumps, Following, LabelsOf, PackedDefault, PastThrow,
              Catches, Caught, Entered, Starts, Chain

(* The program starts with the invariant. *)
LEMMA BlockStarts ==
  ASSUME BlockInit
  PROVE  BlockInv
<1>1. cache = {} /\ graphs = <<>> /\ heap = {} /\ answer = [key |-> "none", graph |-> NoGraph] /\ Init
  BY DEF BlockInit
<1>2. Cached = {}
  BY <1>1 DEF Cached
<1>3. HeapExact
  BY <1>1, <1>2 DEF HeapExact
<1>4. LookupExact
  BY <1>1 DEF LookupExact
<1>5. graphs \in Seq(Range(graphs)) /\ DOMAIN graphs = {}
  BY <1>1
<1>6. CacheInv
  BY <1>1, <1>5 DEF CacheInv
<1> QED
  BY <1>1, <1>3, <1>4, <1>6, ParserStarts DEF BlockInv

(* While the class is read the cache is empty. *)
LEMMA ParseStep ==
  ASSUME BlockInv, Parse, UNCHANGED bvars
  PROVE  BlockInv'
<1>1. Reading
  BY DEF Parse, Label, RedefinedLabel, Catch, TooManyCatches, Instruction, BadInstruction, EndMethod
<1>2. cache = {} /\ graphs = <<>> /\ answer.graph = NoGraph
  BY <1>1 DEF BlockInv, CacheInv
<1>3. cache' = {} /\ graphs' = <<>> /\ answer'.graph = NoGraph /\ heap' = heap
  BY <1>2 DEF bvars
<1>4. Cached = {} /\ Cached' = {}
  BY <1>2, <1>3 DEF Cached
<1>5. HeapExact'
  BY <1>3, <1>4 DEF BlockInv, HeapExact
<1>6. LookupExact'
  BY <1>3 DEF LookupExact
<1>7. (graphs \in Seq(Range(graphs)))' /\ DOMAIN graphs' = {}
  BY <1>3
<1>8. CacheInv'
  BY <1>3, <1>7 DEF CacheInv
<1> QED
  BY <1>5, <1>6, <1>8, ParserKept DEF BlockInv

(* A step that leaves the graphs alone keeps what the cache knows. *)
LEMMA GraphsKept ==
  ASSUME CacheInv, UNCHANGED pvars, UNCHANGED graphs
  PROVE  /\ (graphs \in Seq(Range(graphs)))'
         /\ (\A k \in DOMAIN graphs : Sound(graphs[k]))'
<1>1. graphs' = graphs
  OBVIOUS
<1>2. ASSUME NEW k \in DOMAIN graphs' PROVE Sound(graphs[k])'
  <2>1. PICK g : g = graphs[k]
    OBVIOUS
  <2>2. graphs'[k] = g /\ Sound(g)
    BY <1>1, <1>2, <2>1 DEF CacheInv
  <2>3. Sound(g)'
    BY <2>2, SoundKept
  <2>4. Sound(graphs[k])' = Sound(g)'
    BY <2>2
  <2> QED
    BY <2>3, <2>4
<1> QED
  BY <1>1, <1>2 DEF CacheInv

(* A lookup answers from the cache, or with nothing. *)
LEMMA HitStep ==
  ASSUME BlockInv, NEW k \in DOMAIN Bucket, Hit(k)
  PROVE  BlockInv'
<1>1. PICK node \in cache : Matches(node, k) /\ answer' = [key |-> k, graph |-> node.graph]
  BY DEF Hit
<1>2. ~ Reading /\ UNCHANGED pvars /\ cache' = cache /\ graphs' = graphs /\ heap' = heap
  BY DEF Hit, Working
<1>3. meth' = meth /\ text' = text /\ methods' = methods
  BY <1>2 DEF pvars
<1>4. /\ node.key \in DOMAIN methods /\ node.key \in DOMAIN Bucket
      /\ node.graph \in {NoGraph} \cup DOMAIN graphs
      /\ node.graph # NoGraph => graphs[node.graph][1].begin = methods[node.key]
  BY DEF BlockInv, CacheInv
<1>5. answer'.key = k /\ answer'.graph = node.graph
  BY <1>1
<1>6. CacheInv'
  BY <1>2, <1>3, <1>4, <1>5, GraphsKept DEF BlockInv, CacheInv, Reading
<1>7. Cached' = Cached
  BY <1>2 DEF Cached
<1>8. HeapExact'
  BY <1>2, <1>7 DEF BlockInv, HeapExact, Walked, IsReturn, UncondType
<1>9. LookupExact'
  <2>1. CASE node.graph = NoGraph
    BY <1>5, <2>1 DEF LookupExact
  <2>2. CASE node.graph # NoGraph
    <3>1. node.key.path = k.path /\ Bucket[node.key] = Bucket[k]
      BY <1>1 DEF Matches, Hash
    <3>2. graphs'[answer'.graph][1].begin = methods'[node.key]
      BY <1>2, <1>3, <1>4, <1>5, <2>2
    <3>3. node.key \in DOMAIN methods' \cap DOMAIN Bucket
      BY <1>3, <1>4
    <3> QED
      BY <1>5, <3>1, <3>2, <3>3 DEF LookupExact
  <2> QED
    BY <2>1, <2>2
<1> QED
  BY <1>2, <1>6, <1>8, <1>9, ParserUnchanged DEF BlockInv

(* A call that finds no method, or leaves the pool, changes nothing else. *)
LEMMA NoGraphStep ==
  ASSUME BlockInv, NEW k, Missing(k) \/ Wild(k)
  PROVE  BlockInv'
<1>1. /\ answer' = [key |-> k, graph |-> NoGraph] \/ answer' = [key |-> k, graph |-> WildGraph]
      /\ ~ Reading /\ UNCHANGED pvars /\ cache' = cache /\ graphs' = graphs /\ heap' = heap
  BY DEF Missing, Wild, Working
<1>2. meth' = meth /\ text' = text /\ methods' = methods
  BY <1>1 DEF pvars
<1>3. answer'.graph \in {NoGraph, WildGraph}
  BY <1>1
<1>4. CacheInv'
  BY <1>1, <1>2, <1>3, GraphsKept DEF BlockInv, CacheInv, Reading
<1>5. Cached' = Cached
  BY <1>1 DEF Cached
<1>6. HeapExact'
  BY <1>1, <1>5 DEF BlockInv, HeapExact, Walked, IsReturn, UncondType
<1>7. LookupExact'
  BY <1>3 DEF LookupExact
<1> QED
  BY <1>1, <1>4, <1>6, <1>7, ParserUnchanged DEF BlockInv

(* A method without keys is cached without a graph. *)
LEMMA BuildNothingStep ==
  ASSUME BlockInv, NEW k \in DOMAIN Bucket, BuildNothing(k)
  PROVE  BlockInv'
<1>1. /\ cache' = cache \cup {[key |-> k, graph |-> NoGraph]}
      /\ answer' = [key |-> k, graph |-> NoGraph]
      /\ ~ Reading /\ UNCHANGED pvars /\ graphs' = graphs /\ heap' = heap /\ k \in DOMAIN methods
  BY DEF BuildNothing, Working
<1>2. meth' = meth /\ text' = text /\ methods' = methods
  BY <1>1 DEF pvars
<1>3. PICK c : c = [key |-> k, graph |-> NoGraph]
  OBVIOUS
<1>4. /\ c \in [key : DOMAIN methods \cap DOMAIN Bucket, graph : {NoGraph} \cup DOMAIN graphs]
      /\ c.graph = NoGraph /\ cache' = cache \cup {c}
  BY <1>1, <1>3
<1>5. CacheInv'
  BY <1>1, <1>2, <1>4, GraphsKept DEF BlockInv, CacheInv, Reading
<1>6. Cached' = Cached
  BY <1>4 DEF Cached
<1>7. HeapExact'
  BY <1>1, <1>6 DEF BlockInv, HeapExact, Walked, IsReturn, UncondType
<1>8. LookupExact'
  BY <1>1 DEF LookupExact
<1> QED
  BY <1>1, <1>5, <1>7, <1>8, ParserUnchanged DEF BlockInv

(* A new graph: the search that marks and the walk that frees agree on it. *)
LEMMA BuildStep ==
  ASSUME BlockInv, NEW k \in DOMAIN Bucket, Build(k)
  PROVE  BlockInv'
<1>1. PICK key \in {Keys(methods[k])} :
        /\ key # <<>> /\ Range(key) \subseteq DOMAIN pool
        /\ \E g \in {BuildGraph(methods[k], key)}, n \in {Len(graphs) + 1} :
             /\ graphs' = Append(graphs, g)
             /\ heap' = heap \cup {<<n, b>> : b \in Reached(g)}
             /\ cache' = cache \cup {[key |-> k, graph |-> n]}
             /\ answer' = [key |-> k, graph |-> n]
  BY DEF Build
<1>2. PICK g \in {BuildGraph(methods[k], key)}, n \in {Len(graphs) + 1} :
        /\ graphs' = Append(graphs, g)
        /\ heap' = heap \cup {<<n, b>> : b \in Reached(g)}
        /\ cache' = cache \cup {[key |-> k, graph |-> n]}
        /\ answer' = [key |-> k, graph |-> n]
  BY <1>1
<1>3. ~ Reading /\ UNCHANGED pvars /\ k \in DOMAIN methods
  BY DEF Build, Working
<1>4. meth' = meth /\ text' = text /\ methods' = methods
  BY <1>3 DEF pvars
<1>5. PICK e : e = methods[k]
  OBVIOUS
<1>6. ParserTypes /\ Entry(e) /\ CacheInv
  BY <1>3, <1>5 DEF BlockInv, ParserInv
<1>7. Sound(g) /\ g[1].begin = e
  BY <1>1, <1>2, <1>5, <1>6, BuildSound
<1>8. graphs \in Seq(Range(graphs)) /\ Len(graphs) \in Nat /\ DOMAIN graphs = 1 .. Len(graphs)
  BY <1>6 DEF CacheInv
<1>9. n = Len(graphs) + 1 /\ n \in Nat /\ n # NoGraph /\ n \notin DOMAIN graphs
  BY <1>2, <1>8 DEF NoGraph
<1>10. /\ DOMAIN graphs' = DOMAIN graphs \cup {n} /\ graphs'[n] = g
       /\ \A j \in DOMAIN graphs : graphs'[j] = graphs[j]
  <2>1. graphs \in Seq(Range(graphs) \cup {g})
    BY <1>8
  <2> QED
    BY <1>2, <1>8, <1>9, <2>1
<1>11. (graphs \in Seq(Range(graphs)))'
  <2>1. PICK gs : gs = graphs'
    OBVIOUS
  <2>2. Len(graphs') \in Nat /\ DOMAIN graphs' = 1 .. Len(graphs') /\ graphs' = [j \in 1 .. Len(graphs') |-> graphs'[j]]
    <3>1. graphs \in Seq(Range(graphs) \cup {g})
      BY <1>8
    <3>2. graphs' \in Seq(Range(graphs) \cup {g})
      BY <1>2, <3>1
    <3> QED
      BY <3>2
  <2>3. \A j \in 1 .. Len(graphs') : graphs'[j] \in Range(graphs')
    BY <2>2 DEF Range
  <2> QED
    BY <2>2, <2>3
<1>12. ASSUME NEW j \in DOMAIN graphs' PROVE Sound(graphs[j])'
  <2>1. PICK x : x = graphs'[j]
    OBVIOUS
  <2>2. Sound(x)
    BY <1>6, <1>7, <1>10, <1>12, <2>1 DEF CacheInv
  <2>3. Sound(x)'
    BY <1>3, <2>2, SoundKept
  <2>4. Sound(graphs[j])' = Sound(x)'
    BY <2>1
  <2> QED
    BY <2>3, <2>4
<1>13. PICK c : c = [key |-> k, graph |-> n]
  OBVIOUS
<1>14. cache' = cache \cup {c} /\ c.key = k /\ c.graph = n
       /\ c \in [key : DOMAIN methods \cap DOMAIN Bucket, graph : {NoGraph} \cup DOMAIN graphs']
  BY <1>2, <1>3, <1>10, <1>13
<1>15. cache \in SUBSET [key : DOMAIN methods \cap DOMAIN Bucket, graph : {NoGraph} \cup DOMAIN graphs']
  BY <1>6, <1>10 DEF CacheInv
<1>16. ASSUME NEW d \in cache', d.graph # NoGraph PROVE graphs'[d.graph][1].begin = methods'[d.key]
  <2>1. CASE d = c
    BY <1>4, <1>5, <1>7, <1>10, <1>14, <2>1
  <2>2. CASE d \in cache
    <3>1. d.graph \in DOMAIN graphs /\ graphs[d.graph][1].begin = methods[d.key]
      BY <1>6, <1>16, <2>2 DEF CacheInv
    <3> QED
      BY <1>4, <1>10, <3>1
  <2> QED
    BY <1>14, <1>16, <2>1, <2>2
<1>17. answer'.graph = n /\ answer'.key = k
  BY <1>2
<1>18. CacheInv'
  <2>1. ~ Reading'
    BY <1>3, <1>4 DEF Reading
  <2>2. (cache \in SUBSET [key : DOMAIN methods \cap DOMAIN Bucket, graph : {NoGraph} \cup DOMAIN graphs])'
    BY <1>4, <1>14, <1>15
  <2>3. answer'.graph \in DOMAIN graphs'
    BY <1>10, <1>17
  <2> QED
    BY <1>11, <1>12, <1>16, <2>1, <2>2, <2>3 DEF CacheInv
<1>19. Cached' = Cached \cup {n}
  BY <1>9, <1>14 DEF Cached
<1>20. \A j \in Cached : j \in DOMAIN graphs
  BY <1>6 DEF Cached, CacheInv
<1>21. Reached(g) = Walked(g)
  BY DEF Reached, Walked, Linked
<1>22. HeapExact'
  <2>1. heap = UNION {{<<j, b>> : b \in Walked(graphs[j])} : j \in Cached}
    BY DEF BlockInv, HeapExact
  <2>2. \A j \in Cached : Walked(graphs'[j]) = Walked(graphs[j])
    BY <1>10, <1>20
  <2>3. heap' = heap \cup {<<n, b>> : b \in Walked(graphs'[n])}
    BY <1>2, <1>10, <1>21
  <2>4. heap' = UNION {{<<j, b>> : b \in Walked(graphs'[j])} : j \in Cached \cup {n}}
    BY <2>1, <2>2, <2>3
  <2>5. \A x : Walked(x)' = Walked(x)
    BY DEF Walked
  <2> QED
    BY <1>19, <2>4 DEF HeapExact, Walked, IsReturn, UncondType
<1>23. LookupExact'
  <2>1. k \in DOMAIN methods' \cap DOMAIN Bucket
    BY <1>3, <1>4
  <2>2. graphs'[answer'.graph][1].begin = methods'[k]
    BY <1>4, <1>5, <1>7, <1>10, <1>17
  <2> QED
    BY <1>17, <2>1, <2>2 DEF LookupExact
<1> QED
  BY <1>3, <1>18, <1>22, <1>23, ParserUnchanged DEF BlockInv

(* The finalizer frees what is allocated, and nothing else. *)
LEMMA FinalizeStep ==
  ASSUME BlockInv, Finalize
  PROVE  BlockInv'
<1>1. /\ heap' = heap \ UNION {{<<c.graph, b>> : b \in Walked(graphs[c.graph])} :
                                 c \in {d \in cache : d.graph # NoGraph}}
      /\ cache' = {} /\ answer' = [key |-> "none", graph |-> Closed]
      /\ UNCHANGED pvars /\ graphs' = graphs /\ ~ Reading
  BY DEF Finalize, Working
<1>2. meth' = meth /\ text' = text /\ methods' = methods
  BY <1>1 DEF pvars
<1>3. heap = UNION {{<<j, b>> : b \in Walked(graphs[j])} : j \in Cached}
  BY DEF BlockInv, HeapExact
<1>4. \A j \in Cached : \E c \in {d \in cache : d.graph # NoGraph} : c.graph = j
  BY DEF Cached
<1>5. heap' = {}
  BY <1>1, <1>3, <1>4
<1>6. Cached' = {}
  BY <1>1 DEF Cached
<1>7. HeapExact'
  BY <1>5, <1>6 DEF HeapExact
<1>8. answer'.graph = Closed
  BY <1>1
<1>9. LookupExact'
  BY <1>8 DEF LookupExact
<1>10. CacheInv'
  BY <1>1, <1>2, <1>8, GraphsKept DEF BlockInv, CacheInv, Reading
<1> QED
  BY <1>1, <1>7, <1>9, <1>10, ParserUnchanged DEF BlockInv

(* A stuttering step keeps everything. *)
LEMMA BlockStutter ==
  ASSUME BlockInv, UNCHANGED vars
  PROVE  BlockInv'
<1>1. UNCHANGED pvars /\ cache' = cache /\ graphs' = graphs /\ heap' = heap /\ answer' = answer
  BY DEF vars, bvars
<1>2. meth' = meth /\ text' = text /\ methods' = methods
  BY <1>1 DEF pvars
<1>3. CacheInv'
  BY <1>1, <1>2, GraphsKept DEF BlockInv, CacheInv, Reading
<1>4. HeapExact' /\ LookupExact'
  BY <1>1, <1>2 DEF BlockInv, HeapExact, LookupExact, Cached, Walked, IsReturn, UncondType
<1> QED
  BY <1>1, <1>3, <1>4, ParserUnchanged DEF BlockInv

(* The invariant of the parser and the cache is inductive: however a class *)
(* is read, and whatever is asked of the cache afterwards, it holds.       *)
THEOREM Inductive ==
  Spec => []BlockInv
<1>1. BlockInit => BlockInv
  BY BlockStarts
<1>2. BlockInv /\ [Next]_vars => BlockInv'
  <2> SUFFICES ASSUME BlockInv, [Next]_vars PROVE BlockInv'
    OBVIOUS
  <2>1. CASE UNCHANGED vars
    BY <2>1, BlockStutter
  <2>2. CASE Parse /\ UNCHANGED bvars
    BY <2>2, ParseStep
  <2>3. ASSUME NEW k \in DOMAIN Bucket, Hit(k) \/ Missing(k) \/ Wild(k) \/ BuildNothing(k) \/ Build(k)
        PROVE  BlockInv'
    BY <2>3, HitStep, NoGraphStep, BuildNothingStep, BuildStep
  <2>4. CASE Finalize
    BY <2>4, FinalizeStep
  <2> QED
    BY <2>1, <2>2, <2>3, <2>4 DEF Next
<1> QED
  BY <1>1, <1>2, PTL DEF Spec

(* Labels, methods and blocks lead into the pool, also after a method was  *)
(* given up in the middle, and every cached graph exists.                  *)
THEOREM TypesKept ==
  Spec => []TypeOK
<1>1. BlockInv => TypeOK
  <2> SUFFICES ASSUME BlockInv PROVE TypeOK
    OBVIOUS
  <2>1. ParserTypes /\ CacheInv
    BY DEF BlockInv, ParserInv
  <2>2. pool \in Seq([op : STRING, operands : Seq([label : Nat, isDefault : BOOLEAN]),
                      next : Nat, handlers : Seq(Nat)])
    BY <2>1 DEF ParserTypes, InstructionType
  <2>3. DOMAIN pool = 1 .. Len(pool)
    BY <2>1 DEF ParserTypes
  <2>4. \A k \in DOMAIN methods : methods[k] \in DOMAIN pool
    BY <2>3 DEF BlockInv, ParserInv, Entry, Segment
  <2>5. cache \in SUBSET [key : DOMAIN methods, graph : {NoGraph} \cup DOMAIN graphs]
    BY <2>1 DEF CacheInv
  <2>6. ASSUME NEW g \in Range(graphs), NEW b \in Range(g)
        PROVE  b.begin \in DOMAIN pool /\ b.branches \in Seq(BranchType)
    <3>1. PICK j \in DOMAIN graphs : g = graphs[j]
      BY DEF Range
    <3>2. PICK n \in DOMAIN g : b = g[n]
      BY DEF Range
    <3> QED
      BY <2>1, <2>3, <3>1, <3>2 DEF CacheInv, Sound
  <2> QED
    BY <2>1, <2>2, <2>3, <2>4, <2>5, <2>6 DEF TypeOK, CacheInv, ParserTypes
<1> QED
  BY <1>1, Inductive, PTL

(* The blocks of a cached graph are straight pieces of code that lead      *)
(* exactly where the code goes on and to the pieces around the handlers,   *)
(* but for the default of a packed switch and the way past a throw, for    *)
(* every text of a class: the keys, the binary search and the setups of    *)
(* the branches agree.                                                     *)
THEOREM GraphsFaithful ==
  Spec => []GraphFaithful
<1>1. BlockInv => GraphFaithful
  <2> SUFFICES ASSUME BlockInv PROVE GraphFaithful
    OBVIOUS
  <2>1. ASSUME NEW g \in {graphs[c] : c \in Cached}, NEW n \in Walked(g) PROVE Exact(g, n)
    <3>1. PICK c \in Cached : g = graphs[c]
      OBVIOUS
    <3>2. c \in DOMAIN graphs
      BY DEF BlockInv, CacheInv, Cached
    <3>3. n \in DOMAIN g
      BY DEF Walked
    <3> QED
      BY <3>1, <3>2, <3>3 DEF BlockInv, CacheInv, Sound
  <2> QED
    BY <2>1, Zenon DEF GraphFaithful, Exact
<1> QED
  BY <1>1, Inductive, PTL

(* The pruned blocks and no others are freed when a graph is built, and    *)
(* the finalizer frees the rest: no block is leaked or freed twice.        *)
THEOREM NoBlockLost ==
  Spec => []HeapExact
BY Inductive, PTL DEF BlockInv

(* For every hash function the cache answers with the graph of the method  *)
(* asked for, or of an overload with its path in the same bucket.          *)
THEOREM LookupsExact ==
  Spec => []LookupExact
BY Inductive, PTL DEF BlockInv

-----------------------------------------------------------------------------
(***************************************************************************)
(* The ranges of the handlers and the places of the labels.                *)
(***************************************************************************)
(* In the text that is read every label is defined once, and no more       *)
(* labels stand together than the label stack holds: then the places of    *)
(* the labels are defined                                                  *)
Tidy ==
  /\ \A m, n \in DOMAIN text : \A k \in DOMAIN text[m].body, j \in DOMAIN text[n].body :
       text[m].body[k].op = "label" /\ text[n].body[j].op = "label"
         /\ text[m].body[k].labels[1] = text[n].body[j].labels[1] => m = n /\ k = j
  /\ \A m \in DOMAIN text : \A p \in DOMAIN text[m].body :
       p + MaxStack \in DOMAIN text[m].body =>
         \E j \in p .. p + MaxStack : text[m].body[j].op \notin Pseudo

(* The statements of method m that are instructions, and the number of     *)
(* them before statement k                                                 *)
Lines(m) == {k \in DOMAIN text[m].body : text[m].body[k].op \notin Pseudo}
Before(m, k) == Rank(Lines(m), k)

(* Is the statement at k the first instruction behind label l? *)
Follows(m, l, k) ==
  Position(m, l) < k /\ \A j \in Position(m, l) .. k - 1 : text[m].body[j].op \in Pseudo

(* The handlers in force at statement k *)
InForce(m, k) ==
  {text[m].body[c].labels[3] :
     c \in {d \in DOMAIN text[m].body : text[m].body[d].op = "catch" /\ InRange(m, d, k)}}

(* The instructions of method m before statement n are in the pool from e  *)
(* on, not behind top, with their handlers, and the labels before them     *)
(* lead to them                                                            *)
Placed(e, m, n, top) ==
  \A k \in Lines(m) : k < n =>
    /\ e + Before(m, k) \in 1 .. top
    /\ pool[e + Before(m, k)].op = text[m].body[k].op
    /\ Range(pool[e + Before(m, k)].handlers) = InForce(m, k)
    /\ \A l \in Labels(m) : Follows(m, l, k) => l \in DOMAIN jump /\ jump[l] = e + Before(m, k)

(* label_st of the catch statement at c when statement k is read *)
Status(m, c, k) ==
  LET s == text[m].body[c].labels
  IN  IF ~ (s[1] \in Labels(m) /\ c < Position(m, s[1]) /\ Position(m, s[1]) < k) THEN 0
      ELSE IF s[2] \in Labels(m) /\ Position(m, s[1]) < Position(m, s[2]) /\ Position(m, s[2]) < k THEN 2
      ELSE 1

Tracks(r, m, c, k) ==
  LET s == text[m].body[c].labels
  IN  r.from = s[1] /\ r.to = s[2] /\ r.using = s[3] /\ r.st = Status(m, c, k)

CatchLines(m, k) == {c \in DOMAIN text[m].body : text[m].body[c].op = "catch" /\ c < k}

(* The handlers of method m are tracked up to statement k *)
Tracked(m, k) ==
  /\ \A c \in CatchLines(m, k) : \E n \in DOMAIN catches : Tracks(catches[n], m, c, k)
  /\ \A n \in DOMAIN catches : \E c \in CatchLines(m, k) : Tracks(catches[n], m, c, k)
  /\ Range(ehset) = {catches[n].using : n \in {j \in DOMAIN catches : catches[j].st = 1}}

(* The labels before statement k that wait for an instruction are those on *)
(* the stack, which is never full                                          *)
Waiting(m, k) == \A l \in Labels(m) : Follows(m, l, k) => \E n \in DOMAIN stack : stack[n] = l
Unbound == \A n \in DOMAIN stack : stack[n] \notin DOMAIN jump
Short(m, k) ==
  \E p \in 0 .. k - 1 : Len(stack) <= k - 1 - p /\ \A j \in p + 1 .. k - 1 : text[m].body[j].op \in Pseudo
Stacked(m, k) == Waiting(m, k) /\ Unbound /\ Short(m, k)

(* Where the instructions of the method that is read start *)
Start == IF first = Invalid THEN Len(pool) + 1 ELSE first

(* The last instruction of the methods before it *)
Settled == IF Reading /\ first # Invalid THEN first - 1 ELSE Len(pool)

(* Method m has the key k first, and is in the pool from e on *)
Registered(e, m, k) ==
  /\ m < meth
  /\ text[m].key = k
  /\ \A n \in DOMAIN text : text[n].key = k => m <= n
  /\ Placed(e, m, Len(text[m].body) + 1, Settled)

RangesInv ==
  /\ Reading =>
       /\ line <= Len(Body) + 1
       /\ Start \in Nat \ {0} /\ Len(pool) + 1 = Start + Before(meth, line)
       /\ Placed(Start, meth, line, Len(pool))
       /\ Tracked(meth, line)
       /\ Stacked(meth, line)
       /\ \A n \in DOMAIN text : n < meth => text[n].key \in DOMAIN methods
  /\ \A k \in DOMAIN methods : \E m \in DOMAIN text : Registered(methods[k], m, k)

(* The text does not change, and so do the places in it. *)
LEMMA TextFixed ==
  ASSUME text' = text, NEW m
  PROVE  /\ Lines(m)' = Lines(m) /\ Labels(m)' = Labels(m)
         /\ \A k : Before(m, k)' = Before(m, k)
         /\ \A l, k : Follows(m, l, k)' = Follows(m, l, k)
         /\ \A k : InForce(m, k)' = InForce(m, k)
         /\ \A r, c, k : Tracks(r, m, c, k)' = Tracks(r, m, c, k)
         /\ \A k : CatchLines(m, k)' = CatchLines(m, k)
<1>1. Lines(m)' = Lines(m) /\ Labels(m)' = Labels(m)
  BY DEF Lines, Labels
<1>2. \A k : Before(m, k)' = Before(m, k)
  BY <1>1 DEF Before, Rank
<1>3. \A l : Position(m, l)' = Position(m, l)
  BY DEF Position
<1>4. \A l, k : Follows(m, l, k)' = Follows(m, l, k)
  BY <1>3 DEF Follows
<1>5. \A c, k : InRange(m, c, k)' = InRange(m, c, k) /\ Status(m, c, k)' = Status(m, c, k)
  BY <1>1, <1>3 DEF InRange, Status
<1>6. \A k : InForce(m, k)' = InForce(m, k)
  BY <1>5 DEF InForce
<1>7. \A r, c, k : Tracks(r, m, c, k)' = Tracks(r, m, c, k)
  BY <1>5 DEF Tracks
<1>8. \A k : CatchLines(m, k)' = CatchLines(m, k)
  BY DEF CatchLines
<1> QED
  BY <1>1, <1>2, <1>4, <1>6, <1>7, <1>8

(* A tidy text has one place for a label. *)
LEMMA PositionOK ==
  ASSUME Tidy, text \in Classes, NEW m \in DOMAIN text
  PROVE  /\ \A l \in Labels(m) :
              /\ Position(m, l) \in DOMAIN text[m].body
              /\ text[m].body[Position(m, l)].op = "label"
              /\ text[m].body[Position(m, l)].labels[1] = l
         /\ \A k \in DOMAIN text[m].body : text[m].body[k].op = "label" =>
              text[m].body[k].labels[1] \in Labels(m) /\ Position(m, text[m].body[k].labels[1]) = k
<1>1. PICK b : b = text[m].body
  OBVIOUS
<1>2. Labels(m) = {b[k].labels[1] : k \in {j \in DOMAIN b : b[j].op = "label"}}
  BY <1>1 DEF Labels, Defined
<1>3. \A l : Position(m, l) = CHOOSE k \in DOMAIN b : b[k].op = "label" /\ b[k].labels[1] = l
  BY <1>1 DEF Position
<1>4. ASSUME NEW l \in Labels(m)
      PROVE  Position(m, l) \in DOMAIN b /\ b[Position(m, l)].op = "label" /\ b[Position(m, l)].labels[1] = l
  <2>1. \E k \in DOMAIN b : b[k].op = "label" /\ b[k].labels[1] = l
    BY <1>2
  <2> QED
    BY <1>3, <2>1
<1>5. ASSUME NEW k \in DOMAIN b, b[k].op = "label"
      PROVE  b[k].labels[1] \in Labels(m) /\ Position(m, b[k].labels[1]) = k
  <2>1. PICK l : l = b[k].labels[1]
    OBVIOUS
  <2>2. l \in Labels(m)
    BY <1>2, <1>5, <2>1
  <2>3. PICK p : p = Position(m, l)
    OBVIOUS
  <2>4. p \in DOMAIN b /\ b[p].op = "label" /\ b[p].labels[1] = l
    BY <1>4, <2>2, <2>3
  <2>5. p = k
    BY <1>1, <1>5, <2>1, <2>4 DEF Tidy
  <2> QED
    BY <2>1, <2>2, <2>3, <2>5
<1> QED
  BY <1>1, <1>4, <1>5

(* The number of instructions before a statement. *)
LEMMA BeforeOK ==
  ASSUME text \in Classes, NEW m \in DOMAIN text
  PROVE  /\ Lines(m) \in SUBSET Nat /\ IsFiniteSet(Lines(m))
         /\ \A k \in Nat : Before(m, k) \in Nat
         /\ Before(m, 1) = 0
         /\ \A k \in Nat : Before(m, k + 1) = IF k \in Lines(m) THEN Before(m, k) + 1 ELSE Before(m, k)
         /\ \A k \in Lines(m), n \in Nat : k < n => Before(m, k) < Before(m, n)
<1>1. text[m].body \in Seq(Sentence)
  BY TextOK
<1>2. PICK S, N : S = Lines(m) /\ N = Len(text[m].body)
  OBVIOUS
<1>3. S \in SUBSET Nat /\ N \in Nat /\ S \in SUBSET Int /\ 0 \notin S /\ \A s \in S : s <= N
  BY <1>1, <1>2 DEF Lines
<1>4. IsFiniteSet(S)
  BY <1>3, FS_BoundedSetOfNaturals
<1>5. ASSUME NEW k \in Nat PROVE IsFiniteSet({y \in S : y < k}) /\ Rank(S, k) \in Nat
  <2>1. {y \in S : y < k} \in SUBSET S
    OBVIOUS
  <2>2. IsFiniteSet({y \in S : y < k})
    BY <1>4, <2>1, FS_Subset
  <2> QED
    BY <2>2, FS_CardinalityType DEF Rank
<1>6. Rank(S, 1) = 0
  <2>1. {y \in S : y < 1} = {}
    <3>1. \A y \in S : y \in Nat /\ y # 0
      BY <1>3
    <3>2. \A y \in S : ~ (y < 1)
      BY <3>1
    <3> QED
      BY <3>2
  <2> QED
    BY <2>1, FS_EmptySet DEF Rank
<1>7. ASSUME NEW k \in Nat PROVE Rank(S, k + 1) = IF k \in S THEN Rank(S, k) + 1 ELSE Rank(S, k)
  <2> DEFINE A == {y \in S : y < k}
             B == {y \in S : y < k + 1}
  <2>1. k \notin A
    OBVIOUS
  <2>2. CASE k \in S
    <3>1. B = A \cup {k}
      <4>1. \A y \in Nat : y < k + 1 <=> y < k \/ y = k
        OBVIOUS
      <4>2. \A y \in S : y < k + 1 <=> y < k \/ y = k
        BY <1>3, <4>1
      <4> QED
        BY <2>2, <4>2
    <3>2. IsFiniteSet(A)
      BY <1>5
    <3>3. Cardinality(A \cup {k}) = Cardinality(A) + 1
      <4> HIDE DEF A
      <4> QED
        BY <2>1, <3>2, FS_AddElement
    <3>4. Rank(S, k) = Cardinality(A) /\ Rank(S, k + 1) = Cardinality(B)
      BY DEF Rank
    <3> QED
      BY <2>2, <3>1, <3>3, <3>4
  <2>3. CASE k \notin S
    <3>1. B = A
      <4>1. \A y \in Nat : y < k + 1 <=> y < k \/ y = k
        OBVIOUS
      <4>2. \A y \in S : y < k + 1 <=> y < k
        BY <1>3, <2>3, <4>1
      <4> QED
        BY <4>2
    <3> QED
      BY <2>3, <3>1 DEF Rank
  <2> QED
    BY <2>2, <2>3
<1>8. \A k \in S, n \in Nat : k < n => Rank(S, k) < Rank(S, n)
  BY <1>3, <1>4, RankGrows
<1> QED
  BY <1>2, <1>3, <1>4, <1>5, <1>6, <1>7, <1>8 DEF Before

(* What is placed stays, while the pool keeps its instructions and the *)
(* labels stay bound.                                                  *)
LEMMA PlacedKept ==
  ASSUME NEW e, NEW m, NEW n, NEW top \in Int, NEW top2 \in Int, top <= top2, Placed(e, m, n, top),
         text' = text,
         \A i \in 1 .. top : pool'[i].op = pool[i].op /\ pool'[i].handlers = pool[i].handlers,
         \A l \in Labels(m) : l \in DOMAIN jump => l \in DOMAIN jump' /\ jump'[l] = jump[l]
  PROVE  Placed(e, m, n, top2)'
<1>1. ASSUME NEW k \in Lines(m), k < n
      PROVE  /\ e + Before(m, k) \in 1 .. top2
             /\ pool'[e + Before(m, k)].op = text[m].body[k].op
             /\ Range(pool'[e + Before(m, k)].handlers) = InForce(m, k)
             /\ \A l \in Labels(m) : Follows(m, l, k) => l \in DOMAIN jump' /\ jump'[l] = e + Before(m, k)
  <2>1. PICK i : i = e + Before(m, k)
    OBVIOUS
  <2>2. /\ i \in 1 .. top /\ pool[i].op = text[m].body[k].op /\ Range(pool[i].handlers) = InForce(m, k)
        /\ \A l \in Labels(m) : Follows(m, l, k) => l \in DOMAIN jump /\ jump[l] = i
    BY <1>1, <2>1 DEF Placed
  <2>3. i \in 1 .. top2 /\ pool'[i].op = pool[i].op /\ pool'[i].handlers = pool[i].handlers
    BY <2>2
  <2> QED
    BY <2>1, <2>2, <2>3
<1> QED
  BY <1>1, TextFixed DEF Placed

(* A method that is registered stays so, while the step keeps what is      *)
(* settled and its labels.                                                 *)
LEMMA RegisteredKept ==
  ASSUME NEW e, NEW m \in DOMAIN text, NEW k, Registered(e, m, k), text' = text,
         Settled \in Int, Settled' \in Int, Settled <= Settled', meth' \in Int, meth \in Int, m \in Int,
         meth <= meth',
         \A i \in 1 .. Settled : pool'[i].op = pool[i].op /\ pool'[i].handlers = pool[i].handlers,
         \A l \in Labels(m) : l \in DOMAIN jump => l \in DOMAIN jump' /\ jump'[l] = jump[l]
  PROVE  Registered(e, m, k)'
<1>1. PICK n, top, top2 : n = Len(text[m].body) + 1 /\ top = Settled /\ top2 = Settled'
  OBVIOUS
<1>2. Placed(e, m, n, top)
  BY <1>1 DEF Registered
<1>3. Placed(e, m, n, top2)'
  BY <1>1, <1>2, PlacedKept
<1>4. Placed(e, m, Len(text[m].body) + 1, Settled)'
  BY <1>1, <1>3 DEF Placed
<1>5. m < meth'
  BY DEF Registered
<1> QED
  BY <1>4, <1>5 DEF Registered

(* label_st changes with the labels of the handler only. *)
LEMMA StatusNext ==
  ASSUME Tidy, text \in Classes, NEW m \in DOMAIN text, NEW k \in DOMAIN text[m].body, NEW c \in CatchLines(m, k),
         NEW r \in CatchType, Tracks(r, m, c, k)
  PROVE  /\ text[m].body[k].op # "label" => Tracks(r, m, c, k + 1)
         /\ text[m].body[k].op = "label" => Tracks(Seen(r, text[m].body[k].labels[1]), m, c, k + 1)
<1>1. PICK b, s : b = text[m].body /\ s = text[m].body[c].labels
  OBVIOUS
<1>2. b \in Seq(Sentence) /\ k \in Nat /\ c \in Nat /\ c < k /\ k \in DOMAIN b /\ DOMAIN b \subseteq Nat
  BY <1>1, TextOK DEF CatchLines
<1>3. r.from = s[1] /\ r.to = s[2] /\ r.using = s[3] /\ r.st = Status(m, c, k)
  BY <1>1 DEF Tracks
<1> DEFINE in(l) == l \in Labels(m)
           at(l) == Position(m, l)
<1>4. \A n : Status(m, c, n) = IF ~ (in(s[1]) /\ c < at(s[1]) /\ at(s[1]) < n) THEN 0
                               ELSE IF in(s[2]) /\ at(s[1]) < at(s[2]) /\ at(s[2]) < n THEN 2 ELSE 1
  BY <1>1 DEF Status
<1>5. \A l : in(l) => at(l) \in Nat /\ b[at(l)].op = "label" /\ b[at(l)].labels[1] = l
  BY <1>1, <1>2, PositionOK
<1>6. b[k].op = "label" => in(b[k].labels[1]) /\ at(b[k].labels[1]) = k
  BY <1>1, <1>2, PositionOK
<1> HIDE DEF in, at
<1>7. ASSUME b[k].op # "label" PROVE Status(m, c, k + 1) = Status(m, c, k)
  <2>1. \A l : in(l) => at(l) # k
    BY <1>5, <1>7
  <2>2. \A l : in(l) => (at(l) < k + 1 <=> at(l) < k)
    BY <1>2, <1>5, <2>1
  <2> QED
    BY <1>4, <2>2
<1>8. ASSUME b[k].op = "label"
      PROVE  Seen(r, b[k].labels[1]).st = Status(m, c, k + 1)
  <2>1. PICK l : l = b[k].labels[1]
    OBVIOUS
  <2>2. in(l) /\ at(l) = k
    BY <1>6, <1>8, <2>1
  <2>3. \A j : in(j) => (at(j) < k + 1 <=> at(j) < k \/ j = l)
    <3>1. ASSUME NEW j, in(j) PROVE at(j) < k + 1 <=> at(j) < k \/ j = l
      <4>1. at(j) \in Nat /\ (at(j) = k => j = l)
        BY <1>5, <2>1, <3>1
      <4>2. j = l => at(j) = k
        BY <2>2
      <4> QED
        BY <1>2, <4>1, <4>2
    <3> QED
      BY <3>1
  <2>4. Seen(r, l).st = IF l = s[1] /\ r.st = 0 THEN 1 ELSE IF l = s[2] /\ r.st = 1 THEN 2 ELSE r.st
    BY <1>3 DEF Seen, CatchType
  <2>5. in(s[1]) => at(s[1]) \in Nat
    BY <1>5
  <2>6. in(s[2]) => at(s[2]) \in Nat
    BY <1>5
  <2>7. CASE l = s[1]
    <3>1. r.st = 0
      BY <1>2, <1>3, <1>4, <2>2, <2>7
    <3>2. Status(m, c, k + 1) = 1
      <4>1. in(s[1]) /\ c < at(s[1]) /\ at(s[1]) < k + 1
        BY <1>2, <2>2, <2>7
      <4>2. ~ (in(s[2]) /\ at(s[1]) < at(s[2]) /\ at(s[2]) < k + 1)
        BY <1>2, <2>2, <2>6, <2>7
      <4> QED
        BY <1>4, <4>1, <4>2
    <3> QED
      BY <2>1, <2>4, <2>7, <3>1, <3>2
  <2>8. CASE l # s[1] /\ l = s[2]
    <3>1. in(s[1]) => (at(s[1]) < k + 1 <=> at(s[1]) < k)
      BY <2>3, <2>8
    <3>2. CASE in(s[1]) /\ c < at(s[1]) /\ at(s[1]) < k
      <4>1. r.st = 1
        BY <1>2, <1>3, <1>4, <2>2, <2>8, <3>2
      <4>2. Status(m, c, k + 1) = 2
        <5>1. in(s[2]) /\ at(s[1]) < at(s[2]) /\ at(s[2]) < k + 1
          BY <1>2, <2>2, <2>8, <3>2
        <5> QED
          BY <1>4, <3>1, <3>2, <5>1
      <4> QED
        BY <2>1, <2>4, <2>8, <4>1, <4>2
    <3>3. CASE ~ (in(s[1]) /\ c < at(s[1]) /\ at(s[1]) < k)
      BY <1>3, <1>4, <2>1, <2>4, <2>8, <3>1, <3>3
    <3> QED
      BY <3>2, <3>3
  <2>9. CASE l # s[1] /\ l # s[2]
    <3>1. in(s[1]) => (at(s[1]) < k + 1 <=> at(s[1]) < k)
      BY <2>3, <2>9
    <3>2. in(s[2]) => (at(s[2]) < k + 1 <=> at(s[2]) < k)
      BY <2>3, <2>9
    <3> QED
      BY <1>3, <1>4, <2>1, <2>4, <2>9, <3>1, <3>2
  <2> QED
    BY <2>7, <2>8, <2>9
<1>9. \A l : Seen(r, l).from = r.from /\ Seen(r, l).to = r.to /\ Seen(r, l).using = r.using
  BY DEF Seen, CatchType
<1> QED
  BY <1>1, <1>3, <1>7, <1>8, <1>9 DEF Tracks

(* The handlers in force are those of the catch statements around. *)
LEMMA ForceOK ==
  ASSUME text \in Classes, NEW m \in DOMAIN text, NEW k \in Nat, Tracked(m, k), Tidy
  PROVE  Range(ehset) = InForce(m, k)
<1>1. Range(ehset) = {catches[n].using : n \in {j \in DOMAIN catches : catches[j].st = 1}}
  BY DEF Tracked
<1>2. ASSUME NEW c \in DOMAIN text[m].body, text[m].body[c].op = "catch"
      PROVE  InRange(m, c, k) <=> c \in CatchLines(m, k) /\ Status(m, c, k) = 1
  <2>1. text[m].body \in Seq(Sentence)
    BY TextOK
  <2>2. c \in Nat /\ \A l \in Labels(m) : Position(m, l) \in Nat
    BY <2>1, PositionOK
  <2>3. InRange(m, c, k) => c < k
    BY <2>2 DEF InRange
  <2> QED
    BY <1>2, <2>3 DEF InRange, Status, CatchLines
<1>3. ASSUME NEW n \in DOMAIN catches, catches[n].st = 1 PROVE catches[n].using \in InForce(m, k)
  <2>1. PICK c \in CatchLines(m, k) : Tracks(catches[n], m, c, k)
    BY DEF Tracked
  <2>2. c \in DOMAIN text[m].body /\ text[m].body[c].op = "catch" /\ Status(m, c, k) = 1
        /\ catches[n].using = text[m].body[c].labels[3]
    BY <1>3, <2>1 DEF CatchLines, Tracks
  <2> QED
    BY <1>2, <2>1, <2>2 DEF InForce
<1>4. ASSUME NEW h \in InForce(m, k) PROVE \E n \in DOMAIN catches : catches[n].st = 1 /\ catches[n].using = h
  <2>1. PICK c \in DOMAIN text[m].body : text[m].body[c].op = "catch" /\ InRange(m, c, k)
                                         /\ h = text[m].body[c].labels[3]
    BY DEF InForce
  <2>2. c \in CatchLines(m, k) /\ Status(m, c, k) = 1
    BY <1>2, <2>1
  <2>3. PICK n \in DOMAIN catches : Tracks(catches[n], m, c, k)
    BY <2>2 DEF Tracked
  <2> QED
    BY <2>1, <2>2, <2>3 DEF Tracks
<1> QED
  BY <1>1, <1>3, <1>4

(* The handler set of a label holds the handlers with label_st 1. *)
LEMMA HandlerSetRange ==
  ASSUME NEW cs \in Seq(CatchType)
  PROVE  Range(HandlerSet(cs)) = {cs[n].using : n \in {j \in DOMAIN cs : cs[j].st = 1}}
<1> DEFINE S == {k \in DOMAIN cs : cs[k].st = 1}
           on == Sorted(S)
<1>1. S \in SUBSET Nat /\ S \in SUBSET Int /\ \A s \in S : s <= Len(cs)
  OBVIOUS
<1>2. Len(cs) \in Nat
  OBVIOUS
<1>3. IsFiniteSet(S)
  <2> HIDE DEF S
  <2> QED
    BY <1>1, <1>2, FS_BoundedSetOfNaturals
<1>4. on \in Seq(S) /\ \A x \in S : \E n \in 1 .. Len(on) : on[n] = x
  <2> HIDE DEF S
  <2> QED
    BY <1>1, <1>3, SortedLists DEF Lists
<1>5. HandlerSet(cs) = [n \in DOMAIN on |-> cs[on[n]].using]
  BY DEF HandlerSet
<1>6. DOMAIN on = 1 .. Len(on) /\ \A n \in DOMAIN on : on[n] \in S
  <2> HIDE DEF on, S
  <2> QED
    BY <1>4
<1>7. Range(HandlerSet(cs)) = {cs[on[n]].using : n \in DOMAIN on}
  <2> HIDE DEF on
  <2> QED
    BY <1>5 DEF Range
<1>8. {cs[on[n]].using : n \in DOMAIN on} = {cs[x].using : x \in S}
  <2> HIDE DEF on, S
  <2> QED
    BY <1>4, <1>6
<1> QED
  BY <1>7, <1>8

(* A statement that is not an instruction adds no place. *)
LEMMA PlacedNext ==
  ASSUME NEW e, NEW m \in DOMAIN text, text \in Classes, NEW k \in Nat, NEW top, Placed(e, m, k, top), k \notin Lines(m)
  PROVE  Placed(e, m, k + 1, top) /\ Before(m, k + 1) = Before(m, k)
<1>1. Lines(m) \in SUBSET Nat /\ Before(m, k + 1) = Before(m, k)
  BY BeforeOK
<1>2. \A j \in Lines(m) : j < k + 1 => j < k
  <2>1. \A j \in Nat : j < k + 1 => j < k \/ j = k
    OBVIOUS
  <2> QED
    BY <1>1, <2>1
<1> QED
  BY <1>1, <1>2 DEF Placed

(* Reading a label keeps the ranges. *)
LEMMA LabelRanges ==
  ASSUME Tidy, ParserInv, RangesInv, Label
  PROVE  RangesInv'
<1>1. /\ ParserTypes /\ Reading /\ line <= Len(Body) /\ Statement.op = "label"
      /\ text \in Classes /\ meth \in Nat \ {0} /\ line \in Nat \ {0}
      /\ Len(pool) \in Nat /\ first \in Nat /\ catches \in Seq(CatchType) /\ stack \in Seq(Nat)
      /\ Invalid \in Nat
  BY ParserAssumption DEF ParserInv, ParserTypes, Label
<1>2. PICK m, k, l, b : m = meth /\ k = line /\ l = Statement.labels[1] /\ b = text[meth].body
  OBVIOUS
<1>3. /\ l \notin DOMAIN jump
      /\ stack' = IF Len(stack) < MaxStack THEN Append(stack, l) ELSE stack
      /\ catches' = [n \in DOMAIN catches |-> Seen(catches[n], l)]
      /\ ehset' = HandlerSet(catches')
      /\ line' = k + 1 /\ meth' = m
      /\ text' = text /\ pool' = pool /\ jump' = jump /\ first' = first
      /\ methods' = methods
  BY <1>2 DEF Label
<1>4. /\ l \in Nat /\ l \in Labels(m) /\ k \in DOMAIN b /\ m \in DOMAIN text /\ b \in Seq(Sentence) /\ k \in Nat \ {0}
      /\ k <= Len(b)
  BY <1>1, <1>2, StatementOK DEF Body
<1>5. b[k].op = "label" /\ b[k].labels[1] = l /\ Position(m, l) = k
  <2>1. b[k].op = "label" /\ b[k].labels[1] = l
    BY <1>1, <1>2 DEF Statement, Body
  <2> QED
    BY <1>1, <1>2, <1>4, <2>1, PositionOK
<1>6. Reading' /\ Body' = b /\ Start' = Start /\ Settled' = Settled
  BY <1>1, <1>2, <1>3 DEF Reading, Body, Start, Settled
<1>7. /\ Start \in Nat \ {0} /\ Len(pool) + 1 = Start + Before(m, k) /\ Placed(Start, m, k, Len(pool))
      /\ Tracked(m, k) /\ Stacked(m, k)
      /\ \A n \in DOMAIN text : n < m => text[n].key \in DOMAIN methods
  BY <1>1, <1>2 DEF RangesInv
<1>8. PICK e, top : e = Start /\ top = Len(pool)
  OBVIOUS
<1>9. Placed(e, m, k + 1, top) /\ Before(m, k + 1) = Before(m, k)
  <2>1. k \notin Lines(m)
    BY <1>2, <1>5 DEF Lines, Pseudo
  <2> QED
    BY <1>1, <1>4, <1>7, <1>8, <2>1, PlacedNext
<1>10. Placed(e, m, k + 1, top)'
  BY <1>1, <1>3, <1>8, <1>9, PlacedKept
<1>11. (Len(pool) + 1 = Start + Before(meth, line) /\ Start \in Nat \ {0})'
  <2>1. Before(m, k + 1)' = Before(m, k + 1)
    BY <1>3, TextFixed
  <2> QED
    BY <1>3, <1>6, <1>7, <1>9, <2>1 DEF Before
<1>12. Tracked(m, k + 1)'
  <2>1. \A c : c \in CatchLines(m, k + 1) <=> c \in CatchLines(m, k)
    <3>1. \A c \in DOMAIN b : c \in Nat
      BY <1>4
    <3>2. \A c \in DOMAIN b : b[c].op = "catch" => (c < k + 1 <=> c < k)
      <4>1. \A c \in Nat : c < k + 1 <=> c < k \/ c = k
        BY <1>4
      <4> QED
        BY <1>5, <3>1, <4>1
    <3> QED
      BY <1>2, <3>2 DEF CatchLines
  <2>2. ASSUME NEW n \in DOMAIN catches, NEW c \in CatchLines(m, k), Tracks(catches[n], m, c, k)
        PROVE  Tracks(catches'[n], m, c, k + 1)
    <3>1. catches'[n] = Seen(catches[n], l) /\ catches[n] \in CatchType
      BY <1>1, <1>3
    <3> QED
      BY <1>1, <1>2, <1>4, <1>5, <2>2, <3>1, StatusNext
  <2>3. DOMAIN catches' = DOMAIN catches
    BY <1>3
  <2>4. \A c \in CatchLines(m, k + 1) : \E n \in DOMAIN catches' : Tracks(catches'[n], m, c, k + 1)
    BY <1>7, <2>1, <2>2, <2>3 DEF Tracked
  <2>5. \A n \in DOMAIN catches' : \E c \in CatchLines(m, k + 1) : Tracks(catches'[n], m, c, k + 1)
    BY <1>7, <2>1, <2>2, <2>3 DEF Tracked
  <2>6. Range(ehset') = {catches'[n].using : n \in {j \in DOMAIN catches' : catches'[j].st = 1}}
    <3>1. catches' \in Seq(CatchType)
      BY LabelOK DEF ParserInv, ParserTypes
    <3> QED
      BY <1>3, <3>1, HandlerSetRange
  <2>7. \A r, c, j : Tracks(r, m, c, j)' = Tracks(r, m, c, j) /\ CatchLines(m, j)' = CatchLines(m, j)
    BY <1>3, TextFixed
  <2> QED
    BY <2>4, <2>5, <2>6, <2>7 DEF Tracked
<1>13. Stacked(m, k + 1)'
  <2>1. PICK p \in 0 .. k - 1 : Len(stack) <= k - 1 - p /\ \A j \in p + 1 .. k - 1 : b[j].op \in Pseudo
    BY <1>2, <1>7 DEF Stacked, Waiting, Unbound, Short
  <2>2. \A j \in p + 1 .. k : b[j].op \in Pseudo
    <3>1. \A j \in p + 1 .. k : j \in p + 1 .. k - 1 \/ j = k
      BY <1>4
    <3> QED
      BY <1>5, <2>1, <3>1 DEF Pseudo
  <2>3. Len(stack) < MaxStack
    <3>1. MaxStack \in Nat \ {0} /\ Len(stack) \in Nat
      BY <1>1, ParserAssumption
    <3>2. SUFFICES ASSUME Len(stack) >= MaxStack PROVE FALSE
      BY <3>1
    <3>3. PICK q : q = k - MaxStack
      OBVIOUS
    <3>4. q \in p + 1 .. k /\ q + MaxStack = k /\ q \in DOMAIN b /\ q .. k \subseteq p + 1 .. k
      BY <1>4, <2>1, <3>1, <3>2, <3>3
    <3>5. PICK j \in q .. q + MaxStack : b[j].op \notin Pseudo
      BY <1>1, <1>2, <1>4, <3>4 DEF Tidy
    <3> QED
      BY <2>2, <3>4, <3>5
  <2>4. stack' = Append(stack, l)
    BY <1>3, <2>3
  <2>5. /\ DOMAIN stack' = 1 .. Len(stack) + 1 /\ stack'[Len(stack) + 1] = l /\ Len(stack') = Len(stack) + 1
        /\ \A n \in DOMAIN stack : n \in DOMAIN stack' /\ stack'[n] = stack[n]
    BY <1>1, <1>4, <2>4
  <2>6. ASSUME NEW j \in Labels(m), Follows(m, j, k + 1) PROVE \E n \in DOMAIN stack' : stack'[n] = j
    <3>1. PICK q : q = Position(m, j)
      OBVIOUS
    <3>2. q \in DOMAIN b /\ b[q].labels[1] = j /\ q \in Nat
      <4>1. q \in DOMAIN b /\ b[q].labels[1] = j
        BY <1>1, <1>2, <1>4, <2>6, <3>1, PositionOK
      <4> QED
        BY <1>4, <4>1
    <3>3. CASE q = k
      <4>1. Len(stack) + 1 \in DOMAIN stack'
        BY <1>1, <2>5
      <4> QED
        BY <1>5, <2>5, <3>2, <3>3, <4>1
    <3>4. CASE q # k
      <4>1. q < k + 1 /\ \A i \in q .. k : text[m].body[i].op \in Pseudo
        BY <1>4, <2>6, <3>1 DEF Follows
      <4>2. q < k /\ \A i \in q .. k - 1 : i \in q .. k
        BY <1>4, <3>2, <3>4, <4>1
      <4>3. Follows(m, j, k)
        BY <3>1, <4>1, <4>2 DEF Follows
      <4> QED
        BY <1>7, <2>5, <4>3 DEF Stacked, Waiting, Unbound, Short
    <3> QED
      BY <3>3, <3>4
  <2>7. ASSUME NEW n \in DOMAIN stack' PROVE stack'[n] \notin DOMAIN jump'
    <3>1. n \in DOMAIN stack \/ n = Len(stack) + 1
      BY <1>1, <2>5
    <3> QED
      BY <1>3, <1>7, <2>5, <3>1 DEF Stacked, Waiting, Unbound, Short
  <2>8. p \in 0 .. (k + 1) - 1 /\ Len(stack') <= ((k + 1) - 1) - p /\ \A j \in p + 1 .. (k + 1) - 1 : b[j].op \in Pseudo
    <3>1. (k + 1) - 1 = k /\ Len(stack) \in Nat
      BY <1>1, <1>4
    <3> QED
      BY <1>4, <2>1, <2>2, <2>5, <3>1
  <2>9. Labels(m)' = Labels(m) /\ \A j, i : Follows(m, j, i)' = Follows(m, j, i)
    BY <1>3, TextFixed
  <2>10. text'[m].body = b
    BY <1>2, <1>3
  <2>11. Waiting(m, k + 1)'
    BY <2>6, <2>9 DEF Waiting
  <2>12. Short(m, k + 1)'
    <3>1. \A j \in p + 1 .. (k + 1) - 1 : text'[m].body[j].op \in Pseudo
      BY <2>8, <2>10
    <3> QED
      BY <2>8, <3>1, Zenon DEF Short, Pseudo
  <2>13. Unbound'
    BY <2>7 DEF Unbound
  <2> QED
    BY <2>11, <2>12, <2>13, Zenon DEF Stacked
<1>14. ASSUME NEW x \in DOMAIN methods' PROVE \E n \in DOMAIN text' : Registered(methods[x], n, x)'
  <2>1. PICK f : f = methods[x]
    OBVIOUS
  <2>2. PICK n \in DOMAIN text : Registered(f, n, x)
    BY <1>3, <1>14, <2>1 DEF RangesInv
  <2>3. Settled \in Int /\ n \in Int
    BY <1>1, TextOK DEF Settled
  <2>4. Registered(f, n, x)'
    BY <1>1, <1>2, <1>3, <1>6, <2>2, <2>3, RegisteredKept
  <2>5. methods'[x] = f /\ n \in DOMAIN text'
    BY <1>3, <2>1, <2>2
  <2> QED
    BY <2>4, <2>5 DEF Registered, Placed
<1>15. line' <= Len(Body') + 1
  BY <1>3, <1>4, <1>6
<1>16. Placed(Start, meth, line, Len(pool))'
  BY <1>3, <1>6, <1>8, <1>10 DEF Placed
<1>17. Tracked(meth, line)' /\ Stacked(meth, line)'
  BY <1>3, <1>12, <1>13 DEF Tracked, Stacked, Waiting, Unbound, Short
<1>18. (\A n \in DOMAIN text : n < meth => text[n].key \in DOMAIN methods)'
  BY <1>3, <1>7
<1> QED
  BY <1>11, <1>14, <1>15, <1>16, <1>17, <1>18 DEF RangesInv

(* Reading a catch statement keeps the ranges. *)
LEMMA CatchRanges ==
  ASSUME Tidy, ParserInv, RangesInv, Catch
  PROVE  RangesInv'
<1>1. /\ ParserTypes /\ Reading /\ line <= Len(Body) /\ Statement.op = "catch"
      /\ text \in Classes /\ meth \in Nat \ {0} /\ line \in Nat \ {0}
      /\ Len(pool) \in Nat /\ first \in Nat /\ catches \in Seq(CatchType) /\ stack \in Seq(Nat)
      /\ Invalid \in Nat
  BY ParserAssumption DEF ParserInv, ParserTypes, Catch
<1>2. PICK m, k, b : m = meth /\ k = line /\ b = text[meth].body
  OBVIOUS
<1>3. PICK r : r = [from |-> b[k].labels[1], to |-> b[k].labels[2], using |-> b[k].labels[3], st |-> 0]
  OBVIOUS
<1>4. /\ catches' = Append(catches, r) /\ stack' = stack /\ ehset' = ehset
      /\ line' = k + 1 /\ meth' = m
      /\ text' = text /\ pool' = pool /\ jump' = jump /\ first' = first /\ methods' = methods
  BY <1>2, <1>3 DEF Catch, Statement, Body
<1>5. /\ k \in DOMAIN b /\ m \in DOMAIN text /\ b \in Seq(Sentence) /\ k \in Nat \ {0}
      /\ k <= Len(b) /\ b[k].op = "catch"
  BY <1>1, <1>2, StatementOK DEF Body, Statement
<1>6. Reading' /\ Body' = b /\ Start' = Start /\ Settled' = Settled
  BY <1>1, <1>2, <1>4 DEF Reading, Body, Start, Settled
<1>7. /\ Start \in Nat \ {0} /\ Len(pool) + 1 = Start + Before(m, k) /\ Placed(Start, m, k, Len(pool))
      /\ Tracked(m, k) /\ Stacked(m, k)
      /\ \A n \in DOMAIN text : n < m => text[n].key \in DOMAIN methods
  BY <1>1, <1>2 DEF RangesInv
<1>8. PICK e, top : e = Start /\ top = Len(pool)
  OBVIOUS
<1>9. Placed(e, m, k + 1, top) /\ Before(m, k + 1) = Before(m, k)
  <2>1. k \notin Lines(m)
    BY <1>2, <1>5 DEF Lines, Pseudo
  <2> QED
    BY <1>1, <1>5, <1>7, <1>8, <2>1, PlacedNext
<1>10. Placed(e, m, k + 1, top)'
  BY <1>1, <1>4, <1>8, <1>9, PlacedKept
<1>11. (Len(pool) + 1 = Start + Before(meth, line) /\ Start \in Nat \ {0})'
  <2>1. Before(m, k + 1)' = Before(m, k + 1)
    BY <1>4, TextFixed
  <2> QED
    BY <1>4, <1>6, <1>7, <1>9, <2>1 DEF Before
<1>12. Tracked(m, k + 1)'
  <2>1. CatchLines(m, k + 1) = CatchLines(m, k) \cup {k}
    <3>1. \A c \in DOMAIN b : c \in Nat
      BY <1>5
    <3>2. \A c \in Nat : c < k + 1 <=> c < k \/ c = k
      BY <1>5
    <3> QED
      BY <1>2, <1>5, <3>1, <3>2 DEF CatchLines
  <2>2. ASSUME NEW n \in DOMAIN catches, NEW c \in CatchLines(m, k), Tracks(catches[n], m, c, k)
        PROVE  Tracks(catches[n], m, c, k + 1)
    <3>1. catches[n] \in CatchType
      BY <1>1
    <3> QED
      BY <1>1, <1>2, <1>5, <2>2, <3>1, StatusNext
  <2>3. Tracks(r, m, k, k + 1)
    <3>1. PICK s : s = b[k].labels
      OBVIOUS
    <3>2. s[1] \in Labels(m) => Position(m, s[1]) \in Nat
      BY <1>1, <1>2, <1>5, PositionOK
    <3>3. ~ (s[1] \in Labels(m) /\ k < Position(m, s[1]) /\ Position(m, s[1]) < k + 1)
      BY <1>5, <3>2
    <3>4. Status(m, k, k + 1) = 0
      BY <1>2, <3>1, <3>3 DEF Status
    <3> QED
      BY <1>2, <1>3, <3>4 DEF Tracks
  <2>4. /\ DOMAIN catches' = DOMAIN catches \cup {Len(catches) + 1}
        /\ catches'[Len(catches) + 1] = r
        /\ \A n \in DOMAIN catches : catches'[n] = catches[n]
    BY <1>1, <1>4
  <2>5. \A c \in CatchLines(m, k + 1) : \E n \in DOMAIN catches' : Tracks(catches'[n], m, c, k + 1)
    BY <1>7, <2>1, <2>2, <2>3, <2>4 DEF Tracked
  <2>6. \A n \in DOMAIN catches' : \E c \in CatchLines(m, k + 1) : Tracks(catches'[n], m, c, k + 1)
    BY <1>7, <2>1, <2>2, <2>3, <2>4 DEF Tracked
  <2>7. Range(ehset') = {catches'[n].using : n \in {j \in DOMAIN catches' : catches'[j].st = 1}}
    <3>1. r.st # 1
      BY <1>3
    <3>2. {j \in DOMAIN catches' : catches'[j].st = 1} = {j \in DOMAIN catches : catches[j].st = 1}
      BY <2>4, <3>1
    <3>3. {catches'[n].using : n \in {j \in DOMAIN catches : catches[j].st = 1}}
            = {catches[n].using : n \in {j \in DOMAIN catches : catches[j].st = 1}}
      BY <2>4
    <3> QED
      BY <1>4, <1>7, <3>2, <3>3 DEF Tracked
  <2>8. \A x, c, j : Tracks(x, m, c, j)' = Tracks(x, m, c, j) /\ CatchLines(m, j)' = CatchLines(m, j)
    BY <1>4, TextFixed
  <2> QED
    BY <2>5, <2>6, <2>7, <2>8 DEF Tracked
<1>13. Stacked(m, k + 1)'
  <2>1. PICK p \in 0 .. k - 1 : Len(stack) <= k - 1 - p /\ \A j \in p + 1 .. k - 1 : b[j].op \in Pseudo
    BY <1>2, <1>7 DEF Stacked, Waiting, Unbound, Short
  <2>2. \A j \in p + 1 .. k : b[j].op \in Pseudo
    <3>1. \A j \in p + 1 .. k : j \in p + 1 .. k - 1 \/ j = k
      BY <1>5
    <3> QED
      BY <1>5, <2>1, <3>1 DEF Pseudo
  <2>3. ASSUME NEW j \in Labels(m), Follows(m, j, k + 1) PROVE \E n \in DOMAIN stack : stack[n] = j
    <3>1. PICK q : q = Position(m, j)
      OBVIOUS
    <3>2. q \in DOMAIN b /\ b[q].op = "label" /\ q \in Nat
      <4>1. q \in DOMAIN b /\ b[q].op = "label"
        BY <1>1, <1>2, <1>5, <2>3, <3>1, PositionOK
      <4> QED
        BY <1>5, <4>1
    <3>3. q # k
      BY <1>5, <3>2
    <3>4. q < k + 1 /\ \A i \in q .. k : text[m].body[i].op \in Pseudo
      BY <1>5, <2>3, <3>1 DEF Follows
    <3>5. q < k /\ \A i \in q .. k - 1 : i \in q .. k
      BY <1>5, <3>2, <3>3, <3>4
    <3>6. Follows(m, j, k)
      BY <3>1, <3>4, <3>5 DEF Follows
    <3> QED
      BY <1>7, <3>6 DEF Stacked, Waiting, Unbound, Short
  <2>4. p \in 0 .. (k + 1) - 1 /\ Len(stack) <= ((k + 1) - 1) - p /\ \A j \in p + 1 .. (k + 1) - 1 : b[j].op \in Pseudo
    <3>1. (k + 1) - 1 = k /\ Len(stack) \in Nat
      BY <1>1, <1>5
    <3> QED
      BY <1>5, <2>1, <2>2, <3>1
  <2>5. Labels(m)' = Labels(m) /\ \A j, i : Follows(m, j, i)' = Follows(m, j, i)
    BY <1>4, TextFixed
  <2>6. Waiting(m, k + 1)'
    BY <1>4, <2>3, <2>5 DEF Waiting
  <2>7. Short(m, k + 1)'
    <3>1. Len(stack') <= ((k + 1) - 1) - p /\ \A j \in p + 1 .. (k + 1) - 1 : text'[m].body[j].op \in Pseudo
      BY <1>2, <1>4, <2>4
    <3> QED
      BY <2>4, <3>1, Zenon DEF Short, Pseudo
  <2>8. Unbound'
    BY <1>4, <1>7 DEF Stacked, Unbound
  <2> QED
    BY <2>6, <2>7, <2>8, Zenon DEF Stacked
<1>14. ASSUME NEW x \in DOMAIN methods' PROVE \E n \in DOMAIN text' : Registered(methods[x], n, x)'
  <2>1. PICK f : f = methods[x]
    OBVIOUS
  <2>2. PICK n \in DOMAIN text : Registered(f, n, x)
    BY <1>4, <1>14, <2>1 DEF RangesInv
  <2>3. Settled \in Int /\ n \in Int
    BY <1>1, TextOK DEF Settled
  <2>4. Registered(f, n, x)'
    BY <1>1, <1>2, <1>4, <1>6, <2>2, <2>3, RegisteredKept
  <2>5. methods'[x] = f /\ n \in DOMAIN text'
    BY <1>4, <2>1, <2>2
  <2> QED
    BY <2>4, <2>5 DEF Registered, Placed
<1>15. line' <= Len(Body') + 1
  BY <1>4, <1>5, <1>6
<1>16. Placed(Start, meth, line, Len(pool))'
  BY <1>4, <1>6, <1>8, <1>10 DEF Placed
<1>17. Tracked(meth, line)' /\ Stacked(meth, line)'
  BY <1>4, <1>12, <1>13 DEF Tracked, Stacked, Waiting, Unbound, Short
<1>18. (\A n \in DOMAIN text : n < meth => text[n].key \in DOMAIN methods)'
  BY <1>4, <1>7
<1> QED
  BY <1>11, <1>14, <1>15, <1>16, <1>17, <1>18 DEF RangesInv

(* What an instruction does to the pool and to the labels. *)
LEMMA InstructionEffect ==
  ASSUME ParserInv, Instruction, NEW i, i = Len(pool) + 1
  PROVE  /\ i \in Nat \ {0} /\ i # Invalid /\ Len(pool') = i
         /\ pool'[i].op = Statement.op /\ pool'[i].handlers = ehset
         /\ \A j \in 1 .. Len(pool) : pool'[j].op = pool[j].op /\ pool'[j].handlers = pool[j].handlers
         /\ \A l \in DOMAIN jump : (\A n \in DOMAIN stack : stack[n] # l) => l \in DOMAIN jump' /\ jump'[l] = jump[l]
         /\ \A n \in DOMAIN stack : stack[n] \in DOMAIN jump' /\ jump'[stack[n]] = i
         /\ first # Invalid => first \in 1 .. Len(pool)
<1>1. /\ Len(pool) \in Nat /\ pool \in Seq(InstructionType) /\ Invalid \in Nat /\ i < Invalid
      /\ Current /\ stack \in Seq(Nat)
  BY ParserAssumption DEF ParserInv, ParserTypes, Instruction
<1>2. i \in Nat \ {0} /\ i # Invalid /\ Len(pool) = i - 1
  BY <1>1
<1>3. first # Invalid => first \in 1 .. Len(pool)
  BY <1>1 DEF Current, Segment
<1>4. PICK new : new = NewInstruction(Statement, ehset)
  OBVIOUS
<1>5. new.op = Statement.op /\ new.handlers = ehset
  BY <1>4 DEF NewInstruction
<1>6. PICK q : q = IF first = Invalid THEN pool ELSE [pool EXCEPT ![i - 1].next = i]
  OBVIOUS
<1>7. pool' = Append(q, new)
  BY <1>4, <1>6 DEF Instruction
<1>8. /\ q \in Seq(InstructionType) /\ Len(q) = i - 1
      /\ \A j \in 1 .. i - 1 : q[j].op = pool[j].op /\ q[j].handlers = pool[j].handlers
  <2>1. CASE first = Invalid
    BY <2>1, <1>1, <1>2, <1>6
  <2>2. CASE first # Invalid
    <3>1. i - 1 \in 1 .. Len(pool)
      BY <2>2, <1>2, <1>3
    <3>2. PICK p : p = pool[i - 1]
      OBVIOUS
    <3>3. p \in InstructionType
      BY <1>1, <3>1, <3>2
    <3>4. PICK r : r = [p EXCEPT !.next = i]
      OBVIOUS
    <3>5. r \in InstructionType /\ r.op = p.op /\ r.handlers = p.handlers
      BY <1>2, <3>3, <3>4 DEF InstructionType
    <3>6. q = [pool EXCEPT ![i - 1] = r]
      BY <1>6, <2>2, <3>2, <3>4
    <3>7. q \in Seq(InstructionType) /\ Len(q) = Len(pool) /\ q[i - 1] = r
          /\ \A j \in 1 .. Len(pool) : j # i - 1 => q[j] = pool[j]
      BY <1>1, <3>1, <3>5, <3>6
    <3> QED
      BY <1>2, <3>2, <3>5, <3>7
  <2> QED
    BY <2>1, <2>2
<1>9. Len(pool') = i /\ pool'[i] = new /\ \A j \in 1 .. i - 1 : pool'[j] = q[j]
  BY <1>2, <1>7, <1>8
<1>10. \A j \in 1 .. Len(pool) : pool'[j].op = pool[j].op /\ pool'[j].handlers = pool[j].handlers
  BY <1>2, <1>8, <1>9
<1>11. /\ \A l \in DOMAIN jump : (\A n \in DOMAIN stack : stack[n] # l) => l \in DOMAIN jump' /\ jump'[l] = jump[l]
       /\ \A n \in DOMAIN stack : stack[n] \in DOMAIN jump' /\ jump'[stack[n]] = i
  <2>1. CASE stack = <<>>
    <3>1. jump' = jump
      BY <2>1 DEF Instruction
    <3>2. DOMAIN stack = {}
      BY <2>1
    <3> QED
      BY <3>1, <3>2
  <2>2. CASE stack # <<>>
    <3>1. jump' = [l \in DOMAIN jump \cup Range(stack) |-> IF l \in Range(stack) THEN i ELSE jump[l]]
      BY <2>2 DEF Instruction, Bind
    <3>2. \A l : l \in Range(stack) <=> \E n \in DOMAIN stack : stack[n] = l
      BY DEF Range
    <3> QED
      BY <3>1, <3>2
  <2> QED
    BY <2>1, <2>2
<1> QED
  BY <1>2, <1>3, <1>5, <1>9, <1>10, <1>11

(* Reading an instruction keeps the ranges: it is placed behind the others *)
(* with the handlers in force, and the labels that wait lead to it.        *)
LEMMA InstructionRanges ==
  ASSUME Tidy, ParserInv, RangesInv, Instruction
  PROVE  RangesInv'
<1>1. /\ ParserTypes /\ Reading /\ line <= Len(Body) /\ Statement.op \notin Pseudo
      /\ text \in Classes /\ meth \in Nat \ {0} /\ line \in Nat \ {0}
      /\ Len(pool) \in Nat /\ first \in Nat /\ catches \in Seq(CatchType) /\ stack \in Seq(Nat)
      /\ Invalid \in Nat
  BY ParserAssumption DEF ParserInv, ParserTypes, Instruction, Pseudo
<1>2. PICK m, k, b, e, i : m = meth /\ k = line /\ b = text[meth].body /\ e = Start /\ i = Len(pool) + 1
  OBVIOUS
<1>3. /\ stack' = <<>> /\ catches' = catches /\ ehset' = ehset /\ line' = k + 1 /\ meth' = m
      /\ text' = text /\ methods' = methods /\ first' = e
  BY <1>2 DEF Instruction, Start
<1>4. /\ k \in DOMAIN b /\ m \in DOMAIN text /\ b \in Seq(Sentence) /\ k \in Nat \ {0}
      /\ k <= Len(b) /\ b[k].op \notin Pseudo /\ Statement.op = b[k].op
  BY <1>1, <1>2, StatementOK DEF Body, Statement
<1>5. /\ i \in Nat \ {0} /\ i # Invalid /\ Len(pool') = i
      /\ pool'[i].op = b[k].op /\ pool'[i].handlers = ehset
      /\ \A j \in 1 .. i - 1 : pool'[j].op = pool[j].op /\ pool'[j].handlers = pool[j].handlers
      /\ \A l \in DOMAIN jump : (\A n \in DOMAIN stack : stack[n] # l) => l \in DOMAIN jump' /\ jump'[l] = jump[l]
      /\ \A n \in DOMAIN stack : stack[n] \in DOMAIN jump' /\ jump'[stack[n]] = i
      /\ first # Invalid => first \in 1 .. i - 1
      /\ Len(pool) = i - 1
  <2>1. Len(pool) = i - 1
    BY <1>1, <1>2
  <2> QED
    BY <1>2, <1>4, <2>1, InstructionEffect
<1>6. e \in 1 .. i /\ e # Invalid /\ Settled = e - 1 /\ Start' = e /\ Settled' = e - 1 /\ Reading' /\ Body' = b
  <2>1. e = IF first = Invalid THEN i ELSE first
    BY <1>2 DEF Start
  <2>2. e \in 1 .. i /\ e # Invalid
    BY <1>5, <2>1
  <2>3. Settled = e - 1
    BY <1>1, <1>5, <2>1 DEF Settled
  <2>4. Reading' /\ Body' = b
    BY <1>1, <1>2, <1>3 DEF Reading, Body
  <2> QED
    BY <1>3, <2>2, <2>3, <2>4 DEF Start, Settled
<1>7. /\ i = e + Before(m, k) /\ Placed(e, m, k, i - 1) /\ Tracked(m, k) /\ Stacked(m, k)
      /\ \A n \in DOMAIN text : n < m => text[n].key \in DOMAIN methods
  BY <1>1, <1>2, <1>5 DEF RangesInv
<1>8. k \in Lines(m) /\ Before(m, k) \in Nat /\ Before(m, k + 1) = Before(m, k) + 1 /\ Lines(m) \in SUBSET Nat
  <2>1. k \in Lines(m)
    BY <1>2, <1>4 DEF Lines
  <2> QED
    BY <1>1, <1>4, <2>1, BeforeOK
<1>9. \A l \in DOMAIN jump : l \in DOMAIN jump' /\ jump'[l] = jump[l]
  BY <1>5, <1>7 DEF Stacked, Unbound
<1>10. Placed(e, m, k + 1, i)'
  <2>1. Placed(e, m, k, i)'
    <3>1. i - 1 \in Int /\ i \in Int /\ i - 1 <= i
      BY <1>5
    <3> QED
      BY <1>3, <1>5, <1>7, <1>9, <3>1, PlacedKept
  <2>2. \A l \in Labels(m) : Follows(m, l, k) => l \in DOMAIN jump' /\ jump'[l] = i
    BY <1>5, <1>7 DEF Stacked, Waiting
  <2>3. Range(ehset) = InForce(m, k)
    BY <1>1, <1>4, <1>7, ForceOK
  <2>4. i \in 1 .. i
    BY <1>5
  <2>5. \A j \in Lines(m) : j < k + 1 => j < k \/ j = k
    <3>1. \A j \in Nat : j < k + 1 => j < k \/ j = k
      BY <1>4
    <3> QED
      BY <1>8, <3>1
  <2>6. ASSUME NEW j \in Lines(m), j < k + 1
        PROVE  /\ e + Before(m, j) \in 1 .. i
               /\ pool'[e + Before(m, j)].op = text[m].body[j].op
               /\ Range(pool'[e + Before(m, j)].handlers) = InForce(m, j)
               /\ \A l \in Labels(m) : Follows(m, l, j) => l \in DOMAIN jump' /\ jump'[l] = e + Before(m, j)
    <3>1. CASE j = k
      BY <1>2, <1>5, <1>7, <2>2, <2>3, <2>4, <3>1
    <3>2. CASE j < k
      BY <1>3, <2>1, <3>2, TextFixed DEF Placed
    <3> QED
      BY <2>5, <2>6, <3>1, <3>2
  <2> QED
    BY <1>3, <2>6, TextFixed DEF Placed
<1>11. (Len(pool) + 1 = Start + Before(meth, line) /\ Start \in Nat \ {0})'
  <2>1. Before(m, k + 1)' = Before(m, k + 1)
    BY <1>3, TextFixed
  <2>2. i + 1 = e + Before(m, k + 1) /\ e \in Nat \ {0}
    <3>1. PICK d : d = Before(m, k)
      OBVIOUS
    <3>2. d \in Nat /\ i = e + d /\ Before(m, k + 1) = d + 1 /\ e \in Nat \ {0}
      BY <1>6, <1>7, <1>8, <3>1
    <3> QED
      BY <3>2
  <2> QED
    BY <1>3, <1>5, <1>6, <2>1, <2>2 DEF Before
<1>12. Tracked(m, k + 1)'
  <2>1. \A c : c \in CatchLines(m, k + 1) <=> c \in CatchLines(m, k)
    <3>1. \A c \in DOMAIN b : c \in Nat
      BY <1>4
    <3>2. \A c \in DOMAIN b : b[c].op = "catch" => (c < k + 1 <=> c < k)
      <4>1. \A c \in Nat : c < k + 1 <=> c < k \/ c = k
        BY <1>4
      <4> QED
        BY <1>4, <3>1, <4>1 DEF Pseudo
    <3> QED
      BY <1>2, <3>2 DEF CatchLines
  <2>2. ASSUME NEW n \in DOMAIN catches, NEW c \in CatchLines(m, k), Tracks(catches[n], m, c, k)
        PROVE  Tracks(catches[n], m, c, k + 1)
    <3>1. catches[n] \in CatchType /\ b[k].op # "label"
      BY <1>1, <1>4 DEF Pseudo
    <3> QED
      BY <1>1, <1>2, <1>4, <2>2, <3>1, StatusNext
  <2>3. \A c \in CatchLines(m, k + 1) : \E n \in DOMAIN catches : Tracks(catches[n], m, c, k + 1)
    BY <1>7, <2>1, <2>2 DEF Tracked
  <2>4. \A n \in DOMAIN catches : \E c \in CatchLines(m, k + 1) : Tracks(catches[n], m, c, k + 1)
    BY <1>7, <2>1, <2>2 DEF Tracked
  <2>5. \A x, c, j : Tracks(x, m, c, j)' = Tracks(x, m, c, j) /\ CatchLines(m, j)' = CatchLines(m, j)
    BY <1>3, TextFixed
  <2>6. Range(ehset) = {catches[n].using : n \in {j \in DOMAIN catches : catches[j].st = 1}}
    BY <1>7 DEF Tracked
  <2> QED
    BY <1>3, <2>3, <2>4, <2>5, <2>6 DEF Tracked
<1>13. Stacked(m, k + 1)'
  <2>1. DOMAIN stack' = {} /\ Len(stack') = 0
    BY <1>3
  <2>2. ASSUME NEW j \in Labels(m), Follows(m, j, k + 1) PROVE FALSE
    <3>1. Position(m, j) \in Nat
      BY <1>1, <1>2, <1>4, PositionOK
    <3>2. k \in Position(m, j) .. (k + 1) - 1
      BY <1>4, <2>2, <3>1 DEF Follows
    <3> QED
      BY <1>2, <1>4, <2>2, <3>2 DEF Follows
  <2>3. Labels(m)' = Labels(m) /\ \A j, n : Follows(m, j, n)' = Follows(m, j, n)
    BY <1>3, TextFixed
  <2>4. Waiting(m, k + 1)'
    BY <2>2, <2>3 DEF Waiting
  <2>5. Unbound'
    BY <2>1 DEF Unbound
  <2>6. Short(m, k + 1)'
    <3>1. /\ k \in 0 .. (k + 1) - 1 /\ Len(stack') <= ((k + 1) - 1) - k
          /\ \A j \in k + 1 .. (k + 1) - 1 : text'[m].body[j].op \in Pseudo
      BY <1>4, <2>1
    <3> QED
      BY <3>1, Zenon DEF Short, Pseudo
  <2> QED
    BY <2>4, <2>5, <2>6, Zenon DEF Stacked
<1>14. ASSUME NEW x \in DOMAIN methods' PROVE \E n \in DOMAIN text' : Registered(methods[x], n, x)'
  <2>1. PICK f : f = methods[x]
    OBVIOUS
  <2>2. PICK n \in DOMAIN text : Registered(f, n, x)
    BY <1>3, <1>14, <2>1 DEF RangesInv
  <2>3. Settled \in Int /\ Settled' \in Int /\ Settled <= Settled' /\ n \in Int
    BY <1>1, <1>5, <1>6, TextOK
  <2>4. \A j \in 1 .. Settled : pool'[j].op = pool[j].op /\ pool'[j].handlers = pool[j].handlers
    BY <1>5, <1>6
  <2>5. Registered(f, n, x)'
    BY <1>1, <1>2, <1>3, <1>9, <2>2, <2>3, <2>4, RegisteredKept
  <2>6. methods'[x] = f /\ n \in DOMAIN text'
    BY <1>3, <2>1, <2>2
  <2> QED
    BY <2>5, <2>6 DEF Registered, Placed
<1>15. line' <= Len(Body') + 1
  BY <1>3, <1>4, <1>6
<1>16. Placed(Start, meth, line, Len(pool))'
  BY <1>3, <1>5, <1>6, <1>10 DEF Placed
<1>17. Tracked(meth, line)' /\ Stacked(meth, line)'
  BY <1>3, <1>12, <1>13 DEF Tracked, Stacked, Waiting, Unbound, Short
<1>18. (\A n \in DOMAIN text : n < meth => text[n].key \in DOMAIN methods)'
  BY <1>3, <1>7
<1> QED
  BY <1>11, <1>14, <1>15, <1>16, <1>17, <1>18 DEF RangesInv

(* A class that is given up keeps the methods that were registered. *)
LEMMA GiveUpRanges ==
  ASSUME ParserInv, RangesInv, text' = text, jump' = jump, methods' = methods, meth' = Len(text) + 1,
         Reading, Len(pool') \in Nat, Len(pool) <= Len(pool'), \A i \in 1 .. Len(pool) : pool'[i] = pool[i]
  PROVE  RangesInv'
<1>1. /\ text \in Classes /\ meth \in Nat \ {0} /\ Len(pool) \in Nat /\ first \in Nat /\ Len(text) \in Nat
      /\ Current /\ Invalid \in Nat
  BY TextOK, ParserAssumption DEF ParserInv, ParserTypes
<1>2. ~ Reading' /\ meth <= meth' /\ meth' \in Int
  BY <1>1 DEF Reading
<1>3. Settled \in Int /\ Settled <= Len(pool)
  BY <1>1 DEF Settled, Current, Segment
<1>4. Settled' = Len(pool')
  BY <1>2 DEF Settled
<1>5. Settled' \in Int /\ Settled <= Settled' /\ \A i \in 1 .. Settled : pool'[i] = pool[i]
  BY <1>1, <1>3, <1>4
<1>6. ASSUME NEW x \in DOMAIN methods' PROVE \E n \in DOMAIN text' : Registered(methods[x], n, x)'
  <2>1. PICK f : f = methods[x]
    OBVIOUS
  <2>2. PICK n \in DOMAIN text : Registered(f, n, x)
    BY <1>6, <2>1 DEF RangesInv
  <2>3. n \in Int
    BY <1>1, TextOK
  <2>4. Registered(f, n, x)'
    BY <1>1, <1>2, <1>3, <1>5, <2>2, <2>3, RegisteredKept
  <2>5. methods'[x] = f /\ n \in DOMAIN text'
    BY <2>1, <2>2
  <2> QED
    BY <2>4, <2>5 DEF Registered, Placed
<1> QED
  BY <1>2, <1>6 DEF RangesInv

(* The ERR exits keep the ranges. *)
LEMMA RejectRanges ==
  ASSUME ParserInv, RangesInv, Reading, Reject
  PROVE  RangesInv'
<1>1. Len(pool) \in Nat /\ text' = text /\ jump' = jump /\ methods' = methods /\ meth' = Len(text) + 1 /\ pool' = pool
  BY DEF Reject, ParserInv, ParserTypes
<1> QED
  BY <1>1, GiveUpRanges

(* An instruction that no constructor accepts keeps the ranges. *)
LEMMA BadInstructionRanges ==
  ASSUME ParserInv, RangesInv, BadInstruction
  PROVE  RangesInv'
<1>1. PICK new : new = NewInstruction(Statement, <<>>)
  OBVIOUS
<1>2. /\ pool \in Seq(InstructionType) /\ Reading /\ pool' = Append(pool, new)
      /\ text' = text /\ jump' = jump /\ methods' = methods /\ meth' = Len(text) + 1
  BY <1>1 DEF BadInstruction, ParserInv, ParserTypes
<1>3. Len(pool') \in Nat /\ Len(pool) <= Len(pool') /\ \A i \in 1 .. Len(pool) : pool'[i] = pool[i]
  BY <1>2
<1> QED
  BY <1>2, <1>3, GiveUpRanges

(* Before the first statement of a method nothing is placed, tracked or    *)
(* stacked.                                                                *)
LEMMA FreshRanges ==
  ASSUME Tidy, text \in Classes, NEW m \in DOMAIN text
  PROVE  /\ \A k \in Lines(m) : ~ (k < 1)
         /\ CatchLines(m, 1) = {}
         /\ \A l \in Labels(m) : ~ Follows(m, l, 1)
<1>1. text[m].body \in Seq(Sentence)
  BY TextOK
<1>2. \A k \in DOMAIN text[m].body : k \in Nat /\ ~ (k < 1)
  BY <1>1
<1>3. \A l \in Labels(m) : Position(m, l) \in DOMAIN text[m].body
  BY PositionOK
<1> QED
  BY <1>2, <1>3 DEF Lines, CatchLines, Follows

(* The end of a body keeps the ranges: its instructions are all placed. *)
LEMMA EndMethodRanges ==
  ASSUME Tidy, ParserInv, RangesInv, EndMethod
  PROVE  RangesInv'
<1>1. /\ Reading /\ line > Len(Body) /\ text \in Classes /\ meth \in Nat \ {0} /\ line \in Nat \ {0}
      /\ Len(pool) \in Nat /\ first \in Nat /\ Len(text) \in Nat /\ Current /\ Invalid \in Nat
      /\ text' = text /\ jump' = jump /\ pool' = pool /\ DOMAIN text = 1 .. Len(text)
  BY TextOK, ParserAssumption DEF ParserInv, ParserTypes, EndMethod
<1>2. PICK m, b, e, z : m = meth /\ b = text[meth].body /\ e = Start /\ z = Len(text[meth].body) + 1
  OBVIOUS
<1>3. m \in DOMAIN text /\ b \in Seq(Sentence) /\ Len(b) \in Nat /\ m \in Nat \ {0}
  BY <1>1, <1>2, StatementOK DEF Body
<1>4. CASE text[meth].key \in DOMAIN methods
  <2>1. methods' = methods /\ meth' = Len(text) + 1
    BY <1>4 DEF EndMethod
  <2> QED
    BY <1>1, <2>1, GiveUpRanges
<1>5. CASE text[meth].key \notin DOMAIN methods
  <2>1. PICK key : key = text[m].key
    OBVIOUS
  <2>2. /\ meth' = m + 1
        /\ DOMAIN methods' = DOMAIN methods \cup {key} /\ methods'[key] = first
        /\ \A k \in DOMAIN methods : methods'[k] = methods[k]
        /\ line' = 1 /\ stack' = <<>> /\ catches' = <<>> /\ ehset' = <<>> /\ first' = Invalid
    BY <1>2, <1>5, <2>1 DEF EndMethod, Fresh
  <2>3. /\ line = z /\ e \in Nat \ {0} /\ Len(pool) + 1 = e + Before(m, z)
        /\ Placed(e, m, z, Len(pool))
        /\ \A n \in DOMAIN text : n < m => text[n].key \in DOMAIN methods
    <3>1. line = z
      BY <1>1, <1>2, <1>3 DEF RangesInv, Body
    <3> QED
      BY <1>1, <1>2, <3>1 DEF RangesInv
  <2>4. first # Invalid
    <3>1. PICK k \in DOMAIN b : b[k].op \notin Pseudo
      BY <1>1, <1>2, <1>3, TextOK
    <3>2. k \in Lines(m) /\ k < z /\ z \in Nat /\ k \in Nat
      BY <1>2, <1>3, <3>1 DEF Lines
    <3>3. PICK x, y : x = Before(m, k) /\ y = Before(m, z)
      OBVIOUS
    <3>4. x < y /\ x \in Nat /\ y \in Nat
      BY <1>1, <1>3, <3>2, <3>3, BeforeOK
    <3>5. e # Len(pool) + 1
      BY <1>1, <2>3, <3>3, <3>4
    <3> QED
      BY <1>2, <3>5 DEF Start
  <2>5. e = first /\ first \in 1 .. Len(pool) /\ Settled = first - 1
    BY <1>1, <1>2, <2>4 DEF Start, Settled, Current, Segment
  <2>6. Settled' = Len(pool) /\ Settled \in Int /\ Settled <= Settled' /\ Settled' \in Int
    BY <1>1, <2>2, <2>5 DEF Settled
  <2>7. Placed(e, m, z, Len(pool))'
    <3>1. PICK top : top = Len(pool)
      OBVIOUS
    <3>2. Placed(e, m, z, top)'
      BY <1>1, <2>3, <3>1, PlacedKept
    <3> QED
      BY <1>1, <3>1, <3>2
  <2>8. Registered(e, m, key)'
    <3>1. Placed(e, m, Len(text[m].body) + 1, Settled)'
      BY <1>1, <1>2, <2>6, <2>7 DEF Placed
    <3>2. \A n \in DOMAIN text : text[n].key = key => m <= n
      BY <1>1, <1>2, <1>3, <1>5, <2>1, <2>3
    <3>3. m < m + 1
      BY <1>3
    <3> QED
      BY <1>1, <2>1, <2>2, <3>1, <3>2, <3>3 DEF Registered
  <2>9. ASSUME NEW x \in DOMAIN methods' PROVE \E n \in DOMAIN text' : Registered(methods[x], n, x)'
    <3>1. CASE x = key
      <4>1. methods'[x] = e /\ m \in DOMAIN text'
        BY <1>1, <1>3, <2>2, <2>5, <3>1
      <4> QED
        BY <2>8, <3>1, <4>1 DEF Registered, Placed
    <3>2. CASE x \in DOMAIN methods
      <4>1. PICK f : f = methods[x]
        OBVIOUS
      <4>2. PICK n \in DOMAIN text : Registered(f, n, x)
        BY <3>2, <4>1 DEF RangesInv
      <4>3. n \in Int /\ meth <= meth' /\ meth' \in Int
        BY <1>1, <1>2, <1>3, <2>2
      <4>4. Registered(f, n, x)'
        BY <1>1, <2>6, <4>2, <4>3, RegisteredKept
      <4>5. methods'[x] = f /\ n \in DOMAIN text'
        BY <1>1, <2>2, <3>2, <4>1, <4>2
      <4> QED
        BY <4>4, <4>5 DEF Registered, Placed
    <3> QED
      BY <2>2, <3>1, <3>2
  <2>10. ASSUME Reading'
         PROVE  /\ line' <= Len(Body') + 1
                /\ (Start \in Nat \ {0} /\ Len(pool) + 1 = Start + Before(meth, line))'
                /\ Placed(Start, meth, line, Len(pool))'
                /\ Tracked(meth, line)' /\ Stacked(meth, line)'
    <3>1. m + 1 \in DOMAIN text
      BY <1>1, <1>3, <2>2, <2>10 DEF Reading
    <3>2. text[m + 1].body \in Seq(Sentence) /\ Before(m + 1, 1) = 0
      BY <1>1, <3>1, TextOK, BeforeOK
    <3>3. /\ \A k \in Lines(m + 1) : ~ (k < 1)
          /\ CatchLines(m + 1, 1) = {}
          /\ \A l \in Labels(m + 1) : ~ Follows(m + 1, l, 1)
      BY <1>1, <3>1, FreshRanges
    <3>4. /\ Lines(m + 1)' = Lines(m + 1) /\ CatchLines(m + 1, 1)' = CatchLines(m + 1, 1)
          /\ Labels(m + 1)' = Labels(m + 1) /\ \A l : Follows(m + 1, l, 1)' = Follows(m + 1, l, 1)
          /\ Before(m + 1, 1)' = Before(m + 1, 1)
      BY <1>1, TextFixed
    <3>5. line' <= Len(Body') + 1
      BY <1>1, <2>2, <3>2 DEF Body
    <3>6. Start' = Len(pool) + 1
      BY <1>1, <2>2 DEF Start
    <3>7. (Start \in Nat \ {0} /\ Len(pool) + 1 = Start + Before(meth, line))'
      <4>1. (Before(meth, line))' = 0
        BY <2>2, <3>2, <3>4 DEF Before
      <4> QED
        BY <1>1, <3>6, <4>1
    <3>8. Placed(Start, meth, line, Len(pool))'
      BY <2>2, <3>3, <3>4 DEF Placed
    <3>9. Tracked(m + 1, 1)'
      <4>1. CatchLines(m + 1, 1)' = {} /\ DOMAIN catches' = {} /\ DOMAIN ehset' = {}
        BY <2>2, <3>3, <3>4
      <4> QED
        BY <4>1 DEF Tracked, Range
    <3>10. Stacked(m + 1, 1)'
      <4>1. DOMAIN stack' = {} /\ Len(stack') = 0
        BY <2>2
      <4>2. Waiting(m + 1, 1)'
        BY <3>3, <3>4 DEF Waiting
      <4>3. Unbound'
        BY <4>1 DEF Unbound
      <4>4. Short(m + 1, 1)'
        <5>1. 0 \in 0 .. 1 - 1 /\ Len(stack') <= 1 - 1 - 0 /\ \A j \in 0 + 1 .. 1 - 1 : text'[m + 1].body[j].op \in Pseudo
          BY <4>1
        <5> QED
          BY <5>1, Zenon DEF Short, Pseudo
      <4> QED
        BY <4>2, <4>3, <4>4, Zenon DEF Stacked
    <3>11. Tracked(meth, line)' /\ Stacked(meth, line)'
      BY <2>2, <3>9, <3>10 DEF Tracked, Stacked, Waiting, Unbound, Short
    <3> QED
      BY <3>5, <3>7, <3>8, <3>11
  <2>11. (\A n \in DOMAIN text : n < meth => text[n].key \in DOMAIN methods)'
    <3>1. \A n \in DOMAIN text : n < m + 1 => n < m \/ n = m
      BY <1>1, <1>3
    <3> QED
      BY <1>1, <2>1, <2>2, <2>3, <3>1
  <2> QED
    BY <2>9, <2>10, <2>11 DEF RangesInv
<1> QED
  BY <1>4, <1>5

(* The parser starts with the ranges. *)
LEMMA RangesStart ==
  ASSUME Tidy, Init
  PROVE  RangesInv
<1>1. /\ text \in Classes /\ meth = 1 /\ line = 1 /\ pool = <<>> /\ jump = <<>> /\ methods = <<>>
      /\ stack = <<>> /\ catches = <<>> /\ ehset = <<>> /\ first = Invalid
  BY DEF Init
<1>2. DOMAIN methods = {} /\ DOMAIN stack = {} /\ DOMAIN catches = {} /\ DOMAIN ehset = {} /\ Len(pool) = 0
      /\ Len(stack) = 0
  BY <1>1
<1>3. ASSUME Reading
      PROVE  /\ line <= Len(Body) + 1
             /\ Start \in Nat \ {0} /\ Len(pool) + 1 = Start + Before(meth, line)
             /\ Placed(Start, meth, line, Len(pool))
             /\ Tracked(meth, line)
             /\ Stacked(meth, line)
             /\ \A n \in DOMAIN text : n < meth => text[n].key \in DOMAIN methods
  <2>1. 1 \in DOMAIN text /\ text[1].body \in Seq(Sentence) /\ DOMAIN text = 1 .. Len(text) /\ Len(text) \in Nat
    BY <1>1, <1>3, TextOK DEF Reading
  <2>2. /\ Before(1, 1) = 0 /\ CatchLines(1, 1) = {}
        /\ \A k \in Lines(1) : ~ (k < 1)
        /\ \A l \in Labels(1) : ~ Follows(1, l, 1)
    BY <1>1, <2>1, BeforeOK, FreshRanges
  <2>3. line <= Len(Body) + 1
    BY <1>1, <2>1 DEF Body
  <2>4. Start \in Nat \ {0} /\ Len(pool) + 1 = Start + Before(meth, line)
    BY <1>1, <1>2, <2>2 DEF Start
  <2>5. Placed(Start, meth, line, Len(pool))
    BY <1>1, <2>2 DEF Placed
  <2>6. Tracked(meth, line)
    BY <1>1, <1>2, <2>2 DEF Tracked, Range
  <2>7. Stacked(1, 1)
    <3>1. 0 \in 0 .. 1 - 1 /\ Len(stack) <= 1 - 1 - 0 /\ \A j \in 0 + 1 .. 1 - 1 : text[1].body[j].op \in Pseudo
      BY <1>2
    <3>2. Short(1, 1)
      BY <3>1, Zenon DEF Short, Pseudo
    <3> QED
      BY <1>2, <2>2, <3>2 DEF Stacked, Waiting, Unbound
  <2>8. \A n \in DOMAIN text : ~ (n < meth)
    BY <1>1, <2>1
  <2> QED
    BY <1>1, <2>3, <2>4, <2>5, <2>6, <2>7, <2>8
<1> QED
  BY <1>2, <1>3 DEF RangesInv

(* Every statement that the parser reads keeps the ranges. *)
LEMMA RangesKept ==
  ASSUME Tidy, ParserInv, RangesInv, Parse
  PROVE  RangesInv'
<1>1. CASE RedefinedLabel
  BY <1>1, RejectRanges DEF RedefinedLabel
<1>2. CASE TooManyCatches
  BY <1>2, RejectRanges DEF TooManyCatches
<1> QED
  BY <1>1, <1>2, LabelRanges, CatchRanges, InstructionRanges, BadInstructionRanges, EndMethodRanges DEF Parse

(* The rest of the program leaves the ranges alone. *)
LEMMA RangesUnchanged ==
  ASSUME RangesInv, UNCHANGED pvars
  PROVE  RangesInv'
<1>1. text' = text /\ meth' = meth /\ line' = line /\ pool' = pool /\ jump' = jump /\ stack' = stack
      /\ catches' = catches /\ ehset' = ehset /\ first' = first /\ methods' = methods
  BY DEF pvars
<1>2. \A m : /\ Lines(m)' = Lines(m) /\ Labels(m)' = Labels(m)
             /\ \A k : Before(m, k)' = Before(m, k)
             /\ \A l, k : Follows(m, l, k)' = Follows(m, l, k)
             /\ \A k : InForce(m, k)' = InForce(m, k)
             /\ \A r, c, k : Tracks(r, m, c, k)' = Tracks(r, m, c, k)
             /\ \A k : CatchLines(m, k)' = CatchLines(m, k)
  BY <1>1, TextFixed
<1>3. Reading' = Reading /\ Body' = Body /\ Start' = Start /\ Settled' = Settled
  BY <1>1 DEF Reading, Body, Start, Settled
<1>4. \A e, m, n, top : Placed(e, m, n, top)' = Placed(e, m, n, top)
  BY <1>1, <1>2 DEF Placed
<1>5. \A m, k : Tracked(m, k)' = Tracked(m, k)
  BY <1>1, <1>2 DEF Tracked
<1>6. \A m, k : Stacked(m, k)' = Stacked(m, k)
  BY <1>1, <1>2 DEF Stacked, Waiting, Unbound, Short
<1>7. \A e, m, k : Registered(e, m, k)' = Registered(e, m, k)
  BY <1>1, <1>3, <1>4 DEF Registered
<1>8. (Before(meth, line))' = Before(meth, line)
  BY <1>1, <1>2 DEF Before
<1>9. PICK e, m, n, top : e = Start /\ m = meth /\ n = line /\ top = Len(pool)
  OBVIOUS
<1>10. ASSUME Reading
       PROVE  Placed(Start, meth, line, Len(pool))' /\ Tracked(meth, line)' /\ Stacked(meth, line)'
  <2>1. Placed(e, m, n, top) /\ Tracked(m, n) /\ Stacked(m, n)
    BY <1>9, <1>10 DEF RangesInv
  <2>2. Placed(e, m, n, top)' /\ Tracked(m, n)' /\ Stacked(m, n)'
    BY <1>4, <1>5, <1>6, <2>1
  <2>3. e = Start' /\ m = meth' /\ n = line' /\ top = Len(pool')
    BY <1>1, <1>3, <1>9
  <2>4. Placed(Start, meth, line, Len(pool))'
    BY <2>2, <2>3 DEF Placed
  <2>5. Tracked(meth, line)'
    BY <2>2, <2>3 DEF Tracked
  <2>6. Stacked(meth, line)'
    BY <2>2, <2>3 DEF Stacked, Waiting, Unbound, Short
  <2> QED
    BY <2>4, <2>5, <2>6
<1>11. ASSUME NEW k \in DOMAIN methods' PROVE \E q \in DOMAIN text' : Registered(methods[k], q, k)'
  <2>1. PICK f : f = methods[k]
    OBVIOUS
  <2>2. PICK q \in DOMAIN text : Registered(f, q, k)
    BY <1>1, <1>11, <2>1 DEF RangesInv
  <2>3. Registered(f, q, k)' /\ methods'[k] = f /\ q \in DOMAIN text'
    BY <1>1, <1>7, <2>1, <2>2
  <2> QED
    BY <2>3 DEF Registered, Placed
<1> QED
  BY <1>1, <1>3, <1>8, <1>10, <1>11 DEF RangesInv

(* The parser never reads further than behind the last method. *)
LEMMA MethodsCounted ==
  ASSUME ParserInv, meth <= Len(text) + 1, Parse
  PROVE  (meth <= Len(text) + 1)'
<1>1. meth \in Nat /\ Len(text) \in Nat
  BY TextOK DEF ParserInv, ParserTypes
<1> QED
  BY <1>1 DEF Parse, Label, RedefinedLabel, Catch, TooManyCatches, Instruction, BadInstruction, EndMethod,
              Reject, Reading

(* What is registered is exact. *)
LEMMA RangesFollow ==
  ASSUME ParserInv, RangesInv, meth <= Len(text) + 1
  PROVE  RangesExact
<1> SUFFICES ASSUME NEW m \in 1 .. meth - 1, text[m].key \in DOMAIN methods,
                    \A n \in 1 .. m - 1 : text[n].key # text[m].key,
                    NEW n \in DOMAIN Code(m)
             PROVE  LET k == Code(m)[n]
                        i == methods[text[m].key] + n - 1
                    IN  /\ pool[i].op = text[m].body[k].op
                        /\ Range(pool[i].handlers) = InForce(m, k)
                        /\ \A l \in Labels(m) :
                             (\A j \in Position(m, l) .. k - 1 : text[m].body[j].op \in Pseudo)
                               /\ Position(m, l) < k
                             => jump[l] = i
  BY Zenon DEF RangesExact, InForce
<1>1. text \in Classes /\ meth \in Nat \ {0} /\ Len(text) \in Nat /\ DOMAIN text = 1 .. Len(text)
  BY TextOK DEF ParserInv, ParserTypes
<1>2. m \in DOMAIN text
  BY <1>1
<1>3. PICK key, e : key = text[m].key /\ e = methods[text[m].key]
  OBVIOUS
<1>4. PICK r \in DOMAIN text : Registered(e, r, key)
  BY <1>3 DEF RangesInv
<1>5. r = m
  <2>1. text[r].key = key /\ r <= m
    BY <1>2, <1>3, <1>4 DEF Registered
  <2>2. ~ (r \in 1 .. m - 1)
    BY <1>3, <2>1
  <2> QED
    BY <1>1, <1>2, <2>1, <2>2
<1>6. PICK z, top : z = Len(text[m].body) + 1 /\ top = Settled
  OBVIOUS
<1>7. Placed(e, m, z, top)
  BY <1>4, <1>5, <1>6 DEF Registered
<1>8. Lines(m) \in SUBSET Nat /\ IsFiniteSet(Lines(m)) /\ text[m].body \in Seq(Sentence)
  BY <1>1, <1>2, BeforeOK, TextOK
<1>9. PICK S, s : S = Lines(m) /\ s = Code(m)
  OBVIOUS
<1>10. s = Sorted(S) /\ S \in SUBSET Int /\ IsFiniteSet(S)
  BY <1>8, <1>9 DEF Code, Lines
<1>11. Lists(s, S) /\ Len(s) = Cardinality(S) /\ \A j \in 1 .. Cardinality(S) : Rank(S, s[j]) = j - 1
  BY <1>10, SortedLists
<1>12. s \in Seq(S) /\ n \in 1 .. Len(s)
  BY <1>9, <1>11 DEF Lists
<1>13. PICK k : k = s[n]
  OBVIOUS
<1>14. k \in Lines(m) /\ Before(m, k) = n - 1 /\ k \in DOMAIN text[m].body
  BY <1>9, <1>11, <1>12, <1>13 DEF Before, Lines
<1>15. k < z
  BY <1>6, <1>8, <1>14
<1>16. PICK i : i = e + Before(m, k)
  OBVIOUS
<1>17. /\ pool[i].op = text[m].body[k].op /\ Range(pool[i].handlers) = InForce(m, k) /\ i \in 1 .. top
       /\ \A l \in Labels(m) : Follows(m, l, k) => jump[l] = i
  BY <1>7, <1>14, <1>15, <1>16 DEF Placed
<1>18. e \in Nat
  BY <1>3 DEF ParserInv, Entry, Segment
<1>19. i = e + n - 1
  BY <1>12, <1>14, <1>16, <1>18
<1>20. \A l \in Labels(m) : (\A j \in Position(m, l) .. k - 1 : text[m].body[j].op \in Pseudo) /\ Position(m, l) < k
                            => jump[l] = i
  BY <1>17 DEF Follows
<1> QED
  BY <1>3, <1>9, <1>13, <1>17, <1>19, <1>20

(* In a class whose labels are defined once, and not in longer rows than   *)
(* the label stack holds, every instruction carries the handlers of the    *)
(* catch statements around it, and every label leads to the instruction    *)
(* behind it, in whatever order labels, catch statements and methods come  *)
(* (dalvik_method.c: label_st, current_ehset, label_stack).                *)
THEOREM RangesAreExact ==
  Spec => [](Tidy => RangesExact)
<1> DEFINE Inv == (Tidy => RangesInv) /\ meth <= Len(text) + 1
<1>1. BlockInit => Inv
  <2> SUFFICES ASSUME BlockInit PROVE Inv
    OBVIOUS
  <2>1. Init /\ meth = 1 /\ text \in Classes
    BY DEF BlockInit, Init
  <2>2. Len(text) \in Nat
    BY <2>1, TextOK
  <2> QED
    BY <2>1, <2>2, RangesStart
<1>2. BlockInv /\ Inv /\ [Next]_vars => Inv'
  <2> SUFFICES ASSUME BlockInv, Inv, [Next]_vars PROVE Inv'
    OBVIOUS
  <2>1. CASE Parse /\ UNCHANGED bvars
    <3>1. text' = text
      BY <2>1 DEF Parse, Label, RedefinedLabel, Catch, TooManyCatches, Instruction, BadInstruction, EndMethod, Reject
    <3>2. Tidy' = Tidy
      BY <3>1 DEF Tidy
    <3> QED
      BY <2>1, <3>2, RangesKept, MethodsCounted DEF BlockInv
  <2>2. CASE UNCHANGED pvars
    <3>1. meth' = meth /\ text' = text
      BY <2>2 DEF pvars
    <3>2. Tidy' = Tidy
      BY <3>1 DEF Tidy
    <3> QED
      BY <2>2, <3>1, <3>2, RangesUnchanged
  <2>3. ASSUME NEW k \in DOMAIN Bucket, Hit(k) \/ Missing(k) \/ Wild(k) \/ BuildNothing(k) \/ Build(k)
        PROVE  UNCHANGED pvars
    BY <2>3 DEF Hit, Missing, Wild, BuildNothing, Build
  <2>4. Finalize => UNCHANGED pvars
    BY DEF Finalize
  <2>5. UNCHANGED vars => UNCHANGED pvars
    BY DEF vars
  <2> QED
    BY <2>1, <2>2, <2>3, <2>4, <2>5 DEF Next
<1>3. BlockInv /\ Inv => (Tidy => RangesExact)
  BY RangesFollow DEF BlockInv
<1> QED
  BY <1>1, <1>2, <1>3, Inductive, PTL DEF Spec

=============================================================================
