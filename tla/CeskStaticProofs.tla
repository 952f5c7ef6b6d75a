-------------------------- MODULE CeskStaticProofs --------------------------
(***************************************************************************)
(* Proofs about the tables of static fields, for any number of fields and  *)
(* tables: the segment trees that the tables share keep their shape, and   *)
(* the reference counters of their nodes are exact.                        *)
(***************************************************************************)
EXTENDS CeskStatic, FiniteSetTheorems, InductionLemmas

-----------------------------------------------------------------------------
(***************************************************************************)
(* Segments and paths.                                                     *)
(***************************************************************************)
Spans == (0 .. FieldCount) \X (0 .. FieldCount)

Whole == <<0, FieldCount>>

Size(s) == s[2] - s[1]

In(f, s) == s[1] <= f /\ f < s[2]

(* The part of the path of f that has been built. *)
IsPath(p, f) ==
  /\ p \in Seq(Spans) /\ Len(p) >= 1
  /\ p[1] = Whole
  /\ \A i \in 1 .. Len(p) - 1 : ~IsLeaf(p[i]) /\ p[i + 1] = Half(p[i], Direction(p[i], f))
  /\ \A i \in 1 .. Len(p) : In(f, p[i])
  /\ \A i, j \in 1 .. Len(p) :
       i < j => p[i][1] <= p[j][1] /\ p[j][2] <= p[i][2] /\ Size(p[j]) < Size(p[i])
  /\ Size(p[Len(p)]) <= FieldCount + 1 - Len(p)

(* The half on the side of f holds f, and is smaller. *)
LEMMA HalfIn ==
  ASSUME NEW s \in Spans, NEW f \in Int, In(f, s), ~IsLeaf(s)
  PROVE  /\ Half(s, Direction(s, f)) \in Spans
         /\ In(f, Half(s, Direction(s, f)))
         /\ s[1] <= Half(s, Direction(s, f))[1] /\ Half(s, Direction(s, f))[2] <= s[2]
         /\ Size(Half(s, Direction(s, f))) < Size(s)
<1>1. PICK l, r, m : l = s[1] /\ r = s[2] /\ m = (l + r) \div 2
  OBVIOUS
<1>2. FieldCount \in Nat
  BY ConstantsAssumption
<1>3. l \in 0 .. FieldCount /\ r \in 0 .. FieldCount /\ l <= f /\ f < r /\ r - l > 1
  BY <1>1, <1>2 DEF Spans, In, IsLeaf
<1>4. m \in 0 .. FieldCount /\ l < m /\ m < r
  BY <1>1, <1>2, <1>3
<1>5. Middle(s) = m
  BY <1>1 DEF Middle
<1>6. CASE f < m
  <2>1. Half(s, Direction(s, f)) = <<l, m>>
    BY <1>1, <1>5, <1>6 DEF Half, Direction
  <2> QED
    BY <2>1, <1>1, <1>2, <1>3, <1>4, <1>6 DEF Spans, In, Size
<1>7. CASE ~(f < m)
  <2>1. Half(s, Direction(s, f)) = <<m, r>>
    BY <1>1, <1>5, <1>7 DEF Half, Direction
  <2> QED
    BY <2>1, <1>1, <1>2, <1>3, <1>4, <1>7 DEF Spans, In, Size
<1> QED
  BY <1>6, <1>7

(* The half that holds f is the one on its side. *)
LEMMA HalfDirection ==
  ASSUME NEW s \in Spans, NEW f \in Int, NEW d \in 1 .. 2, In(f, Half(s, d))
  PROVE  Direction(s, f) = d
<1>1. PICK l, r, m : l = s[1] /\ r = s[2] /\ m = Middle(s) /\ m \in Int
  BY ConstantsAssumption DEF Middle, Spans
<1>2. d = 1 \/ d = 2
  OBVIOUS
<1>3. CASE d = 1
  BY <1>1, <1>3 DEF Half, Direction, In
<1>4. CASE d = 2
  BY <1>1, <1>4 DEF Half, Direction, In
<1> QED
  BY <1>2, <1>3, <1>4

(* One more segment. *)
LEMMA DescendPath ==
  ASSUME NEW f \in Fields, NEW p, IsPath(p, f)
  PROVE  /\ IsPath(Descend(p, f), f)
         /\ IsLeaf(p[Len(p)]) => Descend(p, f) = p
         /\ ~IsLeaf(p[Len(p)]) => Len(Descend(p, f)) = Len(p) + 1
<1>1. FieldCount \in Nat /\ f \in Int
  BY ConstantsAssumption DEF Fields
<1>2. p \in Seq(Spans) /\ Len(p) >= 1 /\ Len(p) \in Nat
  BY DEF IsPath
<1>3. PICK s : s = p[Len(p)]
  OBVIOUS
<1>4. s \in Spans /\ In(f, s) /\ Last(p) = s
  BY <1>2, <1>3 DEF IsPath, Last
<1>5. CASE IsLeaf(s)
  <2>1. Descend(p, f) = p
    BY <1>4, <1>5 DEF Descend
  <2> QED
    BY <2>1, <1>3, <1>5
<1>6. CASE ~IsLeaf(s)
  <2>1. PICK t : t = Half(s, Direction(s, f))
    OBVIOUS
  <2>2. t \in Spans /\ In(f, t) /\ s[1] <= t[1] /\ t[2] <= s[2] /\ Size(t) < Size(s)
    BY <2>1, <1>1, <1>4, <1>6, HalfIn
  <2>3. PICK q : q = Append(p, t)
    OBVIOUS
  <2>4. Descend(p, f) = q
    BY <2>1, <2>3, <1>4, <1>6 DEF Descend
  <2>5. q \in Seq(Spans) /\ Len(q) = Len(p) + 1 /\ q[Len(q)] = t
        /\ \A i \in 1 .. Len(p) : q[i] = p[i]
    BY <2>2, <2>3, <1>2
  <2>6. q[1] = Whole
    BY <2>5, <1>2 DEF IsPath
  <2>7. ASSUME NEW i \in 1 .. Len(q) - 1
        PROVE  ~IsLeaf(q[i]) /\ q[i + 1] = Half(q[i], Direction(q[i], f))
    <3>1. CASE i = Len(p)
      BY <3>1, <2>1, <2>5, <1>2, <1>3, <1>6
    <3>2. CASE i # Len(p)
      <4>1. i \in 1 .. Len(p) - 1 /\ i \in 1 .. Len(p) /\ i + 1 \in 1 .. Len(p)
        BY <3>2, <2>5, <1>2
      <4>2. q[i] = p[i] /\ q[i + 1] = p[i + 1]
        BY <4>1, <2>5
      <4> QED
        BY <4>1, <4>2 DEF IsPath
    <3> QED
      BY <3>1, <3>2
  <2>8. ASSUME NEW i \in 1 .. Len(q) PROVE In(f, q[i])
    <3>1. CASE i = Len(q)
      BY <3>1, <2>2, <2>5
    <3>2. CASE i # Len(q)
      <4>1. i \in 1 .. Len(p)
        BY <3>2, <2>5, <1>2
      <4> QED
        BY <4>1, <2>5 DEF IsPath
    <3> QED
      BY <3>1, <3>2
  <2>9. \A i \in 1 .. Len(p) : p[i] \in Spans
    BY <1>2
  <2>10. ASSUME NEW i \in 1 .. Len(p)
         PROVE  p[i][1] <= s[1] /\ s[2] <= p[i][2] /\ Size(s) <= Size(p[i])
    <3>1. CASE i = Len(p)
      BY <3>1, <2>9, <1>1, <1>3, <1>4 DEF Spans, Size
    <3>2. CASE i # Len(p)
      <4>1. i < Len(p) /\ Len(p) \in 1 .. Len(p)
        BY <3>2, <1>2
      <4>2. p[i][1] <= s[1] /\ s[2] <= p[i][2] /\ Size(s) < Size(p[i])
        BY <4>1, <1>3 DEF IsPath
      <4> QED
        BY <4>2, <2>9, <1>1, <1>4 DEF Spans, Size
    <3> QED
      BY <3>1, <3>2
  <2>11. ASSUME NEW i \in 1 .. Len(q), NEW j \in 1 .. Len(q), i < j
         PROVE  q[i][1] <= q[j][1] /\ q[j][2] <= q[i][2] /\ Size(q[j]) < Size(q[i])
    <3>0. i \in 1 .. Len(p)
      BY <2>11, <2>5, <1>2
    <3>1. CASE j = Len(q)
      <4>1. PICK u : u = p[i]
        OBVIOUS
      <4>2. u \in Spans /\ u[1] <= s[1] /\ s[2] <= u[2] /\ Size(s) <= Size(u)
        BY <4>1, <3>0, <2>9, <2>10
      <4>3. u[1] <= t[1] /\ t[2] <= u[2] /\ Size(t) < Size(u)
        BY <4>2, <2>2, <1>1, <1>4 DEF Spans, Size
      <4>4. q[j] = t /\ q[i] = u
        BY <4>1, <3>0, <3>1, <2>5
      <4> QED
        BY <4>3, <4>4
    <3>2. CASE j # Len(q)
      <4>1. j \in 1 .. Len(p)
        BY <3>2, <2>5, <1>2
      <4> QED
        BY <4>1, <3>0, <2>5, <2>11 DEF IsPath
    <3> QED
      BY <3>1, <3>2
  <2>12. Size(q[Len(q)]) <= FieldCount + 1 - Len(q)
    <3>1. Size(s) <= FieldCount + 1 - Len(p)
      BY <1>3 DEF IsPath
    <3> QED
      BY <3>1, <2>2, <2>5, <1>1, <1>2, <1>4 DEF Spans, Size
  <2>13. IsPath(q, f)
    BY <2>5, <2>6, <2>7, <2>8, <2>11, <2>12, <1>2 DEF IsPath
  <2> QED
    BY <2>4, <2>5, <2>13, <1>3, <1>6
<1> QED
  BY <1>5, <1>6

(* The path to a field runs from the whole range to the leaf of the field. *)
LEMMA PathIs ==
  ASSUME NEW f \in Fields
  PROVE  IsPath(Path[f], f) /\ IsLeaf(Path[f][Len(Path[f])])
<1> DEFINE N == FieldCount
           x == << <<0, FieldCount>> >>
           T(p) == Descend(p, f)
           X == {p \in Seq(Spans) : IsPath(p, f)}
           F == [i \in 1 .. N |-> [p \in X |-> T(p)]]
           Def(r) == [k \in 0 .. N |-> IF k = 0 THEN x ELSE T(r[k - 1])]
           path == CHOOSE r : r = Def(r)
<1>0. Path[f] = path[N]
  <2>1. PathTo(f) = path[N]
    BY Zenon DEF PathTo
  <2> QED
    BY <2>1 DEF Path
<1>1. N \in Nat /\ N >= 1 /\ f \in 0 .. N - 1
  BY ConstantsAssumption DEF Fields
<1>2. x \in X /\ Len(x) = 1
  <2>1. Whole \in Spans /\ x = <<Whole>> /\ In(f, Whole) /\ Size(Whole) = N
    BY <1>1 DEF Whole, Spans, In, Size
  <2>2. x \in Seq(Spans) /\ Len(x) = 1 /\ x[1] = Whole
    BY <2>1
  <2> HIDE DEF x
  <2> QED
    BY <1>1, <2>1, <2>2 DEF IsPath
<1> HIDE DEF x
<1>3. ASSUME NEW p \in X PROVE T(p) \in X
  BY DescendPath DEF IsPath
<1> HIDE DEF T, X
<1>4. F \in [1 .. N -> [X -> X]]
  BY <1>3
<1>5. PICK g : IteratesFrom(g, N, X, x, F)
  <2> HIDE DEF F
  <2> QED
    BY <1>1, <1>2, <1>4, Iteration
<1>6. g \in [0 .. N -> X] /\ g[0] = x /\ \A i \in 1 .. N : g[i] = F[i][g[i - 1]]
  BY <1>5 DEF IteratesFrom
<1>7. ASSUME NEW i \in 1 .. N PROVE g[i] = T(g[i - 1])
  <2>1. g[i - 1] \in X
    BY <1>1, <1>6
  <2>2. F[i][g[i - 1]] = T(g[i - 1])
    BY <2>1, Zenon
  <2> QED
    BY <1>6, <2>2
<1> HIDE DEF F
<1>8. \A i \in 0 .. N : g[i] = IF i = 0 THEN x ELSE T(g[i - 1])
  <2>1. \A i \in 0 .. N : i = 0 \/ i \in 1 .. N
    BY <1>1
  <2> QED
    BY <2>1, <1>6, <1>7
<1>9. \E r : r = Def(r)
  BY <1>6, <1>8
<1>10. path = Def(path)
  <2> HIDE DEF Def
  <2> QED
    BY <1>9, Zenon
<1> HIDE DEF path
<1> DEFINE S == {i \in 0 .. N : path[i] \in X
                                /\ (IsLeaf(path[i][Len(path[i])]) \/ Len(path[i]) = i + 1)}
<1>11. 0 \in S
  BY <1>1, <1>2, <1>10
<1>12. ASSUME NEW i \in 0 .. N - 1, i \in S PROVE i + 1 \in S
  <2>1. i + 1 \in 1 .. N /\ i + 1 \in 0 .. N /\ (i + 1) - 1 = i /\ i + 1 # 0
    BY <1>1
  <2>2. path[i + 1] = Def(path)[i + 1]
    BY <1>10
  <2>3. Def(path)[i + 1] = T(path[(i + 1) - 1])
    BY <2>1
  <2>4. PICK p, q : p = path[i] /\ q = path[i + 1]
    OBVIOUS
  <2>5. q = T(p) /\ p \in X /\ (IsLeaf(p[Len(p)]) \/ Len(p) = i + 1)
    BY <2>1, <2>2, <2>3, <2>4, <1>12
  <2>6. q \in X
    BY <2>5, <1>3
  <2>7. IsPath(p, f)
    BY <2>5 DEF X
  <2>8. IsLeaf(q[Len(q)]) \/ Len(q) = (i + 1) + 1
    <3>1. CASE IsLeaf(p[Len(p)])
      BY <3>1, <2>5, <2>7, DescendPath DEF T
    <3>2. CASE ~IsLeaf(p[Len(p)])
      BY <3>2, <2>5, <2>7, DescendPath DEF T
    <3> QED
      BY <3>1, <3>2
  <2> QED
    BY <2>1, <2>4, <2>6, <2>8
<1>13. N \in S
  <2> HIDE DEF S
  <2>1. 0 .. N \subseteq S
    BY <1>1, <1>11, <1>12, SetInduction
  <2> QED
    BY <2>1, <1>1
<1>14. PICK p : p = path[N]
  OBVIOUS
<1>15. IsPath(p, f) /\ (IsLeaf(p[Len(p)]) \/ Len(p) = N + 1)
  BY <1>13, <1>14 DEF X
<1>16. Len(p) # N + 1
  <2>1. SUFFICES ASSUME Len(p) = N + 1 PROVE FALSE
    OBVIOUS
  <2>2. PICK s : s = p[Len(p)]
    OBVIOUS
  <2>3. Len(p) \in 1 .. Len(p) /\ s \in Spans
    BY <2>2, <1>15 DEF IsPath
  <2>4. In(f, s) /\ Size(s) <= N + 1 - Len(p)
    BY <2>2, <2>3, <1>15 DEF IsPath
  <2> QED
    BY <2>1, <2>3, <2>4, <1>1 DEF In, Size, Spans
<1> QED
  BY <1>0, <1>14, <1>15, <1>16

(* The facts about paths that the proofs use. *)
LEMMA PathFacts ==
  ASSUME NEW f \in Fields
  PROVE  /\ Path[f] \in Seq(Spans) /\ Len(Path[f]) \in Nat \ {0}
         /\ Path[f][1] = Whole
         /\ \A i \in 1 .. Len(Path[f]) :
              /\ Path[f][i] \in Spans /\ Path[f][i] \in Segments
              /\ In(f, Path[f][i])
              /\ IsLeaf(Path[f][i]) <=> i = Len(Path[f])
              /\ i # Len(Path[f]) => Path[f][i + 1] = Half(Path[f][i], Direction(Path[f][i], f))
         /\ \A i, j \in 1 .. Len(Path[f]) : i < j => /\ Path[f][i][1] <= Path[f][j][1]
                                                     /\ Path[f][j][2] <= Path[f][i][2]
                                                     /\ Size(Path[f][j]) < Size(Path[f][i])
<1>1. PICK p : p = Path[f]
  OBVIOUS
<1>2. IsPath(p, f) /\ IsLeaf(p[Len(p)])
  BY <1>1, PathIs
<1>3. p \in Seq(Spans) /\ Len(p) \in Nat \ {0} /\ p[1] = Whole
  BY <1>2 DEF IsPath
<1>4. ASSUME NEW i \in 1 .. Len(p)
      PROVE  /\ p[i] \in Spans /\ p[i] \in Segments
             /\ In(f, p[i])
             /\ IsLeaf(p[i]) <=> i = Len(p)
             /\ i # Len(p) => p[i + 1] = Half(p[i], Direction(p[i], f))
  <2>1. p[i] \in Spans /\ In(f, p[i])
    BY <1>2, <1>3 DEF IsPath
  <2>2. p[i] \in Segments
    BY <1>1, <1>3 DEF Segments, ToSet
  <2>3. i = Len(p) \/ i \in 1 .. Len(p) - 1
    BY <1>3
  <2>4. i # Len(p) => ~IsLeaf(p[i]) /\ p[i + 1] = Half(p[i], Direction(p[i], f))
    BY <2>3, <1>2 DEF IsPath
  <2> QED
    BY <2>1, <2>2, <2>4, <1>2
<1>5. \A i, j \in 1 .. Len(p) : i < j => p[i][1] <= p[j][1] /\ p[j][2] <= p[i][2]
                                         /\ Size(p[j]) < Size(p[i])
  BY <1>2 DEF IsPath
<1> QED
  BY <1>1, <1>3, <1>4, <1>5

(* The segments of a path are different. *)
LEMMA PathDistinct ==
  ASSUME NEW f \in Fields, NEW i \in 1 .. Len(Path[f]), NEW j \in 1 .. Len(Path[f]),
         Path[f][i] = Path[f][j]
  PROVE  i = j
<1>1. Len(Path[f]) \in Nat /\ FieldCount \in Nat /\ Path[f][i] \in Spans
  BY PathFacts, ConstantsAssumption
<1>2. PICK s : s = Path[f][i]
  OBVIOUS
<1>3. Size(s) \in Int
  BY <1>1, <1>2 DEF Spans, Size
<1>4. ~(i < j) /\ ~(j < i)
  <2>1. ASSUME i < j PROVE FALSE
    <3>1. Size(s) < Size(s)
      BY <2>1, <1>2, PathFacts
    <3> QED
      BY <3>1, <1>3
  <2>2. ASSUME j < i PROVE FALSE
    <3>1. Size(s) < Size(s)
      BY <2>2, <1>2, PathFacts
    <3> QED
      BY <3>1, <1>3
  <2> QED
    BY <2>1, <2>2
<1> QED
  BY <1>1, <1>4

(* The paths to two fields of a segment agree down to it. *)
LEMMA PathsAgree ==
  ASSUME NEW f \in Fields, NEW g \in Fields, NEW i \in 1 .. Len(Path[f]), In(g, Path[f][i])
  PROVE  /\ i \in 1 .. Len(Path[g])
         /\ \A j \in 1 .. i : j \in 1 .. Len(Path[g]) /\ Path[g][j] = Path[f][j]
<1>1. PICK p, q : p = Path[f] /\ q = Path[g]
  OBVIOUS
<1>2. Len(p) \in Nat /\ Len(q) \in Nat \ {0} /\ FieldCount \in Nat /\ f \in Int /\ g \in Int
  BY <1>1, PathFacts, ConstantsAssumption DEF Fields
<1> DEFINE N == i - 1
           S == {k \in 0 .. N : k + 1 \in 1 .. Len(q) /\ q[k + 1] = p[k + 1]}
<1>3. N \in Nat /\ i \in 1 .. Len(p)
  BY <1>1, <1>2
<1>4. 0 \in S
  BY <1>1, <1>2, <1>3, PathFacts
<1>5. ASSUME NEW k \in 0 .. N - 1, k \in S PROVE k + 1 \in S
  <2>1. k + 1 \in 1 .. Len(q) /\ q[k + 1] = p[k + 1] /\ k + 1 \in 0 .. N
        /\ k + 1 \in 1 .. Len(p) /\ k + 1 # Len(p) /\ (k + 1) + 1 \in 1 .. Len(p)
    BY <1>2, <1>3, <1>5, SMTT(30)
  <2>2. PICK s : s = p[k + 1]
    OBVIOUS
  <2>3. s \in Spans /\ ~IsLeaf(s) /\ p[(k + 1) + 1] = Half(s, Direction(s, f))
    BY <2>1, <2>2, <1>1, PathFacts
  <2>4. k + 1 # Len(q)
    BY <2>1, <2>2, <2>3, <1>1, PathFacts
  <2>5. (k + 1) + 1 \in 1 .. Len(q) /\ q[(k + 1) + 1] = Half(s, Direction(s, g))
    BY <2>1, <2>2, <2>4, <1>1, <1>2, PathFacts
  <2>6. In(g, p[(k + 1) + 1])
    <3>1. CASE (k + 1) + 1 = i
      BY <3>1, <1>1
    <3>2. CASE (k + 1) + 1 # i
      <4>1. (k + 1) + 1 < i
        BY <3>2, <2>1, <1>2
      <4>2. PICK u, w : u = p[(k + 1) + 1] /\ w = p[i]
        OBVIOUS
      <4>3. u[1] <= w[1] /\ w[2] <= u[2] /\ u \in Spans /\ w \in Spans
        BY <4>1, <4>2, <2>1, <1>1, <1>3, PathFacts
      <4> QED
        BY <4>2, <4>3, <1>1, <1>2, SMTT(30) DEF In, Spans
    <3> QED
      BY <3>1, <3>2
  <2>7. Direction(s, f) \in 1 .. 2
    BY DEF Direction
  <2>8. Direction(s, g) = Direction(s, f)
    BY <2>3, <2>6, <2>7, <1>2, HalfDirection
  <2> QED
    BY <2>1, <2>3, <2>5, <2>8
<1>6. 0 .. N \subseteq S
  <2> HIDE DEF S
  <2> QED
    BY <1>3, <1>4, <1>5, SetInduction
<1>7. ASSUME NEW j \in 1 .. i PROVE j \in 1 .. Len(q) /\ q[j] = p[j]
  <2>1. j - 1 \in 0 .. N /\ (j - 1) + 1 = j
    BY <1>3
  <2> QED
    BY <2>1, <1>6
<1> QED
  BY <1>1, <1>2, <1>7

(* The level of a segment in the tree, 1 for the whole range. *)
LevelOf(s) == CHOOSE i \in 1 .. Len(Path[s[1]]) : Path[s[1]][i] = s

(* A segment is on the path of each of its fields, at its level only. *)
LEMMA SegmentLevel ==
  ASSUME NEW s \in Segments
  PROVE  /\ s \in Spans /\ s[1] \in Fields /\ In(s[1], s)
         /\ LevelOf(s) \in Nat \ {0}
         /\ \A f \in Fields : In(f, s) => /\ LevelOf(s) \in 1 .. Len(Path[f])
                                          /\ Path[f][LevelOf(s)] = s
         /\ \A f \in Fields : \A i \in 1 .. Len(Path[f]) : Path[f][i] = s => i = LevelOf(s)
<1>1. PICK f \in Fields : s \in ToSet(Path[f])
  BY DEF Segments
<1>2. PICK i \in 1 .. Len(Path[f]) : s = Path[f][i]
  BY <1>1, PathFacts DEF ToSet
<1>3. FieldCount \in Nat
  BY ConstantsAssumption
<1>4. s \in Spans /\ In(f, s)
  BY <1>2, PathFacts
<1>5. s[1] \in Fields /\ In(s[1], s)
  BY <1>3, <1>4 DEF In, Spans, Fields
<1>6. i \in 1 .. Len(Path[s[1]]) /\ Path[s[1]][i] = s
  <2>1. \A j \in 1 .. i : j \in 1 .. Len(Path[s[1]]) /\ Path[s[1]][j] = Path[f][j]
    BY <1>2, <1>5, PathsAgree
  <2>2. i \in 1 .. i
    BY PathFacts
  <2> QED
    BY <1>2, <2>1, <2>2
<1>7. LevelOf(s) \in 1 .. Len(Path[s[1]]) /\ Path[s[1]][LevelOf(s)] = s
  BY <1>6, Zenon DEF LevelOf
<1>8. Len(Path[s[1]]) \in Nat
  BY <1>5, PathFacts
<1>9. ASSUME NEW g \in Fields, In(g, s)
      PROVE  LevelOf(s) \in 1 .. Len(Path[g]) /\ Path[g][LevelOf(s)] = s
  <2>1. PICK k : k = LevelOf(s)
    OBVIOUS
  <2>2. k \in 1 .. Len(Path[s[1]]) /\ In(g, Path[s[1]][k]) /\ k \in 1 .. k
    BY <2>1, <1>7, <1>8, <1>9
  <2>3. \A j \in 1 .. k : j \in 1 .. Len(Path[g]) /\ Path[g][j] = Path[s[1]][j]
    BY <2>2, <1>5, PathsAgree
  <2> QED
    BY <2>1, <2>2, <2>3, <1>7
<1>10. ASSUME NEW g \in Fields, NEW k \in 1 .. Len(Path[g]), Path[g][k] = s
       PROVE  k = LevelOf(s)
  <2>1. In(g, s)
    BY <1>10, PathFacts
  <2>2. LevelOf(s) \in 1 .. Len(Path[g]) /\ Path[g][LevelOf(s)] = s
    BY <2>1, <1>9
  <2> QED
    BY <2>2, <1>10, PathDistinct
<1> QED
  BY <1>4, <1>5, <1>7, <1>8, <1>9, <1>10

LEMMA WholeLevel == Whole \in Segments /\ LevelOf(Whole) = 1
<1>1. 0 \in Fields
  BY ConstantsAssumption DEF Fields
<1>2. 1 \in 1 .. Len(Path[0]) /\ Path[0][1] = Whole
  BY <1>1, PathFacts
<1>3. Whole \in Segments
  BY <1>1, <1>2, PathFacts
<1> QED
  BY <1>1, <1>2, <1>3, SegmentLevel

(* A half of a segment is one level deeper. *)
LEMMA HalfLevel ==
  ASSUME NEW s \in Segments, ~IsLeaf(s), NEW d \in 1 .. 2, Half(s, d) \in Segments
  PROVE  /\ LevelOf(Half(s, d)) = LevelOf(s) + 1
         /\ \A f \in Fields : In(f, Half(s, d)) => In(f, s) /\ Direction(s, f) = d
<1>1. PICK u : u = Half(s, d)
  OBVIOUS
<1>2. s \in Spans /\ u \in Segments /\ FieldCount \in Nat
  BY <1>1, SegmentLevel, ConstantsAssumption
<1>3. ASSUME NEW f \in Fields, In(f, u) PROVE In(f, s) /\ Direction(s, f) = d
  <2>1. f \in Int
    BY <1>2 DEF Fields
  <2>2. Direction(s, f) = d
    BY <2>1, <1>1, <1>2, <1>3, HalfDirection
  <2>3. PICK l, r, m : l = s[1] /\ r = s[2] /\ m = Middle(s) /\ m = (l + r) \div 2
    BY DEF Middle
  <2>4. l \in Int /\ r \in Int /\ r - l > 1
    BY <2>3, <1>2 DEF Spans, IsLeaf
  <2>5. l <= m /\ m <= r /\ m \in Int
    BY <2>3, <2>4
  <2>6. u = <<l, m>> \/ u = <<m, r>>
    BY <2>3, <1>1 DEF Half
  <2>7. In(f, s)
    BY <2>1, <2>3, <2>4, <2>5, <2>6, <1>3 DEF In
  <2> QED
    BY <2>2, <2>7
<1>4. PICK f \in Fields : In(f, u)
  BY <1>2, SegmentLevel
<1>5. PICK k : k = LevelOf(s)
  OBVIOUS
<1>6. k \in 1 .. Len(Path[f]) /\ Path[f][k] = s /\ Direction(s, f) = d
  BY <1>3, <1>4, <1>5, SegmentLevel
<1>7. k # Len(Path[f]) /\ Path[f][k + 1] = u /\ k + 1 \in 1 .. Len(Path[f])
  BY <1>1, <1>4, <1>6, PathFacts
<1>8. k + 1 = LevelOf(u)
  BY <1>2, <1>4, <1>7, SegmentLevel
<1> QED
  BY <1>1, <1>3, <1>5, <1>8

(* A segment is one half of one segment. *)
LEMMA HalfOnce ==
  ASSUME NEW s \in Segments, ~IsLeaf(s), NEW d \in 1 .. 2, Half(s, d) \in Segments,
         NEW u \in Segments, ~IsLeaf(u), NEW e \in 1 .. 2, Half(u, e) = Half(s, d)
  PROVE  s = u /\ d = e
<1>1. PICK f \in Fields : In(f, Half(s, d))
  BY SegmentLevel
<1>2. In(f, s) /\ Direction(s, f) = d /\ In(f, u) /\ Direction(u, f) = e
  BY <1>1, HalfLevel
<1>3. LevelOf(s) = LevelOf(u)
  <2>1. LevelOf(s) + 1 = LevelOf(u) + 1
    BY HalfLevel
  <2>2. LevelOf(s) \in Nat /\ LevelOf(u) \in Nat
    BY SegmentLevel
  <2> QED
    BY <2>1, <2>2
<1>4. Path[f][LevelOf(s)] = s /\ Path[f][LevelOf(u)] = u
  BY <1>2, SegmentLevel
<1> QED
  BY <1>2, <1>3, <1>4

LEMMA HalfNotWhole ==
  ASSUME NEW s \in Segments, ~IsLeaf(s), NEW d \in 1 .. 2, Half(s, d) \in Segments
  PROVE  Half(s, d) # Whole
<1>1. LevelOf(s) \in Nat \ {0} /\ LevelOf(Half(s, d)) = LevelOf(s) + 1
  BY HalfLevel, SegmentLevel
<1> QED
  BY <1>1, WholeLevel

LEMMA PlacesFinite == IsFiniteSet(Segments) /\ IsFiniteSet(Places)
<1>1. FieldCount \in Nat /\ IsFiniteSet(Tables)
  BY ConstantsAssumption, PointersAssumption
<1>2. IsFiniteSet(Spans)
  <2>1. IsFiniteSet(0 .. FieldCount)
    BY <1>1, FS_Interval
  <2> QED
    BY <2>1, FS_Product DEF Spans
<1>3. Segments \subseteq Spans
  BY SegmentLevel
<1>4. IsFiniteSet(Segments)
  BY <1>2, <1>3, FS_Subset
<1>5. Cardinality(Tables) \in Nat
  BY <1>1, FS_CardinalityType
<1>6. IsFiniteSet(1 .. Cardinality(Tables) + 1)
  BY <1>5, FS_Interval
<1> QED
  BY <1>4, <1>6, FS_Product DEF Places

-----------------------------------------------------------------------------
(***************************************************************************)
(* The inductive invariant: the nodes form segment trees, a free node has  *)
(* no pointers, and every counter is exact.  It is stated of a memory h    *)
(* and root pointers R, which are in the middle of an operation those of a *)
(* tree that is being changed.                                             *)
(***************************************************************************)
Pointers == Places \cup {Nil}

NodeRec ==
  [refcnt : Nat, reloc : BOOLEAN, value : SUBSET Addresses, child : [1 .. 2 -> Pointers]]

Heaps == [Places -> NodeRec]

(* A pointer leads from a segment to the half on its side. *)
Shape(h) ==
  \A a \in Places : \A d \in 1 .. 2 : h[a].child[d] # Nil =>
    ~IsLeaf(SegmentOf(a)) /\ SegmentOf(h[a].child[d]) = Half(SegmentOf(a), d)

FreeEmpty(h) == \A a \in Places : h[a].refcnt = 0 => \A d \in 1 .. 2 : h[a].child[d] = Nil

RootNodes == {a \in Places : SegmentOf(a) = Whole}

Roots == [Tables -> RootNodes \cup {Nil, NoTable}]

RootsOf(R, a) == {t \in Tables : R[t] = a}

Parents(h, a) == {p \in Places : \E d \in 1 .. 2 : h[p].child[d] = a}

Exact(h, R) ==
  \A a \in Places : h[a].refcnt = Cardinality(RootsOf(R, a)) + Cardinality(Parents(h, a))

Good(h, R) == h \in Heaps /\ R \in Roots /\ Shape(h) /\ FreeEmpty(h) /\ Exact(h, R)

LEMMA NodeFields ==
  ASSUME NEW h \in Heaps, NEW a \in Places
  PROVE  /\ h[a] \in NodeRec
         /\ h[a].refcnt \in Nat /\ h[a].reloc \in BOOLEAN /\ h[a].value \in SUBSET Addresses
         /\ h[a].child \in [1 .. 2 -> Pointers]
         /\ h[a].child[1] \in Pointers /\ h[a].child[2] \in Pointers
<1>1. h[a] \in NodeRec
  BY DEF Heaps
<1>2. h[a].child \in [1 .. 2 -> Pointers]
  BY <1>1 DEF NodeRec
<1>3. 1 \in 1 .. 2 /\ 2 \in 1 .. 2
  OBVIOUS
<1>4. h[a].child[1] \in Pointers /\ h[a].child[2] \in Pointers
  BY <1>2, <1>3
<1> QED
  BY <1>1, <1>2, <1>4 DEF NodeRec

LEMMA PlaceIs ==
  ASSUME NEW a \in Places
  PROVE  /\ SegmentOf(a) \in Segments /\ a # Nil /\ a # NoTable
         /\ a = <<SegmentOf(a), a[2]>> /\ a[2] \in 1 .. Cardinality(Tables) + 1
BY PointersAssumption DEF Places, SegmentOf

LEMMA ChildIs ==
  ASSUME NEW h \in Heaps, NEW a \in Places, NEW d \in 1 .. 2
  PROVE  h[a].child[d] \in Pointers
BY NodeFields

-----------------------------------------------------------------------------
(***************************************************************************)
(* The nodes on the way to a field.                                        *)
(***************************************************************************)
LEMMA NodesFacts ==
  ASSUME NEW h \in Heaps, Shape(h), NEW r \in RootNodes \cup {Nil}, NEW f \in Fields
  PROVE  /\ DOMAIN Nodes(h, r, f) = 1 .. Len(Path[f])
         /\ Nodes(h, r, f)[1] = r
         /\ \A i \in 1 .. Len(Path[f]) :
              /\ Nodes(h, r, f)[i] \in Pointers
              /\ Nodes(h, r, f)[i] # Nil => SegmentOf(Nodes(h, r, f)[i]) = Path[f][i]
              /\ i # Len(Path[f]) =>
                   Nodes(h, r, f)[i + 1] = Child(h, Nodes(h, r, f)[i], Direction(Path[f][i], f))
<1> DEFINE L == Len(Path[f])
           N == L - 1
           C(n, i) == Child(h, n, Direction(Path[f][i], f))
           F == [i \in 1 .. N |-> [n \in Pointers |-> C(n, i)]]
           Def(w) == [i \in 1 .. L |-> IF i = 1 THEN r ELSE C(w[i - 1], i - 1)]
           at == CHOOSE w : w = Def(w)
<1>0. Nodes(h, r, f) = at
  BY Zenon DEF Nodes
<1>1. L \in Nat \ {0} /\ N \in Nat
  BY PathFacts
<1>2. r \in Pointers
  BY DEF RootNodes, Pointers
<1>3. ASSUME NEW n \in Pointers, NEW i \in 1 .. N PROVE C(n, i) \in Pointers
  <2>1. Direction(Path[f][i], f) \in 1 .. 2
    BY DEF Direction
  <2>2. CASE n = Nil
    BY <2>2 DEF Child, Pointers
  <2>3. CASE n # Nil
    <3>1. n \in Places
      BY <2>3 DEF Pointers
    <3> QED
      BY <3>1, <2>1, <2>3, ChildIs DEF Child
  <2> QED
    BY <2>2, <2>3
<1> HIDE DEF L, C
<1>4. F \in [1 .. N -> [Pointers -> Pointers]]
  BY <1>3
<1>5. PICK g : IteratesFrom(g, N, Pointers, r, F)
  <2> HIDE DEF F, N
  <2> QED
    BY <1>1, <1>2, <1>4, Iteration
<1>6. g \in [0 .. N -> Pointers] /\ g[0] = r /\ \A i \in 1 .. N : g[i] = F[i][g[i - 1]]
  BY <1>5 DEF IteratesFrom
<1>7. ASSUME NEW i \in 1 .. N PROVE g[i] = C(g[i - 1], i)
  <2>1. g[i - 1] \in Pointers
    BY <1>1, <1>6
  <2>2. F[i][g[i - 1]] = C(g[i - 1], i)
    BY <2>1, Zenon
  <2> QED
    BY <1>6, <2>2
<1> HIDE DEF F
<1>8. \E w : w = Def(w)
  <2> DEFINE w == [i \in 1 .. L |-> g[i - 1]]
  <2>1. ASSUME NEW i \in 1 .. L PROVE w[i] = IF i = 1 THEN r ELSE C(w[i - 1], i - 1)
    <3>1. w[i] = g[i - 1]
      OBVIOUS
    <3>2. CASE i = 1
      BY <3>1, <3>2, <1>6
    <3>3. CASE i # 1
      <4>1. i - 1 \in 1 .. N /\ i - 1 \in 1 .. L
        BY <3>3, <1>1
      <4>2. g[i - 1] = C(g[(i - 1) - 1], i - 1) /\ w[i - 1] = g[(i - 1) - 1]
        BY <4>1, <1>7
      <4> QED
        BY <3>1, <3>3, <4>2
    <3> QED
      BY <3>2, <3>3
  <2>2. w = [i \in 1 .. L |-> w[i]]
    OBVIOUS
  <2> HIDE DEF w
  <2>3. w = Def(w)
    BY <2>1, <2>2
  <2> QED
    BY <2>3
<1>9. at = Def(at)
  <2> HIDE DEF Def
  <2> QED
    BY <1>8, Zenon
<1> HIDE DEF at
<1>10. DOMAIN at = 1 .. L /\ at[1] = r
  BY <1>1, <1>9
<1>11. ASSUME NEW i \in 1 .. L, i # L PROVE at[i + 1] = C(at[i], i) /\ i + 1 \in 1 .. L
  <2>1. i + 1 \in 1 .. L /\ i + 1 # 1 /\ (i + 1) - 1 = i
    BY <1>1, <1>11
  <2>2. at[i + 1] = Def(at)[i + 1]
    BY <1>9
  <2>3. Def(at)[i + 1] = C(at[(i + 1) - 1], (i + 1) - 1)
    BY <2>1
  <2> QED
    BY <2>1, <2>2, <2>3
<1> HIDE DEF Def
<1> DEFINE S == {k \in 0 .. N : at[k + 1] \in Pointers
                                /\ (at[k + 1] # Nil => SegmentOf(at[k + 1]) = Path[f][k + 1])}
<1>12. 0 \in S
  BY <1>1, <1>2, <1>10, PathFacts DEF RootNodes
<1>13. ASSUME NEW k \in 0 .. N - 1, k \in S PROVE k + 1 \in S
  <2>1. k + 1 \in 1 .. L /\ k + 1 # L /\ k + 1 \in 1 .. N /\ k + 1 \in 0 .. N
    BY <1>1
  <2>2. PICK n, m : n = at[k + 1] /\ m = at[(k + 1) + 1]
    OBVIOUS
  <2>3. m = C(n, k + 1) /\ n \in Pointers /\ (n # Nil => SegmentOf(n) = Path[f][k + 1])
    BY <2>1, <2>2, <1>11, <1>13
  <2>4. m \in Pointers
    BY <2>1, <2>3, <1>3
  <2>5. ASSUME m # Nil PROVE SegmentOf(m) = Path[f][(k + 1) + 1]
    <3>1. n # Nil
      BY <2>3, <2>5 DEF C, Child
    <3>2. n \in Places
      BY <3>1, <2>3 DEF Pointers
    <3>3. Direction(Path[f][k + 1], f) \in 1 .. 2
      BY DEF Direction
    <3>4. m = h[n].child[Direction(Path[f][k + 1], f)]
      BY <3>1, <2>3 DEF C, Child
    <3>5. SegmentOf(m) = Half(SegmentOf(n), Direction(Path[f][k + 1], f))
      BY <3>2, <3>3, <3>4, <2>5 DEF Shape
    <3>6. Path[f][(k + 1) + 1] = Half(Path[f][k + 1], Direction(Path[f][k + 1], f))
      BY <2>1, PathFacts DEF L
    <3> QED
      BY <3>1, <3>5, <3>6, <2>3
  <2> QED
    BY <2>1, <2>2, <2>4, <2>5
<1>14. 0 .. N \subseteq S
  <2> HIDE DEF S, N
  <2> QED
    BY <1>1, <1>12, <1>13, SetInduction
<1>15. ASSUME NEW i \in 1 .. L
       PROVE  at[i] \in Pointers /\ (at[i] # Nil => SegmentOf(at[i]) = Path[f][i])
  <2>1. i - 1 \in 0 .. N /\ (i - 1) + 1 = i
    BY <1>1
  <2> QED
    BY <2>1, <1>14
<1> QED
  BY <1>0, <1>10, <1>11, <1>15 DEF L, C

(* The nodes on the ways to two fields agree as far as the paths do. *)
\* ns are the pointers met on the way from r to f.
Walk(ns, h, r, f) ==
  /\ ns[1] = r
  /\ \A i \in 1 .. Len(Path[f]) : ns[i] \in Pointers /\ (ns[i] # Nil => SegmentOf(ns[i]) = Path[f][i])
  /\ \A i \in 1 .. Len(Path[f]) : i # Len(Path[f]) =>
       ns[i + 1] = Child(h, ns[i], Direction(Path[f][i], f))

LEMMA NodesWalk ==
  ASSUME NEW h \in Heaps, Shape(h), NEW r \in RootNodes \cup {Nil}, NEW f \in Fields
  PROVE  Walk(Nodes(h, r, f), h, r, f)
<1>1. Nodes(h, r, f)[1] = r
  BY NodesFacts
<1>2. \A i \in 1 .. Len(Path[f]) :
        /\ Nodes(h, r, f)[i] \in Pointers
        /\ Nodes(h, r, f)[i] # Nil => SegmentOf(Nodes(h, r, f)[i]) = Path[f][i]
        /\ i # Len(Path[f]) =>
             Nodes(h, r, f)[i + 1] = Child(h, Nodes(h, r, f)[i], Direction(Path[f][i], f))
  BY NodesFacts
<1> QED
  BY <1>1, <1>2 DEF Walk

LEMMA NodesAgree ==
  ASSUME NEW h \in Heaps, Shape(h), NEW r \in RootNodes \cup {Nil}, NEW f \in Fields,
         NEW g \in Fields, NEW i \in 1 .. Len(Path[f]), In(g, Path[f][i])
  PROVE  \A j \in 1 .. i : Nodes(h, r, g)[j] = Nodes(h, r, f)[j]
<1>1. PICK n, m : n = Nodes(h, r, f) /\ m = Nodes(h, r, g)
  OBVIOUS
<1> DEFINE N == i - 1
           S == {k \in 0 .. N : m[k + 1] = n[k + 1]}
<1>2. Len(Path[f]) \in Nat /\ Len(Path[g]) \in Nat /\ N \in Nat
  BY PathFacts
<1>3. \A j \in 1 .. i : j \in 1 .. Len(Path[g]) /\ Path[g][j] = Path[f][j]
  BY PathsAgree
<1>4. 0 \in S
  <2>1. m[1] = r
    BY <1>1, NodesFacts, ZenonT(40)
  <2>1b. n[1] = r
    BY <1>1, NodesFacts, ZenonT(40)
  <2> QED
    BY <2>1, <2>1b, <1>2
<1>5. ASSUME NEW k \in 0 .. N - 1, k \in S PROVE k + 1 \in S
  <2>1. k + 1 \in 1 .. i /\ (k + 1) + 1 \in 1 .. i /\ k + 1 \in 1 .. Len(Path[f])
        /\ k + 1 # Len(Path[f]) /\ k + 1 \in 0 .. N
    BY <1>2
  <2>2. k + 1 \in 1 .. Len(Path[g]) /\ (k + 1) + 1 \in 1 .. Len(Path[g])
        /\ Path[g][k + 1] = Path[f][k + 1] /\ Path[g][(k + 1) + 1] = Path[f][(k + 1) + 1]
    BY <2>1, <1>3
  <2>3. k + 1 # Len(Path[g])
    BY <2>2, <1>2
  <2>4. PICK s : s = Path[f][k + 1]
    OBVIOUS
  <2>5. Direction(s, g) = Direction(s, f)
    <3>1. s \in Spans
      BY <2>1, <2>4, PathFacts
    <3>2. Path[f][(k + 1) + 1] = Half(s, Direction(s, f)) /\ In(g, Path[g][(k + 1) + 1])
      BY <2>1, <2>2, <2>4, PathFacts
    <3>3. Direction(s, f) \in 1 .. 2 /\ g \in Int
      BY ConstantsAssumption DEF Direction, Fields
    <3> QED
      BY <3>1, <3>2, <3>3, <2>2, HalfDirection
  <2>6. n[(k + 1) + 1] = Child(h, n[k + 1], Direction(s, f))
    BY <2>1, <2>4, <1>1, NodesFacts, ZenonT(40)
  <2>7. m[(k + 1) + 1] = Child(h, m[k + 1], Direction(s, g))
    <3>1. m[(k + 1) + 1] = Child(h, m[k + 1], Direction(Path[g][k + 1], g))
      BY SMTT(20), ZenonT(60), <2>2, <2>3, <1>1, NodesFacts
    <3> QED
      BY <3>1, <2>2, <2>4
  <2> QED
    BY <2>1, <2>5, <2>6, <2>7, <1>5
<1>6. 0 .. N \subseteq S
  <2> HIDE DEF S, N
  <2> QED
    BY <1>2, <1>4, <1>5, SetInduction
<1>7. ASSUME NEW j \in 1 .. i PROVE m[j] = n[j]
  <2>1. j - 1 \in 0 .. N /\ (j - 1) + 1 = j
    BY <1>2
  <2> QED
    BY <2>1, <1>6
<1> QED
  BY <1>1, <1>7

-----------------------------------------------------------------------------
(***************************************************************************)
(* What counts as a reference.                                             *)
(***************************************************************************)
LEMMA PointersFinite ==
  ASSUME NEW h, NEW R, NEW a
  PROVE  /\ IsFiniteSet(RootsOf(R, a)) /\ IsFiniteSet(Parents(h, a))
         /\ Cardinality(RootsOf(R, a)) \in Nat /\ Cardinality(Parents(h, a)) \in Nat
<1>1. IsFiniteSet(Tables) /\ IsFiniteSet(Places)
  BY PointersAssumption, PlacesFinite
<1>2. RootsOf(R, a) \subseteq Tables /\ Parents(h, a) \subseteq Places
  BY DEF RootsOf, Parents
<1>3. IsFiniteSet(RootsOf(R, a)) /\ IsFiniteSet(Parents(h, a))
  BY <1>1, <1>2, FS_Subset
<1> QED
  BY <1>3, FS_CardinalityType

LEMMA ParentIs ==
  ASSUME NEW h \in Heaps, Shape(h), NEW p \in Places, NEW d \in 1 .. 2, h[p].child[d] # Nil
  PROVE  /\ h[p].child[d] \in Places
         /\ ~IsLeaf(SegmentOf(p)) /\ SegmentOf(h[p].child[d]) = Half(SegmentOf(p), d)
         /\ SegmentOf(p) \in Segments /\ Half(SegmentOf(p), d) \in Segments
         /\ SegmentOf(h[p].child[d]) # Whole
<1>1. h[p].child[d] \in Places
  BY ChildIs DEF Pointers
<1>2. SegmentOf(p) \in Segments /\ SegmentOf(h[p].child[d]) \in Segments
  BY <1>1, PlaceIs
<1>3. ~IsLeaf(SegmentOf(p)) /\ SegmentOf(h[p].child[d]) = Half(SegmentOf(p), d)
  BY DEF Shape
<1>4. Half(SegmentOf(p), d) # Whole
  BY <1>2, <1>3, HalfNotWhole
<1> QED
  BY <1>1, <1>2, <1>3, <1>4

(* The root of a tree has no parent, and nothing else is a root. *)
LEMMA RootNoParent ==
  ASSUME NEW h \in Heaps, Shape(h), NEW a \in Places, SegmentOf(a) = Whole
  PROVE  Parents(h, a) = {}
<1>1. SUFFICES ASSUME NEW p \in Parents(h, a) PROVE FALSE
  OBVIOUS
<1>2. PICK d \in 1 .. 2 : h[p].child[d] = a
  BY <1>1 DEF Parents
<1>3. p \in Places /\ a # Nil
  BY <1>1, PlaceIs DEF Parents
<1> QED
  BY <1>2, <1>3, ParentIs

LEMMA InnerNoRoot ==
  ASSUME NEW R \in Roots, NEW a \in Places, SegmentOf(a) # Whole
  PROVE  RootsOf(R, a) = {}
<1>1. SUFFICES ASSUME NEW t \in RootsOf(R, a) PROVE FALSE
  OBVIOUS
<1>2. t \in Tables /\ R[t] = a /\ a # Nil /\ a # NoTable
  BY <1>1, PlaceIs DEF RootsOf
<1>3. R[t] \in RootNodes
  BY <1>2 DEF Roots
<1> QED
  BY <1>2, <1>3 DEF RootNodes

(* A node that a pointer leads to is not free. *)
LEMMA PointedLives ==
  ASSUME NEW h, NEW R, Good(h, R), NEW a \in Places,
         RootsOf(R, a) # {} \/ Parents(h, a) # {}
  PROVE  h[a].refcnt # 0
<1>1. PICK x, y : x = Cardinality(RootsOf(R, a)) /\ y = Cardinality(Parents(h, a))
  OBVIOUS
<1>2. x \in Nat /\ y \in Nat /\ IsFiniteSet(RootsOf(R, a)) /\ IsFiniteSet(Parents(h, a))
  BY <1>1, PointersFinite
<1>3. x # 0 \/ y # 0
  BY <1>1, <1>2, FS_EmptySet
<1>4. h[a].refcnt = x + y
  BY <1>1 DEF Good, Exact
<1> QED
  BY <1>2, <1>3, <1>4

LEMMA LivesPointed ==
  ASSUME NEW h, NEW R, Good(h, R), NEW a \in Places, h[a].refcnt # 0
  PROVE  RootsOf(R, a) # {} \/ Parents(h, a) # {}
<1>1. SUFFICES ASSUME RootsOf(R, a) = {} /\ Parents(h, a) = {} PROVE FALSE
  OBVIOUS
<1>2. Cardinality(RootsOf(R, a)) = 0 /\ Cardinality(Parents(h, a)) = 0
  BY <1>1, FS_EmptySet
<1>3. h[a].refcnt = 0 + 0
  BY <1>2 DEF Good, Exact
<1> QED
  BY <1>3

(* Every living node is met on the way from some table to its fields. *)
LEMMA Reached ==
  ASSUME NEW h, NEW R, Good(h, R), NEW f \in Fields, NEW i \in 1 .. Len(Path[f]),
         NEW a \in Places, SegmentOf(a) = Path[f][i], h[a].refcnt # 0
  PROVE  \E t \in Tables : R[t] \in RootNodes /\ Nodes(h, R[t], f)[i] = a
<1> DEFINE Met(b, j) == \E t \in Tables : R[t] \in RootNodes /\ Nodes(h, R[t], f)[j] = b
           N == i - 1
           S == {k \in 0 .. N : \A b \in Places :
                   SegmentOf(b) = Path[f][k + 1] /\ h[b].refcnt # 0 => Met(b, k + 1)}
<1>1. h \in Heaps /\ R \in Roots /\ Shape(h) /\ FreeEmpty(h)
  BY DEF Good
<1>2. Len(Path[f]) \in Nat \ {0} /\ N \in Nat
  BY PathFacts
<1>3. ASSUME NEW b \in Places, SegmentOf(b) = Path[f][1], h[b].refcnt # 0 PROVE Met(b, 1)
  <2>1. SegmentOf(b) = Whole
    BY <1>3, PathFacts
  <2>2. PICK t : t \in RootsOf(R, b)
    BY <2>1, <1>1, <1>3, RootNoParent, LivesPointed
  <2>3. t \in Tables /\ R[t] = b /\ R[t] \in RootNodes
    BY <2>1, <2>2 DEF RootsOf, RootNodes
  <2>4. Nodes(h, R[t], f)[1] = b
    BY <2>3, <1>1, NodesFacts
  <2> QED
    BY <2>3, <2>4
<1>4. 0 \in S
  BY <1>2, <1>3
<1>5. ASSUME NEW k \in 0 .. N - 1, k \in S, NEW b \in Places,
             SegmentOf(b) = Path[f][(k + 1) + 1], h[b].refcnt # 0
      PROVE  Met(b, (k + 1) + 1)
  <2>1. k + 1 \in 1 .. Len(Path[f]) /\ k + 1 # Len(Path[f]) /\ (k + 1) + 1 \in 1 .. Len(Path[f])
    BY <1>2
  <2>2. PICK s, u : s = Path[f][k + 1] /\ u = Path[f][(k + 1) + 1]
    OBVIOUS
  <2>3. s \in Segments /\ u \in Segments /\ ~IsLeaf(s) /\ u = Half(s, Direction(s, f))
        /\ Direction(s, f) \in 1 .. 2
    BY <2>1, <2>2, PathFacts DEF Direction
  <2>4. u # Whole
    BY <2>3, HalfNotWhole
  <2>5. PICK p : p \in Parents(h, b)
    BY <2>2, <2>4, <1>1, <1>5, InnerNoRoot, LivesPointed
  <2>6. PICK d \in 1 .. 2 : h[p].child[d] = b
    BY <2>5 DEF Parents
  <2>7. p \in Places /\ b # Nil
    BY <2>5, PlaceIs DEF Parents
  <2>8. SegmentOf(p) \in Segments /\ ~IsLeaf(SegmentOf(p)) /\ u = Half(SegmentOf(p), d)
    BY <2>2, <2>6, <2>7, <1>1, <1>5, ParentIs
  <2>9. SegmentOf(p) = s /\ d = Direction(s, f)
    <3>1. PICK e : e = Direction(s, f)
      OBVIOUS
    <3>2. e \in 1 .. 2 /\ Half(s, e) \in Segments /\ Half(SegmentOf(p), d) = Half(s, e)
      BY <3>1, <2>3, <2>8
    <3> QED
      BY <3>1, <3>2, <2>3, <2>8, HalfOnce
  <2>10. h[p].refcnt # 0
    BY <2>6, <2>7, <1>1 DEF FreeEmpty
  <2>11. PICK t \in Tables : R[t] \in RootNodes /\ Nodes(h, R[t], f)[k + 1] = p
    BY <2>2, <2>7, <2>9, <2>10, <1>5
  <2>12. Nodes(h, R[t], f)[(k + 1) + 1] = Child(h, p, Direction(s, f))
    BY <2>1, <2>2, <2>11, <1>1, NodesFacts
  <2>13. Child(h, p, Direction(s, f)) = b
    BY <2>6, <2>7, <2>9, PlaceIs DEF Child
  <2> QED
    BY <2>11, <2>12, <2>13
<1>6. ASSUME NEW k \in 0 .. N - 1, k \in S PROVE k + 1 \in S
  <2>1. k + 1 \in 0 .. N
    BY <1>2
  <2> HIDE DEF Met
  <2> QED
    BY <2>1, <1>5, <1>6
<1>7. 0 .. N \subseteq S
  <2> HIDE DEF S, N
  <2> QED
    BY <1>2, <1>4, <1>6, SetInduction
<1>8. N \in S /\ N + 1 = i
  BY <1>2, <1>7
<1> QED
  BY <1>8

(* The living nodes of a segment are at most as many as the tables. *)
LEMMA FewLiving ==
  ASSUME NEW h, NEW R, Good(h, R), NEW s \in Segments, NEW K \in SUBSET Places,
         \A a \in K : SegmentOf(a) = s /\ h[a].refcnt # 0
  PROVE  Cardinality(K) <= Cardinality(Tables)
<1>1. PICK f, i : f = s[1] /\ i = LevelOf(s)
  OBVIOUS
<1>2. f \in Fields /\ i \in 1 .. Len(Path[f]) /\ Path[f][i] = s
  BY <1>1, SegmentLevel
<1> DEFINE Met(a, t) == R[t] \in RootNodes /\ Nodes(h, R[t], f)[i] = a
           G == [a \in K |-> CHOOSE t \in Tables : Met(a, t)]
<1>3. \A a \in K : \E t \in Tables : Met(a, t)
  BY <1>2, Reached
<1>4. \A a, b, t : Met(a, t) /\ Met(b, t) => a = b
  OBVIOUS
<1> HIDE DEF Met
<1>5. ASSUME NEW a \in K PROVE G[a] \in Tables /\ Met(a, G[a])
  <2>1. G[a] = CHOOSE t \in Tables : Met(a, t)
    BY Zenon
  <2> QED
    BY <2>1, <1>3, Zenon
<1>6. G \in [K -> Tables]
  <2>1. \A a \in K : (CHOOSE t \in Tables : Met(a, t)) \in Tables
    BY <1>3, Zenon
  <2> QED
    BY <2>1, Zenon
<1> HIDE DEF G
<1>7. G \in Injection(K, Tables)
  BY <1>4, <1>5, <1>6 DEF Injection, IsInjective
<1> QED
  BY <1>7, FS_Injection, PointersAssumption

(* So malloc finds a place, and it is free. *)
LEMMA MallocIs ==
  ASSUME NEW h, NEW R, Good(h, R), NEW s \in Segments
  PROVE  /\ Malloc(h, s) \in Places /\ SegmentOf(Malloc(h, s)) = s
         /\ h[Malloc(h, s)].refcnt = 0
<1> DEFINE N == Cardinality(Tables)
           Free1(k) == h[<<s, k>>].refcnt = 0
           A == {k \in 1 .. N + 1 : Free1(k)}
<1>1. N \in Nat /\ IsFiniteSet(Tables)
  BY PointersAssumption, FS_CardinalityType
<1>2. \A k \in 1 .. N + 1 : <<s, k>> \in Places /\ SegmentOf(<<s, k>>) = s
  BY DEF Places, SegmentOf
<1>3. A # {}
  <2>1. SUFFICES ASSUME A = {} PROVE FALSE
    OBVIOUS
  <2> DEFINE K == {<<s, k>> : k \in 1 .. N + 1}
             G == [k \in 1 .. N + 1 |-> <<s, k>>]
  <2>2. K \in SUBSET Places /\ \A a \in K : SegmentOf(a) = s /\ h[a].refcnt # 0
    BY <2>1, <1>2
  <2>3. Cardinality(K) <= N
    <3> HIDE DEF K
    <3> QED
      BY <2>2, FewLiving
  <2>4. G \in Injection(1 .. N + 1, K)
    BY DEF Injection, IsInjective
  <2>5. IsFiniteSet(K)
    <3> HIDE DEF K
    <3> QED
      BY <2>2, PlacesFinite, FS_Subset
  <2>6. Cardinality(1 .. N + 1) = N + 1
    <3> HIDE DEF N
    <3> QED
      BY <1>1, FS_Interval
  <2>7. Cardinality(1 .. N + 1) <= Cardinality(K) /\ Cardinality(K) \in Nat
    <3> HIDE DEF K, G
    <3> QED
      BY <2>4, <2>5, FS_Injection, FS_CardinalityType
  <2> HIDE DEF N, K
  <2> QED
    BY <2>3, <2>6, <2>7, <1>1
<1>4. PICK m \in A : \A k \in A : m <= k
  <2>1. A \in SUBSET Nat
    BY <1>1
  <2> HIDE DEF A
  <2> QED
    BY <2>1, <1>3, LeastMember, Zenon
<1>5. m \in 1 .. N + 1 /\ Free1(m) /\ \A j \in 1 .. m - 1 : ~Free1(j)
  <2>1. m \in 1 .. N + 1 /\ Free1(m)
    BY <1>4
  <2>2. ASSUME NEW j \in 1 .. m - 1, Free1(j) PROVE FALSE
    <3>1. j \in 1 .. N + 1 /\ ~(m <= j)
      BY <2>1, <1>1
    <3> HIDE DEF Free1
    <3> QED
      BY <3>1, <2>2, <1>4
  <2> QED
    BY <2>1, <2>2
<1> DEFINE k0 == CHOOSE k \in 1 .. N + 1 : Free1(k) /\ \A j \in 1 .. k - 1 : ~Free1(j)
<1>6. k0 \in 1 .. N + 1 /\ Free1(k0)
  <2> HIDE DEF Free1, N
  <2> QED
    BY <1>5, Zenon
<1>7. Malloc(h, s) = <<s, k0>>
  BY Zenon DEF Malloc
<1> HIDE DEF k0
<1> QED
  BY <1>2, <1>6, <1>7

(* The bound on the counters. *)
LEMMA CounterBound ==
  ASSUME NEW h, NEW R, Good(h, R), NEW a \in Places
  PROVE  h[a].refcnt <= Cardinality(Tables)
<1>1. h \in Heaps /\ R \in Roots /\ Shape(h) /\ FreeEmpty(h)
  BY DEF Good
<1>2. PICK x, y, z : x = Cardinality(RootsOf(R, a)) /\ y = Cardinality(Parents(h, a))
                     /\ z = Cardinality(Tables)
  OBVIOUS
<1>3. x \in Nat /\ y \in Nat /\ z \in Nat
  BY <1>2, PointersFinite, PointersAssumption, FS_CardinalityType
<1>4. h[a].refcnt = x + y
  BY <1>2 DEF Good, Exact
<1>5. CASE SegmentOf(a) = Whole
  <2>1. y = 0
    BY <1>1, <1>2, <1>5, RootNoParent, FS_EmptySet
  <2>2. RootsOf(R, a) \in SUBSET Tables
    BY DEF RootsOf
  <2>3. x <= z
    BY <2>2, <1>2, PointersAssumption, FS_Subset
  <2> QED
    BY <2>1, <2>3, <1>2, <1>3, <1>4
<1>6. CASE SegmentOf(a) # Whole
  <2>1. x = 0
    BY <1>1, <1>2, <1>6, InnerNoRoot, FS_EmptySet
  <2>2. y <= z
    <3>1. CASE Parents(h, a) = {}
      BY <3>1, <1>2, <1>3, FS_EmptySet
    <3>2. CASE Parents(h, a) # {}
      <4>1. PICK q : q \in Parents(h, a)
        BY <3>2
      <4>2. ASSUME NEW p \in Parents(h, a)
            PROVE  p \in Places /\ SegmentOf(p) = SegmentOf(q) /\ h[p].refcnt # 0
        <5>1. PICK d \in 1 .. 2 : h[p].child[d] = a
          BY <4>2 DEF Parents
        <5>2. PICK e \in 1 .. 2 : h[q].child[e] = a
          BY <4>1 DEF Parents
        <5>3. p \in Places /\ q \in Places /\ a # Nil
          BY <4>1, <4>2, PlaceIs DEF Parents
        <5>4. SegmentOf(p) = SegmentOf(q)
          BY <5>1, <5>2, <5>3, <1>1, ParentIs, HalfOnce
        <5> QED
          BY <5>1, <5>3, <5>4, <1>1 DEF FreeEmpty
      <4>3. Parents(h, a) \in SUBSET Places /\ SegmentOf(q) \in Segments
        BY <4>1, <4>2, PlaceIs
      <4> QED
        BY <4>2, <4>3, <1>2, FewLiving
    <3> QED
      BY <3>1, <3>2
  <2> QED
    BY <2>1, <2>2, <1>2, <1>3, <1>4
<1> QED
  BY <1>5, <1>6

-----------------------------------------------------------------------------
(***************************************************************************)
(* The copy of a node.                                                     *)
(***************************************************************************)
Kids(h, n) == {h[n].child[1], h[n].child[2]}

LEMMA ToSetKids ==
  ASSUME NEW h \in Heaps, NEW n \in Places
  PROVE  ToSet(h[n].child) = Kids(h, n)
<1>1. PICK w : w = h[n].child
  OBVIOUS
<1>2. DOMAIN w = {1, 2}
  BY <1>1, NodeFields
<1>3. ToSet(w) = {w[1], w[2]}
  BY <1>2 DEF ToSet
<1> QED
  BY <1>1, <1>3 DEF Kids

(* A node is not its own child, nor is a free place a child. *)
LEMMA KidsOther ==
  ASSUME NEW h, NEW R, Good(h, R), NEW n \in Places, NEW a \in Kids(h, n), a # Nil
  PROVE  a \in Places /\ a # n /\ h[a].refcnt # 0 /\ SegmentOf(a) # SegmentOf(n)
<1>1. h \in Heaps /\ Shape(h)
  BY DEF Good
<1>2. PICK d \in 1 .. 2 : h[n].child[d] = a
  BY DEF Kids
<1>3. a \in Places /\ SegmentOf(a) = Half(SegmentOf(n), d) /\ ~IsLeaf(SegmentOf(n))
      /\ SegmentOf(n) \in Segments /\ Half(SegmentOf(n), d) \in Segments
  BY <1>1, <1>2, ParentIs
<1>4. LevelOf(SegmentOf(a)) = LevelOf(SegmentOf(n)) + 1 /\ LevelOf(SegmentOf(n)) \in Nat
  BY <1>3, HalfLevel, SegmentLevel
<1>5. SegmentOf(a) # SegmentOf(n)
  BY <1>4
<1>6. Parents(h, a) # {}
  BY <1>2 DEF Parents
<1> QED
  BY <1>3, <1>5, <1>6, PointedLives

(* What the copy at c of node n looks like, and what it leaves alone. *)
IsDuplicate(D, h, n, c) ==
  /\ D \in Heaps
  /\ D[c].refcnt = 1 /\ D[c].reloc = FALSE /\ D[c].value = h[n].value /\ D[c].child = h[n].child
  /\ D[n].refcnt = h[n].refcnt - 1
  /\ \A a \in Places \ {c} :
       /\ D[a].child = h[a].child /\ D[a].value = h[a].value /\ D[a].reloc = h[a].reloc
       /\ a \in Kids(h, n) => D[a].refcnt = h[a].refcnt + 1
       /\ a # n /\ a \notin Kids(h, n) => D[a].refcnt = h[a].refcnt

LEMMA DuplicateIs ==
  ASSUME NEW h, NEW R, Good(h, R), NEW n \in Places, NEW c \in Places, c # n,
         h[n].refcnt > 1, h[c].refcnt = 0
  PROVE  IsDuplicate(Duplicate(h, n, c), h, n, c)
<1>1. h \in Heaps
  BY DEF Good
<1>2. ToSet(h[n].child) = Kids(h, n) /\ n \notin Kids(h, n) /\ c \notin Kids(h, n)
  BY <1>1, ToSetKids, KidsOther, PlaceIs
<1> DEFINE Copy == [h[n] EXCEPT !.refcnt = 1, !.reloc = FALSE]
           Less == [h[n] EXCEPT !.refcnt = @ - 1]
           More(a) == [h[a] EXCEPT !.refcnt = @ + 1]
           Body(a) == CASE a = c -> Copy
                        [] a = n -> Less
                        [] a \in ToSet(h[n].child) -> More(a)
                        [] OTHER -> h[a]
           D == Duplicate(h, n, c)
<1>3. D = [a \in Places |-> Body(a)]
  BY Zenon DEF Duplicate
<1>4. \A a \in Places : h[a] \in NodeRec
  BY <1>1, NodeFields
<1>5. Copy \in NodeRec /\ Copy.refcnt = 1 /\ Copy.reloc = FALSE /\ Copy.value = h[n].value
      /\ Copy.child = h[n].child
  BY <1>4 DEF NodeRec
<1>6. Less \in NodeRec /\ Less.refcnt = h[n].refcnt - 1 /\ Less.reloc = h[n].reloc
      /\ Less.value = h[n].value /\ Less.child = h[n].child
  BY <1>4 DEF NodeRec
<1>7. ASSUME NEW a \in Places
      PROVE  More(a) \in NodeRec /\ More(a).refcnt = h[a].refcnt + 1 /\ More(a).reloc = h[a].reloc
             /\ More(a).value = h[a].value /\ More(a).child = h[a].child
  BY <1>4 DEF NodeRec
<1> HIDE DEF Copy, Less, More, D
<1>8. D[c] = Copy /\ D[n] = Less
  <2>1. Body(c) = Copy /\ Body(n) = Less
    BY <1>2
  <2> HIDE DEF Body
  <2> QED
    BY <2>1, <1>3
<1>9. ASSUME NEW a \in Places, a # c, a # n
      PROVE  D[a] = IF a \in Kids(h, n) THEN More(a) ELSE h[a]
  BY <1>2, <1>3, <1>9
<1>10. D = [a \in Places |-> D[a]]
  <2> HIDE DEF Body
  <2> QED
    BY <1>3
<1>11. ASSUME NEW a \in Places PROVE D[a] \in NodeRec
  BY <1>4, <1>5, <1>6, <1>7, <1>8, <1>9
<1>12. D \in Heaps
  BY <1>10, <1>11 DEF Heaps
<1>13. ASSUME NEW a \in Places \ {c}
       PROVE  /\ D[a].child = h[a].child /\ D[a].value = h[a].value /\ D[a].reloc = h[a].reloc
              /\ a \in Kids(h, n) => D[a].refcnt = h[a].refcnt + 1
              /\ a # n /\ a \notin Kids(h, n) => D[a].refcnt = h[a].refcnt
  <2>1. CASE a = n
    BY <2>1, <1>2, <1>6, <1>8
  <2>2. CASE a # n /\ a \in Kids(h, n)
    BY <2>2, <1>7, <1>9
  <2>3. CASE a # n /\ a \notin Kids(h, n)
    BY <2>3, <1>9
  <2> QED
    BY <2>1, <2>2, <2>3
<1>14. IsDuplicate(D, h, n, c)
  BY <1>5, <1>6, <1>8, <1>12, <1>13 DEF IsDuplicate
<1> QED
  BY <1>14 DEF D

With(R, t, r) == [R EXCEPT ![t] = r]

LEMMA WithIs ==
  ASSUME NEW R \in Roots, NEW t \in Tables, NEW r \in RootNodes \cup {Nil, NoTable}
  PROVE  /\ With(R, t, r) \in Roots
         /\ With(R, t, r)[t] = r
         /\ \A u \in Tables \ {t} : With(R, t, r)[u] = R[u]
         /\ \A a : a # r => RootsOf(With(R, t, r), a) = RootsOf(R, a) \ {t}
         /\ RootsOf(With(R, t, r), r) = RootsOf(R, r) \cup {t}
<1>1. With(R, t, r) \in Roots /\ With(R, t, r)[t] = r
      /\ \A u \in Tables \ {t} : With(R, t, r)[u] = R[u]
  BY DEF With, Roots
<1>2. PICK W : W = With(R, t, r)
  OBVIOUS
<1>3. \A a : a # r => RootsOf(W, a) = RootsOf(R, a) \ {t}
  BY <1>1, <1>2 DEF RootsOf
<1>4. RootsOf(W, r) = RootsOf(R, r) \cup {t}
  BY <1>1, <1>2 DEF RootsOf
<1> QED
  BY <1>1, <1>2, <1>3, <1>4

LEMMA WithTwice ==
  ASSUME NEW R \in Roots, NEW t \in Tables, NEW r, NEW q
  PROVE  With(With(R, t, r), t, q) = With(R, t, q)
BY DEF With, Roots

LEMMA WithSame ==
  ASSUME NEW R \in Roots, NEW t \in Tables
  PROVE  With(R, t, R[t]) = R
BY DEF With, Roots

(* The copy is one more parent of the children. *)
LEMMA DuplicateParents ==
  ASSUME NEW h, NEW R, Good(h, R), NEW n \in Places, NEW c \in Places, h[c].refcnt = 0,
         NEW D, IsDuplicate(D, h, n, c), NEW a \in Places
  PROVE  /\ a \in Kids(h, n) => Parents(D, a) = Parents(h, a) \cup {c}
         /\ a \notin Kids(h, n) => Parents(D, a) = Parents(h, a)
         /\ c \notin Parents(h, a)
<1>1. h \in Heaps /\ \A d \in 1 .. 2 : h[c].child[d] = Nil
  BY DEF Good, FreeEmpty
<1>2. a # Nil /\ 1 \in 1 .. 2 /\ 2 \in 1 .. 2 /\ \A d \in 1 .. 2 : d = 1 \/ d = 2
  BY PlaceIs
<1>3. c \notin Parents(h, a)
  BY <1>1, <1>2 DEF Parents
<1>4. \A p \in Places \ {c} : D[p].child = h[p].child
  BY DEF IsDuplicate
<1>5. D[c].child = h[n].child
  BY DEF IsDuplicate
<1>6. c \in Parents(D, a) <=> a \in Kids(h, n)
  BY <1>2, <1>5 DEF Parents, Kids
<1>7. \A p \in Places \ {c} : p \in Parents(D, a) <=> p \in Parents(h, a)
  BY <1>4 DEF Parents
<1>8. Parents(D, a) \subseteq Places /\ Parents(h, a) \subseteq Places
  BY DEF Parents
<1> QED
  BY <1>3, <1>6, <1>7, <1>8

LEMMA DuplicateShape ==
  ASSUME NEW h, NEW R, Good(h, R), NEW n \in Places, NEW c \in Places, h[c].refcnt = 0,
         SegmentOf(c) = SegmentOf(n), h[n].refcnt > 1, NEW D, IsDuplicate(D, h, n, c)
  PROVE  Shape(D) /\ FreeEmpty(D)
<1>1. h \in Heaps /\ Shape(h) /\ FreeEmpty(h)
  BY DEF Good
<1>2. D[c].child = h[n].child /\ \A a \in Places \ {c} : D[a].child = h[a].child
  BY DEF IsDuplicate
<1>3. Shape(D)
  <2>1. ASSUME NEW a \in Places, NEW d \in 1 .. 2, D[a].child[d] # Nil
        PROVE  ~IsLeaf(SegmentOf(a)) /\ SegmentOf(D[a].child[d]) = Half(SegmentOf(a), d)
    <3>1. CASE a = c
      BY <3>1, <2>1, <1>1, <1>2 DEF Shape
    <3>2. CASE a # c
      BY <3>2, <2>1, <1>1, <1>2 DEF Shape
    <3> QED
      BY <3>1, <3>2
  <2> QED
    BY <2>1 DEF Shape
<1>4. ASSUME NEW a \in Places, D[a].refcnt = 0 PROVE \A d \in 1 .. 2 : D[a].child[d] = Nil
  <2>1. a # c /\ a # n
    <3>1. D[c].refcnt = 1 /\ D[n].refcnt = h[n].refcnt - 1 /\ h[n].refcnt \in Nat
      BY <1>1, NodeFields DEF IsDuplicate
    <3> QED
      BY <3>1, <1>4
  <2>2. h[a].refcnt \in Nat
    BY <1>1, NodeFields
  <2>3. h[a].refcnt = 0
    BY <2>1, <2>2, <1>4 DEF IsDuplicate
  <2> QED
    BY <2>1, <2>3, <1>1, <1>2 DEF FreeEmpty
<1> QED
  BY <1>3, <1>4 DEF FreeEmpty

(* Counting one more, or one less. *)
LEMMA AddOne ==
  ASSUME NEW S, NEW x, IsFiniteSet(S), x \notin S
  PROVE  Cardinality(S \cup {x}) = Cardinality(S) + 1
BY FS_AddElement

LEMMA LessOne ==
  ASSUME NEW S, NEW x \in S, IsFiniteSet(S)
  PROVE  Cardinality(S \ {x}) = Cardinality(S) - 1
BY FS_RemoveElement

(* A free place has no pointers to it. *)
LEMMA FreeUnpointed ==
  ASSUME NEW h, NEW R, Good(h, R), NEW c \in Places, h[c].refcnt = 0
  PROVE  RootsOf(R, c) = {} /\ Parents(h, c) = {}
BY PointedLives

(* The root of table t is copied. *)
LEMMA CopyRoot ==
  ASSUME NEW h, NEW R, Good(h, R), NEW t \in Tables, R[t] \in Places, h[R[t]].refcnt # 1,
         NEW c \in Places, SegmentOf(c) = Whole, h[c].refcnt = 0
  PROVE  Good(Duplicate(h, R[t], c), With(R, t, c))
<1>1. PICK n : n = R[t]
  OBVIOUS
<1>2. h \in Heaps /\ R \in Roots /\ Shape(h) /\ FreeEmpty(h) /\ Exact(h, R)
  BY DEF Good
<1>3. n \in RootNodes /\ n \in Places /\ SegmentOf(n) = Whole /\ t \in RootsOf(R, n)
  <2>1. n # Nil /\ n # NoTable
    BY <1>1, PlaceIs
  <2>2. n \in RootNodes
    BY <2>1, <1>1, <1>2 DEF Roots
  <2> QED
    BY <2>2, <1>1 DEF RootNodes, RootsOf
<1>4. h[n].refcnt > 1 /\ c # n
  <2>1. h[n].refcnt # 0 /\ h[n].refcnt \in Nat
    BY <1>2, <1>3, PointedLives, NodeFields
  <2> QED
    BY <2>1, <1>1
<1>5. PICK D : D = Duplicate(h, n, c)
  OBVIOUS
<1>6. IsDuplicate(D, h, n, c)
  BY <1>3, <1>4, <1>5, DuplicateIs
<1>7. Shape(D) /\ FreeEmpty(D) /\ D \in Heaps
  <2>1. D \in Heaps
    BY <1>6 DEF IsDuplicate
  <2>2. Shape(D) /\ FreeEmpty(D)
    BY <1>3, <1>4, <1>6, DuplicateShape
  <2> QED
    BY <2>1, <2>2
<1>8. c \in RootNodes
  BY DEF RootNodes
<1>9. PICK W : W = With(R, t, c)
  OBVIOUS
<1>10. /\ W \in Roots
       /\ \A a : a # c => RootsOf(W, a) = RootsOf(R, a) \ {t}
       /\ RootsOf(W, c) = RootsOf(R, c) \cup {t}
  BY <1>2, <1>8, <1>9, WithIs
<1>11. ASSUME NEW a \in Places
       PROVE  D[a].refcnt = Cardinality(RootsOf(W, a)) + Cardinality(Parents(D, a))
  <2>1. PICK x, y : x = Cardinality(RootsOf(R, a)) /\ y = Cardinality(Parents(h, a))
    OBVIOUS
  <2>2. x \in Nat /\ y \in Nat /\ h[a].refcnt = x + y
        /\ IsFiniteSet(RootsOf(R, a)) /\ IsFiniteSet(Parents(h, a))
    BY <2>1, <1>2, PointersFinite DEF Exact
  <2>3. CASE a = c
    <3>1. RootsOf(R, c) = {} /\ Parents(D, c) = {}
      BY <1>7, FreeUnpointed, RootNoParent
    <3>2. RootsOf(W, c) = {t}
      BY <3>1, <1>10
    <3>3. Cardinality(RootsOf(W, c)) = 1 /\ Cardinality(Parents(D, c)) = 0
      BY <3>1, <3>2, FS_Singleton, FS_EmptySet
    <3> QED
      BY <3>3, <2>3, <1>6 DEF IsDuplicate
  <2>4. CASE a = n
    <3>1. Parents(h, n) = {} /\ Parents(D, n) = {}
      BY <1>2, <1>3, <1>7, RootNoParent
    <3>2. y = 0 /\ Cardinality(Parents(D, a)) = 0
      BY <3>1, <2>1, <2>4, FS_EmptySet
    <3>3. Cardinality(RootsOf(W, a)) = x - 1
      BY <2>1, <2>2, <2>4, <1>3, <1>4, <1>10, LessOne
    <3>4. D[a].refcnt = h[a].refcnt - 1
      BY <2>4, <1>6 DEF IsDuplicate
    <3> QED
      BY <3>2, <3>3, <3>4, <2>2
  <2>5. CASE a # c /\ a # n
    <3>1. RootsOf(W, a) = RootsOf(R, a)
      <4>1. t \notin RootsOf(R, a)
        BY <2>5, <1>1 DEF RootsOf
      <4> QED
        BY <4>1, <2>5, <1>10
    <3>2. CASE a \in Kids(h, n)
      <4>1. Cardinality(Parents(D, a)) = y + 1
        BY <3>2, <2>1, <2>2, <1>3, <1>6, DuplicateParents, AddOne
      <4>2. D[a].refcnt = h[a].refcnt + 1
        BY <3>2, <2>5, <1>6 DEF IsDuplicate
      <4> QED
        BY <4>1, <4>2, <3>1, <2>1, <2>2
    <3>3. CASE a \notin Kids(h, n)
      <4>1. Cardinality(Parents(D, a)) = y
        BY <3>3, <2>1, <1>3, <1>6, DuplicateParents
      <4>2. D[a].refcnt = h[a].refcnt
        BY <3>3, <2>5, <1>6 DEF IsDuplicate
      <4> QED
        BY <4>1, <4>2, <3>1, <2>1, <2>2
    <3> QED
      BY <3>2, <3>3
  <2> QED
    BY <2>3, <2>4, <2>5
<1>12. Exact(D, W)
  BY <1>11 DEF Exact
<1> QED
  BY <1>1, <1>5, <1>7, <1>9, <1>10, <1>12 DEF Good

(* The assignment of a child pointer. *)
Pointing(h, p, d, c) == [h EXCEPT ![p].child[d] = c]

IsPointing(g, h, p, d, c) ==
  /\ g \in Heaps
  /\ g[p].child[d] = c
  /\ \A e \in 1 .. 2 \ {d} : g[p].child[e] = h[p].child[e]
  /\ \A a \in Places \ {p} : g[a] = h[a]
  /\ \A a \in Places :
       g[a].refcnt = h[a].refcnt /\ g[a].reloc = h[a].reloc /\ g[a].value = h[a].value

LEMMA PointingIs ==
  ASSUME NEW h \in Heaps, NEW p \in Places, NEW d \in 1 .. 2, NEW c \in Pointers
  PROVE  IsPointing(Pointing(h, p, d, c), h, p, d, c)
<1> DEFINE C == [h[p].child EXCEPT ![d] = c]
           N == [h[p] EXCEPT !.child = C]
           G == [h EXCEPT ![p] = N]
<1>1. Pointing(h, p, d, c) = G
  BY DEF Pointing
<1>2. C \in [1 .. 2 -> Pointers] /\ C[d] = c /\ \A e \in 1 .. 2 \ {d} : C[e] = h[p].child[e]
  BY NodeFields
<1> HIDE DEF C
<1>3. h[p] \in NodeRec
  BY NodeFields
<1>4. N \in NodeRec /\ N.child = C /\ N.refcnt = h[p].refcnt /\ N.reloc = h[p].reloc
      /\ N.value = h[p].value
  BY <1>2, <1>3 DEF NodeRec
<1> HIDE DEF N
<1>5. G \in Heaps /\ G[p] = N /\ \A a \in Places \ {p} : G[a] = h[a]
  BY <1>4 DEF Heaps
<1> HIDE DEF G
<1>6. ASSUME NEW a \in Places
      PROVE  G[a].refcnt = h[a].refcnt /\ G[a].reloc = h[a].reloc /\ G[a].value = h[a].value
  BY <1>4, <1>5
<1>7. G[p].child[d] = c /\ \A e \in 1 .. 2 \ {d} : G[p].child[e] = h[p].child[e]
  BY <1>2, <1>4, <1>5
<1> QED
  BY <1>1, <1>5, <1>6, <1>7 DEF IsPointing

(* The parents of a place after a pointer from n to c was redirected. *)
LEMMA PointingParents ==
  ASSUME NEW h \in Heaps, NEW p \in Places, NEW d \in 1 .. 2, NEW c \in Pointers,
         NEW n, h[p].child[d] = n,
         \A e \in 1 .. 2 \ {d} : h[p].child[e] # n \/ n = Nil
  PROVE  /\ \A a \in Places : a # n /\ a # c =>
              Parents(Pointing(h, p, d, c), a) = Parents(h, a)
         /\ n \in Places /\ n # c => Parents(Pointing(h, p, d, c), n) = Parents(h, n) \ {p}
         /\ c \in Places /\ n # c => Parents(Pointing(h, p, d, c), c) = Parents(h, c) \cup {p}
<1>1. PICK g : g = Pointing(h, p, d, c)
  OBVIOUS
<1>0. IsPointing(g, h, p, d, c)
  BY <1>1, PointingIs
<1>2. g[p].child[d] = c /\ \A e \in 1 .. 2 \ {d} : g[p].child[e] = h[p].child[e]
  BY <1>0 DEF IsPointing
<1>3. \A q \in Places \ {p} : g[q].child = h[q].child
  BY <1>0 DEF IsPointing
<1>4. \A a : \A q \in Places \ {p} : q \in Parents(g, a) <=> q \in Parents(h, a)
  BY <1>3 DEF Parents
<1>5. \A a : a # n /\ a # c => (p \in Parents(g, a) <=> p \in Parents(h, a))
  BY <1>2 DEF Parents
<1>6. c \in Places => p \in Parents(g, c)
  BY <1>2 DEF Parents
<1>7. n \in Places /\ n # c => p \notin Parents(g, n)
  <2>1. SUFFICES ASSUME n \in Places, n # c, NEW e \in 1 .. 2, g[p].child[e] = n PROVE FALSE
    BY DEF Parents
  <2>2. n # Nil
    BY <2>1, PlaceIs
  <2>3. e # d
    BY <2>1, <1>2
  <2> QED
    BY <2>1, <2>2, <2>3, <1>2
<1>8. \A a : Parents(g, a) \subseteq Places /\ Parents(h, a) \subseteq Places
  BY DEF Parents
<1>9. ASSUME NEW a \in Places, a # n, a # c PROVE Parents(g, a) = Parents(h, a)
  <2>1. \A q \in Places : q \in Parents(g, a) <=> q \in Parents(h, a)
    BY <1>4, <1>5, <1>9
  <2> QED
    BY <2>1, <1>8
<1>10. ASSUME n \in Places, n # c PROVE Parents(g, n) = Parents(h, n) \ {p}
  BY <1>4, <1>7, <1>8, <1>10
<1>11. ASSUME c \in Places PROVE Parents(g, c) = Parents(h, c) \cup {p}
  BY SMTT(30), <1>4, <1>6, <1>8, <1>11
<1> QED
  BY <1>1, <1>9, <1>10, <1>11

(* The child of a living node is copied. *)
LEMMA CopyChild ==
  ASSUME NEW h, NEW R, Good(h, R), NEW p \in Places, NEW d \in 1 .. 2, h[p].child[d] # Nil,
         h[h[p].child[d]].refcnt # 1,
         NEW c \in Places, SegmentOf(c) = SegmentOf(h[p].child[d]), h[c].refcnt = 0
  PROVE  Good(Pointing(Duplicate(h, h[p].child[d], c), p, d, c), R)
<1>1. PICK n : n = h[p].child[d]
  OBVIOUS
<1>2. h \in Heaps /\ R \in Roots /\ Shape(h) /\ FreeEmpty(h) /\ Exact(h, R)
  BY DEF Good
<1>3. n \in Places /\ SegmentOf(n) # Whole /\ p \in Parents(h, n)
      /\ ~IsLeaf(SegmentOf(p)) /\ SegmentOf(n) = Half(SegmentOf(p), d)
      /\ SegmentOf(p) \in Segments /\ Half(SegmentOf(p), d) \in Segments
  BY <1>1, <1>2, ParentIs DEF Parents
<1>4. h[n].refcnt > 1 /\ c # n
  <2>1. h[n].refcnt # 0 /\ h[n].refcnt \in Nat
    BY <1>2, <1>3, PointedLives, NodeFields
  <2> QED
    BY <2>1, <1>1
<1>5. \A e \in 1 .. 2 \ {d} : h[p].child[e] # n
  <2>1. SUFFICES ASSUME NEW e \in 1 .. 2 \ {d}, h[p].child[e] = n PROVE FALSE
    OBVIOUS
  <2>2. SegmentOf(n) = Half(SegmentOf(p), e)
    BY <2>1, <1>1, <1>2, ParentIs
  <2>3. PICK s : s = SegmentOf(p)
    OBVIOUS
  <2>4. s \in Segments /\ ~IsLeaf(s) /\ Half(s, d) \in Segments /\ Half(s, e) = Half(s, d)
        /\ e \in 1 .. 2
    BY <2>1, <2>2, <2>3, <1>3
  <2>5. d = e
    BY <2>4, HalfOnce
  <2> QED
    BY <2>1, <2>5
<1>6. p # c /\ h[p].refcnt # 0
  BY <1>2 DEF FreeEmpty
<1>7. PICK D : D = Duplicate(h, n, c)
  OBVIOUS
<1>8. IsDuplicate(D, h, n, c)
  BY <1>3, <1>4, <1>7, DuplicateIs
<1>9. D \in Heaps
  BY <1>8 DEF IsDuplicate
<1>10. Shape(D) /\ FreeEmpty(D)
  BY <1>1, <1>3, <1>4, <1>8, DuplicateShape
<1>11. D[p].child = h[p].child /\ c \in Pointers
  BY <1>6, <1>8 DEF IsDuplicate, Pointers
<1>12. PICK g : g = Pointing(D, p, d, c)
  OBVIOUS
<1>13. /\ g \in Heaps
       /\ g[p].child[d] = c
       /\ \A e \in 1 .. 2 \ {d} : g[p].child[e] = D[p].child[e]
       /\ \A a \in Places \ {p} : g[a] = D[a]
       /\ \A a \in Places : g[a].refcnt = D[a].refcnt
  <2>1. IsPointing(g, D, p, d, c)
    BY <1>9, <1>11, <1>12, PointingIs
  <2> QED
    BY <2>1 DEF IsPointing
<1>14. /\ \A a \in Places : a # n /\ a # c => Parents(g, a) = Parents(D, a)
       /\ Parents(g, n) = Parents(D, n) \ {p}
       /\ Parents(g, c) = Parents(D, c) \cup {p}
  BY <1>1, <1>3, <1>4, <1>5, <1>9, <1>11, <1>12, PointingParents, SMTT(30)
<1>15. Shape(g)
  <2>1. ASSUME NEW a \in Places, NEW e \in 1 .. 2, g[a].child[e] # Nil
        PROVE  ~IsLeaf(SegmentOf(a)) /\ SegmentOf(g[a].child[e]) = Half(SegmentOf(a), e)
    <3>1. CASE a = p /\ e = d
      BY <3>1, <1>1, <1>3, <1>13
    <3>2. CASE ~(a = p /\ e = d)
      <4>1. g[a].child[e] = D[a].child[e]
        BY <3>2, <1>13
      <4> QED
        BY <4>1, <2>1, <1>10 DEF Shape
    <3> QED
      BY <3>1, <3>2
  <2> QED
    BY <2>1 DEF Shape
<1>16. FreeEmpty(g)
  <2>1. ASSUME NEW a \in Places, g[a].refcnt = 0 PROVE \A e \in 1 .. 2 : g[a].child[e] = Nil
    <3>1. D[a].refcnt = 0
      BY <2>1, <1>13
    <3>2. a # p
      <4>1. ASSUME a = p PROVE FALSE
        <5>1. \A e \in 1 .. 2 : D[p].child[e] = Nil
          BY <4>1, <3>1, <1>10 DEF FreeEmpty
        <5> QED
          BY <5>1, <1>11
      <4> QED
        BY <4>1
    <3> QED
      BY <3>1, <3>2, <1>10, <1>13 DEF FreeEmpty
  <2> QED
    BY <2>1 DEF FreeEmpty
<1>17. ASSUME NEW a \in Places
       PROVE  g[a].refcnt = Cardinality(RootsOf(R, a)) + Cardinality(Parents(g, a))
  <2>1. PICK x, y : x = Cardinality(RootsOf(R, a)) /\ y = Cardinality(Parents(h, a))
    OBVIOUS
  <2>2. x \in Nat /\ y \in Nat /\ h[a].refcnt = x + y
        /\ IsFiniteSet(RootsOf(R, a)) /\ IsFiniteSet(Parents(h, a))
    BY <2>1, <1>2, PointersFinite DEF Exact
  <2>3. g[a].refcnt = D[a].refcnt
    BY <1>13
  <2>4. n \notin Kids(h, n) /\ c \notin Kids(h, n)
    BY <1>3, KidsOther, PlaceIs
  <2>5. CASE a = c
    <3>1. RootsOf(R, c) = {} /\ Parents(h, c) = {}
      BY FreeUnpointed
    <3>2. Parents(g, c) = {p}
      BY <3>1, <2>4, <1>3, <1>8, <1>14, DuplicateParents
    <3>3. Cardinality(RootsOf(R, c)) = 0 /\ Cardinality(Parents(g, c)) = 1
      BY <3>1, <3>2, FS_Singleton, FS_EmptySet
    <3>4. D[c].refcnt = 1
      BY <1>8 DEF IsDuplicate
    <3> QED
      BY <3>3, <3>4, <2>3, <2>5
  <2>6. CASE a = n
    <3>1. Parents(g, n) = Parents(h, n) \ {p}
      BY <2>4, <1>3, <1>8, <1>14, DuplicateParents
    <3>2. Cardinality(Parents(g, a)) = y - 1
      BY <3>1, <2>1, <2>2, <2>6, <1>3, LessOne
    <3>3. D[a].refcnt = h[a].refcnt - 1
      BY <2>6, <1>8 DEF IsDuplicate
    <3> QED
      BY <3>2, <3>3, <2>1, <2>2, <2>3
  <2>7. CASE a # c /\ a # n /\ a \in Kids(h, n)
    <3>1. Parents(g, a) = Parents(h, a) \cup {c} /\ c \notin Parents(h, a)
      BY <2>7, <1>3, <1>8, <1>14, DuplicateParents
    <3>2. Cardinality(Parents(g, a)) = y + 1
      BY <3>1, <2>1, <2>2, AddOne
    <3>3. D[a].refcnt = h[a].refcnt + 1
      BY <2>7, <1>8 DEF IsDuplicate
    <3> QED
      BY <3>2, <3>3, <2>1, <2>2, <2>3
  <2>8. CASE a # c /\ a # n /\ a \notin Kids(h, n)
    <3>1. Parents(g, a) = Parents(h, a)
      BY <2>8, <1>3, <1>8, <1>14, DuplicateParents
    <3>2. D[a].refcnt = h[a].refcnt
      BY <2>8, <1>8 DEF IsDuplicate
    <3> QED
      BY <3>1, <3>2, <2>1, <2>2, <2>3
  <2> QED
    BY <2>5, <2>6, <2>7, <2>8
<1>18. Exact(g, R)
  BY <1>17 DEF Exact
<1> QED
  BY <1>1, <1>2, <1>7, <1>12, <1>13, <1>15, <1>16, <1>18 DEF Good

-----------------------------------------------------------------------------
(***************************************************************************)
(* Making a path writable.  A tree T is that of table t; R are the roots   *)
(* of the other tables.                                                    *)
(***************************************************************************)
Trees == [heap : Heaps, root : RootNodes \cup {Nil}]

TreeGood(T, R, t) == T \in Trees /\ R \in Roots /\ Good(T.heap, With(R, t, T.root))

LEMMA TreeFields ==
  ASSUME NEW T, NEW R, NEW t \in Tables, TreeGood(T, R, t)
  PROVE  /\ T = [heap |-> T.heap, root |-> T.root] /\ T = Tree(T.heap, T.root)
         /\ T.heap \in Heaps /\ T.root \in RootNodes \cup {Nil} /\ T.root \in Pointers
         /\ Good(T.heap, With(R, t, T.root)) /\ Shape(T.heap) /\ R \in Roots
         /\ With(R, t, T.root)[t] = T.root /\ With(R, t, T.root) \in Roots
<1>1. T \in Trees /\ R \in Roots /\ Good(T.heap, With(R, t, T.root))
  BY DEF TreeGood
<1>2. T = [heap |-> T.heap, root |-> T.root] /\ T.heap \in Heaps /\ T.root \in RootNodes \cup {Nil}
  BY <1>1 DEF Trees
<1>3. T.root \in Pointers
  BY <1>2 DEF Pointers, RootNodes
<1>4. With(R, t, T.root)[t] = T.root /\ With(R, t, T.root) \in Roots
  BY <1>1, <1>2, WithIs
<1> QED
  BY <1>1, <1>2, <1>3, <1>4 DEF Good, Tree

LEMMA MakeTree ==
  ASSUME NEW h, NEW r \in RootNodes \cup {Nil}, NEW R \in Roots, NEW t \in Tables,
         Good(h, With(R, t, r))
  PROVE  TreeGood(Tree(h, r), R, t) /\ TreeGood([heap |-> h, root |-> r], R, t)
<1>1. h \in Heaps
  BY DEF Good
<1>2. PICK T : T = [heap |-> h, root |-> r]
  OBVIOUS
<1>3. T \in Trees /\ T.heap = h /\ T.root = r
  BY <1>1, <1>2 DEF Trees
<1>4. TreeGood(T, R, t)
  BY <1>3 DEF TreeGood
<1> QED
  BY <1>2, <1>4 DEF Tree

LEMMA RedirectIs ==
  ASSUME NEW h, NEW r, NEW p, NEW d, NEW n
  PROVE  /\ p = Nil => Redirect(Tree(h, r), p, d, n) = Tree(h, n)
         /\ p # Nil => Redirect(Tree(h, r), p, d, n) = Tree(Pointing(h, p, d, n), r)
BY DEF Redirect, Tree, Pointing

(* The copy of the i-th node of the path to f. *)
CopyAt(T, f, i, ns) ==
  CopyNode(T, f, i, IF i = 1 THEN Nil ELSE ns[i - 1], ns[i], Malloc(T.heap, Path[f][i]))

LEMMA CopyAtIs ==
  ASSUME NEW T, NEW R, NEW t \in Tables, TreeGood(T, R, t), NEW f \in Fields,
         NEW i \in 1 .. Len(Path[f]), Nodes(T.heap, T.root, f)[i] # Nil
  PROVE  \E n, c \in Places :
           /\ n = Nodes(T.heap, T.root, f)[i] /\ SegmentOf(n) = Path[f][i]
           /\ c = Malloc(T.heap, Path[f][i]) /\ SegmentOf(c) = SegmentOf(n) /\ T.heap[c].refcnt = 0
           /\ i = 1 => /\ n = T.root /\ SegmentOf(n) = Whole
                       /\ CopyAt(T, f, i, Nodes(T.heap, T.root, f)) = Tree(Duplicate(T.heap, n, c), c)
           /\ i # 1 => \E p \in Places : \E d \in 1 .. 2 :
                /\ p = Nodes(T.heap, T.root, f)[i - 1] /\ d = Direction(Path[f][i - 1], f)
                /\ T.heap[p].child[d] = n
                /\ CopyAt(T, f, i, Nodes(T.heap, T.root, f)) =
                     Tree(Pointing(Duplicate(T.heap, n, c), p, d, c), T.root)
<1>1. PICK h, r, ns : h = T.heap /\ r = T.root /\ ns = Nodes(h, r, f)
  OBVIOUS
<1>2. T = Tree(h, r) /\ h \in Heaps /\ Shape(h) /\ r \in RootNodes \cup {Nil}
      /\ Good(h, With(R, t, r))
  BY <1>1, TreeFields
<1>3. PICK n, c : n = ns[i] /\ c = Malloc(h, Path[f][i])
  OBVIOUS
<1>4. Len(Path[f]) \in Nat /\ Path[f][i] \in Segments
  BY PathFacts
<1>5. n \in Pointers /\ n # Nil /\ SegmentOf(n) = Path[f][i]
  BY <1>1, <1>2, <1>3, NodesFacts, ZenonT(40)
<1>6. n \in Places
  BY <1>5 DEF Pointers
<1>7. c \in Places /\ SegmentOf(c) = SegmentOf(n) /\ h[c].refcnt = 0
  BY <1>2, <1>3, <1>4, <1>5, MallocIs
<1>8. [T EXCEPT !.heap = Duplicate(T.heap, n, c)] = Tree(Duplicate(h, n, c), r)
  BY <1>1, <1>2 DEF Tree
<1>9. CASE i = 1
  <2>1. n = r /\ SegmentOf(n) = Whole
    BY SMTT(15), ZenonT(60), <1>1, <1>2, <1>3, <1>5, <1>9, NodesFacts, PathFacts
  <2>2. CopyAt(T, f, i, ns) = Redirect(Tree(Duplicate(h, n, c), r), Nil, 1, c)
    BY <1>1, <1>3, <1>8, <1>9 DEF CopyAt, CopyNode
  <2>3. CopyAt(T, f, i, ns) = Tree(Duplicate(h, n, c), c)
    BY <2>2, RedirectIs
  <2> QED
    BY <2>1, <2>3, <1>1, <1>3, <1>5, <1>6, <1>7, <1>9
<1>10. CASE i # 1
  <2>1. i - 1 \in 1 .. Len(Path[f]) /\ i - 1 # Len(Path[f]) /\ (i - 1) + 1 = i
    BY <1>4, <1>10
  <2>2. PICK p, d : p = ns[i - 1] /\ d = Direction(Path[f][i - 1], f)
    OBVIOUS
  <2>3. p \in Pointers /\ ns[i] = Child(h, p, d)
    <3>1. PICK j : j = i - 1
      OBVIOUS
    <3>2. j \in 1 .. Len(Path[f]) /\ j # Len(Path[f]) /\ j + 1 = i
      BY <3>1, <2>1
    <3>3. ns[j] \in Pointers /\ ns[j + 1] = Child(h, ns[j], Direction(Path[f][j], f))
      <4>1. \A k \in 1 .. Len(Path[f]) :
              /\ Nodes(h, r, f)[k] \in Pointers
              /\ k # Len(Path[f]) =>
                   Nodes(h, r, f)[k + 1] = Child(h, Nodes(h, r, f)[k], Direction(Path[f][k], f))
        BY <1>2, NodesFacts, SMTT(30)
      <4> QED
        BY <4>1, <3>2, <1>1
    <3> QED
      BY <3>1, <3>2, <3>3, <2>2
  <2>4. n = Child(h, p, d)
    BY <2>3, <1>3
  <2>5. p # Nil
    BY <2>4, <1>5 DEF Child
  <2>6. p \in Places /\ d \in 1 .. 2 /\ h[p].child[d] = n
    BY <2>2, <2>3, <2>4, <2>5 DEF Pointers, Child, Direction
  <2>7. CopyAt(T, f, i, ns) = Redirect(Tree(Duplicate(h, n, c), r), p, d, c)
    BY <2>2, <1>1, <1>3, <1>8, <1>10 DEF CopyAt, CopyNode
  <2>8. CopyAt(T, f, i, ns) = Tree(Pointing(Duplicate(h, n, c), p, d, c), r)
    BY <2>5, <2>7, RedirectIs
  <2> QED
    BY <2>2, <2>6, <2>8, <1>1, <1>3, <1>5, <1>6, <1>7, <1>10
<1> QED
  BY <1>9, <1>10

LEMMA CopyAtGood ==
  ASSUME NEW T, NEW R, NEW t \in Tables, TreeGood(T, R, t), NEW f \in Fields,
         NEW i \in 1 .. Len(Path[f]), Nodes(T.heap, T.root, f)[i] # Nil,
         T.heap[Nodes(T.heap, T.root, f)[i]].refcnt # 1
  PROVE  TreeGood(CopyAt(T, f, i, Nodes(T.heap, T.root, f)), R, t)
<1>1. PICK h, r, W : h = T.heap /\ r = T.root /\ W = With(R, t, r)
  OBVIOUS
<1>2. Good(h, W) /\ W[t] = r /\ R \in Roots /\ r \in RootNodes \cup {Nil}
  BY <1>1, TreeFields
<1>3. PICK n, c \in Places :
        /\ n = Nodes(h, r, f)[i] /\ SegmentOf(n) = Path[f][i]
        /\ c = Malloc(h, Path[f][i]) /\ SegmentOf(c) = SegmentOf(n) /\ h[c].refcnt = 0
        /\ i = 1 => /\ n = r /\ SegmentOf(n) = Whole
                    /\ CopyAt(T, f, i, Nodes(h, r, f)) = Tree(Duplicate(h, n, c), c)
        /\ i # 1 => \E p \in Places : \E d \in 1 .. 2 :
             /\ p = Nodes(h, r, f)[i - 1] /\ d = Direction(Path[f][i - 1], f)
             /\ h[p].child[d] = n
             /\ CopyAt(T, f, i, Nodes(h, r, f)) = Tree(Pointing(Duplicate(h, n, c), p, d, c), r)
  BY <1>1, CopyAtIs
<1>4. h[n].refcnt # 1 /\ n # Nil
  BY <1>1, <1>3, PlaceIs
<1>5. CASE i = 1
  <2>1. Good(Duplicate(h, n, c), With(W, t, c))
    BY <1>2, <1>3, <1>4, <1>5, CopyRoot
  <2>2. With(W, t, c) = With(R, t, c) /\ c \in RootNodes
    BY <1>1, <1>2, <1>3, <1>5, WithTwice DEF RootNodes
  <2>3. TreeGood(Tree(Duplicate(h, n, c), c), R, t)
    BY <2>1, <2>2, <1>2, MakeTree
  <2> QED
    BY <2>3, <1>1, <1>3, <1>5
<1>6. CASE i # 1
  <2>1. PICK p \in Places, d \in 1 .. 2 :
          h[p].child[d] = n
          /\ CopyAt(T, f, i, Nodes(h, r, f)) = Tree(Pointing(Duplicate(h, n, c), p, d, c), r)
    BY <1>3, <1>6
  <2>2. Good(Pointing(Duplicate(h, n, c), p, d, c), W)
    BY <2>1, <1>2, <1>3, <1>4, CopyChild
  <2>3. TreeGood(Tree(Pointing(Duplicate(h, n, c), p, d, c), r), R, t)
    BY <2>2, <1>1, <1>2, MakeTree
  <2> QED
    BY <2>1, <2>3, <1>1
<1> QED
  BY <1>5, <1>6

LEMMA PrepareLevelGood ==
  ASSUME NEW T, NEW R, NEW t \in Tables, TreeGood(T, R, t), NEW f \in Fields,
         NEW i \in 1 .. Len(Path[f])
  PROVE  TreeGood(PrepareLevel(T, f, i), R, t)
<1>1. PICK ns : ns = Nodes(T.heap, T.root, f)
  OBVIOUS
<1>2. PrepareLevel(T, f, i) =
        IF ns[i] = Nil \/ T.heap[ns[i]].refcnt = 1 THEN T ELSE CopyAt(T, f, i, ns)
  BY <1>1, Zenon DEF PrepareLevel, PrepareNode, CopyAt
<1>3. CASE ns[i] = Nil \/ T.heap[ns[i]].refcnt = 1
  BY <1>2, <1>3
<1>4. CASE ~(ns[i] = Nil \/ T.heap[ns[i]].refcnt = 1)
  <2>1. TreeGood(CopyAt(T, f, i, ns), R, t)
    BY <1>1, <1>4, CopyAtGood
  <2> QED
    BY <2>1, <1>2, <1>4
<1> QED
  BY <1>3, <1>4

(* The loop over the path. *)
Prepares(after, T, R, t, f) ==
  /\ after[0] = T
  /\ \A i \in 0 .. Len(Path[f]) : TreeGood(after[i], R, t)
  /\ \A i \in 1 .. Len(Path[f]) : after[i] = PrepareLevel(after[i - 1], f, i)

LEMMA PrepareToWriteIs ==
  ASSUME NEW T, NEW R, NEW t \in Tables, TreeGood(T, R, t), NEW f \in Fields
  PROVE  \E after : Prepares(after, T, R, t, f) /\ PrepareToWrite(T, f) = after[Len(Path[f])]
<1> DEFINE N == Len(Path[f])
           X == {x \in Trees : TreeGood(x, R, t)}
           P(x, i) == PrepareLevel(x, f, i)
           F == [i \in 1 .. N |-> [x \in X |-> P(x, i)]]
           Def(w) == [i \in 0 .. N |-> IF i = 0 THEN T ELSE P(w[i - 1], i)]
           after == CHOOSE w : w = Def(w)
<1>0. PrepareToWrite(T, f) = after[N]
  BY Zenon DEF PrepareToWrite
<1>1. N \in Nat
  BY PathFacts
<1>2. T \in X
  BY DEF TreeGood
<1>3. ASSUME NEW x \in X, NEW i \in 1 .. N PROVE P(x, i) \in X
  <2>1. TreeGood(P(x, i), R, t)
    BY PrepareLevelGood
  <2> QED
    BY <2>1 DEF TreeGood
<1> HIDE DEF N, P, X
<1>4. F \in [1 .. N -> [X -> X]]
  BY <1>3
<1>5. PICK g : IteratesFrom(g, N, X, T, F)
  <2> HIDE DEF F
  <2> QED
    BY <1>1, <1>2, <1>4, Iteration
<1>6. g \in [0 .. N -> X] /\ g[0] = T /\ \A i \in 1 .. N : g[i] = F[i][g[i - 1]]
  BY <1>5 DEF IteratesFrom
<1>7. ASSUME NEW i \in 1 .. N PROVE g[i] = P(g[i - 1], i)
  <2>1. g[i - 1] \in X
    BY <1>1, <1>6
  <2>2. F[i][g[i - 1]] = P(g[i - 1], i)
    BY <2>1, Zenon
  <2> QED
    BY <1>6, <2>2
<1> HIDE DEF F
<1>8. \A i \in 0 .. N : g[i] = IF i = 0 THEN T ELSE P(g[i - 1], i)
  <2>1. \A i \in 0 .. N : i = 0 \/ i \in 1 .. N
    BY <1>1
  <2> QED
    BY <2>1, <1>6, <1>7
<1>9. \E w : w = Def(w)
  BY <1>6, <1>8
<1>10. after = Def(after)
  <2> HIDE DEF Def
  <2> QED
    BY <1>9, Zenon
<1> HIDE DEF after
<1>11. after[0] = T
  BY <1>1, <1>10
<1>12. ASSUME NEW i \in 1 .. N PROVE after[i] = P(after[i - 1], i)
  <2>1. i \in 0 .. N /\ i # 0
    BY <1>1
  <2>2. after[i] = Def(after)[i]
    BY <1>10
  <2> QED
    BY <2>1, <2>2
<1> HIDE DEF Def
<1> DEFINE S == {i \in 0 .. N : after[i] \in X}
<1>13. 0 \in S
  BY <1>1, <1>2, <1>11
<1>14. ASSUME NEW i \in 0 .. N - 1, i \in S PROVE i + 1 \in S
  <2>1. i + 1 \in 1 .. N /\ i + 1 \in 0 .. N /\ (i + 1) - 1 = i
    BY <1>1
  <2>2. after[i + 1] = P(after[i], i + 1) /\ after[i] \in X
    BY <2>1, <1>12, <1>14
  <2> QED
    BY <2>1, <2>2, <1>3
<1>15. 0 .. N \subseteq S
  <2> HIDE DEF S
  <2> QED
    BY <1>1, <1>13, <1>14, SetInduction
<1>16. \A i \in 0 .. N : TreeGood(after[i], R, t)
  BY <1>15 DEF X
<1>17. Prepares(after, T, R, t, f)
  BY <1>11, <1>12, <1>16 DEF Prepares, P, N
<1> QED
  BY <1>0, <1>17 DEF N

LEMMA PrepareToWriteGood ==
  ASSUME NEW T, NEW R, NEW t \in Tables, TreeGood(T, R, t), NEW f \in Fields
  PROVE  TreeGood(PrepareToWrite(T, f), R, t)
<1>1. PICK after : Prepares(after, T, R, t, f) /\ PrepareToWrite(T, f) = after[Len(Path[f])]
  BY PrepareToWriteIs
<1>2. Len(Path[f]) \in 0 .. Len(Path[f])
  BY PathFacts
<1> QED
  BY <1>1, <1>2 DEF Prepares

-----------------------------------------------------------------------------
(***************************************************************************)
(* Creating a field.                                                       *)
(***************************************************************************)
(* The nodes on the way to a field live. *)
LEMMA NodesLive ==
  ASSUME NEW h, NEW R, Good(h, R), NEW t \in Tables, R[t] \in RootNodes \cup {Nil},
         NEW f \in Fields, NEW i \in 1 .. Len(Path[f]), Nodes(h, R[t], f)[i] # Nil
  PROVE  /\ Nodes(h, R[t], f)[i] \in Places /\ h[Nodes(h, R[t], f)[i]].refcnt # 0
         /\ i # 1 => /\ Nodes(h, R[t], f)[i - 1] \in Places
                     /\ Direction(Path[f][i - 1], f) \in 1 .. 2
                     /\ h[Nodes(h, R[t], f)[i - 1]].child[Direction(Path[f][i - 1], f)]
                          = Nodes(h, R[t], f)[i]
<1>1. PICK r, ns, n : r = R[t] /\ ns = Nodes(h, r, f) /\ n = ns[i]
  OBVIOUS
<1>2. h \in Heaps /\ Shape(h) /\ r \in RootNodes \cup {Nil}
  BY <1>1 DEF Good
<1>3. Len(Path[f]) \in Nat
  BY PathFacts
<1>4. \A k \in 1 .. Len(Path[f]) :
        /\ Nodes(h, r, f)[k] \in Pointers
        /\ k # Len(Path[f]) =>
             Nodes(h, r, f)[k + 1] = Child(h, Nodes(h, r, f)[k], Direction(Path[f][k], f))
  BY <1>2, NodesFacts
<1>5. n \in Places
  BY <1>1, <1>4 DEF Pointers
<1>6. CASE i = 1
  <2>1. n = r
    BY <1>1, <1>2, <1>6, NodesFacts
  <2>2. t \in RootsOf(R, n)
    BY <2>1, <1>1 DEF RootsOf
  <2> QED
    BY <2>2, <1>1, <1>5, <1>6, PointedLives
<1>7. CASE i # 1
  <2>1. PICK j : j = i - 1
    OBVIOUS
  <2>2. j \in 1 .. Len(Path[f]) /\ j # Len(Path[f]) /\ j + 1 = i
    BY <2>1, <1>3, <1>7
  <2>3. PICK p, d : p = ns[j] /\ d = Direction(Path[f][j], f)
    OBVIOUS
  <2>4. p \in Pointers /\ n = Child(h, p, d)
    BY <2>2, <2>3, <1>1, <1>4
  <2>5. p # Nil
    BY <2>4, <1>1 DEF Child
  <2>6. p \in Places /\ d \in 1 .. 2 /\ h[p].child[d] = n
    BY <2>3, <2>4, <2>5 DEF Pointers, Child, Direction
  <2>7. p \in Parents(h, n)
    BY <2>6 DEF Parents
  <2> QED
    BY <2>1, <2>3, <2>6, <2>7, <1>1, <1>5, PointedLives
<1> QED
  BY <1>6, <1>7

(* The memory with the new nodes of the path to f from level first on. *)
IsGrown(A, h, f, first, new, v) ==
  /\ A \in Heaps
  /\ \A i \in first .. Len(Path[f]) :
       /\ A[new[i]].refcnt = 1 /\ A[new[i]].reloc = FALSE
       /\ A[new[i]].value = IF i = Len(Path[f]) THEN v ELSE {}
       /\ \A d \in 1 .. 2 : A[new[i]].child[d] =
            IF i < Len(Path[f]) /\ d = Direction(Path[f][i], f) THEN new[i + 1] ELSE Nil
  /\ \A a \in Places : (\A i \in first .. Len(Path[f]) : a # new[i]) => A[a] = h[a]

(* Places for new nodes: free ones of the segments of the path. *)
FreshPath(h, f, new) ==
  \A i \in 1 .. Len(Path[f]) :
    new[i] \in Places /\ SegmentOf(new[i]) = Path[f][i] /\ h[new[i]].refcnt = 0

LEMMA FreshDistinct ==
  ASSUME NEW h, NEW f \in Fields, NEW new, FreshPath(h, f, new),
         NEW i \in 1 .. Len(Path[f]), NEW j \in 1 .. Len(Path[f]), new[i] = new[j]
  PROVE  i = j
BY PathDistinct DEF FreshPath

LEMMA AddNodesIs ==
  ASSUME NEW T \in Trees, NEW f \in Fields, NEW first \in 1 .. Len(Path[f]), NEW new,
         FreshPath(T.heap, f, new), NEW v \in SUBSET Addresses
  PROVE  \E A : /\ IsGrown(A, T.heap, f, first, new, v)
                /\ AddNodes(T, NewNodes(f, Path[f], first, new, v)) = Tree(A, T.root)
<1> DEFINE L == Len(Path[f])
           p == Path[f]
           h == T.heap
           K == {new[i] : i \in first .. L}
           I(a) == CHOOSE j \in first .. L : new[j] = a
           C(i) == [d \in 1 .. 2 |-> IF i < L /\ d = Direction(p[i], f) THEN new[i + 1] ELSE Nil]
           Node(i) == [refcnt |-> 1, reloc |-> FALSE, value |-> IF i = L THEN v ELSE {},
                       child |-> C(i)]
           nodes == [a \in K |-> Node(I(a))]
           A == [a \in Places |-> IF a \in DOMAIN nodes THEN nodes[a] ELSE h[a]]
<1>1. L \in Nat /\ \A i \in first .. L : i \in 1 .. L /\ new[i] \in Places
  BY PathFacts DEF FreshPath
<1>2. NewNodes(f, p, first, new, v) = nodes
  BY Zenon DEF NewNodes
<1>3. T = [heap |-> h, root |-> T.root] /\ h \in Heaps
  BY DEF Trees
<1>4. AddNodes(T, nodes) = Tree(A, T.root)
  <2>1. AddNodes(T, nodes) = [T EXCEPT !.heap = A]
    BY Zenon DEF AddNodes
  <2> HIDE DEF A, h
  <2> QED
    BY <2>1, <1>3 DEF Tree
<1>5. ASSUME NEW i \in first .. L PROVE Node(i) \in NodeRec
  <2>1. \A d \in 1 .. 2 : (IF i < L /\ d = Direction(p[i], f) THEN new[i + 1] ELSE Nil) \in Pointers
    <3>1. i < L => i + 1 \in first .. L
      BY <1>1
    <3> QED
      BY <3>1, <1>1 DEF Pointers
  <2>2. C(i) \in [1 .. 2 -> Pointers]
    BY <2>1
  <2> HIDE DEF C
  <2> QED
    BY <2>2 DEF NodeRec
<1>6. ASSUME NEW i \in first .. L PROVE I(new[i]) = i
  <2>1. I(new[i]) \in first .. L /\ new[I(new[i])] = new[i]
    BY Zenon
  <2> HIDE DEF I
  <2> QED
    BY <2>1, <1>1, FreshDistinct
<1> HIDE DEF I, Node
<1>7. DOMAIN nodes = K
  OBVIOUS
<1>8. ASSUME NEW i \in first .. L PROVE nodes[new[i]] = Node(i)
  BY <1>6
<1> HIDE DEF nodes
<1>9. ASSUME NEW i \in first .. L PROVE A[new[i]] = Node(i)
  BY <1>1, <1>7, <1>8
<1>10. ASSUME NEW a \in Places, \A i \in first .. L : a # new[i] PROVE A[a] = h[a]
  BY <1>7, <1>10
<1>11. \A a \in Places : h[a] \in NodeRec
  BY <1>3, NodeFields
<1>12. ASSUME NEW a \in Places PROVE A[a] \in NodeRec
  BY <1>5, <1>9, <1>10, <1>11
<1>13. A \in Heaps
  <2>1. A = [a \in Places |-> A[a]]
    OBVIOUS
  <2> HIDE DEF A
  <2> QED
    BY <2>1, <1>12 DEF Heaps
<1> HIDE DEF A
<1>14. ASSUME NEW i \in first .. L
       PROVE  /\ A[new[i]].refcnt = 1 /\ A[new[i]].reloc = FALSE
              /\ A[new[i]].value = IF i = L THEN v ELSE {}
              /\ \A d \in 1 .. 2 : A[new[i]].child[d] =
                   IF i < L /\ d = Direction(p[i], f) THEN new[i + 1] ELSE Nil
  <2>1. A[new[i]] = Node(i)
    BY <1>9
  <2>2. Node(i).refcnt = 1 /\ Node(i).reloc = FALSE /\ Node(i).child = C(i)
        /\ Node(i).value = IF i = L THEN v ELSE {}
    BY DEF Node
  <2>3. \A d \in 1 .. 2 : C(i)[d] = IF i < L /\ d = Direction(p[i], f) THEN new[i + 1] ELSE Nil
    OBVIOUS
  <2> QED
    BY <2>1, <2>2, <2>3
<1>15. IsGrown(A, h, f, first, new, v)
  BY <1>10, <1>13, <1>14 DEF IsGrown
<1> QED
  BY <1>2, <1>4, <1>15

(* The pointers of the memory with the new nodes. *)
GrownPointers(A, h, f, first, new) ==
  /\ \A a \in Places : (\A i \in first .. Len(Path[f]) : a # new[i]) =>
       Parents(A, a) = Parents(h, a)
  /\ Parents(A, new[first]) = {}
  /\ \A i \in first + 1 .. Len(Path[f]) : Parents(A, new[i]) = {new[i - 1]}

LEMMA GrownParents ==
  ASSUME NEW h, NEW R, Good(h, R), NEW f \in Fields, NEW first \in 1 .. Len(Path[f]), NEW new,
         FreshPath(h, f, new), NEW v, NEW A, IsGrown(A, h, f, first, new, v)
  PROVE  GrownPointers(A, h, f, first, new)
<1> DEFINE L == Len(Path[f])
<1>1. L \in Nat /\ first \in first .. L
      /\ \A i \in first .. L : i \in 1 .. L /\ new[i] \in Places /\ h[new[i]].refcnt = 0
                               /\ new[i] # Nil
  BY PathFacts, PlaceIs DEF FreshPath
<1>2. \A q \in Places : (\A i \in first .. L : q # new[i]) => A[q] = h[q]
  BY DEF IsGrown
<1>3. ASSUME NEW i \in first .. L, NEW d \in 1 .. 2
      PROVE  A[new[i]].child[d] =
               IF i < L /\ d = Direction(Path[f][i], f) THEN new[i + 1] ELSE Nil
  BY DEF IsGrown
<1>4. ASSUME NEW i \in first .. L PROVE Parents(h, new[i]) = {}
  BY <1>1, FreeUnpointed
<1>5. ASSUME NEW i \in first .. L, NEW a \in Places PROVE new[i] \notin Parents(h, a)
  <2>1. \A d \in 1 .. 2 : h[new[i]].child[d] = Nil
    BY <1>1 DEF Good, FreeEmpty
  <2> QED
    BY <2>1, PlaceIs DEF Parents
<1>6. ASSUME NEW a \in Places, NEW q \in Places, \A i \in first .. L : q # new[i]
      PROVE  q \in Parents(A, a) <=> q \in Parents(h, a)
  BY <1>2, <1>6 DEF Parents
<1>7. ASSUME NEW a \in Places, NEW i \in first .. L, new[i] \in Parents(A, a)
      PROVE  i < L /\ a = new[i + 1]
  <2>1. PICK d \in 1 .. 2 : A[new[i]].child[d] = a
    BY <1>7 DEF Parents
  <2>2. a # Nil
    BY PlaceIs
  <2> QED
    BY <2>1, <2>2, <1>3
<1>8. ASSUME NEW i \in first .. L, i < L PROVE new[i] \in Parents(A, new[i + 1])
  <2>1. PICK d : d = Direction(Path[f][i], f)
    OBVIOUS
  <2>2. d \in 1 .. 2
    BY <2>1 DEF Direction
  <2>3. A[new[i]].child[d] = new[i + 1]
    BY <2>1, <2>2, <1>3, <1>8
  <2> QED
    BY <2>2, <2>3, <1>1 DEF Parents
<1>9. \A a : Parents(A, a) \subseteq Places /\ Parents(h, a) \subseteq Places
  BY DEF Parents
<1>10. ASSUME NEW a \in Places, \A i \in first .. L : a # new[i]
       PROVE  Parents(A, a) = Parents(h, a)
  <2>1. \A i \in first .. L : new[i] \notin Parents(A, a) /\ new[i] \notin Parents(h, a)
    <3>1. ASSUME NEW i \in first .. L, new[i] \in Parents(A, a) PROVE FALSE
      <4>1. i < L /\ a = new[i + 1]
        BY <3>1, <1>7
      <4>2. i + 1 \in first .. L
        BY <4>1, <1>1
      <4> QED
        BY <4>1, <4>2, <1>10
    <3> QED
      BY <3>1, <1>5
  <2>2. ASSUME NEW q \in Places PROVE q \in Parents(A, a) <=> q \in Parents(h, a)
    BY <2>1, <1>6
  <2> QED
    BY <2>2, <1>9
<1>11. Parents(A, new[first]) = {}
  <2>1. SUFFICES ASSUME NEW q \in Parents(A, new[first]) PROVE FALSE
    OBVIOUS
  <2>2. q \in Places /\ new[first] \in Places
    BY <2>1, <1>1, <1>9
  <2>3. PICK i \in first .. L : q = new[i]
    BY <2>1, <2>2, <1>1, <1>4, <1>6
  <2>4. i < L /\ new[first] = new[i + 1]
    BY <2>1, <2>2, <2>3, <1>7
  <2>5. i + 1 \in 1 .. L /\ first \in 1 .. L /\ i + 1 # first
    BY <2>4, <1>1
  <2> QED
    BY <2>4, <2>5, FreshDistinct
<1>12. ASSUME NEW i \in first + 1 .. L PROVE Parents(A, new[i]) = {new[i - 1]}
  <2>1. i \in first .. L /\ i - 1 \in first .. L /\ i - 1 < L /\ (i - 1) + 1 = i
    BY <1>1
  <2>2. new[i - 1] \in Parents(A, new[i])
    BY <2>1, <1>8
  <2>3. ASSUME NEW q \in Parents(A, new[i]) PROVE q = new[i - 1]
    <3>1. q \in Places /\ new[i] \in Places
      BY <2>1, <2>3, <1>1, <1>9
    <3>2. PICK j \in first .. L : q = new[j]
      BY <3>1, <2>1, <2>3, <1>4, <1>6
    <3>3. j < L /\ new[i] = new[j + 1]
      BY <3>1, <3>2, <2>3, <1>7
    <3>4. j + 1 \in 1 .. L /\ i \in 1 .. L
      BY <3>3, <2>1, <1>1
    <3>5. i = j + 1
      BY <3>3, <3>4, FreshDistinct
    <3>6. j = i - 1
      BY <3>5, <1>1
    <3> QED
      BY <3>2, <3>6
  <2> QED
    BY <2>2, <2>3
<1> QED
  BY <1>10, <1>11, <1>12 DEF GrownPointers

LEMMA GrownShape ==
  ASSUME NEW h, NEW R, Good(h, R), NEW f \in Fields, NEW first \in 1 .. Len(Path[f]), NEW new,
         FreshPath(h, f, new), NEW v, NEW A, IsGrown(A, h, f, first, new, v)
  PROVE  Shape(A) /\ FreeEmpty(A)
<1> DEFINE L == Len(Path[f])
<1>1. h \in Heaps /\ Shape(h) /\ FreeEmpty(h) /\ L \in Nat
  BY PathFacts DEF Good
<1>2. ASSUME NEW a \in Places, NEW d \in 1 .. 2, A[a].child[d] # Nil
      PROVE  ~IsLeaf(SegmentOf(a)) /\ SegmentOf(A[a].child[d]) = Half(SegmentOf(a), d)
  <2>1. CASE \A i \in first .. L : a # new[i]
    <3>1. A[a] = h[a]
      BY <2>1 DEF IsGrown
    <3> QED
      BY <3>1, <1>1, <1>2 DEF Shape
  <2>2. ASSUME NEW i \in first .. L, a = new[i]
        PROVE  ~IsLeaf(SegmentOf(a)) /\ SegmentOf(A[a].child[d]) = Half(SegmentOf(a), d)
    <3>1. A[a].child[d] = IF i < L /\ d = Direction(Path[f][i], f) THEN new[i + 1] ELSE Nil
      BY <2>2 DEF IsGrown
    <3>2. i < L /\ d = Direction(Path[f][i], f) /\ A[a].child[d] = new[i + 1]
      BY <3>1, <1>2
    <3>3. i \in 1 .. L /\ i # L /\ i + 1 \in 1 .. L
      BY <3>2, <1>1
    <3>4. SegmentOf(a) = Path[f][i] /\ SegmentOf(new[i + 1]) = Path[f][i + 1]
      BY <3>3, <2>2 DEF FreshPath
    <3> QED
      BY <3>2, <3>3, <3>4, PathFacts
  <2> QED
    BY <2>1, <2>2
<1>3. ASSUME NEW a \in Places, A[a].refcnt = 0 PROVE \A d \in 1 .. 2 : A[a].child[d] = Nil
  <2>1. \A i \in first .. L : a # new[i]
    BY <1>3 DEF IsGrown
  <2>2. A[a] = h[a]
    BY <2>1 DEF IsGrown
  <2> QED
    BY <2>2, <1>1, <1>3 DEF FreeEmpty
<1> QED
  BY <1>2, <1>3 DEF Shape, FreeEmpty

(* The first field of a table without any. *)
LEMMA GrowRoot ==
  ASSUME NEW h, NEW R, Good(h, R), NEW t \in Tables, R[t] = Nil, NEW f \in Fields, NEW new,
         FreshPath(h, f, new), NEW v, NEW A, IsGrown(A, h, f, 1, new, v)
  PROVE  Good(A, With(R, t, new[1])) /\ new[1] \in RootNodes
<1> DEFINE L == Len(Path[f])
<1>1. L \in Nat \ {0} /\ 1 \in 1 .. L /\ h \in Heaps /\ R \in Roots /\ Exact(h, R)
  BY PathFacts DEF Good
<1>2. new[1] \in RootNodes /\ new[1] \in Places
  BY <1>1, PathFacts DEF FreshPath, RootNodes
<1>3. Shape(A) /\ FreeEmpty(A)
  BY <1>1, GrownShape
<1>4. A \in Heaps
  BY DEF IsGrown
<1>5. PICK W : W = With(R, t, new[1])
  OBVIOUS
<1>6. /\ W \in Roots
      /\ \A a : a # new[1] => RootsOf(W, a) = RootsOf(R, a) \ {t}
      /\ RootsOf(W, new[1]) = RootsOf(R, new[1]) \cup {t}
  BY <1>1, <1>2, <1>5, WithIs
<1>7. /\ \A a \in Places : (\A i \in 1 .. L : a # new[i]) => Parents(A, a) = Parents(h, a)
      /\ Parents(A, new[1]) = {}
      /\ \A i \in 1 + 1 .. L : Parents(A, new[i]) = {new[i - 1]}
  <2>1. GrownPointers(A, h, f, 1, new)
    BY <1>1, GrownParents
  <2> QED
    BY <2>1 DEF GrownPointers
<1>8. ASSUME NEW a \in Places
      PROVE  A[a].refcnt = Cardinality(RootsOf(W, a)) + Cardinality(Parents(A, a))
  <2>1. a # Nil
    BY PlaceIs
  <2>2. a # new[1] => RootsOf(W, a) = RootsOf(R, a)
    BY <2>1, <1>6 DEF RootsOf
  <2>3. CASE \A i \in 1 .. L : a # new[i]
    <3>1. A[a] = h[a]
      BY <2>3 DEF IsGrown
    <3> QED
      BY <3>1, <2>2, <2>3, <1>1, <1>7 DEF Exact
  <2>4. ASSUME NEW i \in 1 .. L, a = new[i]
        PROVE  A[a].refcnt = Cardinality(RootsOf(W, a)) + Cardinality(Parents(A, a))
    <3>1. A[a].refcnt = 1
      BY <2>4 DEF IsGrown
    <3>2. RootsOf(R, a) = {}
      BY <2>4, FreeUnpointed DEF FreshPath
    <3>3. CASE i = 1
      <4>1. RootsOf(W, a) = {t} /\ Parents(A, a) = {}
        BY <3>2, <3>3, <2>4, <1>6, <1>7
      <4>2. Cardinality(RootsOf(W, a)) = 1 /\ Cardinality(Parents(A, a)) = 0
        BY <4>1, FS_Singleton, FS_EmptySet
      <4> QED
        BY <4>2, <3>1
    <3>4. CASE i # 1
      <4>1. a # new[1] /\ i \in 1 + 1 .. L
        BY <3>4, <2>4, <1>1, FreshDistinct
      <4>2. RootsOf(W, a) = {} /\ Parents(A, a) = {new[i - 1]}
        BY <4>1, <3>2, <2>2, <2>4, <1>7
      <4>3. Cardinality(RootsOf(W, a)) = 0 /\ Cardinality(Parents(A, a)) = 1
        BY <4>2, FS_Singleton, FS_EmptySet
      <4> QED
        BY <4>3, <3>1
    <3> QED
      BY <3>3, <3>4
  <2> QED
    BY <2>3, <2>4
<1>9. Exact(A, W)
  BY <1>8 DEF Exact
<1> QED
  BY <1>2, <1>3, <1>4, <1>5, <1>6, <1>9 DEF Good

(* A field below an existing node. *)
LEMMA GrowChild ==
  ASSUME NEW h, NEW R, Good(h, R), NEW f \in Fields, NEW first \in 1 .. Len(Path[f]), first # 1,
         NEW new, FreshPath(h, f, new), NEW v, NEW A, IsGrown(A, h, f, first, new, v),
         NEW p \in Places, SegmentOf(p) = Path[f][first - 1], h[p].refcnt # 0,
         NEW d \in 1 .. 2, d = Direction(Path[f][first - 1], f), h[p].child[d] = Nil
  PROVE  Good(Pointing(A, p, d, new[first]), R)
<1> DEFINE L == Len(Path[f])
<1>1. L \in Nat \ {0} /\ h \in Heaps /\ R \in Roots /\ Exact(h, R)
  BY PathFacts DEF Good
<1>2. first \in first .. L /\ \A i \in first .. L : i \in 1 .. L
  BY <1>1
<1>3. Shape(A) /\ FreeEmpty(A)
  BY GrownShape
<1>4. A \in Heaps
  BY DEF IsGrown
<1>5. PICK c : c = new[first]
  OBVIOUS
<1>6. c \in Places /\ SegmentOf(c) = Path[f][first] /\ c \in Pointers /\ c # Nil
  BY <1>5, PlaceIs DEF FreshPath, Pointers
<1>7. \A i \in first .. L : p # new[i]
  BY <1>2 DEF FreshPath
<1>8. A[p] = h[p]
  BY <1>7 DEF IsGrown
<1>9. PICK g : g = Pointing(A, p, d, c)
  OBVIOUS
<1>10. IsPointing(g, A, p, d, c)
  BY <1>4, <1>6, <1>9, PointingIs
<1>11. /\ \A a \in Places : a # c => Parents(g, a) = Parents(A, a)
       /\ Parents(g, c) = Parents(A, c) \cup {p}
  <2>1. A[p].child[d] = Nil
    BY <1>8
  <2>2. /\ \A a \in Places : a # Nil /\ a # c => Parents(g, a) = Parents(A, a)
        /\ Parents(g, c) = Parents(A, c) \cup {p}
    BY <2>1, <1>4, <1>6, <1>9, PointingParents
  <2> QED
    BY <2>2, PlaceIs
<1>12. /\ \A a \in Places : (\A i \in first .. L : a # new[i]) => Parents(A, a) = Parents(h, a)
       /\ Parents(A, new[first]) = {}
       /\ \A i \in first + 1 .. L : Parents(A, new[i]) = {new[i - 1]}
  <2>1. GrownPointers(A, h, f, first, new)
    BY GrownParents
  <2> QED
    BY <2>1 DEF GrownPointers
<1>13. Shape(g)
  <2>1. ASSUME NEW a \in Places, NEW e \in 1 .. 2, g[a].child[e] # Nil
        PROVE  ~IsLeaf(SegmentOf(a)) /\ SegmentOf(g[a].child[e]) = Half(SegmentOf(a), e)
    <3>1. CASE a = p /\ e = d
      <4>1. g[a].child[e] = c
        BY <3>1, <1>10 DEF IsPointing
      <4>2. PICK j : j = first - 1
        OBVIOUS
      <4>3. j \in 1 .. L /\ j # L /\ j + 1 = first
        BY <4>2, <1>1
      <4>4. ~IsLeaf(Path[f][j]) /\ Path[f][j + 1] = Half(Path[f][j], Direction(Path[f][j], f))
        BY <4>3, PathFacts
      <4>5. SegmentOf(a) = Path[f][j] /\ d = Direction(Path[f][j], f)
            /\ SegmentOf(c) = Path[f][j + 1]
        BY <4>2, <4>3, <3>1, <1>6
      <4> QED
        BY <4>1, <4>4, <4>5, <3>1
    <3>2. CASE ~(a = p /\ e = d)
      <4>1. g[a].child[e] = A[a].child[e]
        BY <3>2, <1>10 DEF IsPointing
      <4> QED
        BY <4>1, <2>1, <1>3 DEF Shape
    <3> QED
      BY <3>1, <3>2
  <2> QED
    BY <2>1 DEF Shape
<1>14. FreeEmpty(g)
  <2>1. ASSUME NEW a \in Places, g[a].refcnt = 0 PROVE \A e \in 1 .. 2 : g[a].child[e] = Nil
    <3>1. A[a].refcnt = 0
      BY <2>1, <1>10 DEF IsPointing
    <3>2. a # p
      BY <3>1, <1>8
    <3>3. g[a] = A[a]
      BY <3>2, <1>10 DEF IsPointing
    <3> QED
      BY <3>1, <3>3, <1>3 DEF FreeEmpty
  <2> QED
    BY <2>1 DEF FreeEmpty
<1>15. ASSUME NEW a \in Places
       PROVE  g[a].refcnt = Cardinality(RootsOf(R, a)) + Cardinality(Parents(g, a))
  <2>1. g[a].refcnt = A[a].refcnt
    BY <1>10 DEF IsPointing
  <2>2. CASE \A i \in first .. L : a # new[i]
    <3>1. A[a] = h[a]
      BY <2>2 DEF IsGrown
    <3>2. Parents(g, a) = Parents(h, a)
      BY <2>2, <1>2, <1>5, <1>11, <1>12
    <3> QED
      BY <3>1, <3>2, <2>1, <1>1 DEF Exact
  <2>3. ASSUME NEW i \in first .. L, a = new[i]
        PROVE  g[a].refcnt = Cardinality(RootsOf(R, a)) + Cardinality(Parents(g, a))
    <3>1. A[a].refcnt = 1
      BY <2>3 DEF IsGrown
    <3>2. RootsOf(R, a) = {}
      BY <2>3, <1>2, FreeUnpointed DEF FreshPath
    <3>3. \E q : Parents(g, a) = {q}
      <4>1. CASE i = first
        <5>1. Parents(g, a) = {p}
          BY <4>1, <2>3, <1>5, <1>11, <1>12
        <5> QED
          BY <5>1
      <4>2. CASE i # first
        <5>0. i \in first + 1 .. L /\ i \in 1 .. L
          BY <4>2, <1>1
        <5>1. a # c /\ i \in first + 1 .. L
          BY <5>0, <4>2, <2>3, <1>5, FreshDistinct
        <5>2. Parents(g, a) = {new[i - 1]}
          BY <5>1, <2>3, <1>11, <1>12
        <5> QED
          BY <5>2
      <4> QED
        BY <4>1, <4>2
    <3>4. Cardinality(RootsOf(R, a)) = 0 /\ Cardinality(Parents(g, a)) = 1
      BY <3>2, <3>3, FS_Singleton, FS_EmptySet
    <3> QED
      BY <3>1, <3>4, <2>1
  <2> QED
    BY <2>2, <2>3
<1>16. Exact(g, R) /\ g \in Heaps
  BY <1>10, <1>15 DEF Exact, IsPointing
<1> QED
  BY <1>1, <1>5, <1>9, <1>13, <1>14, <1>16 DEF Good

(* What an insertion adds: the nodes from level first on, and the pointer to them. *)
Inserts(U, T, f, first, new, v) ==
  /\ first \in 1 .. Len(Path[f])
  /\ Nodes(T.heap, T.root, f)[first] = Nil
  /\ \A j \in 1 .. first - 1 : Nodes(T.heap, T.root, f)[j] # Nil
  /\ FreshPath(T.heap, f, new)
  /\ \E A : /\ IsGrown(A, T.heap, f, first, new, v)
            /\ first = 1 => U = Tree(A, new[1])
            /\ first # 1 => U = Tree(Pointing(A, Nodes(T.heap, T.root, f)[first - 1],
                                              Direction(Path[f][first - 1], f), new[first]), T.root)

LEMMA InsertWritableIs ==
  ASSUME NEW T, NEW R, NEW t \in Tables, TreeGood(T, R, t), NEW f \in Fields,
         NEW v \in SUBSET Addresses, Find(T.heap, T.root, f) = Nil
  PROVE  \E first, new : Inserts(InsertWritable(T, f, v), T, f, first, new, v)
<1> DEFINE L == Len(Path[f])
           ns == Nodes(T.heap, T.root, f)
           Missing(i) == ns[i] = Nil /\ \A j \in 1 .. i - 1 : ns[j] # Nil
           first == CHOOSE i \in DOMAIN Path[f] : Missing(i)
           new == [i \in DOMAIN Path[f] |-> Malloc(T.heap, Path[f][i])]
           B == {i \in 1 .. L : ns[i] = Nil}
<1>1. L \in Nat \ {0} /\ DOMAIN Path[f] = 1 .. L
  BY PathFacts
<1>2. ns[L] = Nil
  BY DEF Find
<1>3. PICK m \in B : \A k \in B : m <= k
  <2>1. B \in SUBSET Nat /\ L \in B
    BY <1>1, <1>2
  <2> HIDE DEF B
  <2> QED
    BY <2>1, LeastMember, Zenon
<1>4. m \in 1 .. L /\ Missing(m)
  <2>1. m \in 1 .. L /\ ns[m] = Nil
    BY <1>3
  <2>2. ASSUME NEW j \in 1 .. m - 1, ns[j] = Nil PROVE FALSE
    <3>1. j \in 1 .. L /\ ~(m <= j)
      BY <2>1, <1>1
    <3> HIDE DEF ns
    <3> QED
      BY <3>1, <2>2, <1>3
  <2> QED
    BY <2>1, <2>2
<1>5. first \in 1 .. L /\ Missing(first)
  <2> HIDE DEF Missing, L
  <2> QED
    BY <1>1, <1>4, Zenon
<1>6. FreshPath(T.heap, f, new)
  <2>1. ASSUME NEW i \in 1 .. L
        PROVE  new[i] \in Places /\ SegmentOf(new[i]) = Path[f][i] /\ T.heap[new[i]].refcnt = 0
    <3>1. new[i] = Malloc(T.heap, Path[f][i])
      BY <1>1
    <3>2. Path[f][i] \in Segments
      BY PathFacts
    <3>3. Good(T.heap, With(R, t, T.root))
      BY TreeFields
    <3> HIDE DEF new
    <3> QED
      BY <3>1, <3>2, <3>3, MallocIs
  <2> QED
    BY <2>1 DEF FreshPath
<1>7. InsertWritable(T, f, v) = Grow(T, f, ns, first, new, v)
  BY Zenon DEF InsertWritable, InsertBelow
<1> HIDE DEF first, new
<1>8. T \in Trees
  BY DEF TreeGood
<1>9. PICK A : /\ IsGrown(A, T.heap, f, first, new, v)
               /\ AddNodes(T, NewNodes(f, Path[f], first, new, v)) = Tree(A, T.root)
  <2>1. first \in 1 .. Len(Path[f])
    BY <1>5
  <2>2. PICK k, w : k = first /\ w = new
    OBVIOUS
  <2>3. \E A : /\ IsGrown(A, T.heap, f, k, w, v)
               /\ AddNodes(T, NewNodes(f, Path[f], k, w, v)) = Tree(A, T.root)
    <3>1. k \in 1 .. Len(Path[f]) /\ FreshPath(T.heap, f, w)
      BY <2>1, <2>2, <1>6
    <3> HIDE DEF Missing, ns, L, B
    <3> QED
      BY <3>1, <1>8, AddNodesIs
  <2> QED
    BY <2>2, <2>3
<1>10. Grow(T, f, ns, first, new, v) =
         Redirect(Tree(A, T.root), IF first = 1 THEN Nil ELSE ns[first - 1],
                  IF first = 1 THEN 1 ELSE Direction(Path[f][first - 1], f), new[first])
  BY <1>9, Zenon DEF Grow
<1>11. CASE first = 1
  <2>1. Grow(T, f, ns, first, new, v) = Tree(A, new[1])
    BY <1>10, <1>11, RedirectIs
  <2> QED
    BY <2>1, <1>5, <1>6, <1>7, <1>9, <1>11 DEF Inserts
<1>12. CASE first # 1
  <2>1. first - 1 \in 1 .. first - 1
    BY <1>1, <1>5, <1>12
  <2>2. ns[first - 1] # Nil
    BY <2>1, <1>5
  <2>3. Grow(T, f, ns, first, new, v) =
          Tree(Pointing(A, ns[first - 1], Direction(Path[f][first - 1], f), new[first]), T.root)
    BY <2>2, <1>10, <1>12, RedirectIs
  <2> QED
    BY <2>3, <1>5, <1>6, <1>7, <1>9, <1>12 DEF Inserts
<1> QED
  BY <1>11, <1>12

LEMMA InsertsGood ==
  ASSUME NEW T, NEW R, NEW t \in Tables, TreeGood(T, R, t), NEW f \in Fields,
         NEW v, NEW U, NEW first, NEW new, Inserts(U, T, f, first, new, v)
  PROVE  TreeGood(U, R, t)
<1>1. PICK h, r, W, ns : h = T.heap /\ r = T.root /\ W = With(R, t, r) /\ ns = Nodes(h, r, f)
  OBVIOUS
<1>2. Good(h, W) /\ W[t] = r /\ R \in Roots /\ r \in RootNodes \cup {Nil} /\ h \in Heaps /\ Shape(h)
  BY <1>1, TreeFields
<1>3. first \in 1 .. Len(Path[f]) /\ FreshPath(h, f, new) /\ ns[first] = Nil
      /\ \A j \in 1 .. first - 1 : ns[j] # Nil
  BY <1>1 DEF Inserts
<1>4. PICK A : /\ IsGrown(A, h, f, first, new, v)
               /\ first = 1 => U = Tree(A, new[1])
               /\ first # 1 => U = Tree(Pointing(A, ns[first - 1], Direction(Path[f][first - 1], f),
                                                 new[first]), r)
  BY <1>1 DEF Inserts
<1>5. CASE first = 1
  <2>1. r = Nil
    BY <1>1, <1>2, <1>3, <1>5, NodesFacts
  <2>2. Good(A, With(W, t, new[1])) /\ new[1] \in RootNodes
    BY <2>1, <1>2, <1>3, <1>4, <1>5, GrowRoot
  <2>3. With(W, t, new[1]) = With(R, t, new[1])
    BY <1>1, <1>2, WithTwice
  <2> QED
    BY <2>2, <2>3, <1>2, <1>4, <1>5, MakeTree
<1>6. CASE first # 1
  <2>1. PICK j, p, d : j = first - 1 /\ p = ns[j] /\ d = Direction(Path[f][j], f)
    OBVIOUS
  <2>2. j \in 1 .. Len(Path[f]) /\ j # Len(Path[f]) /\ j + 1 = first /\ j \in 1 .. first - 1
    BY <2>1, <1>3, <1>6, PathFacts
  <2>3. p # Nil /\ d \in 1 .. 2
    BY <2>1, <2>2, <1>3 DEF Direction
  <2>4. p \in Places /\ h[p].refcnt # 0
    BY <2>1, <2>2, <2>3, <1>1, <1>2, NodesLive
  <2>5. SegmentOf(p) = Path[f][j]
    BY <2>1, <2>2, <2>3, <1>1, <1>2, NodesFacts, ZenonT(40)
  <2>6. Nodes(h, r, f)[j + 1] = Child(h, Nodes(h, r, f)[j], Direction(Path[f][j], f))
    <3>1. /\ h \in Heaps /\ Shape(h) /\ r \in RootNodes \cup {Nil} /\ f \in Fields
          /\ j \in 1 .. Len(Path[f]) /\ j # Len(Path[f])
      BY <2>2, <1>2
    <3>2. \A i \in 1 .. Len(Path[f]) : i # Len(Path[f]) =>
            Nodes(h, r, f)[i + 1] = Child(h, Nodes(h, r, f)[i], Direction(Path[f][i], f))
      BY <3>1, NodesFacts
    <3> QED
      BY <3>1, <3>2, Zenon
  <2>7. h[p].child[d] = Nil
    BY <2>1, <2>2, <2>3, <2>6, <1>1, <1>3 DEF Child
  <2>8. Good(Pointing(A, p, d, new[first]), W)
    BY <2>1, <2>3, <2>4, <2>5, <2>7, <1>2, <1>3, <1>4, <1>6, GrowChild
  <2> QED
    BY <2>1, <2>8, <1>1, <1>2, <1>4, <1>6, MakeTree
<1> QED
  BY <1>5, <1>6

LEMMA InsertGood ==
  ASSUME NEW T, NEW R, NEW t \in Tables, TreeGood(T, R, t), NEW f \in Fields,
         NEW v \in SUBSET Addresses, Find(PrepareToWrite(T, f).heap, PrepareToWrite(T, f).root, f) = Nil
  PROVE  TreeGood(Insert(T, f, v), R, t)
<1>1. PICK U : U = PrepareToWrite(T, f)
  OBVIOUS
<1>2. TreeGood(U, R, t)
  BY <1>1, PrepareToWriteGood
<1>3. \E first, new : Inserts(InsertWritable(U, f, v), U, f, first, new, v)
  BY <1>1, <1>2, InsertWritableIs
<1>4. TreeGood(InsertWritable(U, f, v), R, t)
  BY <1>2, <1>3, InsertsGood
<1> QED
  BY <1>1, <1>4 DEF Insert

-----------------------------------------------------------------------------
(***************************************************************************)
(* Steps that change neither pointers nor counters.                        *)
(***************************************************************************)
SamePointers(g, h) ==
  g \in Heaps /\ \A a \in Places : g[a].refcnt = h[a].refcnt /\ g[a].child = h[a].child

LEMMA SamePointersGood ==
  ASSUME NEW h, NEW R, Good(h, R), NEW g, SamePointers(g, h)
  PROVE  Good(g, R)
<1>1. h \in Heaps /\ R \in Roots /\ Shape(h) /\ FreeEmpty(h) /\ Exact(h, R) /\ g \in Heaps
  BY DEF Good, SamePointers
<1>2. \A a \in Places : g[a].refcnt = h[a].refcnt /\ g[a].child = h[a].child
  BY DEF SamePointers
<1>3. \A a : Parents(g, a) = Parents(h, a)
  BY <1>2 DEF Parents
<1>4. Shape(g)
  BY <1>1, <1>2 DEF Shape
<1>5. FreeEmpty(g)
  BY <1>1, <1>2 DEF FreeEmpty
<1>6. Exact(g, R)
  BY <1>1, <1>2, <1>3 DEF Exact
<1> QED
  BY <1>1, <1>4, <1>5, <1>6 DEF Good

LEMMA SamePointersTree ==
  ASSUME NEW T, NEW R, NEW t \in Tables, TreeGood(T, R, t), NEW g, SamePointers(g, T.heap)
  PROVE  TreeGood(Tree(g, T.root), R, t)
<1>1. Good(T.heap, With(R, t, T.root)) /\ T.root \in RootNodes \cup {Nil} /\ R \in Roots
  BY TreeFields
<1>2. Good(g, With(R, t, T.root))
  BY <1>1, SamePointersGood
<1> QED
  BY <1>1, <1>2, MakeTree

LEMMA SamePointersNodes ==
  ASSUME NEW h \in Heaps, Shape(h), NEW g, SamePointers(g, h),
         NEW r \in RootNodes \cup {Nil}, NEW f \in Fields, NEW i \in 1 .. Len(Path[f])
  PROVE  Nodes(g, r, f)[i] = Nodes(h, r, f)[i]
<1>1. PICK n, m : n = Nodes(h, r, f) /\ m = Nodes(g, r, f)
  OBVIOUS
<1> DEFINE L == Len(Path[f])
           N == L - 1
           S == {k \in 0 .. N : m[k + 1] = n[k + 1]}
<1>2. L \in Nat \ {0} /\ N \in Nat
  BY PathFacts
<1>3. \A a \in Places : g[a].refcnt = h[a].refcnt /\ g[a].child = h[a].child
  BY DEF SamePointers
<1>4. g \in Heaps /\ Shape(g)
  BY <1>3 DEF Shape, SamePointers
<1>5. m[1] = n[1]
  BY <1>1, <1>4, NodesFacts
<1>6. \A k \in 1 .. L :
        /\ Nodes(h, r, f)[k] \in Pointers
        /\ k # L =>
             Nodes(h, r, f)[k + 1] = Child(h, Nodes(h, r, f)[k], Direction(Path[f][k], f))
  BY NodesFacts, SMTT(80)
<1>7. \A k \in 1 .. L :
        k # L => Nodes(g, r, f)[k + 1] = Child(g, Nodes(g, r, f)[k], Direction(Path[f][k], f))
  BY <1>4, NodesFacts
<1>8. 0 \in S
  BY <1>2, <1>5
<1>9. ASSUME NEW k \in 0 .. N - 1, k \in S PROVE k + 1 \in S
  <2>1. k + 1 \in 1 .. L /\ k + 1 # L /\ k + 1 \in 0 .. N /\ m[k + 1] = n[k + 1]
    BY <1>2, <1>9
  <2>2. m[(k + 1) + 1] = Child(g, n[k + 1], Direction(Path[f][k + 1], f))
        /\ n[(k + 1) + 1] = Child(h, n[k + 1], Direction(Path[f][k + 1], f))
        /\ n[k + 1] \in Pointers
    BY <2>1, <1>1, <1>6, <1>7
  <2>3. Child(g, n[k + 1], Direction(Path[f][k + 1], f))
          = Child(h, n[k + 1], Direction(Path[f][k + 1], f))
    BY <2>2, <1>3 DEF Child, Pointers
  <2> QED
    BY <2>1, <2>2, <2>3
<1>10. 0 .. N \subseteq S
  <2> HIDE DEF S, N
  <2> QED
    BY <1>2, <1>8, <1>9, SetInduction
<1>11. i - 1 \in 0 .. N /\ (i - 1) + 1 = i
  BY <1>2
<1> QED
  BY <1>1, <1>10, <1>11

(* The assignment of a value. *)
LEMMA AssignIs ==
  ASSUME NEW T, NEW R, NEW t \in Tables, TreeGood(T, R, t), NEW f \in Fields,
         NEW v \in SUBSET Addresses
  PROVE  \E g : /\ Assign(T, f, v) = Tree(g, T.root) /\ SamePointers(g, T.heap)
                /\ \A a \in Places :
                     /\ g[a].reloc = T.heap[a].reloc
                     /\ g[a].value = IF a = Find(T.heap, T.root, f) THEN v ELSE T.heap[a].value
<1>1. PICK h, n : h = T.heap /\ n = Find(h, T.root, f)
  OBVIOUS
<1> DEFINE g == [h EXCEPT ![n].value = v]
<1>2. T = [heap |-> h, root |-> T.root] /\ h \in Heaps
  BY <1>1, TreeFields
<1>3. Assign(T, f, v) = Tree(g, T.root)
  <2>1. Assign(T, f, v) = [T EXCEPT !.heap = [T.heap EXCEPT ![n].value = v]]
    BY <1>1 DEF Assign
  <2> HIDE DEF g
  <2>2. [T EXCEPT !.heap = g] = [heap |-> g, root |-> T.root]
    BY <1>2
  <2> QED
    BY <2>1, <2>2, <1>1 DEF Tree, g
<1>4. ASSUME NEW a \in Places
      PROVE  /\ g[a] \in NodeRec /\ g[a].refcnt = h[a].refcnt /\ g[a].child = h[a].child
             /\ g[a].reloc = h[a].reloc /\ g[a].value = IF a = n THEN v ELSE h[a].value
  <2>1. h[a] \in NodeRec
    BY <1>2, NodeFields
  <2>2. CASE a = n
    <3>1. g[a] = [h[a] EXCEPT !.value = v]
      BY <2>2, <1>2 DEF Heaps
    <3> HIDE DEF g
    <3> QED
      BY <3>1, <2>1, <2>2 DEF NodeRec
  <2>3. CASE a # n
    <3>1. g[a] = h[a]
      BY <2>3, <1>2 DEF Heaps
    <3> QED
      BY <3>1, <2>1, <2>3
  <2> QED
    BY <2>2, <2>3
<1>5. g \in Heaps
  <2>1. g = [a \in Places |-> g[a]]
    BY <1>2 DEF Heaps
  <2> HIDE DEF g
  <2> QED
    BY <2>1, <1>4 DEF Heaps
<1> HIDE DEF g
<1>6. SamePointers(g, h)
  BY <1>4, <1>5 DEF SamePointers
<1> QED
  BY <1>1, <1>3, <1>4, <1>6

LEMMA AssignGood ==
  ASSUME NEW T, NEW R, NEW t \in Tables, TreeGood(T, R, t), NEW f \in Fields,
         NEW v \in SUBSET Addresses
  PROVE  TreeGood(Assign(T, f, v), R, t)
BY AssignIs, SamePointersTree

-----------------------------------------------------------------------------
(***************************************************************************)
(* The relocation flags of a path.                                         *)
(***************************************************************************)
IsFlags(flag, h, f, ns, val) ==
  /\ flag \in [1 .. Len(Path[f]) -> BOOLEAN]
  /\ flag[Len(Path[f])] = val
  /\ \A i \in 1 .. Len(Path[f]) - 1 :
       flag[i] = (flag[i + 1] \/ HasReloc(h, h[ns[i]].child[3 - Direction(Path[f][i], f)]))

FlagsAt(flag, f, ns) ==
  [a \in {ns[i] : i \in 1 .. Len(Path[f])} |-> flag[CHOOSE i \in 1 .. Len(Path[f]) : ns[i] = a]]

LEMMA PathFlagsIs ==
  ASSUME NEW h, NEW f \in Fields, NEW ns, NEW val \in BOOLEAN
  PROVE  \E flag : IsFlags(flag, h, f, ns, val) /\ PathFlags(h, f, ns, val) = FlagsAt(flag, f, ns)
<1> DEFINE L == Len(Path[f])
           N == L - 1
           Q(i) == HasReloc(h, h[ns[i]].child[3 - Direction(Path[f][i], f)])
           F == [k \in 1 .. N |-> [b \in BOOLEAN |-> (b \/ Q(L - k))]]
           Def(w) == [i \in 1 .. L |-> IF i = L THEN val ELSE (w[i + 1] \/ Q(i))]
           flag == CHOOSE w : w = Def(w)
<1>0. PathFlags(h, f, ns, val) = FlagsAt(flag, f, ns)
  BY Zenon DEF PathFlags, FlagsAt
<1>1. L \in Nat \ {0} /\ N \in Nat
  BY PathFacts
<1>2. \A i : Q(i) \in BOOLEAN
  BY DEF HasReloc
<1> HIDE DEF Q, L
<1>3. F \in [1 .. N -> [BOOLEAN -> BOOLEAN]]
  OBVIOUS
<1>4. PICK g : IteratesFrom(g, N, BOOLEAN, val, F)
  <2> HIDE DEF F, N
  <2> QED
    BY <1>1, <1>3, Iteration
<1>5. g \in [0 .. N -> BOOLEAN] /\ g[0] = val /\ \A k \in 1 .. N : g[k] = F[k][g[k - 1]]
  BY <1>4 DEF IteratesFrom
<1>6. ASSUME NEW k \in 1 .. N PROVE g[k] = (g[k - 1] \/ Q(L - k))
  <2>1. g[k - 1] \in BOOLEAN
    BY <1>1, <1>5
  <2>2. F[k][g[k - 1]] = (g[k - 1] \/ Q(L - k))
    BY <2>1, Zenon
  <2> QED
    BY <1>5, <2>2
<1> HIDE DEF F
<1>7. \E w : w = Def(w)
  <2> DEFINE w == [i \in 1 .. L |-> g[L - i]]
  <2>1. ASSUME NEW i \in 1 .. L PROVE w[i] = IF i = L THEN val ELSE (w[i + 1] \/ Q(i))
    <3>1. w[i] = g[L - i]
      OBVIOUS
    <3>2. CASE i = L
      <4>1. L - i = 0
        BY <3>2, <1>1
      <4> QED
        BY <3>1, <3>2, <4>1, <1>5
    <3>3. CASE i # L
      <4>1. L - i \in 1 .. N /\ i + 1 \in 1 .. L /\ L - (i + 1) = (L - i) - 1 /\ L - (L - i) = i
        BY <3>3, <1>1
      <4>2. g[L - i] = (g[(L - i) - 1] \/ Q(L - (L - i)))
        BY <4>1, <1>6
      <4>3. w[i + 1] = g[L - (i + 1)]
        BY <4>1
      <4>4. w[i] = (w[i + 1] \/ Q(i))
        BY <3>1, <4>1, <4>2, <4>3
      <4> HIDE DEF w
      <4> QED
        BY <3>3, <4>4
    <3> QED
      BY <3>2, <3>3
  <2>2. w = [i \in 1 .. L |-> w[i]]
    OBVIOUS
  <2> HIDE DEF w
  <2>3. w = Def(w)
    BY <2>1, <2>2
  <2> QED
    BY <2>3
<1>8. flag = Def(flag)
  <2> HIDE DEF Def
  <2> QED
    BY <1>7, Zenon
<1> HIDE DEF flag
<1>9. flag \in [1 .. L -> BOOLEAN]
  <2>1. \A i \in 1 .. L : (IF i = L THEN val ELSE (flag[i + 1] \/ Q(i))) \in BOOLEAN
    OBVIOUS
  <2>2. Def(flag) \in [1 .. L -> BOOLEAN]
    BY <2>1
  <2> QED
    BY <2>2, <1>8
<1>10. flag[L] = val
  BY <1>1, <1>8
<1>11. ASSUME NEW i \in 1 .. L - 1 PROVE flag[i] = (flag[i + 1] \/ Q(i))
  <2>1. i \in 1 .. L /\ i # L
    BY <1>1
  <2>2. flag[i] = Def(flag)[i]
    BY <1>8
  <2> QED
    BY <2>1, <2>2
<1>12. IsFlags(flag, h, f, ns, val)
  BY <1>9, <1>10, <1>11 DEF IsFlags, Q, L
<1> QED
  BY <1>0, <1>12 DEF L

\* g is h with the flags of the nodes ns of the path to f
IsFlagged(g, h, f, ns, flag) ==
  /\ \A a \in Places : g[a].value = h[a].value
  /\ \A a \in Places : (\A i \in 1 .. Len(Path[f]) : ns[i] # a) => g[a] = h[a]
  /\ \A i \in 1 .. Len(Path[f]) : ns[i] # Nil => g[ns[i]].reloc = flag[i]

LEMMA UpdateFlagIs ==
  ASSUME NEW T, NEW R, NEW t \in Tables, TreeGood(T, R, t), NEW f \in Fields,
         NEW val \in BOOLEAN
  PROVE  \E g, flag :
           /\ UpdateRelocatedFlag(T, f, val) = Tree(g, T.root)
           /\ SamePointers(g, T.heap)
           /\ IsFlags(flag, T.heap, f, Nodes(T.heap, T.root, f), val)
           /\ IsFlagged(g, T.heap, f, Nodes(T.heap, T.root, f), flag)
<1>1. PICK h, r, ns : h = T.heap /\ r = T.root /\ ns = Nodes(h, r, f)
  OBVIOUS
<1>2. T = [heap |-> h, root |-> r] /\ h \in Heaps /\ Shape(h) /\ r \in RootNodes \cup {Nil}
  BY <1>1, TreeFields
<1>3. PICK flag :
        IsFlags(flag, h, f, ns, val) /\ PathFlags(h, f, ns, val) = FlagsAt(flag, f, ns)
  BY PathFlagsIs
<1> DEFINE L == Len(Path[f])
           K == {ns[i] : i \in 1 .. L}
           I(a) == CHOOSE i \in 1 .. L : ns[i] = a
           flags == [a \in K |-> flag[I(a)]]
           Set(a) == [h[a] EXCEPT !.reloc = flags[a]]
           g == [a \in Places |-> IF a \in DOMAIN flags THEN Set(a) ELSE h[a]]
<1>4. UpdateRelocatedFlag(T, f, val) = Tree(g, r)
  <2>1. PathFlags(h, f, ns, val) = flags
    BY <1>3, Zenon DEF FlagsAt
  <2>2. UpdateRelocatedFlag(T, f, val) = SetFlags(T, flags)
    BY <2>1, <1>1 DEF UpdateRelocatedFlag
  <2> HIDE DEF flags
  <2>3. SetFlags(T, flags) = [T EXCEPT !.heap = g]
    BY <1>1, Zenon DEF SetFlags
  <2> HIDE DEF g
  <2> QED
    BY <2>2, <2>3, <1>2 DEF Tree
<1>5. ASSUME NEW a \in K PROVE I(a) \in 1 .. L /\ ns[I(a)] = a
  BY Zenon
<1>6. \A i \in 1 .. L : flag[i] \in BOOLEAN
  BY <1>3 DEF IsFlags
<1> HIDE DEF I
<1>7. DOMAIN flags = K /\ \A a \in K : flags[a] = flag[I(a)] /\ flags[a] \in BOOLEAN
  BY <1>5, <1>6
<1> HIDE DEF flags
<1>8. ASSUME NEW a \in Places
      PROVE  /\ g[a] \in NodeRec /\ g[a].refcnt = h[a].refcnt /\ g[a].child = h[a].child
             /\ g[a].value = h[a].value
             /\ a \notin K => g[a] = h[a]
             /\ a \in K => g[a].reloc = flags[a]
  <2>1. h[a] \in NodeRec
    BY <1>2, NodeFields
  <2>2. CASE a \in K
    <3>1. g[a] = Set(a) /\ flags[a] \in BOOLEAN
      BY <2>2, <1>7
    <3> HIDE DEF g
    <3> QED
      BY <3>1, <2>1, <2>2 DEF NodeRec
  <2>3. CASE a \notin K
    <3>1. g[a] = h[a]
      BY <2>3, <1>7
    <3> QED
      BY <3>1, <2>1, <2>3
  <2> QED
    BY <2>2, <2>3
<1>9. g \in Heaps
  <2>1. g = [a \in Places |-> g[a]]
    <3> HIDE DEF Set
    <3> QED
      OBVIOUS
  <2> HIDE DEF g
  <2> QED
    BY <2>1, <1>8 DEF Heaps
<1> HIDE DEF g
<1>10. SamePointers(g, h)
  BY <1>8, <1>9 DEF SamePointers
<1>11. ASSUME NEW i \in 1 .. L, ns[i] # Nil PROVE g[ns[i]].reloc = flag[i]
  <2>1. PICK a : a = ns[i]
    OBVIOUS
  <2>2. a \in K /\ a \in Pointers /\ SegmentOf(a) = Path[f][i] /\ a # Nil
    BY <2>1, <1>1, <1>2, <1>11, NodesFacts
  <2>3. a \in Places
    BY <2>2 DEF Pointers
  <2>4. PICK j : j = I(a)
    OBVIOUS
  <2>5. j \in 1 .. L /\ ns[j] = a
    BY <2>2, <2>4, <1>5
  <2>6. SegmentOf(a) = Path[f][j]
    BY <2>2, <2>5, <1>1, <1>2, NodesFacts
  <2>7. i = j
    BY <2>2, <2>5, <2>6, PathDistinct
  <2>8. g[a].reloc = flag[I(a)]
    BY <2>2, <2>3, <1>7, <1>8
  <2> QED
    BY <2>1, <2>4, <2>7, <2>8
<1>12. \A a \in Places : (\A i \in 1 .. L : ns[i] # a) => g[a] = h[a]
  BY <1>8
<1>13. IsFlagged(g, h, f, ns, flag)
  BY <1>8, <1>11, <1>12 DEF IsFlagged
<1> QED
  BY <1>1, <1>3, <1>4, <1>10, <1>13

LEMMA UpdateFlagGood ==
  ASSUME NEW T, NEW R, NEW t \in Tables, TreeGood(T, R, t), NEW f \in Fields,
         NEW val \in BOOLEAN
  PROVE  TreeGood(UpdateRelocatedFlag(T, f, val), R, t)
<1>1. PICK g : UpdateRelocatedFlag(T, f, val) = Tree(g, T.root) /\ SamePointers(g, T.heap)
  BY UpdateFlagIs
<1> QED
  BY <1>1, SamePointersTree

(* What a copy does to the tables: the copy stands wherever the node stood in *)
(* one of them, and shows the same.                                           *)

Replaced(b, a, n, c) == b = a \/ (a = n /\ b = c)

IsCopied(g, h, n, c) ==
  /\ g \in Heaps /\ Shape(g) /\ n \in Places /\ c \in Places /\ h[c].refcnt = 0
  /\ \A e \in 1 .. 2 : g[c].child[e] = h[n].child[e]
  /\ \A a \in Places \ {c} : \A e \in 1 .. 2 : Replaced(g[a].child[e], h[a].child[e], n, c)
  /\ g[c].value = h[n].value /\ g[c].reloc = FALSE
  /\ \A a \in Places \ {c} : g[a].value = h[a].value /\ g[a].reloc = h[a].reloc

\* The path to f from every table is the same up to the copy.
LEMMA CopiedNodes ==
  ASSUME NEW h, NEW R, Good(h, R), NEW u \in Tables, R[u] \in RootNodes \cup {Nil},
         NEW g, NEW n, NEW c, IsCopied(g, h, n, c),
         NEW r \in RootNodes \cup {Nil}, Replaced(r, R[u], n, c),
         NEW f \in Fields, NEW j \in 1 .. Len(Path[f])
  PROVE  Replaced(Nodes(g, r, f)[j], Nodes(h, R[u], f)[j], n, c)
<1>1. PICK q, ns, ms, L : /\ q = R[u] /\ ns = Nodes(h, q, f) /\ ms = Nodes(g, r, f)
                         /\ L = Len(Path[f])
  OBVIOUS
<1>2. h \in Heaps /\ Shape(h) /\ g \in Heaps /\ Shape(g) /\ q \in RootNodes \cup {Nil}
  BY <1>1 DEF Good, IsCopied
<1>3. /\ ns[1] = q
      /\ \A i \in 1 .. L : ns[i] \in Pointers /\ (i # L => ns[i + 1] = Child(h, ns[i], Direction(Path[f][i], f)))
  <2>1. Walk(ns, h, q, f)
    BY <1>1, <1>2, NodesWalk
  <2> QED
    BY <2>1, <1>1 DEF Walk
<1>4. /\ ms[1] = r
      /\ \A i \in 1 .. L : i # L => ms[i + 1] = Child(g, ms[i], Direction(Path[f][i], f))
  <2>1. Walk(ms, g, r, f)
    BY <1>1, <1>2, NodesWalk
  <2> QED
    BY <2>1, <1>1 DEF Walk
<1>5. L \in Nat \ {0}
  BY <1>1, PathFacts
<1> DEFINE S == {k \in 0 .. L - 1 : Replaced(ms[k + 1], ns[k + 1], n, c)}
<1>6. 0 \in S
  BY <1>1, <1>3, <1>4, <1>5
<1>7. ASSUME NEW k \in 0 .. (L - 1) - 1, k \in S PROVE k + 1 \in S
  <2>1. PICK i : i = k + 1
    OBVIOUS
  <2>2. i \in 1 .. L /\ i # L /\ k + 1 \in 0 .. L - 1 /\ i + 1 = (k + 1) + 1
    BY <2>1, <1>5
  <2>3. PICK a, b, d : a = ns[i] /\ b = ms[i] /\ d = Direction(Path[f][i], f)
    OBVIOUS
  <2>4. Replaced(b, a, n, c) /\ a \in Pointers /\ d \in 1 .. 2
    BY <2>1, <2>2, <2>3, <1>7, <1>3 DEF Direction
  <2>5. ns[i + 1] = Child(h, a, d) /\ ms[i + 1] = Child(g, b, d)
    BY <2>2, <2>3, <1>3, <1>4
  <2>6. a # Nil => a \in Places /\ h[a].refcnt # 0
    <3>1. a = Nodes(h, R[u], f)[i] /\ i \in 1 .. Len(Path[f])
      BY <2>2, <2>3, <1>1
    <3> QED
      BY <3>1, NodesLive
  <2>7. c # Nil /\ n # Nil
    BY PlaceIs DEF IsCopied
  <2>8. CASE b = a
    <3>1. CASE a = Nil
      BY <3>1, <2>8, <2>5, <2>1, <2>2 DEF Child, Replaced
    <3>2. CASE a # Nil
      <4>1. a \in Places \ {c}
        BY <3>2, <2>6 DEF IsCopied
      <4>2. Replaced(g[a].child[d], h[a].child[d], n, c)
        BY <4>1, <2>4 DEF IsCopied
      <4>3. ns[i + 1] = h[a].child[d] /\ ms[i + 1] = g[a].child[d]
        BY <3>2, <2>8, <2>5 DEF Child
      <4> QED
        BY <4>2, <4>3, <2>2
    <3> QED
      BY <3>1, <3>2
  <2>9. CASE a = n /\ b = c
    <3>1. ns[i + 1] = h[n].child[d] /\ ms[i + 1] = g[c].child[d]
      BY <2>9, <2>5, <2>7 DEF Child
    <3>2. g[c].child[d] = h[n].child[d]
      BY <2>4 DEF IsCopied
    <3> QED
      BY <3>1, <3>2, <2>2 DEF Replaced
  <2> QED
    BY <2>4, <2>8, <2>9 DEF Replaced
<1> HIDE DEF S
<1>8. 0 .. L - 1 \subseteq S
  <2>1. L - 1 \in Nat
    BY <1>5
  <2> QED
    BY <2>1, <1>6, <1>7, SetInduction
<1>9. PICK k : k = j - 1
  OBVIOUS
<1>10. k \in 0 .. L - 1 /\ k + 1 = j
  BY <1>9, <1>1, <1>5
<1>11. Replaced(ms[k + 1], ns[k + 1], n, c)
  BY <1>10, <1>8 DEF S
<1> QED
  BY <1>1, <1>10, <1>11

\* The field f of two trees is the same one.
Same(g, q, h, r, f) ==
  /\ Find(g, q, f) = Nil <=> Find(h, r, f) = Nil
  /\ Find(h, r, f) # Nil => g[Find(g, q, f)].value = h[Find(h, r, f)].value

LEMMA CopiedSame ==
  ASSUME NEW h, NEW R, Good(h, R), NEW u \in Tables, R[u] \in RootNodes \cup {Nil},
         NEW g, NEW n, NEW c, IsCopied(g, h, n, c),
         NEW r \in RootNodes \cup {Nil}, Replaced(r, R[u], n, c), NEW f \in Fields
  PROVE  Same(g, r, h, R[u], f)
<1>1. Len(Path[f]) \in 1 .. Len(Path[f])
  BY PathFacts
<1>2. PICK a, b : a = Find(h, R[u], f) /\ b = Find(g, r, f)
  OBVIOUS
<1>3. Replaced(b, a, n, c)
  BY <1>1, <1>2, CopiedNodes DEF Find
<1>4. a # Nil => a \in Places /\ h[a].refcnt # 0
  BY <1>1, <1>2, NodesLive DEF Find
<1>5. c # Nil /\ n # Nil
  BY PlaceIs DEF IsCopied
<1>6. a # Nil => g[b].value = h[a].value
  BY <1>3, <1>4 DEF Replaced, IsCopied
<1> QED
  BY <1>2, <1>3, <1>5, <1>6 DEF Same, Replaced

\* The first i nodes of the path to f have one reference.
Private(T, f, i) ==
  \A j \in 1 .. i : Nodes(T.heap, T.root, f)[j] # Nil =>
    T.heap[Nodes(T.heap, T.root, f)[j]].refcnt = 1

\* U shows the same as T in every field outside F, and the other tables show the
\* same in every field.
SameBut(U, T, R, t, F) ==
  /\ \A f \in Fields \ F : Same(U.heap, U.root, T.heap, T.root, f)
  /\ \A u \in Tables \ {t} : R[u] # NoTable =>
       \A f \in Fields : Same(U.heap, R[u], T.heap, R[u], f)

LEMMA SameButTrans ==
  ASSUME NEW T, NEW U, NEW V, NEW R, NEW t, NEW F, NEW G,
         SameBut(U, T, R, t, F), SameBut(V, U, R, t, G)
  PROVE  SameBut(V, T, R, t, F \cup G)
<1>1. ASSUME NEW f \in Fields \ (F \cup G) PROVE Same(V.heap, V.root, T.heap, T.root, f)
  <2>1. Same(U.heap, U.root, T.heap, T.root, f) /\ Same(V.heap, V.root, U.heap, U.root, f)
    BY <1>1 DEF SameBut
  <2> QED
    BY <2>1 DEF Same
<1>2. ASSUME NEW u \in Tables \ {t}, R[u] # NoTable, NEW f \in Fields
      PROVE  Same(V.heap, R[u], T.heap, R[u], f)
  <2>1. Same(U.heap, R[u], T.heap, R[u], f) /\ Same(V.heap, R[u], U.heap, R[u], f)
    BY <1>2 DEF SameBut
  <2> QED
    BY <2>1 DEF Same
<1> QED
  BY <1>1, <1>2 DEF SameBut

LEMMA SameButRefl ==
  ASSUME NEW T, NEW R, NEW t, NEW F
  PROVE  SameBut(T, T, R, t, F)
  BY DEF SameBut, Same

\* The nodes of a path that lie above the i-th are neither it nor a child of it.
LEMMA AboveNode ==
  ASSUME NEW h \in Heaps, Shape(h), NEW f \in Fields, NEW i \in 1 .. Len(Path[f]),
         NEW j \in 1 .. i - 1, NEW n \in Places, SegmentOf(n) = Path[f][i],
         NEW a \in Places, SegmentOf(a) = Path[f][j]
  PROVE  a # n /\ a \notin Kids(h, n)
<1>1. i \in Nat /\ Len(Path[f]) \in Nat /\ j \in 1 .. Len(Path[f]) /\ j < i
  BY PathFacts
<1>2. SegmentOf(a) # SegmentOf(n)
  BY <1>1, PathDistinct
<1>3. ASSUME NEW d \in 1 .. 2, h[n].child[d] = a PROVE FALSE
  <2>1. a # Nil
    BY PlaceIs
  <2>2. ~IsLeaf(SegmentOf(n)) /\ SegmentOf(a) = Half(SegmentOf(n), d)
        /\ SegmentOf(n) \in Segments /\ Half(SegmentOf(n), d) \in Segments
    BY <2>1, <1>3, ParentIs
  <2>3. LevelOf(SegmentOf(a)) = LevelOf(SegmentOf(n)) + 1
    BY <2>2, HalfLevel
  <2>4. j = LevelOf(SegmentOf(a)) /\ i = LevelOf(SegmentOf(n))
    BY <1>1, <2>2, SegmentLevel
  <2> QED
    BY <2>3, <2>4, <1>1
<1>4. a # h[n].child[1] /\ a # h[n].child[2]
  BY <1>3
<1> QED
  BY <1>2, <1>4 DEF Kids

\* what the copy of the i-th node of the path to f makes of the tree
IsCopyAt(U, T, f, i, n, c) ==
  /\ n = Nodes(T.heap, T.root, f)[i] /\ n \in Places /\ SegmentOf(n) = Path[f][i]
  /\ IsCopied(U.heap, T.heap, n, c) /\ Replaced(U.root, T.root, n, c)
  /\ U.heap[c].refcnt = 1
  /\ \A a \in Places \ {n, c} : a \notin Kids(T.heap, n) => U.heap[a].refcnt = T.heap[a].refcnt
  /\ i = 1 => U.root = c
  /\ i # 1 => /\ U.root = T.root
              /\ U.heap[Nodes(T.heap, T.root, f)[i - 1]].child[Direction(Path[f][i - 1], f)] = c

LEMMA CopyAtCopied ==
  ASSUME NEW T, NEW R, NEW t \in Tables, TreeGood(T, R, t), NEW f \in Fields,
         NEW i \in 1 .. Len(Path[f]), Nodes(T.heap, T.root, f)[i] # Nil,
         T.heap[Nodes(T.heap, T.root, f)[i]].refcnt # 1
  PROVE  \E n, c : IsCopyAt(CopyAt(T, f, i, Nodes(T.heap, T.root, f)), T, f, i, n, c)
<1>1. PICK h, r, W, ns, U : /\ h = T.heap /\ r = T.root /\ W = With(R, t, r)
                            /\ ns = Nodes(h, r, f) /\ U = CopyAt(T, f, i, ns)
  OBVIOUS
<1>2. Good(h, W) /\ W[t] = r /\ R \in Roots /\ r \in RootNodes \cup {Nil} /\ h \in Heaps
  BY <1>1, TreeFields
<1>3. PICK n, c \in Places :
        /\ n = ns[i] /\ SegmentOf(n) = Path[f][i]
        /\ c = Malloc(h, Path[f][i]) /\ SegmentOf(c) = SegmentOf(n) /\ h[c].refcnt = 0
        /\ i = 1 => /\ n = r /\ SegmentOf(n) = Whole
                    /\ U = Tree(Duplicate(h, n, c), c)
        /\ i # 1 => \E p \in Places : \E d \in 1 .. 2 :
             /\ p = ns[i - 1] /\ d = Direction(Path[f][i - 1], f)
             /\ h[p].child[d] = n
             /\ U = Tree(Pointing(Duplicate(h, n, c), p, d, c), r)
  BY <1>1, CopyAtIs
<1>4. h[n].refcnt # 0 /\ h[n].refcnt # 1 /\ h[n].refcnt \in Nat /\ n # c
  BY <1>1, <1>2, <1>3, NodesLive, NodeFields
<1>5. PICK D : D = Duplicate(h, n, c)
  OBVIOUS
<1>6. IsDuplicate(D, h, n, c)
  BY <1>2, <1>3, <1>4, <1>5, DuplicateIs
<1>7. TreeGood(U, R, t)
  BY <1>1, CopyAtGood
<1>8. U.heap \in Heaps /\ Shape(U.heap)
  BY <1>7, TreeFields
<1>9. CASE i = 1
  <2>1. U.heap = D /\ U.root = c
    BY <1>3, <1>5, <1>9 DEF Tree
  <2>2. IsCopied(D, h, n, c)
    BY <2>1, <1>3, <1>6, <1>8 DEF IsCopied, IsDuplicate, Replaced
  <2>3. IsCopyAt(U, T, f, i, n, c)
    BY <2>1, <2>2, <1>1, <1>3, <1>6, <1>9 DEF IsCopyAt, Replaced, IsDuplicate
  <2> QED
    BY <2>3, <1>1
<1>10. CASE i # 1
  <2>1. PICK p \in Places, d \in 1 .. 2 :
          /\ p = ns[i - 1] /\ d = Direction(Path[f][i - 1], f) /\ h[p].child[d] = n
          /\ U = Tree(Pointing(D, p, d, c), r)
    BY <1>3, <1>5, <1>10
  <2>2. PICK g : g = Pointing(D, p, d, c)
    OBVIOUS
  <2>3. U.heap = g /\ U.root = r
    BY <2>1, <2>2 DEF Tree
  <2>4. D \in Heaps /\ c \in Pointers
    BY <1>6 DEF IsDuplicate, Pointers
  <2>5. IsPointing(g, D, p, d, c)
    BY <2>2, <2>4, PointingIs
  <2>6. p # c
    <3>1. h[p].refcnt # 0
      <4>1. PICK e : e \in 1 .. 2 /\ h[p].child[e] = n
        BY <2>1
      <4>2. n # Nil
        BY PlaceIs
      <4> QED
        BY <4>1, <4>2, <1>2 DEF Good, FreeEmpty
    <3> QED
      BY <3>1, <1>3
  <2>7. g[c] = D[c]
    BY <2>5, <2>6 DEF IsPointing
  <2>8. ASSUME NEW a \in Places \ {c}, NEW e \in 1 .. 2
        PROVE  Replaced(g[a].child[e], h[a].child[e], n, c)
    <3>1. D[a].child = h[a].child
      BY <1>6 DEF IsDuplicate
    <3>2. CASE a = p /\ e = d
      BY <3>2, <2>1, <2>5 DEF IsPointing, Replaced
    <3>3. CASE a = p /\ e # d
      BY <3>1, <3>3, <2>5 DEF IsPointing, Replaced
    <3>4. CASE a # p
      BY <3>1, <3>4, <2>5 DEF IsPointing, Replaced
    <3> QED
      BY <3>2, <3>3, <3>4
  <2>9. ASSUME NEW a \in Places
        PROVE  g[a].refcnt = D[a].refcnt /\ g[a].reloc = D[a].reloc /\ g[a].value = D[a].value
    BY <2>5 DEF IsPointing
  <2>10. /\ D[c].refcnt = 1 /\ D[c].reloc = FALSE /\ D[c].value = h[n].value /\ D[c].child = h[n].child
         /\ \A a \in Places \ {c} : D[a].value = h[a].value /\ D[a].reloc = h[a].reloc
         /\ \A a \in Places \ {c} : a # n /\ a \notin Kids(h, n) => D[a].refcnt = h[a].refcnt
    BY <1>6 DEF IsDuplicate
  <2>11. IsCopied(g, h, n, c)
    BY <2>3, <2>7, <2>8, <2>9, <2>10, <1>3, <1>8, SMTT(30) DEF IsCopied
  <2>12. g[p].child[d] = c
    BY <2>5 DEF IsPointing
  <2>13. IsCopyAt(U, T, f, i, n, c)
    <3>1. n = Nodes(T.heap, T.root, f)[i] /\ SegmentOf(n) = Path[f][i]
      BY <1>1, <1>3
    <3>2. IsCopied(U.heap, T.heap, n, c)
      BY <2>3, <2>11, <1>1
    <3>3. Replaced(U.root, T.root, n, c)
      BY <2>3, <1>1 DEF Replaced
    <3>4. U.heap[c].refcnt = 1
      BY <2>3, <2>9, <2>10
    <3>5. ASSUME NEW a \in Places \ {n, c}, a \notin Kids(T.heap, n)
          PROVE  U.heap[a].refcnt = T.heap[a].refcnt
      <4>1. g[a].refcnt = D[a].refcnt
        BY <2>9
      <4>2. D[a].refcnt = h[a].refcnt
        BY <3>5, <2>10, <1>1
      <4> QED
        BY <4>1, <4>2, <2>3, <1>1
    <3>6. /\ U.root = T.root
          /\ U.heap[Nodes(T.heap, T.root, f)[i - 1]].child[Direction(Path[f][i - 1], f)] = c
      BY <2>1, <2>3, <2>12, <1>1
    <3> QED
      BY <3>1, <3>2, <3>3, <3>4, <3>5, <3>6, <1>10 DEF IsCopyAt
  <2> QED
    BY <2>13, <1>1
<1> QED
  BY <1>9, <1>10

LEMMA CopyAtSame ==
  ASSUME NEW T, NEW R, NEW t \in Tables, TreeGood(T, R, t), NEW f \in Fields,
         NEW i \in 1 .. Len(Path[f]), NEW U, TreeGood(U, R, t),
         NEW n, NEW c, IsCopyAt(U, T, f, i, n, c)
  PROVE  SameBut(U, T, R, t, {})
<1>1. PICK h, r, W : h = T.heap /\ r = T.root /\ W = With(R, t, r)
  OBVIOUS
<1>2. Good(h, W) /\ W[t] = r /\ R \in Roots /\ r \in RootNodes \cup {Nil} /\ h \in Heaps
  BY <1>1, TreeFields
<1>3. IsCopied(U.heap, h, n, c) /\ Replaced(U.root, r, n, c)
  BY <1>1 DEF IsCopyAt
<1>4. U.root \in RootNodes \cup {Nil}
  BY TreeFields
<1>5. ASSUME NEW q \in Fields \ {} PROVE Same(U.heap, U.root, T.heap, T.root, q)
  BY <1>1, <1>2, <1>3, <1>4, CopiedSame
<1>6. ASSUME NEW u \in Tables \ {t}, R[u] # NoTable, NEW q \in Fields
      PROVE  Same(U.heap, R[u], T.heap, R[u], q)
  <2>1. W[u] = R[u]
    BY <1>1, <1>2, WithIs
  <2>2. R[u] \in RootNodes \cup {Nil} /\ Replaced(R[u], R[u], n, c)
    BY <1>2, <1>6 DEF Roots, Replaced
  <2>3. Same(U.heap, R[u], h, W[u], q)
    BY <2>1, <2>2, <1>2, <1>3, CopiedSame
  <2> QED
    BY <2>1, <2>3, <1>1
<1> QED
  BY <1>5, <1>6 DEF SameBut

LEMMA CopyAtPrivate ==
  ASSUME NEW T, NEW R, NEW t \in Tables, TreeGood(T, R, t), NEW f \in Fields,
         NEW i \in 1 .. Len(Path[f]), NEW U, TreeGood(U, R, t), Private(T, f, i - 1),
         NEW n, NEW c, IsCopyAt(U, T, f, i, n, c)
  PROVE  Private(U, f, i)
<1>1. PICK h, r, W, g, q, ns, ms :
        /\ h = T.heap /\ r = T.root /\ W = With(R, t, r) /\ g = U.heap /\ q = U.root
        /\ ns = Nodes(h, r, f) /\ ms = Nodes(g, q, f)
  OBVIOUS
<1>2. Good(h, W) /\ W[t] = r /\ r \in RootNodes \cup {Nil} /\ h \in Heaps /\ Shape(h)
  BY <1>1, TreeFields
<1>3. IsCopied(g, h, n, c) /\ Replaced(q, r, n, c) /\ q \in RootNodes \cup {Nil}
      /\ g \in Heaps /\ Shape(g)
  BY <1>1, TreeFields DEF IsCopyAt
<1>4. ASSUME NEW j \in 1 .. Len(Path[f]) PROVE Replaced(ms[j], ns[j], n, c)
  BY <1>1, <1>2, <1>3, CopiedNodes
<1>5. Walk(ns, h, r, f) /\ Walk(ms, g, q, f)
  BY <1>1, <1>2, <1>3, NodesWalk
<1>6. i \in Nat /\ Len(Path[f]) \in Nat /\ 1 .. i \subseteq 1 .. Len(Path[f])
  BY PathFacts
<1>7. n \in Places /\ SegmentOf(n) = Path[f][i] /\ c \in Places /\ n = ns[i]
  BY <1>1 DEF IsCopyAt, IsCopied
<1>8. ASSUME NEW j \in 1 .. i - 1 PROVE ms[j] = ns[j]
  <2>1. j \in 1 .. Len(Path[f])
    BY <1>6
  <2>2. ns[j] # n
    <3>1. ns[j] # Nil => SegmentOf(ns[j]) = Path[f][j]
      BY <2>1, <1>5 DEF Walk
    <3>2. Path[f][j] # Path[f][i]
      BY <2>1, <1>6, PathDistinct
    <3>3. n # Nil
      BY <1>7, PlaceIs
    <3> QED
      BY <3>1, <3>2, <3>3, <1>7
  <2> QED
    BY <2>1, <2>2, <1>4 DEF Replaced
<1>9. ASSUME NEW j \in 1 .. i - 1, ns[j] # Nil PROVE g[ns[j]].refcnt = 1
  <2>1. j \in 1 .. Len(Path[f])
    BY <1>6
  <2>2. PICK a : a = ns[j]
    OBVIOUS
  <2>3. a \in Places /\ SegmentOf(a) = Path[f][j]
    BY <2>1, <2>2, <1>5, <1>9 DEF Walk, Pointers
  <2>4. a # n /\ a \notin Kids(h, n)
    BY <2>3, <1>2, <1>7, AboveNode
  <2>5. h[a].refcnt = 1
    BY <2>2, <1>1, <1>9 DEF Private
  <2>6. a # c
    BY <2>5, <1>3 DEF IsCopied
  <2>7. g[a].refcnt = h[a].refcnt
    BY <2>3, <2>4, <2>6, <1>1 DEF IsCopyAt
  <2> QED
    BY <2>2, <2>5, <2>7
<1>10. ms[i] = c
  <2>1. CASE i = 1
    BY <2>1, <1>1, <1>5 DEF IsCopyAt, Walk
  <2>2. CASE i # 1
    <3>1. PICK j : j = i - 1
      OBVIOUS
    <3>2. j \in 1 .. i - 1 /\ j \in 1 .. Len(Path[f]) /\ j # Len(Path[f]) /\ j + 1 = i
      BY <3>1, <2>2, <1>6
    <3>3. ms[i] = Child(g, ms[j], Direction(Path[f][j], f)) /\ ns[i] = Child(h, ns[j], Direction(Path[f][j], f))
      BY <3>2, <1>5 DEF Walk
    <3>4. ms[j] = ns[j]
      BY <3>2, <1>8
    <3>5. ns[j] # Nil
      BY <3>3, <1>7, PlaceIs DEF Child
    <3>6. g[ns[j]].child[Direction(Path[f][j], f)] = c
      BY <3>1, <2>2, <1>1 DEF IsCopyAt
    <3> QED
      BY <3>3, <3>4, <3>5, <3>6 DEF Child
  <2> QED
    BY <2>1, <2>2
<1>11. g[c].refcnt = 1
  BY <1>1 DEF IsCopyAt
<1>12. ASSUME NEW j \in 1 .. i, ms[j] # Nil PROVE g[ms[j]].refcnt = 1
  <2>1. CASE j = i
    BY <2>1, <1>10, <1>11
  <2>2. CASE j # i
    <3>1. j \in 1 .. i - 1
      BY <2>2, <1>6
    <3> QED
      BY <3>1, <1>8, <1>9, <1>12
  <2> QED
    BY <2>1, <2>2
<1> QED
  BY <1>1, <1>12 DEF Private

LEMMA PrepareLevelPrivate ==
  ASSUME NEW T, NEW R, NEW t \in Tables, TreeGood(T, R, t), NEW f \in Fields,
         NEW i \in 1 .. Len(Path[f]), Private(T, f, i - 1)
  PROVE  /\ SameBut(PrepareLevel(T, f, i), T, R, t, {})
         /\ Private(PrepareLevel(T, f, i), f, i)
<1>1. PICK ns : ns = Nodes(T.heap, T.root, f)
  OBVIOUS
<1>2. PrepareLevel(T, f, i) =
        IF ns[i] = Nil \/ T.heap[ns[i]].refcnt = 1 THEN T ELSE CopyAt(T, f, i, ns)
  BY <1>1, Zenon DEF PrepareLevel, PrepareNode, CopyAt
<1>3. CASE ns[i] = Nil \/ T.heap[ns[i]].refcnt = 1
  <2>1. PrepareLevel(T, f, i) = T
    BY <1>2, <1>3
  <2>2. Private(T, f, i)
    <3>1. ASSUME NEW j \in 1 .. i, ns[j] # Nil PROVE T.heap[ns[j]].refcnt = 1
      <4>1. j = i \/ j \in 1 .. i - 1
        BY PathFacts
      <4> QED
        BY <4>1, <3>1, <1>1, <1>3 DEF Private
    <3> QED
      BY <3>1, <1>1 DEF Private
  <2> QED
    BY <2>1, <2>2, SameButRefl
<1>4. CASE ~(ns[i] = Nil \/ T.heap[ns[i]].refcnt = 1)
  <2>1. PICK U : U = CopyAt(T, f, i, ns)
    OBVIOUS
  <2>2. PICK n, c : IsCopyAt(U, T, f, i, n, c)
    BY <2>1, <1>1, <1>4, CopyAtCopied
  <2>3. TreeGood(U, R, t)
    BY <2>1, <1>1, <1>4, CopyAtGood
  <2>4. SameBut(U, T, R, t, {})
    BY <2>2, <2>3, CopyAtSame
  <2>5. Private(U, f, i)
    BY <2>2, <2>3, CopyAtPrivate
  <2> QED
    BY <2>1, <2>4, <2>5, <1>2, <1>4
<1> QED
  BY <1>3, <1>4

(* Making a path writable gives it nodes of its own, and no table notices. *)
LEMMA PrepareToWriteSame ==
  ASSUME NEW T, NEW R, NEW t \in Tables, TreeGood(T, R, t), NEW f \in Fields
  PROVE  /\ SameBut(PrepareToWrite(T, f), T, R, t, {})
         /\ Private(PrepareToWrite(T, f), f, Len(Path[f]))
<1>1. PICK after, L : Prepares(after, T, R, t, f) /\ PrepareToWrite(T, f) = after[L] /\ L = Len(Path[f])
  BY PrepareToWriteIs
<1>2. L \in Nat \ {0}
  BY <1>1, PathFacts
<1> DEFINE S == {k \in 0 .. L : SameBut(after[k], T, R, t, {}) /\ Private(after[k], f, k)}
<1>3. 0 \in S
  <2>1. after[0] = T
    BY <1>1 DEF Prepares
  <2>2. Private(T, f, 0)
    BY DEF Private
  <2> QED
    BY <2>1, <2>2, <1>2, SameButRefl
<1>4. ASSUME NEW k \in 0 .. L - 1, k \in S PROVE k + 1 \in S
  <2>1. PICK i, V : i = k + 1 /\ V = after[k]
    OBVIOUS
  <2>2. i \in 1 .. Len(Path[f]) /\ i - 1 = k /\ k \in 0 .. L /\ i \in 0 .. L
    BY <2>1, <1>1, <1>2
  <2>3. TreeGood(V, R, t) /\ after[i] = PrepareLevel(V, f, i)
    BY <2>1, <2>2, <1>1 DEF Prepares
  <2>4. SameBut(V, T, R, t, {}) /\ Private(V, f, i - 1)
    BY <2>1, <2>2, <1>4
  <2>5. SameBut(after[i], V, R, t, {}) /\ Private(after[i], f, i)
    BY <2>2, <2>3, <2>4, PrepareLevelPrivate
  <2>6. SameBut(after[i], T, R, t, {} \cup {})
    BY <2>4, <2>5, SameButTrans
  <2>7. {} \cup {} = {}
    OBVIOUS
  <2> QED
    BY <2>1, <2>2, <2>5, <2>6, <2>7
<1> HIDE DEF S
<1>5. 0 .. L \subseteq S
  BY <1>2, <1>3, <1>4, SetInduction
<1>6. L \in S
  BY <1>2, <1>5
<1> QED
  BY <1>1, <1>6 DEF S

(* A node with one reference belongs to one table. *)

LEMMA TwoMembers ==
  ASSUME NEW S, IsFiniteSet(S), NEW x \in S, NEW y \in S, x # y
  PROVE  Cardinality(S) \in Nat /\ Cardinality(S) >= 2
<1>1. PICK P : P = S \ {x}
  OBVIOUS
<1>2. IsFiniteSet(P) /\ y \in P
  BY <1>1, FS_Subset
<1>3. IsFiniteSet(P \ {y})
  BY <1>2, FS_Subset
<1>4. PICK k, m, n : k = Cardinality(S) /\ m = Cardinality(P) /\ n = Cardinality(P \ {y})
  OBVIOUS
<1>5. k \in Nat /\ m \in Nat /\ n \in Nat
  BY <1>2, <1>3, <1>4, FS_CardinalityType
<1>6. m = k - 1
  BY <1>1, <1>4, LessOne
<1>7. n = m - 1
  BY <1>2, <1>4, LessOne
<1> QED
  BY <1>4, <1>5, <1>6, <1>7

\* A node with one reference has one pointer.
LEMMA OnePointer ==
  ASSUME NEW h, NEW R, Good(h, R), NEW a \in Places, h[a].refcnt = 1
  PROVE  /\ \A t, u \in Tables : R[t] = a /\ R[u] = a => t = u
         /\ \A p, q \in Places : \A d, e \in 1 .. 2 :
              h[p].child[d] = a /\ h[q].child[e] = a => p = q
<1>1. h[a].refcnt = Cardinality(RootsOf(R, a)) + Cardinality(Parents(h, a))
  BY DEF Good, Exact
<1>2. PICK x, y : x = Cardinality(RootsOf(R, a)) /\ y = Cardinality(Parents(h, a))
  OBVIOUS
<1>3. x \in Nat /\ y \in Nat /\ x + y = 1 /\ IsFiniteSet(RootsOf(R, a)) /\ IsFiniteSet(Parents(h, a))
  BY <1>1, <1>2, PointersFinite
<1>4. ~(x >= 2) /\ ~(y >= 2)
  BY <1>3
<1>5. ASSUME NEW t \in Tables, NEW u \in Tables, R[t] = a, R[u] = a, t # u PROVE FALSE
  <2>1. t \in RootsOf(R, a) /\ u \in RootsOf(R, a)
    BY <1>5 DEF RootsOf
  <2>2. x >= 2
    BY <2>1, <1>2, <1>3, <1>5, TwoMembers
  <2> QED
    BY <2>2, <1>4
<1>6. ASSUME NEW p \in Places, NEW q \in Places, NEW d \in 1 .. 2, NEW e \in 1 .. 2,
             h[p].child[d] = a, h[q].child[e] = a, p # q
      PROVE  FALSE
  <2>1. p \in Parents(h, a) /\ q \in Parents(h, a)
    BY <1>6 DEF Parents
  <2>2. y >= 2
    BY <2>1, <1>2, <1>3, <1>6, TwoMembers
  <2> QED
    BY <2>2, <1>4
<1> QED
  BY <1>5, <1>6

LEMMA PrivateApart ==
  ASSUME NEW T, NEW R, NEW t \in Tables, TreeGood(T, R, t), NEW f \in Fields,
         NEW i \in 1 .. Len(Path[f]), Private(T, f, i),
         NEW u \in Tables \ {t}, R[u] # NoTable
  PROVE  \A j \in 1 .. i : Nodes(T.heap, T.root, f)[j] # Nil =>
           Nodes(T.heap, R[u], f)[j] # Nodes(T.heap, T.root, f)[j]
<1>1. PICK h, r, W, ns, ms : /\ h = T.heap /\ r = T.root /\ W = With(R, t, r)
                             /\ ns = Nodes(h, r, f) /\ ms = Nodes(h, R[u], f)
  OBVIOUS
<1>2. Good(h, W) /\ W[t] = r /\ r \in RootNodes \cup {Nil} /\ h \in Heaps /\ Shape(h) /\ R \in Roots
  BY <1>1, TreeFields
<1>3. W[u] = R[u] /\ R[u] \in RootNodes \cup {Nil}
  <2>1. W[u] = R[u]
    BY <1>1, <1>2, WithIs
  <2> QED
    BY <2>1, <1>2 DEF Roots
<1>4. Walk(ns, h, r, f) /\ Walk(ms, h, R[u], f)
  BY <1>1, <1>2, <1>3, NodesWalk
<1>5. i \in Nat \ {0} /\ Len(Path[f]) \in Nat /\ 1 .. i \subseteq 1 .. Len(Path[f])
  BY PathFacts
<1>6. ASSUME NEW j \in 1 .. i, ns[j] # Nil PROVE ns[j] \in Places /\ h[ns[j]].refcnt = 1
  <2>1. ns[j] \in Pointers
    BY <1>4, <1>5 DEF Walk
  <2> QED
    BY <2>1, <1>1, <1>6 DEF Private, Pointers
<1> DEFINE S == {k \in 0 .. i - 1 : ns[k + 1] # Nil => ms[k + 1] # ns[k + 1]}
<1>7. 0 \in S
  <2>1. ASSUME ns[1] # Nil, ms[1] = ns[1] PROVE FALSE
    <3>1. PICK a : a = ns[1]
      OBVIOUS
    <3>2. a \in Places /\ h[a].refcnt = 1
      BY <3>1, <2>1, <1>5, <1>6
    <3>3. W[t] = a /\ W[u] = a
      BY <3>1, <2>1, <1>2, <1>3, <1>4 DEF Walk
    <3>4. t = u
      BY <3>2, <3>3, <1>2, OnePointer
    <3> QED
      BY <3>4
  <2> QED
    BY <2>1, <1>5
<1>8. ASSUME NEW k \in 0 .. (i - 1) - 1, k \in S PROVE k + 1 \in S
  <2>1. PICK j : j = k + 1
    OBVIOUS
  <2>2. j \in 1 .. i /\ j \in 1 .. Len(Path[f]) /\ j # Len(Path[f]) /\ j + 1 \in 1 .. i
        /\ k + 1 \in 0 .. i - 1 /\ j + 1 = (k + 1) + 1
    BY <2>1, <1>5
  <2>3. ASSUME ns[j + 1] # Nil, ms[j + 1] = ns[j + 1] PROVE FALSE
    <3>1. PICK a, d, p, q : a = ns[j + 1] /\ d = Direction(Path[f][j], f) /\ p = ns[j] /\ q = ms[j]
      OBVIOUS
    <3>2. a \in Places /\ h[a].refcnt = 1 /\ a # Nil
      BY <3>1, <2>2, <2>3, <1>6
    <3>3. a = Child(h, p, d) /\ a = Child(h, q, d) /\ p \in Pointers /\ q \in Pointers
      BY <3>1, <2>2, <2>3, <1>4 DEF Walk
    <3>4. p # Nil /\ q # Nil
      BY <3>2, <3>3 DEF Child
    <3>5. p \in Places /\ q \in Places /\ d \in 1 .. 2 /\ h[p].child[d] = a /\ h[q].child[d] = a
      BY <3>1, <3>3, <3>4 DEF Child, Pointers, Direction
    <3>6. p = q
      BY <3>2, <3>5, <1>2, OnePointer
    <3>7. p # q
      BY <3>1, <3>4, <2>1, <1>8
    <3> QED
      BY <3>6, <3>7
  <2> QED
    BY <2>2, <2>3
<1> HIDE DEF S
<1>9. 0 .. i - 1 \subseteq S
  <2>1. i - 1 \in Nat
    BY <1>5
  <2> QED
    BY <2>1, <1>7, <1>8, SetInduction
<1>10. ASSUME NEW j \in 1 .. i, ns[j] # Nil PROVE ms[j] # ns[j]
  <2>1. PICK k : k = j - 1
    OBVIOUS
  <2>2. k \in 0 .. i - 1 /\ k + 1 = j
    BY <2>1, <1>5
  <2> QED
    BY <2>2, <1>9, <1>10 DEF S
<1> QED
  BY <1>1, <1>10

\* A node of a private path is met on no path of another table.
LEMMA PrivateAlone ==
  ASSUME NEW T, NEW R, NEW t \in Tables, TreeGood(T, R, t), NEW f \in Fields,
         Private(T, f, Len(Path[f])), NEW i \in 1 .. Len(Path[f]),
         Nodes(T.heap, T.root, f)[i] # Nil,
         NEW u \in Tables \ {t}, R[u] # NoTable, NEW q \in Fields, NEW j \in 1 .. Len(Path[q])
  PROVE  Nodes(T.heap, R[u], q)[j] # Nodes(T.heap, T.root, f)[i]
<1>1. SUFFICES ASSUME Nodes(T.heap, R[u], q)[j] = Nodes(T.heap, T.root, f)[i] PROVE FALSE
  OBVIOUS
<1>2. PICK h, r, s, a : /\ h = T.heap /\ r = T.root /\ s = R[u]
                        /\ a = Nodes(h, r, f)[i] /\ a = Nodes(h, s, q)[j] /\ a # Nil
  BY <1>1
<1>3. r \in RootNodes \cup {Nil} /\ h \in Heaps /\ Shape(h) /\ s \in RootNodes \cup {Nil}
  BY <1>2, TreeFields DEF Roots
<1>4. SegmentOf(a) = Path[f][i] /\ SegmentOf(a) = Path[q][j]
  <2>1. Walk(Nodes(h, r, f), h, r, f) /\ Walk(Nodes(h, s, q), h, s, q)
    BY <1>3, NodesWalk
  <2> QED
    BY <2>1, <1>2 DEF Walk
<1>5. In(f, Path[q][j]) /\ Path[f][i] \in Segments
  BY <1>4, PathFacts
<1>6. i = j
  <2>1. PICK p : p = SegmentOf(a) /\ p \in Segments /\ Path[f][i] = p /\ Path[q][j] = p
    BY <1>4, <1>5
  <2>2. \A e \in Fields : \A k \in 1 .. Len(Path[e]) : Path[e][k] = p => k = LevelOf(p)
    BY <2>1, SegmentLevel
  <2> QED
    BY <2>1, <2>2
<1>7. Nodes(h, s, f)[j] = Nodes(h, s, q)[j]
  <2>1. j \in 1 .. j
    BY PathFacts
  <2> QED
    BY <2>1, <1>3, <1>5, NodesAgree
<1>8. Len(Path[f]) \in 1 .. Len(Path[f])
  BY PathFacts
<1>9. Nodes(h, s, f)[i] # a
  <2>1. \A k \in 1 .. Len(Path[f]) : Nodes(T.heap, T.root, f)[k] # Nil =>
          Nodes(T.heap, R[u], f)[k] # Nodes(T.heap, T.root, f)[k]
    BY <1>8, PrivateApart
  <2> QED
    BY <2>1, <1>2
<1> QED
  BY <1>2, <1>6, <1>7, <1>9

\* U differs from T on the path to f and in memory that was free.
Local(U, T, f) ==
  \A a \in Places :
    T.heap[a].refcnt # 0 /\ (\A i \in 1 .. Len(Path[f]) : Nodes(T.heap, T.root, f)[i] # a) =>
      U.heap[a].child = T.heap[a].child /\ U.heap[a].value = T.heap[a].value
      /\ U.heap[a].reloc = T.heap[a].reloc

(* A change of a private path is seen by one table. *)
LEMMA LocalNodes ==
  ASSUME NEW T, NEW R, NEW t \in Tables, TreeGood(T, R, t), NEW f \in Fields,
         Private(T, f, Len(Path[f])), NEW U, U.heap \in Heaps, Shape(U.heap), Local(U, T, f),
         NEW u \in Tables \ {t}, R[u] # NoTable, NEW q \in Fields
  PROVE  \A j \in 1 .. Len(Path[q]) :
           /\ Nodes(U.heap, R[u], q)[j] = Nodes(T.heap, R[u], q)[j]
           /\ Nodes(T.heap, R[u], q)[j] # Nil =>
                /\ U.heap[Nodes(T.heap, R[u], q)[j]].child = T.heap[Nodes(T.heap, R[u], q)[j]].child
                /\ U.heap[Nodes(T.heap, R[u], q)[j]].value = T.heap[Nodes(T.heap, R[u], q)[j]].value
                /\ U.heap[Nodes(T.heap, R[u], q)[j]].reloc = T.heap[Nodes(T.heap, R[u], q)[j]].reloc
<1>1. PICK h, r, g, s, W, ns, ms, L :
        /\ h = T.heap /\ r = T.root /\ g = U.heap /\ s = R[u] /\ W = With(R, t, r)
        /\ ns = Nodes(h, s, q) /\ ms = Nodes(g, s, q) /\ L = Len(Path[q])
  OBVIOUS
<1>2. /\ Good(h, W) /\ r \in RootNodes \cup {Nil} /\ h \in Heaps /\ Shape(h) /\ R \in Roots
      /\ s \in RootNodes \cup {Nil} /\ g \in Heaps /\ Shape(g)
  BY <1>1, TreeFields DEF Roots
<1>3. W[u] = s
  BY <1>1, <1>2, WithIs
<1>4. Walk(ns, h, s, q) /\ Walk(ms, g, s, q)
  BY <1>1, <1>2, NodesWalk
<1>5. L \in Nat \ {0}
  BY <1>1, PathFacts
<1>6. ASSUME NEW j \in 1 .. L, ns[j] # Nil
      PROVE  /\ g[ns[j]].child = h[ns[j]].child /\ g[ns[j]].value = h[ns[j]].value
             /\ g[ns[j]].reloc = h[ns[j]].reloc
  <2>1. ns[j] \in Places /\ h[ns[j]].refcnt # 0
    BY <1>1, <1>2, <1>3, <1>6, NodesLive
  <2>2. ASSUME NEW i \in 1 .. Len(Path[f]) PROVE Nodes(h, r, f)[i] # ns[j]
    BY <2>2, <1>1, <1>6, PrivateAlone
  <2> QED
    BY <2>1, <2>2, <1>1 DEF Local
<1> DEFINE S == {k \in 0 .. L - 1 : ms[k + 1] = ns[k + 1]}
<1>7. 0 \in S
  BY <1>4, <1>5 DEF Walk
<1>8. ASSUME NEW k \in 0 .. (L - 1) - 1, k \in S PROVE k + 1 \in S
  <2>1. PICK j : j = k + 1
    OBVIOUS
  <2>2. j \in 1 .. L /\ j # L /\ k + 1 \in 0 .. L - 1 /\ j + 1 = (k + 1) + 1
    BY <2>1, <1>5
  <2>3. PICK d : d = Direction(Path[q][j], q)
    OBVIOUS
  <2>4. ns[j + 1] = Child(h, ns[j], d) /\ ms[j + 1] = Child(g, ms[j], d) /\ ms[j] = ns[j]
    BY <2>1, <2>2, <2>3, <1>1, <1>4, <1>8 DEF Walk
  <2>5. ns[j] # Nil => g[ns[j]].child = h[ns[j]].child
    BY <2>2, <1>6
  <2>6. ms[j + 1] = ns[j + 1]
    BY <2>4, <2>5 DEF Child
  <2> QED
    BY <2>2, <2>6
<1> HIDE DEF S
<1>9. 0 .. L - 1 \subseteq S
  <2>1. L - 1 \in Nat
    BY <1>5
  <2> QED
    BY <2>1, <1>7, <1>8, SetInduction
<1>10. ASSUME NEW j \in 1 .. L PROVE ms[j] = ns[j]
  <2>1. PICK k : k = j - 1
    OBVIOUS
  <2>2. k \in 0 .. L - 1 /\ k + 1 = j
    BY <2>1, <1>5
  <2> QED
    BY <2>2, <1>9 DEF S
<1> QED
  BY <1>1, <1>6, <1>10

LEMMA LocalSame ==
  ASSUME NEW T, NEW R, NEW t \in Tables, TreeGood(T, R, t), NEW f \in Fields,
         Private(T, f, Len(Path[f])), NEW U, U.heap \in Heaps, Shape(U.heap), Local(U, T, f),
         NEW u \in Tables \ {t}, R[u] # NoTable, NEW q \in Fields
  PROVE  Same(U.heap, R[u], T.heap, R[u], q)
<1>1. Len(Path[q]) \in 1 .. Len(Path[q])
  BY PathFacts
<1>2. PICK a : a = Nodes(T.heap, R[u], q)[Len(Path[q])]
  OBVIOUS
<1>3. /\ Nodes(U.heap, R[u], q)[Len(Path[q])] = a
      /\ a # Nil => U.heap[a].value = T.heap[a].value
  BY <1>1, <1>2, LocalNodes
<1> QED
  BY <1>2, <1>3 DEF Same, Find

\* Two fields have different leaves.
LEMMA LeavesDiffer ==
  ASSUME NEW f \in Fields, NEW q \in Fields, NEW i \in 1 .. Len(Path[f]),
         Path[q][Len(Path[q])] = Path[f][i]
  PROVE  q = f /\ i = Len(Path[f])
<1>1. PICK s : s = Path[f][i]
  OBVIOUS
<1>2. s \in Spans /\ In(f, s) /\ (IsLeaf(s) <=> i = Len(Path[f]))
  BY <1>1, PathFacts
<1>3. In(q, s) /\ IsLeaf(s)
  <2>1. Len(Path[q]) \in 1 .. Len(Path[q])
    BY PathFacts
  <2>2. In(q, Path[q][Len(Path[q])]) /\ IsLeaf(Path[q][Len(Path[q])])
    BY <2>1, PathFacts
  <2> QED
    BY <2>2, <1>1
<1>4. f \in Int /\ q \in Int /\ s[1] \in Int /\ s[2] \in Int
  BY <1>2, ConstantsAssumption DEF Fields, Spans
<1> QED
  BY <1>2, <1>3, <1>4 DEF In, IsLeaf

\* the field f of the tree has the value v
Shows(T, f, v) ==
  Find(T.heap, T.root, f) # Nil /\ T.heap[Find(T.heap, T.root, f)].value = v

(* The write through the slot of a private leaf. *)
LEMMA AssignSame ==
  ASSUME NEW T, NEW R, NEW t \in Tables, TreeGood(T, R, t), NEW f \in Fields,
         NEW v \in SUBSET Addresses, Private(T, f, Len(Path[f])), Find(T.heap, T.root, f) # Nil
  PROVE  /\ SameBut(Assign(T, f, v), T, R, t, {f}) /\ Shows(Assign(T, f, v), f, v)
         /\ Private(Assign(T, f, v), f, Len(Path[f]))
<1>1. PICK U, h, r : U = Assign(T, f, v) /\ h = T.heap /\ r = T.root
  OBVIOUS
<1>2. PICK g :
        /\ U = Tree(g, r) /\ SamePointers(g, h)
        /\ \A a \in Places : /\ g[a].reloc = h[a].reloc
                             /\ g[a].value = IF a = Find(h, r, f) THEN v ELSE h[a].value
  BY <1>1, AssignIs
<1>3. h \in Heaps /\ Shape(h) /\ r \in RootNodes \cup {Nil} /\ R \in Roots
  BY <1>1, TreeFields
<1>4. U.heap = g /\ U.root = r
  BY <1>2 DEF Tree
<1>5. TreeGood(U, R, t)
  BY <1>1, AssignGood
<1>6. U.heap \in Heaps /\ Shape(U.heap)
  BY <1>5, TreeFields
<1>7. ASSUME NEW q \in Fields PROVE \A i \in 1 .. Len(Path[q]) : Nodes(g, r, q)[i] = Nodes(h, r, q)[i]
  BY <1>2, <1>3, SamePointersNodes
<1>8. ASSUME NEW q \in Fields
      PROVE  /\ Find(g, r, q) = Find(h, r, q) /\ Find(h, r, q) \in Pointers
             /\ Find(h, r, q) # Nil => SegmentOf(Find(h, r, q)) = Path[q][Len(Path[q])]
  <2>1. Len(Path[q]) \in 1 .. Len(Path[q])
    BY PathFacts
  <2>2. Walk(Nodes(h, r, q), h, r, q)
    BY <1>3, NodesWalk
  <2> QED
    BY <2>1, <2>2, <1>7 DEF Find, Walk
<1>9. Shows(U, f, v)
  <2>1. Find(h, r, f) \in Places
    BY <1>1, <1>8 DEF Pointers
  <2> QED
    BY <2>1, <1>1, <1>2, <1>4, <1>8 DEF Shows
<1>10. ASSUME NEW q \in Fields \ {f} PROVE Same(U.heap, U.root, T.heap, T.root, q)
  <2>1. PICK a, b : a = Find(h, r, q) /\ b = Find(h, r, f)
    OBVIOUS
  <2>2. a # Nil => a # b
    <3>1. Len(Path[f]) \in 1 .. Len(Path[f])
      BY PathFacts
    <3>2. b # Nil /\ SegmentOf(b) = Path[f][Len(Path[f])]
      BY <2>1, <1>1, <1>8
    <3>3. a # Nil => SegmentOf(a) = Path[q][Len(Path[q])]
      BY <2>1, <1>8
    <3>4. Path[q][Len(Path[q])] # Path[f][Len(Path[f])]
      BY <3>1, LeavesDiffer
    <3> QED
      BY <3>2, <3>3, <3>4
  <2>3. a # Nil => a \in Places
    BY <2>1, <1>8 DEF Pointers
  <2>4. a # Nil => g[a].value = h[a].value
    BY <2>1, <2>2, <2>3, <1>2
  <2> QED
    BY <2>1, <2>4, <1>1, <1>4, <1>8 DEF Same
<1>11. Local(U, T, f)
  <2>1. ASSUME NEW a \in Places, \A i \in 1 .. Len(Path[f]) : Nodes(T.heap, T.root, f)[i] # a
        PROVE  g[a].child = h[a].child /\ g[a].value = h[a].value /\ g[a].reloc = h[a].reloc
    <3>1. a # Find(h, r, f)
      BY <2>1, <1>1, PathFacts DEF Find
    <3> QED
      BY <3>1, <1>2 DEF SamePointers
  <2> QED
    BY <2>1, <1>1, <1>4 DEF Local
<1>12. ASSUME NEW u \in Tables \ {t}, R[u] # NoTable, NEW q \in Fields
       PROVE  Same(U.heap, R[u], T.heap, R[u], q)
  BY <1>6, <1>11, <1>12, LocalSame
<1>13. Private(U, f, Len(Path[f]))
  <2>1. ASSUME NEW j \in 1 .. Len(Path[f]), Nodes(g, r, f)[j] # Nil PROVE g[Nodes(g, r, f)[j]].refcnt = 1
    <3>1. PICK a : a = Nodes(h, r, f)[j] /\ a = Nodes(g, r, f)[j]
      BY <1>7
    <3>2. a \in Places
      <4>1. Walk(Nodes(h, r, f), h, r, f)
        BY <1>3, NodesWalk
      <4> QED
        BY <4>1, <3>1, <2>1 DEF Walk, Pointers
    <3>3. h[a].refcnt = 1
      BY <3>1, <2>1, <1>1 DEF Private
    <3> QED
      BY <3>1, <3>2, <3>3, <1>2 DEF SamePointers
  <2> QED
    BY <2>1, <1>4 DEF Private
<1> QED
  BY <1>1, <1>9, <1>10, <1>12, <1>13 DEF SameBut

(* Setting the flags changes no value. *)
LEMMA UpdateFlagSame ==
  ASSUME NEW T, NEW R, NEW t \in Tables, TreeGood(T, R, t), NEW f \in Fields,
         NEW val \in BOOLEAN
  PROVE  SameBut(UpdateRelocatedFlag(T, f, val), T, R, t, {})
<1>1. PICK U, h, r : U = UpdateRelocatedFlag(T, f, val) /\ h = T.heap /\ r = T.root
  OBVIOUS
<1>2. PICK g : U = Tree(g, r) /\ SamePointers(g, h) /\ \A a \in Places : g[a].value = h[a].value
  BY <1>1, UpdateFlagIs DEF IsFlagged
<1>3. h \in Heaps /\ Shape(h) /\ r \in RootNodes \cup {Nil} /\ R \in Roots
  BY <1>1, TreeFields
<1>4. U.heap = g /\ U.root = r
  BY <1>2 DEF Tree
<1>5. ASSUME NEW s \in RootNodes \cup {Nil}, NEW q \in Fields PROVE Same(g, s, h, s, q)
  <2>1. Len(Path[q]) \in 1 .. Len(Path[q])
    BY PathFacts
  <2>2. Find(g, s, q) = Find(h, s, q)
    BY <2>1, <1>2, <1>3, SamePointersNodes DEF Find
  <2>3. Walk(Nodes(h, s, q), h, s, q)
    BY <1>3, NodesWalk
  <2>4. Find(h, s, q) # Nil => Find(h, s, q) \in Places
    BY <2>1, <2>3 DEF Find, Walk, Pointers
  <2> QED
    BY <2>2, <2>4, <1>2 DEF Same
<1>6. ASSUME NEW u \in Tables \ {t}, R[u] # NoTable PROVE R[u] \in RootNodes \cup {Nil}
  BY <1>3, <1>6 DEF Roots
<1> QED
  BY <1>1, <1>3, <1>4, <1>5, <1>6 DEF SameBut

(* The memory after an insertion below the nodes ns. *)
IsInserted(g, h, ns, f, first, new, v) ==
  /\ \A i \in first .. Len(Path[f]) :
       /\ g[new[i]].refcnt = 1 /\ g[new[i]].reloc = FALSE
       /\ i = Len(Path[f]) => g[new[i]].value = v
       /\ \A d \in 1 .. 2 : g[new[i]].child[d] =
            IF i < Len(Path[f]) /\ d = Direction(Path[f][i], f) THEN new[i + 1] ELSE Nil
  /\ \A a \in Places : h[a].refcnt # 0 /\ (first = 1 \/ a # ns[first - 1]) => g[a] = h[a]
  /\ first # 1 => \E p \in Places :
       /\ p = ns[first - 1] /\ h[p].refcnt # 0
       /\ g[p].child[Direction(Path[f][first - 1], f)] = new[first]
       /\ \A e \in 1 .. 2 \ {Direction(Path[f][first - 1], f)} : g[p].child[e] = h[p].child[e]
       /\ g[p].refcnt = h[p].refcnt /\ g[p].reloc = h[p].reloc /\ g[p].value = h[p].value

LEMMA InsertsIs ==
  ASSUME NEW T, NEW R, NEW t \in Tables, TreeGood(T, R, t), NEW f \in Fields,
         NEW v, NEW U, NEW first, NEW new, Inserts(U, T, f, first, new, v)
  PROVE  /\ IsInserted(U.heap, T.heap, Nodes(T.heap, T.root, f), f, first, new, v)
         /\ U.root = IF first = 1 THEN new[1] ELSE T.root
<1>1. PICK h, r, ns, L, W : /\ h = T.heap /\ r = T.root /\ ns = Nodes(h, r, f) /\ L = Len(Path[f])
                            /\ W = With(R, t, r)
  OBVIOUS
<1>2. PICK A : /\ IsGrown(A, h, f, first, new, v)
               /\ first = 1 => U = Tree(A, new[1])
               /\ first # 1 => U = Tree(Pointing(A, ns[first - 1],
                                                 Direction(Path[f][first - 1], f), new[first]), r)
  BY <1>1 DEF Inserts
<1>3. L \in Nat /\ first \in 1 .. L /\ FreshPath(h, f, new) /\ \A j \in 1 .. first - 1 : ns[j] # Nil
  BY <1>1, PathFacts DEF Inserts
<1>4. Good(h, W) /\ W[t] = r /\ h \in Heaps /\ r \in RootNodes \cup {Nil}
  BY <1>1, TreeFields
<1>5. ASSUME NEW i \in first .. L PROVE new[i] \in Places /\ h[new[i]].refcnt = 0
  <2>1. i \in 1 .. Len(Path[f])
    BY <1>1, <1>3
  <2> QED
    BY <2>1, <1>3 DEF FreshPath
<1>6. ASSUME NEW a \in Places, h[a].refcnt # 0 PROVE A[a] = h[a]
  <2>1. \A i \in first .. Len(Path[f]) : a # new[i]
    BY <1>1, <1>5, <1>6
  <2> QED
    BY <2>1, <1>2 DEF IsGrown
<1>7. ASSUME NEW i \in first .. L
      PROVE  /\ A[new[i]].refcnt = 1 /\ A[new[i]].reloc = FALSE
             /\ i = L => A[new[i]].value = v
             /\ \A d \in 1 .. 2 : A[new[i]].child[d] =
                  IF i < L /\ d = Direction(Path[f][i], f) THEN new[i + 1] ELSE Nil
  BY <1>1, <1>2 DEF IsGrown
<1>8. CASE first = 1
  <2>1. U.heap = A /\ U.root = new[1]
    BY <1>2, <1>8 DEF Tree
  <2>2. IsInserted(A, h, ns, f, first, new, v)
    BY <1>1, <1>6, <1>7, <1>8 DEF IsInserted
  <2> QED
    BY <2>1, <2>2, <1>1, <1>8
<1>9. CASE first # 1
  <2>1. PICK p, d, g : p = ns[first - 1] /\ d = Direction(Path[f][first - 1], f)
                       /\ g = Pointing(A, p, d, new[first])
    OBVIOUS
  <2>2. U.heap = g /\ U.root = r
    BY <2>1, <1>2, <1>9 DEF Tree
  <2>3. p \in Places /\ h[p].refcnt # 0
    <3>1. PICK j : j = first - 1
      OBVIOUS
    <3>2. j \in 1 .. Len(Path[f]) /\ j \in 1 .. first - 1
      BY <3>1, <1>1, <1>3, <1>9
    <3>3. Nodes(h, W[t], f)[j] # Nil /\ W[t] \in RootNodes \cup {Nil}
      BY <3>2, <1>1, <1>3, <1>4
    <3>4. Nodes(h, W[t], f)[j] \in Places /\ h[Nodes(h, W[t], f)[j]].refcnt # 0
      BY <3>2, <3>3, <1>4, NodesLive
    <3> QED
      BY <3>1, <3>4, <2>1, <1>1, <1>4
  <2>4. d \in 1 .. 2 /\ new[first] \in Pointers /\ A \in Heaps
    BY <2>1, <1>2, <1>3, <1>5 DEF IsGrown, Pointers, Direction
  <2>5. IsPointing(g, A, p, d, new[first])
    BY <2>1, <2>3, <2>4, PointingIs
  <2>6. A[p] = h[p]
    BY <2>3, <1>6
  <2>7. ASSUME NEW i \in first .. L PROVE g[new[i]] = A[new[i]]
    <3>1. new[i] \in Places \ {p}
      BY <2>3, <1>5
    <3> QED
      BY <3>1, <2>5 DEF IsPointing
  <2>8. ASSUME NEW a \in Places, h[a].refcnt # 0, a # p PROVE g[a] = h[a]
    BY <2>5, <2>8, <1>6 DEF IsPointing
  <2>9. /\ g[p].child[d] = new[first]
        /\ \A e \in 1 .. 2 \ {d} : g[p].child[e] = h[p].child[e]
        /\ g[p].refcnt = h[p].refcnt /\ g[p].reloc = h[p].reloc /\ g[p].value = h[p].value
    BY <2>3, <2>5, <2>6 DEF IsPointing
  <2>10. ASSUME NEW i \in first .. L
         PROVE  /\ g[new[i]].refcnt = 1 /\ g[new[i]].reloc = FALSE
                /\ i = L => g[new[i]].value = v
                /\ \A e \in 1 .. 2 : g[new[i]].child[e] =
                     IF i < L /\ e = Direction(Path[f][i], f) THEN new[i + 1] ELSE Nil
    <3>1. g[new[i]] = A[new[i]]
      BY <2>7
    <3>2. /\ A[new[i]].refcnt = 1 /\ A[new[i]].reloc = FALSE
          /\ i = L => A[new[i]].value = v
          /\ \A e \in 1 .. 2 : A[new[i]].child[e] =
               IF i < L /\ e = Direction(Path[f][i], f) THEN new[i + 1] ELSE Nil
      BY <1>7
    <3> QED
      BY <3>1, <3>2
  <2>11. IsInserted(g, h, ns, f, first, new, v)
    <3>1. \A i \in first .. Len(Path[f]) :
            /\ g[new[i]].refcnt = 1 /\ g[new[i]].reloc = FALSE
            /\ i = Len(Path[f]) => g[new[i]].value = v
            /\ \A e \in 1 .. 2 : g[new[i]].child[e] =
                 IF i < Len(Path[f]) /\ e = Direction(Path[f][i], f) THEN new[i + 1] ELSE Nil
      BY <2>10, <1>1
    <3>2. \A a \in Places : h[a].refcnt # 0 /\ (first = 1 \/ a # ns[first - 1]) => g[a] = h[a]
      BY <2>1, <2>8, <1>9
    <3>3. \E b \in Places :
            /\ b = ns[first - 1] /\ h[b].refcnt # 0
            /\ g[b].child[Direction(Path[f][first - 1], f)] = new[first]
            /\ \A e \in 1 .. 2 \ {Direction(Path[f][first - 1], f)} : g[b].child[e] = h[b].child[e]
            /\ g[b].refcnt = h[b].refcnt /\ g[b].reloc = h[b].reloc /\ g[b].value = h[b].value
      <4>1. /\ p = ns[first - 1] /\ h[p].refcnt # 0
            /\ g[p].child[Direction(Path[f][first - 1], f)] = new[first]
            /\ \A e \in 1 .. 2 \ {Direction(Path[f][first - 1], f)} : g[p].child[e] = h[p].child[e]
            /\ g[p].refcnt = h[p].refcnt /\ g[p].reloc = h[p].reloc /\ g[p].value = h[p].value
        BY <2>1, <2>3, <2>9
      <4> QED
        BY <4>1, <2>3
    <3> QED
      BY <3>1, <3>2, <3>3 DEF IsInserted
  <2> QED
    BY <2>2, <2>11, <1>1, <1>9
<1> QED
  BY <1>8, <1>9

\* The pointers on the path to q before and after the insertion of f
InsertedAt(b, a, q, f, first, new, j) ==
  \/ b = a /\ (q = f => j < first)
  \/ /\ a = Nil /\ b = new[j] /\ j \in first .. Len(Path[f])
     /\ Path[q][j] = Path[f][j]

LEMMA InsertsNodes ==
  ASSUME NEW T, NEW R, NEW t \in Tables, TreeGood(T, R, t), NEW f \in Fields,
         NEW v, NEW U, TreeGood(U, R, t), NEW first, NEW new, Inserts(U, T, f, first, new, v),
         NEW q \in Fields
  PROVE  \A j \in 1 .. Len(Path[q]) :
           InsertedAt(Nodes(U.heap, U.root, q)[j], Nodes(T.heap, T.root, q)[j], q, f, first, new, j)
<1>1. PICK h, r, g, s, W, ns, ms, fs, L :
        /\ h = T.heap /\ r = T.root /\ g = U.heap /\ s = U.root /\ W = With(R, t, r)
        /\ ns = Nodes(h, r, q) /\ ms = Nodes(g, s, q) /\ L = Len(Path[q]) /\ fs = Nodes(h, r, f)
  OBVIOUS
<1>2. /\ Good(h, W) /\ W[t] = r /\ r \in RootNodes \cup {Nil} /\ h \in Heaps /\ Shape(h)
      /\ s \in RootNodes \cup {Nil} /\ g \in Heaps /\ Shape(g)
  BY <1>1, TreeFields
<1>3. Walk(ns, h, r, q) /\ Walk(ms, g, s, q) /\ Walk(fs, h, r, f)
  BY <1>1, <1>2, NodesWalk
<1>4. L \in Nat \ {0} /\ Len(Path[f]) \in Nat /\ first \in 1 .. Len(Path[f]) /\ fs[first] = Nil
  BY <1>1, PathFacts DEF Inserts
<1>5. IsInserted(g, h, fs, f, first, new, v) /\ s = IF first = 1 THEN new[1] ELSE r
  BY <1>1, InsertsIs
<1>6. ASSUME NEW j \in 1 .. L, ns[j] # Nil PROVE ns[j] \in Places /\ h[ns[j]].refcnt # 0
  BY <1>1, <1>2, <1>6, NodesLive
<1>7. FreshPath(h, f, new)
  BY <1>1 DEF Inserts
<1> DEFINE S == {k \in 0 .. L - 1 : InsertedAt(ms[k + 1], ns[k + 1], q, f, first, new, k + 1)}
<1>8. 0 \in S
  <2>1. Path[q][1] = Whole /\ Path[f][1] = Whole
    BY PathFacts
  <2>2. ms[1] = s /\ ns[1] = r /\ fs[1] = r
    BY <1>3 DEF Walk
  <2>3. CASE first = 1
    BY <2>1, <2>2, <2>3, <1>4, <1>5 DEF InsertedAt
  <2>4. CASE first # 1
    BY <2>1, <2>2, <2>4, <1>4, <1>5 DEF InsertedAt
  <2> QED
    BY <2>3, <2>4
<1>9. ASSUME NEW k \in 0 .. (L - 1) - 1, k \in S PROVE k + 1 \in S
  <2>1. PICK j : j = k + 1
    OBVIOUS
  <2>2. j \in 1 .. L /\ j # L /\ k + 1 \in 0 .. L - 1 /\ j + 1 = (k + 1) + 1 /\ j \in Nat
        /\ j + 1 \in 1 .. L
    BY <2>1, <1>4
  <2>3. PICK a, b, e : a = ns[j] /\ b = ms[j] /\ e = Direction(Path[q][j], q)
    OBVIOUS
  <2>4. ns[j + 1] = Child(h, a, e) /\ ms[j + 1] = Child(g, b, e) /\ e \in 1 .. 2
    BY <2>2, <2>3, <1>1, <1>3 DEF Walk, Direction
  <2>5. InsertedAt(b, a, q, f, first, new, j)
    BY <2>1, <2>2, <2>3, <1>9
  <2>6. Path[q][j + 1] = Half(Path[q][j], e)
    BY <2>2, <2>3, <1>1, PathFacts
  <2>7. ASSUME b = a, q = f => j < first
        PROVE  InsertedAt(ms[j + 1], ns[j + 1], q, f, first, new, j + 1)
    <3>1. CASE a = Nil
      <4>1. q # f
        <5>1. ASSUME q = f PROVE FALSE
          <6>1. j \in 1 .. first - 1
            BY <5>1, <2>2, <2>7, <1>4
          <6>2. fs[j] # Nil
            BY <6>1, <1>1 DEF Inserts
          <6> QED
            BY <6>2, <5>1, <3>1, <2>3, <1>1
        <5> QED
          BY <5>1
      <4> QED
        BY <4>1, <3>1, <2>4, <2>7 DEF Child, InsertedAt
    <3>2. CASE a # Nil /\ (first = 1 \/ a # fs[first - 1])
      <4>1. a \in Places /\ h[a].refcnt # 0
        BY <3>2, <2>2, <2>3, <1>6
      <4>2. g[a] = h[a]
        BY <4>1, <3>2, <1>5 DEF IsInserted
      <4>3. ms[j + 1] = ns[j + 1]
        BY <4>2, <3>2, <2>4, <2>7 DEF Child
      <4>4. q = f => j + 1 < first
        <5>1. ASSUME q = f PROVE j + 1 < first
          <6>1. j < first /\ a = fs[j]
            BY <5>1, <2>3, <2>7, <1>1
          <6>2. first - 1 # j
            BY <6>1, <3>2, <2>2, <1>4
          <6> QED
            BY <6>1, <6>2, <2>2, <1>4
        <5> QED
          BY <5>1
      <4> QED
        BY <4>3, <4>4 DEF InsertedAt
    <3>3. CASE a # Nil /\ first # 1 /\ a = fs[first - 1]
      <4>1. PICK i, d : i = first - 1 /\ d = Direction(Path[f][i], f)
        OBVIOUS
      <4>2. i \in 1 .. Len(Path[f]) /\ i # Len(Path[f]) /\ i + 1 = first
        BY <4>1, <3>3, <1>4
      <4>3. SegmentOf(a) = Path[f][i] /\ SegmentOf(a) = Path[q][j]
        BY <4>1, <4>2, <3>3, <2>2, <2>3, <1>1, <1>3 DEF Walk
      <4>4. i = j
        <5>1. PICK p : p = SegmentOf(a) /\ p \in Segments
          BY <4>2, <4>3, PathFacts
        <5>2. \A x \in Fields : \A y \in 1 .. Len(Path[x]) : Path[x][y] = p => y = LevelOf(p)
          BY <5>1, SegmentLevel
        <5> QED
          BY <5>1, <5>2, <4>2, <4>3, <2>2, <1>1
      <4>5. /\ g[a].child[d] = new[first]
            /\ \A x \in 1 .. 2 \ {d} : g[a].child[x] = h[a].child[x]
        BY <4>1, <3>3, <1>5 DEF IsInserted
      <4>6. ns[j + 1] = h[a].child[e] /\ ms[j + 1] = g[a].child[e]
        BY <3>3, <2>4, <2>7 DEF Child
      <4>7. CASE e = d
        <5>1. fs[first] = Child(h, a, d)
          BY <4>1, <4>2, <3>3, <1>3 DEF Walk
        <5>2. ns[j + 1] = Nil
          BY <5>1, <4>6, <4>7, <3>3, <1>4 DEF Child
        <5>3. Path[f][i + 1] = Half(Path[f][i], d)
          BY <4>1, <4>2, PathFacts
        <5>4. Path[q][j + 1] = Path[f][j + 1]
          BY <5>3, <4>3, <4>4, <4>7, <2>6
        <5>5. ms[j + 1] = new[j + 1] /\ j + 1 \in first .. Len(Path[f])
          BY <4>2, <4>4, <4>5, <4>6, <4>7, <1>4
        <5> QED
          BY <5>2, <5>4, <5>5 DEF InsertedAt
      <4>8. CASE e # d
        <5>1. ms[j + 1] = ns[j + 1]
          BY <4>5, <4>6, <4>8, <2>4
        <5>2. q # f
          BY <4>1, <4>4, <4>8, <2>3
        <5> QED
          BY <5>1, <5>2 DEF InsertedAt
      <4> QED
        BY <4>7, <4>8
    <3> QED
      BY <3>1, <3>2, <3>3
  <2>8. ASSUME a = Nil, b = new[j], j \in first .. Len(Path[f]), Path[q][j] = Path[f][j]
        PROVE  InsertedAt(ms[j + 1], ns[j + 1], q, f, first, new, j + 1)
    <3>1. ns[j + 1] = Nil
      BY <2>4, <2>8 DEF Child
    <3>2. j \in 1 .. Len(Path[f])
      BY <2>8, <1>4
    <3>3. b \in Places
      BY <3>2, <2>8, <1>7 DEF FreshPath
    <3>4. b # Nil
      BY <3>3, PlaceIs
    <3>5. ms[j + 1] = IF j < Len(Path[f]) /\ e = Direction(Path[f][j], f) THEN new[j + 1] ELSE Nil
      <4>1. ms[j + 1] = g[new[j]].child[e]
        BY <3>4, <2>4, <2>8 DEF Child
      <4> QED
        BY <4>1, <2>4, <2>8, <1>5 DEF IsInserted
    <3>6. CASE j < Len(Path[f]) /\ e = Direction(Path[f][j], f)
      <4>1. Path[f][j + 1] = Half(Path[f][j], e)
        BY <3>2, <3>6, <1>4, PathFacts
      <4>2. j + 1 \in first .. Len(Path[f])
        BY <3>6, <2>8, <1>4
      <4> QED
        BY <4>1, <4>2, <3>1, <3>5, <3>6, <2>6, <2>8 DEF InsertedAt
    <3>7. CASE ~(j < Len(Path[f]) /\ e = Direction(Path[f][j], f))
      <4>1. ms[j + 1] = Nil
        BY <3>5, <3>7
      <4>2. q # f
        BY <3>7, <2>2, <2>3, <1>1, <1>4
      <4> QED
        BY <4>1, <4>2, <3>1 DEF InsertedAt
    <3> QED
      BY <3>6, <3>7
  <2>9. InsertedAt(ms[j + 1], ns[j + 1], q, f, first, new, j + 1)
    BY <2>5, <2>7, <2>8 DEF InsertedAt
  <2> QED
    BY <2>2, <2>9
<1> HIDE DEF S
<1>10. 0 .. L - 1 \subseteq S
  <2>1. L - 1 \in Nat
    BY <1>4
  <2> QED
    BY <2>1, <1>8, <1>9, SetInduction
<1>11. ASSUME NEW j \in 1 .. L PROVE InsertedAt(ms[j], ns[j], q, f, first, new, j)
  <2>1. PICK k : k = j - 1
    OBVIOUS
  <2>2. k \in 0 .. L - 1 /\ k + 1 = j
    BY <2>1, <1>4
  <2> QED
    BY <2>2, <1>10 DEF S
<1> QED
  BY <1>1, <1>11

(* An insertion below a private path changes one field of one table. *)
LEMMA InsertsSame ==
  ASSUME NEW T, NEW R, NEW t \in Tables, TreeGood(T, R, t), NEW f \in Fields,
         NEW v, NEW U, NEW first, NEW new, Inserts(U, T, f, first, new, v),
         Private(T, f, Len(Path[f]))
  PROVE  /\ SameBut(U, T, R, t, {f}) /\ Shows(U, f, v) /\ Private(U, f, Len(Path[f]))
         /\ Local(U, T, f)
<1>1. PICK h, r, g, s, W, ns, L :
        /\ h = T.heap /\ r = T.root /\ g = U.heap /\ s = U.root /\ W = With(R, t, r)
        /\ ns = Nodes(h, r, f) /\ L = Len(Path[f])
  OBVIOUS
<1>2. TreeGood(U, R, t)
  BY InsertsGood
<1>3. /\ Good(h, W) /\ W[t] = r /\ r \in RootNodes \cup {Nil} /\ h \in Heaps /\ Shape(h)
      /\ s \in RootNodes \cup {Nil} /\ g \in Heaps /\ Shape(g) /\ R \in Roots
  BY <1>1, <1>2, TreeFields
<1>4. ASSUME NEW q \in Fields, NEW j \in 1 .. Len(Path[q])
      PROVE  InsertedAt(Nodes(g, s, q)[j], Nodes(h, r, q)[j], q, f, first, new, j)
  BY <1>1, <1>2, InsertsNodes
<1>5. L \in Nat \ {0} /\ first \in 1 .. L /\ FreshPath(h, f, new)
      /\ \A j \in 1 .. first - 1 : ns[j] # Nil
  BY <1>1, PathFacts DEF Inserts
<1>6. IsInserted(g, h, ns, f, first, new, v)
  BY <1>1, InsertsIs
<1>7. ASSUME NEW j \in 1 .. L
      PROVE  /\ j < first => Nodes(g, s, f)[j] = ns[j]
             /\ first <= j => Nodes(g, s, f)[j] = new[j]
  BY <1>1, <1>4, <1>5 DEF InsertedAt
<1>8. ASSUME NEW j \in 1 .. L PROVE new[j] \in Places /\ new[j] # Nil /\ h[new[j]].refcnt = 0
  BY <1>1, <1>5, PlaceIs DEF FreshPath
<1>9. Shows(U, f, v)
  <2>1. Find(g, s, f) = new[L] /\ L \in 1 .. L /\ L \in first .. L
    BY <1>1, <1>5, <1>7 DEF Find
  <2>2. g[new[L]].value = v
    BY <2>1, <1>1, <1>6 DEF IsInserted
  <2> QED
    BY <2>1, <2>2, <1>1, <1>8 DEF Shows
<1>10. ASSUME NEW a \in Places, h[a].refcnt # 0
       PROVE  g[a].refcnt = h[a].refcnt /\ g[a].reloc = h[a].reloc /\ g[a].value = h[a].value
  BY <1>6, <1>10 DEF IsInserted
<1>11. Private(U, f, L)
  <2>1. ASSUME NEW j \in 1 .. L, Nodes(g, s, f)[j] # Nil PROVE g[Nodes(g, s, f)[j]].refcnt = 1
    <3>1. CASE j < first
      <4>1. PICK a : a = ns[j]
        OBVIOUS
      <4>2. a = Nodes(g, s, f)[j] /\ a # Nil
        BY <4>1, <3>1, <2>1, <1>7
      <4>3. h[a].refcnt = 1
        BY <4>1, <4>2, <1>1 DEF Private
      <4>4. a \in Places
        <5>1. Walk(ns, h, r, f)
          BY <1>1, <1>3, NodesWalk
        <5> QED
          BY <5>1, <4>1, <4>2, <1>1 DEF Walk, Pointers
      <4> QED
        BY <4>2, <4>3, <4>4, <1>10
    <3>2. CASE first <= j
      <4>1. Nodes(g, s, f)[j] = new[j] /\ j \in first .. L
        BY <3>2, <1>5, <1>7
      <4> QED
        BY <4>1, <1>1, <1>6 DEF IsInserted
    <3> QED
      BY <3>1, <3>2, <1>5
  <2> QED
    BY <2>1, <1>1 DEF Private
<1>12. Local(U, T, f)
  <2>1. ASSUME NEW a \in Places, h[a].refcnt # 0, \A i \in 1 .. L : ns[i] # a
        PROVE  g[a].child = h[a].child /\ g[a].value = h[a].value /\ g[a].reloc = h[a].reloc
    <3>1. first = 1 \/ a # ns[first - 1]
      <4>1. first # 1 => first - 1 \in 1 .. L
        BY <1>5
      <4> QED
        BY <4>1, <2>1
    <3>2. g[a] = h[a]
      BY <3>1, <2>1, <1>6 DEF IsInserted
    <3> QED
      BY <3>2
  <2> QED
    BY <2>1, <1>1 DEF Local
<1>13. ASSUME NEW q \in Fields \ {f} PROVE Same(g, s, h, r, q)
  <2>1. PICK k, a, b : k = Len(Path[q]) /\ a = Nodes(h, r, q)[k] /\ b = Nodes(g, s, q)[k]
    OBVIOUS
  <2>2. k \in 1 .. Len(Path[q])
    BY <2>1, PathFacts
  <2>3. InsertedAt(b, a, q, f, first, new, k)
    BY <2>1, <2>2, <1>4
  <2>4. ~(k \in first .. Len(Path[f]) /\ Path[q][k] = Path[f][k])
    <3>1. first .. Len(Path[f]) \subseteq 1 .. Len(Path[f])
      BY <1>1, <1>5
    <3> QED
      BY <3>1, <2>1, LeavesDiffer
  <2>5. b = a
    BY <2>3, <2>4 DEF InsertedAt
  <2>6. a # Nil => a \in Places /\ h[a].refcnt # 0
    BY <2>1, <2>2, <1>3, NodesLive
  <2> QED
    BY <2>1, <2>5, <2>6, <1>10 DEF Same, Find
<1>14. ASSUME NEW u \in Tables \ {t}, R[u] # NoTable, NEW q \in Fields
       PROVE  Same(U.heap, R[u], T.heap, R[u], q)
  BY <1>1, <1>3, <1>12, <1>14, LocalSame
<1> QED
  BY <1>1, <1>9, <1>11, <1>12, <1>13, <1>14 DEF SameBut

LEMMA InsertSame ==
  ASSUME NEW T, NEW R, NEW t \in Tables, TreeGood(T, R, t), NEW f \in Fields,
         NEW v \in SUBSET Addresses, Find(T.heap, T.root, f) = Nil
  PROVE  /\ TreeGood(Insert(T, f, v), R, t)
         /\ SameBut(Insert(T, f, v), T, R, t, {f}) /\ Shows(Insert(T, f, v), f, v)
         /\ Private(Insert(T, f, v), f, Len(Path[f]))
<1>1. PICK U, V : U = PrepareToWrite(T, f) /\ V = InsertWritable(U, f, v) /\ V = Insert(T, f, v)
  BY DEF Insert
<1>2. TreeGood(U, R, t)
  BY <1>1, PrepareToWriteGood
<1>3. SameBut(U, T, R, t, {}) /\ Private(U, f, Len(Path[f]))
  BY <1>1, PrepareToWriteSame
<1>4. Find(U.heap, U.root, f) = Nil
  <2>1. Same(U.heap, U.root, T.heap, T.root, f)
    BY <1>3 DEF SameBut
  <2> QED
    BY <2>1 DEF Same
<1>5. PICK first, new : Inserts(V, U, f, first, new, v)
  BY <1>1, <1>2, <1>4, InsertWritableIs
<1>6. TreeGood(V, R, t)
  BY <1>2, <1>5, InsertsGood
<1>7. SameBut(V, U, R, t, {f}) /\ Shows(V, f, v) /\ Private(V, f, Len(Path[f]))
  BY <1>2, <1>3, <1>5, InsertsSame
<1>8. SameBut(V, T, R, t, {} \cup {f})
  BY <1>3, <1>7, SameButTrans
<1>9. {} \cup {f} = {f}
  OBVIOUS
<1> QED
  BY <1>1, <1>6, <1>7, <1>8, <1>9

\* U is T with the field f, which has the value v if T does not have it
IsGetRO(U, T, R, t, f, v) ==
  /\ TreeGood(U, R, t)
  /\ SameBut(U, T, R, t, {f})
  /\ Find(U.heap, U.root, f) # Nil
  /\ Find(T.heap, T.root, f) # Nil => U = T
  /\ Find(T.heap, T.root, f) = Nil => Shows(U, f, v)
  /\ Private(T, f, Len(Path[f])) => Private(U, f, Len(Path[f]))

LEMMA GetROSame ==
  ASSUME NEW T, NEW R, NEW t \in Tables, TreeGood(T, R, t), NEW f \in Fields,
         NEW dflt \in Addresses
  PROVE  IsGetRO(GetRO(T, f, dflt), T, R, t, f, {dflt})
<1>0. {dflt} \in SUBSET Addresses
  OBVIOUS
<1>1. PICK v : v = {dflt} /\ v \in SUBSET Addresses
  BY <1>0, Zenon
<1>2. PICK U : U = GetRO(T, f, dflt)
  OBVIOUS
<1>3. U = IF Find(T.heap, T.root, f) # Nil THEN T ELSE Insert(T, f, v)
  BY <1>1, <1>2 DEF GetRO
<1>4. CASE Find(T.heap, T.root, f) # Nil
  <2>1. U = T
    BY <1>3, <1>4
  <2>2. SameBut(T, T, R, t, {f})
    BY SameButRefl
  <2>3. IsGetRO(T, T, R, t, f, v)
    BY <2>2, <1>4 DEF IsGetRO
  <2> QED
    BY <2>1, <2>3, <1>1, <1>2, Zenon
<1>5. CASE Find(T.heap, T.root, f) = Nil
  <2>1. U = Insert(T, f, v)
    BY <1>3, <1>5
  <2>2. /\ TreeGood(U, R, t) /\ SameBut(U, T, R, t, {f}) /\ Shows(U, f, v)
        /\ Private(U, f, Len(Path[f]))
    BY <2>1, <1>1, <1>5, InsertSame
  <2>3. Find(U.heap, U.root, f) # Nil
    BY <2>2 DEF Shows
  <2>4. IsGetRO(U, T, R, t, f, v)
    BY <2>2, <2>3, <1>5 DEF IsGetRO
  <2> QED
    BY <2>4, <1>1, <1>2, Zenon
<1> QED
  BY <1>4, <1>5

LEMMA GetRWSame ==
  ASSUME NEW T, NEW R, NEW t \in Tables, TreeGood(T, R, t), NEW f \in Fields,
         NEW dflt \in Addresses
  PROVE  /\ TreeGood(GetRW(T, f, dflt), R, t)
         /\ SameBut(GetRW(T, f, dflt), T, R, t, {f})
         /\ Find(GetRW(T, f, dflt).heap, GetRW(T, f, dflt).root, f) # Nil
         /\ Private(GetRW(T, f, dflt), f, Len(Path[f]))
<1>1. PICK U, V : U = PrepareToWrite(T, f) /\ V = GetRO(U, f, dflt) /\ V = GetRW(T, f, dflt)
  BY DEF GetRW
<1>2. TreeGood(U, R, t)
  BY <1>1, PrepareToWriteGood
<1>3. SameBut(U, T, R, t, {}) /\ Private(U, f, Len(Path[f]))
  BY <1>1, PrepareToWriteSame
<1>4. /\ TreeGood(V, R, t) /\ SameBut(V, U, R, t, {f}) /\ Find(V.heap, V.root, f) # Nil
      /\ Private(V, f, Len(Path[f]))
  <2>1. IsGetRO(V, U, R, t, f, {dflt})
    BY <1>1, <1>2, GetROSame
  <2> QED
    BY <2>1, <1>3 DEF IsGetRO
<1>5. SameBut(V, T, R, t, {} \cup {f})
  BY <1>3, <1>4, SameButTrans
<1>6. {} \cup {f} = {f}
  OBVIOUS
<1> QED
  BY <1>1, <1>4, <1>5, <1>6

\* what a write makes of the tree
Written(T, f, v, dflt, flag) ==
  UpdateRelocatedFlag(Assign(GetRW(T, f, dflt), f, v), f, flag)

(* A write changes one field of one table. *)
LEMMA WrittenSame ==
  ASSUME NEW T, NEW R, NEW t \in Tables, TreeGood(T, R, t), NEW f \in Fields,
         NEW v \in SUBSET Addresses, NEW dflt \in Addresses, NEW flag \in BOOLEAN
  PROVE  /\ TreeGood(Written(T, f, v, dflt, flag), R, t)
         /\ SameBut(Written(T, f, v, dflt, flag), T, R, t, {f})
         /\ Shows(Written(T, f, v, dflt, flag), f, v)
<1>1. PICK U, V, X : /\ U = GetRW(T, f, dflt) /\ V = Assign(U, f, v)
                     /\ X = UpdateRelocatedFlag(V, f, flag) /\ X = Written(T, f, v, dflt, flag)
  BY DEF Written
<1>2. /\ TreeGood(U, R, t) /\ SameBut(U, T, R, t, {f}) /\ Find(U.heap, U.root, f) # Nil
      /\ Private(U, f, Len(Path[f]))
  BY <1>1, GetRWSame
<1>3. TreeGood(V, R, t)
  BY <1>1, <1>2, AssignGood
<1>4. SameBut(V, U, R, t, {f}) /\ Shows(V, f, v)
  BY <1>1, <1>2, AssignSame
<1>5. TreeGood(X, R, t)
  BY <1>1, <1>3, UpdateFlagGood
<1>6. SameBut(X, V, R, t, {})
  BY <1>1, <1>3, UpdateFlagSame
<1>7. Shows(X, f, v)
  <2>1. Same(X.heap, X.root, V.heap, V.root, f)
    BY <1>6 DEF SameBut
  <2> QED
    BY <2>1, <1>4 DEF Same, Shows
<1>8. SameBut(V, T, R, t, {f} \cup {f})
  BY <1>2, <1>4, SameButTrans
<1>9. SameBut(X, T, R, t, ({f} \cup {f}) \cup {})
  BY <1>6, <1>8, SameButTrans
<1>10. ({f} \cup {f}) \cup {} = {f}
  OBVIOUS
<1> QED
  BY <1>1, <1>5, <1>7, <1>9, <1>10

-----------------------------------------------------------------------------
(***************************************************************************)
(* Tables that come and go: a table without fields, a fork, and a table    *)
(* that is freed.                                                          *)
(***************************************************************************)

(* The depth of the tree is the length of the longest path. *)
LEMMA DepthIs ==
  /\ Depth \in Nat \ {0}
  /\ \A f \in Fields : Len(Path[f]) <= Depth
<1>1. FieldCount \in Nat \ {0} /\ 0 \in Fields
  BY ConstantsAssumption DEF Fields
<1>2. ASSUME NEW f \in Fields PROVE Len(Path[f]) \in 1 .. FieldCount
  <2>1. PICK p, L : p = Path[f] /\ L = Len(p)
    OBVIOUS
  <2>2. IsPath(p, f) /\ L \in Nat \ {0}
    BY <2>1, PathIs, PathFacts
  <2>3. Size(p[L]) <= FieldCount + 1 - L /\ In(f, p[L]) /\ p[L] \in Spans
    BY <2>1, <2>2, PathFacts DEF IsPath
  <2>4. f \in Int /\ p[L][1] \in Int /\ p[L][2] \in Int
    BY <2>3, <1>1 DEF Spans, Fields
  <2>5. L <= FieldCount
    BY <2>2, <2>3, <2>4, <1>1 DEF Size, In
  <2> QED
    BY <2>1, <2>2, <2>5
<1> DEFINE S == {FieldCount - Len(Path[f]) : f \in Fields}
<1>3. S \in SUBSET Nat
  BY <1>1, <1>2
<1>4. FieldCount - Len(Path[0]) \in S
  BY <1>1
<1>5. PICK m \in S : \A k \in S : m <= k
  BY <1>3, <1>4, LeastMember
<1>6. PICK g \in Fields : m = FieldCount - Len(Path[g])
  BY <1>5
<1>7. ASSUME NEW f \in Fields PROVE Len(Path[f]) <= Len(Path[g])
  <2>1. m <= FieldCount - Len(Path[f])
    BY <1>5
  <2>2. Len(Path[f]) \in 1 .. FieldCount /\ Len(Path[g]) \in 1 .. FieldCount
    BY <1>2
  <2> QED
    BY <2>1, <2>2, <1>1, <1>6
<1> DEFINE Q(d) == /\ \E f \in Fields : Len(Path[f]) = d
                   /\ \A f \in Fields : Len(Path[f]) <= d
<1>8. \E d \in 1 .. FieldCount : Q(d)
  BY <1>2, <1>7
<1>9. Depth = CHOOSE d \in 1 .. FieldCount : Q(d)
  BY DEF Depth
<1> HIDE DEF Q
<1>10. Depth \in 1 .. FieldCount /\ Q(Depth)
  BY <1>8, <1>9, Zenon
<1> QED
  BY <1>1, <1>10 DEF Q

LEMMA NewGood ==
  ASSUME NEW h, NEW R, Good(h, R), NEW t \in Tables, R[t] = NoTable
  PROVE  Good(h, With(R, t, Nil))
<1>1. R \in Roots /\ h \in Heaps
  BY DEF Good
<1>2. With(R, t, Nil) \in Roots /\ \A a : a # Nil => RootsOf(With(R, t, Nil), a) = RootsOf(R, a) \ {t}
  BY <1>1, WithIs
<1>3. ASSUME NEW a \in Places PROVE RootsOf(With(R, t, Nil), a) = RootsOf(R, a)
  <2>1. a # Nil /\ a # NoTable
    BY PlaceIs
  <2>2. t \notin RootsOf(R, a)
    BY <2>1 DEF RootsOf
  <2> QED
    BY <2>1, <2>2, <1>2
<1> QED
  BY <1>2, <1>3 DEF Good, Exact

\* g is h with one more reference to r
IsIncref(g, h, r) ==
  /\ g \in Heaps
  /\ r = Nil => g = h
  /\ \A a \in Places : /\ g[a].child = h[a].child /\ g[a].value = h[a].value /\ g[a].reloc = h[a].reloc
                       /\ g[a].refcnt = IF a = r THEN h[a].refcnt + 1 ELSE h[a].refcnt

LEMMA IncrefIs ==
  ASSUME NEW h \in Heaps, NEW r \in RootNodes \cup {Nil}
  PROVE  IsIncref(Incref(h, r), h, r)
<1>1. CASE r = Nil
  <2>1. Incref(h, r) = h
    BY <1>1 DEF Incref
  <2>2. \A a \in Places : a # r
    BY <1>1, PlaceIs
  <2> QED
    BY <2>1, <2>2 DEF IsIncref
<1>2. CASE r # Nil
  <2>1. r \in Places
    BY <1>2 DEF RootNodes
  <2>2. PICK g : g = Incref(h, r)
    OBVIOUS
  <2>3. g = [h EXCEPT ![r].refcnt = h[r].refcnt + 1]
    BY <2>2, <1>2 DEF Incref
  <2>4. DOMAIN h = Places /\ h[r] \in NodeRec /\ h[r].refcnt \in Nat
    BY <2>1, NodeFields DEF Heaps
  <2>5. g[r] = [h[r] EXCEPT !.refcnt = h[r].refcnt + 1]
    BY <2>1, <2>3, <2>4
  <2>6. g[r] \in NodeRec /\ g[r].refcnt = h[r].refcnt + 1 /\ g[r].child = h[r].child
        /\ g[r].value = h[r].value /\ g[r].reloc = h[r].reloc
    BY <2>4, <2>5 DEF NodeRec
  <2>7. \A a \in Places \ {r} : g[a] = h[a]
    BY <2>3, <2>4
  <2>8. g \in Heaps
    <3>1. g = [a \in Places |-> g[a]]
      BY <2>3, <2>4
    <3>2. \A a \in Places : g[a] \in NodeRec
      BY <2>6, <2>7, NodeFields
    <3> QED
      BY <3>1, <3>2 DEF Heaps
  <2> QED
    BY <2>2, <2>6, <2>7, <2>8, <1>2 DEF IsIncref
<1> QED
  BY <1>1, <1>2

LEMMA ForkGood ==
  ASSUME NEW h, NEW R, Good(h, R), NEW s \in Tables, NEW t \in Tables,
         R[s] # NoTable, R[t] = NoTable
  PROVE  Good(Incref(h, R[s]), With(R, t, R[s]))
<1>1. PICK r, g, W : r = R[s] /\ g = Incref(h, r) /\ W = With(R, t, r)
  OBVIOUS
<1>2. R \in Roots /\ h \in Heaps /\ r \in RootNodes \cup {Nil} /\ Shape(h) /\ FreeEmpty(h)
      /\ Exact(h, R)
  BY <1>1 DEF Good, Roots
<1>3. IsIncref(g, h, r)
  BY <1>1, <1>2, IncrefIs
<1>4. /\ W \in Roots /\ \A a : a # r => RootsOf(W, a) = RootsOf(R, a) \ {t}
      /\ RootsOf(W, r) = RootsOf(R, r) \cup {t}
  BY <1>1, <1>2, WithIs
<1>5. \A a : Parents(g, a) = Parents(h, a)
  BY <1>3 DEF IsIncref, Parents
<1>6. Shape(g)
  BY <1>2, <1>3 DEF IsIncref, Shape
<1>7. FreeEmpty(g)
  <2>1. ASSUME NEW a \in Places, g[a].refcnt = 0, NEW d \in 1 .. 2 PROVE g[a].child[d] = Nil
    <3>1. h[a].refcnt \in Nat
      BY <1>2, NodeFields
    <3>2. h[a].refcnt = 0
      BY <3>1, <2>1, <1>3 DEF IsIncref
    <3> QED
      BY <3>2, <1>2, <1>3 DEF IsIncref, FreeEmpty
  <2> QED
    BY <2>1 DEF FreeEmpty
<1>8. ASSUME NEW a \in Places
      PROVE  g[a].refcnt = Cardinality(RootsOf(W, a)) + Cardinality(Parents(g, a))
  <2>1. t \notin RootsOf(R, a)
    BY PlaceIs DEF RootsOf
  <2>2. PICK x, y, z : /\ x = Cardinality(RootsOf(R, a)) /\ y = Cardinality(Parents(h, a))
                       /\ z = Cardinality(RootsOf(W, a))
    OBVIOUS
  <2>3. x \in Nat /\ y \in Nat /\ IsFiniteSet(RootsOf(R, a)) /\ h[a].refcnt = x + y
    BY <2>2, <1>2, PointersFinite DEF Exact
  <2>4. CASE a = r
    <3>1. z = x + 1
      BY <2>1, <2>2, <2>3, <2>4, <1>4, AddOne
    <3>2. g[a].refcnt = h[a].refcnt + 1
      BY <2>4, <1>3 DEF IsIncref
    <3> QED
      BY <3>1, <3>2, <2>2, <2>3, <1>5
  <2>5. CASE a # r
    <3>1. RootsOf(W, a) = RootsOf(R, a)
      BY <2>1, <2>5, <1>4
    <3>2. g[a].refcnt = h[a].refcnt
      BY <2>5, <1>3 DEF IsIncref
    <3> QED
      BY <3>1, <3>2, <2>2, <2>3, <1>5
  <2> QED
    BY <2>4, <2>5
<1>9. Good(g, W)
  BY <1>3, <1>4, <1>6, <1>7, <1>8 DEF Good, Exact, IsIncref
<1> QED
  BY <1>1, <1>9

\* Reading a heap only depends on pointers and values.
LEMMA SameRead ==
  ASSUME NEW h \in Heaps, Shape(h), NEW g \in Heaps, Shape(g),
         \A a \in Places : g[a].child = h[a].child /\ g[a].value = h[a].value,
         NEW r \in RootNodes \cup {Nil}, NEW f \in Fields
  PROVE  /\ \A i \in 1 .. Len(Path[f]) : Nodes(g, r, f)[i] = Nodes(h, r, f)[i]
         /\ Same(g, r, h, r, f)
<1>1. PICK ns, ms, L : ns = Nodes(h, r, f) /\ ms = Nodes(g, r, f) /\ L = Len(Path[f])
  OBVIOUS
<1>2. Walk(ns, h, r, f) /\ Walk(ms, g, r, f) /\ L \in Nat \ {0}
  BY <1>1, NodesWalk, PathFacts
<1> DEFINE S == {k \in 0 .. L - 1 : ms[k + 1] = ns[k + 1]}
<1>3. 0 \in S
  BY <1>2 DEF Walk
<1>4. ASSUME NEW k \in 0 .. (L - 1) - 1, k \in S PROVE k + 1 \in S
  <2>1. PICK j : j = k + 1
    OBVIOUS
  <2>2. j \in 1 .. L /\ j # L /\ k + 1 \in 0 .. L - 1 /\ j + 1 = (k + 1) + 1
    BY <2>1, <1>2
  <2>3. PICK d : d = Direction(Path[f][j], f)
    OBVIOUS
  <2>4. ns[j + 1] = Child(h, ns[j], d) /\ ms[j + 1] = Child(g, ms[j], d) /\ ms[j] = ns[j]
        /\ ns[j] \in Pointers
    BY <2>1, <2>2, <2>3, <1>1, <1>2, <1>4 DEF Walk
  <2>5. ns[j] # Nil => g[ns[j]].child = h[ns[j]].child
    BY <2>4 DEF Pointers
  <2>6. ms[j + 1] = ns[j + 1]
    BY <2>4, <2>5 DEF Child
  <2> QED
    BY <2>2, <2>6
<1> HIDE DEF S
<1>5. 0 .. L - 1 \subseteq S
  <2>1. L - 1 \in Nat
    BY <1>2
  <2> QED
    BY <2>1, <1>3, <1>4, SetInduction
<1>6. ASSUME NEW j \in 1 .. L PROVE ms[j] = ns[j]
  <2>1. PICK k : k = j - 1
    OBVIOUS
  <2>2. k \in 0 .. L - 1 /\ k + 1 = j
    BY <2>1, <1>2
  <2> QED
    BY <2>2, <1>5 DEF S
<1>7. ms[L] = ns[L] /\ ns[L] \in Pointers
  BY <1>1, <1>2, <1>6 DEF Walk
<1>8. ns[L] # Nil => g[ns[L]].value = h[ns[L]].value
  BY <1>7 DEF Pointers
<1> QED
  BY <1>1, <1>6, <1>7, <1>8 DEF Same, Find

(* The nodes that lose a reference when a table is freed. *)

\* the children of the nodes of x that lose their last reference
LosesNext(h, x) == UNION {ToSet(h[n].child) \ {Nil} : n \in {m \in x : h[m].refcnt = 1}}

IsLost(lost, h, r) ==
  /\ lost \in [0 .. Depth -> SUBSET Places]
  /\ lost[0] = {r} \ {Nil}
  /\ \A k \in 1 .. Depth : lost[k] = LosesNext(h, lost[k - 1])

DecrefAt(h, all) ==
  [a \in Places |->
     IF a \notin all THEN h[a]
     ELSE IF h[a].refcnt = 1 THEN FreeNode
     ELSE [h[a] EXCEPT !.refcnt = @ - 1]]

LEMMA LosesNextIs ==
  ASSUME NEW h \in Heaps, NEW x \in SUBSET Places
  PROVE  /\ LosesNext(h, x) \in SUBSET Places
         /\ \A a : a \in LosesNext(h, x) <=>
              a # Nil /\ \E n \in x : h[n].refcnt = 1 /\ a \in Kids(h, n)
<1>1. \A a : a \in LosesNext(h, x) <=>
        a # Nil /\ \E n \in x : h[n].refcnt = 1 /\ a \in ToSet(h[n].child)
  <2> DEFINE C(n) == ToSet(h[n].child)
             D(n) == h[n].refcnt = 1
  <2>1. LosesNext(h, x) = UNION {C(n) \ {Nil} : n \in {m \in x : D(m)}}
    BY DEF LosesNext
  <2> HIDE DEF C, D
  <2>2. \A a : a \in UNION {C(n) \ {Nil} : n \in {m \in x : D(m)}} <=>
          a # Nil /\ \E n \in x : D(n) /\ a \in C(n)
    OBVIOUS
  <2> QED
    BY <2>1, <2>2 DEF C, D
<1>2. \A n \in x : ToSet(h[n].child) = Kids(h, n)
  BY ToSetKids
<1>3. \A a : a \in LosesNext(h, x) <=>
        a # Nil /\ \E n \in x : h[n].refcnt = 1 /\ a \in Kids(h, n)
  BY <1>1, <1>2
<1>4. ASSUME NEW a \in LosesNext(h, x) PROVE a \in Places
  <2>1. PICK n \in x : a \in Kids(h, n) /\ a # Nil
    BY <1>3, <1>4
  <2>2. h[n].child[1] \in Pointers /\ h[n].child[2] \in Pointers
    BY <2>1, NodeFields
  <2> QED
    BY <2>1, <2>2 DEF Kids, Pointers
<1> QED
  BY <1>3, <1>4

LEMMA DecrefIs ==
  ASSUME NEW h \in Heaps, NEW r \in RootNodes \cup {Nil}
  PROVE  \E lost : /\ IsLost(lost, h, r)
                   /\ Decref(h, r) = DecrefAt(h, UNION {lost[k] : k \in 0 .. Depth})
<1> DEFINE N == Depth
           X == SUBSET Places
           x == {r} \ {Nil}
           P(y) == UNION {ToSet(h[n].child) \ {Nil} : n \in {m \in y : h[m].refcnt = 1}}
           F == [k \in 1 .. N |-> [y \in X |-> P(y)]]
           Def(w) == [k \in 0 .. N |-> IF k = 0 THEN x ELSE P(w[k - 1])]
           lost == CHOOSE w : w = Def(w)
<1>0. Decref(h, r) = DecrefAt(h, UNION {lost[k] : k \in 0 .. N})
  BY Zenon DEF Decref, DecrefAt
<1>1. N \in Nat
  BY DepthIs
<1>2. x \in X
  BY DEF RootNodes
<1>3. ASSUME NEW y \in X PROVE P(y) \in X
  BY LosesNextIs DEF LosesNext
<1>3b. x = {r} \ {Nil} /\ \A y : P(y) = LosesNext(h, y)
  BY Zenon DEF LosesNext
<1> HIDE DEF N, P, X, x
<1>4. F \in [1 .. N -> [X -> X]]
  BY <1>3
<1>5. PICK g : IteratesFrom(g, N, X, x, F)
  <2> HIDE DEF F
  <2> QED
    BY <1>1, <1>2, <1>4, Iteration
<1>6. g \in [0 .. N -> X] /\ g[0] = x /\ \A i \in 1 .. N : g[i] = F[i][g[i - 1]]
  BY <1>5 DEF IteratesFrom
<1>7. ASSUME NEW i \in 1 .. N PROVE g[i] = P(g[i - 1])
  <2>1. g[i - 1] \in X
    BY <1>1, <1>6
  <2>2. F[i][g[i - 1]] = P(g[i - 1])
    BY <2>1, Zenon
  <2> QED
    BY <1>6, <2>2
<1> HIDE DEF F
<1>8. \A i \in 0 .. N : g[i] = IF i = 0 THEN x ELSE P(g[i - 1])
  <2>1. \A i \in 0 .. N : i = 0 \/ i \in 1 .. N
    BY <1>1
  <2> QED
    BY <2>1, <1>6, <1>7
<1>9. \E w : w = Def(w)
  BY <1>6, <1>8
<1>10. lost = Def(lost)
  <2> HIDE DEF Def
  <2> QED
    BY <1>9, Zenon
<1> HIDE DEF lost
<1>11. lost[0] = x
  BY <1>1, <1>10
<1>12. ASSUME NEW i \in 1 .. N PROVE lost[i] = P(lost[i - 1])
  <2>1. i \in 0 .. N /\ i # 0
    BY <1>1
  <2>2. lost[i] = Def(lost)[i]
    BY <1>10
  <2> QED
    BY <2>1, <2>2
<1>12b. DOMAIN lost = 0 .. N /\ lost = [k \in DOMAIN lost |-> lost[k]]
  BY <1>10
<1> HIDE DEF Def
<1> DEFINE S == {i \in 0 .. N : lost[i] \in X}
<1>13. 0 \in S
  BY <1>1, <1>2, <1>11
<1>14. ASSUME NEW i \in 0 .. N - 1, i \in S PROVE i + 1 \in S
  <2>1. i + 1 \in 1 .. N /\ i + 1 \in 0 .. N /\ (i + 1) - 1 = i
    BY <1>1
  <2>2. lost[i + 1] = P(lost[i]) /\ lost[i] \in X
    BY <2>1, <1>12, <1>14
  <2> QED
    BY <2>1, <2>2, <1>3
<1>15. 0 .. N \subseteq S
  <2> HIDE DEF S
  <2> QED
    BY <1>1, <1>13, <1>14, SetInduction
<1>16. lost \in [0 .. N -> X]
  BY <1>12b, <1>15
<1>17. IsLost(lost, h, r)
  <2>1. \A k \in 1 .. N : lost[k] = LosesNext(h, lost[k - 1])
    BY <1>3b, <1>12
  <2>2. lost[0] = {r} \ {Nil}
    BY <1>3b, <1>11
  <2> QED
    BY <2>1, <2>2, <1>16 DEF IsLost, N, X
<1> QED
  BY <1>0, <1>17 DEF N

\* a is the node that the table with root r meets at depth k
LostAt(h, r, k, a) ==
  /\ a \in Places /\ LevelOf(SegmentOf(a)) = k + 1
  /\ \A f \in Fields : In(f, SegmentOf(a)) =>
       k + 1 \in 1 .. Len(Path[f]) /\ Nodes(h, r, f)[k + 1] = a

\* The nodes that lose a reference at level k are the ones that the table meets
\* at depth k.
LEMMA LostLevel ==
  ASSUME NEW h, NEW R, Good(h, R), NEW r \in RootNodes \cup {Nil}, NEW lost, IsLost(lost, h, r),
         NEW k \in 0 .. Depth, NEW a \in lost[k]
  PROVE  LostAt(h, r, k, a)
<1>1. h \in Heaps /\ Shape(h) /\ Depth \in Nat
  BY DepthIs DEF Good
<1>2. \A i \in 0 .. Depth : lost[i] \in SUBSET Places
  BY DEF IsLost
<1> DEFINE Q(i, b) == /\ LevelOf(SegmentOf(b)) = i + 1
                      /\ \A f \in Fields : In(f, SegmentOf(b)) =>
                           i + 1 \in 1 .. Len(Path[f]) /\ Nodes(h, r, f)[i + 1] = b
           S == {i \in 0 .. Depth : \A b \in lost[i] : Q(i, b)}
<1>3. 0 \in S
  <2>1. ASSUME NEW b \in lost[0] PROVE Q(0, b)
    <3>1. b = r /\ SegmentOf(b) = Whole
      BY <2>1 DEF IsLost, RootNodes
    <3>2. LevelOf(SegmentOf(b)) = 0 + 1
      BY <3>1, WholeLevel
    <3>3. ASSUME NEW f \in Fields PROVE 0 + 1 \in 1 .. Len(Path[f]) /\ Nodes(h, r, f)[0 + 1] = b
      <4>1. Walk(Nodes(h, r, f), h, r, f)
        BY <1>1, NodesWalk
      <4>2. Nodes(h, r, f)[1] = b
        BY <4>1, <3>1 DEF Walk
      <4>3. Len(Path[f]) \in Nat \ {0} /\ 0 + 1 = 1
        BY PathFacts
      <4> QED
        BY <4>2, <4>3
    <3> QED
      BY <3>2, <3>3
  <2> QED
    BY <2>1, <1>1
<1>4. ASSUME NEW i \in 0 .. Depth - 1, i \in S PROVE i + 1 \in S
  <2>1. PICK j : j = i + 1
    OBVIOUS
  <2>2. j \in 1 .. Depth /\ j - 1 = i /\ i \in 0 .. Depth /\ j \in 0 .. Depth /\ j \in Nat
    BY <2>1, <1>1
  <2>3. lost[j] = LosesNext(h, lost[i])
    BY <2>2 DEF IsLost
  <2>4. ASSUME NEW b \in lost[j] PROVE Q(j, b)
    <3>1. PICK n \in lost[i] : b \in Kids(h, n) /\ b # Nil
      BY <2>2, <2>3, <2>4, <1>1, <1>2, LosesNextIs
    <3>2. n \in Places
      BY <3>1, <2>2, <1>2
    <3>3. Q(i, n)
      BY <3>1, <1>4
    <3>4. PICK d \in 1 .. 2 : h[n].child[d] = b
      BY <3>1 DEF Kids
    <3>5. /\ b \in Places /\ ~IsLeaf(SegmentOf(n)) /\ SegmentOf(b) = Half(SegmentOf(n), d)
          /\ SegmentOf(n) \in Segments /\ Half(SegmentOf(n), d) \in Segments
      BY <3>1, <3>2, <3>4, <1>1, ParentIs
    <3>6. /\ LevelOf(SegmentOf(b)) = LevelOf(SegmentOf(n)) + 1
          /\ \A f \in Fields : In(f, SegmentOf(b)) => In(f, SegmentOf(n)) /\ Direction(SegmentOf(n), f) = d
      BY <3>5, HalfLevel
    <3>7. ASSUME NEW f \in Fields, In(f, SegmentOf(b))
          PROVE  j + 1 \in 1 .. Len(Path[f]) /\ Nodes(h, r, f)[j + 1] = b
      <4>1. In(f, SegmentOf(n)) /\ Direction(SegmentOf(n), f) = d
        BY <3>6, <3>7
      <4>2. j \in 1 .. Len(Path[f]) /\ Nodes(h, r, f)[j] = n
        BY <4>1, <3>3, <2>1
      <4>3. Walk(Nodes(h, r, f), h, r, f)
        BY <1>1, NodesWalk
      <4>4. n # Nil /\ SegmentOf(n) = Path[f][j]
        BY <4>2, <4>3, <3>2, PlaceIs DEF Walk
      <4>5. j # Len(Path[f])
        BY <4>2, <4>4, <3>5, PathFacts
      <4>6. Nodes(h, r, f)[j + 1] = Child(h, n, d)
        BY <4>1, <4>2, <4>3, <4>4, <4>5 DEF Walk
      <4>7. j + 1 \in 1 .. Len(Path[f])
        BY <4>2, <4>5, PathFacts
      <4> QED
        BY <4>4, <4>6, <4>7, <3>4 DEF Child
    <3>8. LevelOf(SegmentOf(b)) = j + 1
      BY <3>3, <3>6, <2>1, <2>2
    <3> QED
      BY <3>7, <3>8
  <2> HIDE DEF Q
  <2> QED
    BY <2>1, <2>2, <2>4
<1> HIDE DEF S
<1>5. 0 .. Depth \subseteq S
  BY <1>1, <1>3, <1>4, SetInduction
<1>6. Q(k, a)
  BY <1>5 DEF S
<1> QED
  BY <1>2, <1>6 DEF LostAt

\* the nodes that lose a reference, and the ones of them that are freed
Losers(lost) == UNION {lost[k] : k \in 0 .. Depth}

Dying(h, lost) == {a \in Losers(lost) : h[a].refcnt = 1}

LEMMA LosersIs ==
  ASSUME NEW h, NEW R, Good(h, R), NEW r \in RootNodes \cup {Nil}, NEW lost, IsLost(lost, h, r)
  PROVE  /\ Losers(lost) \in SUBSET Places
         /\ r # Nil => r \in Losers(lost)
         /\ \A a \in Losers(lost) : a # r => \E m \in Dying(h, lost) : a \in Kids(h, m)
         /\ \A m \in Dying(h, lost) : \A a \in Kids(h, m) : a # Nil => a \in Losers(lost)
         /\ \A a, b \in Losers(lost) : SegmentOf(a) = SegmentOf(b) => a = b
<1>1. h \in Heaps /\ Shape(h) /\ Depth \in Nat \ {0}
  BY DepthIs DEF Good
<1>2. \A k \in 0 .. Depth : lost[k] \in SUBSET Places
  BY DEF IsLost
<1>3. Losers(lost) \in SUBSET Places
  BY <1>2 DEF Losers
<1>4. r # Nil => r \in Losers(lost)
  <2>1. lost[0] = {r} \ {Nil} /\ 0 \in 0 .. Depth
    BY <1>1 DEF IsLost
  <2> QED
    BY <2>1 DEF Losers
<1>5. ASSUME NEW a \in Losers(lost), a # r PROVE \E m \in Dying(h, lost) : a \in Kids(h, m)
  <2>1. PICK k \in 0 .. Depth : a \in lost[k]
    BY <1>5 DEF Losers
  <2>2. k # 0
    BY <2>1, <1>5 DEF IsLost
  <2>3. PICK i : i = k - 1
    OBVIOUS
  <2>4. k \in 1 .. Depth /\ i \in 0 .. Depth
    BY <2>1, <2>2, <2>3, <1>1
  <2>5. lost[k] = LosesNext(h, lost[i]) /\ lost[i] \in SUBSET Places
    BY <2>3, <2>4 DEF IsLost
  <2>6. PICK m \in lost[i] : h[m].refcnt = 1 /\ a \in Kids(h, m)
    BY <2>1, <2>5, <1>1, LosesNextIs
  <2>7. m \in Dying(h, lost)
    BY <2>4, <2>6 DEF Dying, Losers
  <2> QED
    BY <2>6, <2>7
<1>6. ASSUME NEW m \in Dying(h, lost), NEW a \in Kids(h, m), a # Nil PROVE a \in Losers(lost)
  <2>1. PICK k \in 0 .. Depth : m \in lost[k] /\ h[m].refcnt = 1
    BY <1>6 DEF Losers, Dying
  <2>2a. LostAt(h, r, k, m)
    BY <2>1, LostLevel
  <2>2. m \in Places /\ \A f \in Fields : In(f, SegmentOf(m)) => k + 1 \in 1 .. Len(Path[f])
    BY <2>2a DEF LostAt
  <2>3. PICK d \in 1 .. 2 : h[m].child[d] = a
    BY <1>6 DEF Kids
  <2>4. ~IsLeaf(SegmentOf(m)) /\ SegmentOf(m) \in Segments
    BY <2>2, <2>3, <1>1, <1>6, ParentIs
  <2>5. PICK f : f = SegmentOf(m)[1] /\ f \in Fields /\ In(f, SegmentOf(m))
    BY <2>4, SegmentLevel
  <2>6. k + 1 \in 1 .. Len(Path[f]) /\ Path[f][k + 1] = SegmentOf(m)
    <3>1. LevelOf(SegmentOf(m)) = k + 1
      BY <2>2a DEF LostAt
    <3> QED
      BY <3>1, <2>4, <2>5, SegmentLevel
  <2>7. k + 1 # Len(Path[f])
    BY <2>4, <2>5, <2>6, PathFacts
  <2>8. Len(Path[f]) <= Depth /\ Len(Path[f]) \in Nat
    BY <2>5, DepthIs, PathFacts
  <2>9. PICK j : j = k + 1
    OBVIOUS
  <2>10. j \in 1 .. Depth /\ j - 1 = k /\ j \in 0 .. Depth
    BY <2>6, <2>7, <2>8, <2>9, <1>1
  <2>11. lost[j] = LosesNext(h, lost[k]) /\ lost[k] \in SUBSET Places
    BY <2>10 DEF IsLost
  <2>12. a \in lost[j]
    BY <2>1, <2>11, <1>1, <1>6, LosesNextIs
  <2> QED
    BY <2>10, <2>12 DEF Losers
<1>7. ASSUME NEW a \in Losers(lost), NEW b \in Losers(lost), SegmentOf(a) = SegmentOf(b)
      PROVE  a = b
  <2>1. PICK k \in 0 .. Depth, i \in 0 .. Depth : a \in lost[k] /\ b \in lost[i]
    BY <1>7 DEF Losers
  <2>2. PICK s : s = SegmentOf(a) /\ s = SegmentOf(b)
    BY <1>7
  <2>3. s \in Segments
    BY <2>2, <1>3, PlaceIs
  <2>4. PICK f : f = s[1] /\ f \in Fields /\ In(f, s)
    BY <2>3, SegmentLevel
  <2>5. Nodes(h, r, f)[k + 1] = a /\ LevelOf(s) = k + 1
    <3>1. LostAt(h, r, k, a)
      BY <2>1, LostLevel
    <3> QED
      BY <3>1, <2>2, <2>4 DEF LostAt
  <2>6. Nodes(h, r, f)[i + 1] = b /\ LevelOf(s) = i + 1
    <3>1. LostAt(h, r, i, b)
      BY <2>1, LostLevel
    <3> QED
      BY <3>1, <2>2, <2>4 DEF LostAt
  <2> QED
    BY <2>5, <2>6
<1> QED
  BY <1>3, <1>4, <1>5, <1>6, <1>7

\* What freeing the table with root r makes of the memory: K are the nodes that
\* lose a reference, M the ones that are freed.
IsDecref(g, h, r, K, M) ==
  /\ g \in Heaps
  /\ K \in SUBSET Places /\ M = {a \in K : h[a].refcnt = 1}
  /\ r # Nil => r \in K
  /\ \A a \in K : a # r => \E m \in M : a \in Kids(h, m)
  /\ \A m \in M : \A a \in Kids(h, m) : a # Nil => a \in K
  /\ \A a, b \in K : SegmentOf(a) = SegmentOf(b) => a = b
  /\ \A a \in Places \ K : g[a] = h[a]
  /\ \A a \in M : g[a].refcnt = 0 /\ g[a].child[1] = Nil /\ g[a].child[2] = Nil
  /\ \A a \in K \ M : /\ g[a].refcnt = h[a].refcnt - 1 /\ g[a].child = h[a].child
                      /\ g[a].value = h[a].value /\ g[a].reloc = h[a].reloc

LEMMA DecrefFacts ==
  ASSUME NEW h, NEW R, Good(h, R), NEW t \in Tables, R[t] # NoTable
  PROVE  \E K, M : IsDecref(Decref(h, R[t]), h, R[t], K, M)
<1>1. PICK r, g : r = R[t] /\ g = Decref(h, r)
  OBVIOUS
<1>2. h \in Heaps /\ Shape(h) /\ R \in Roots /\ r \in RootNodes \cup {Nil}
  BY <1>1 DEF Good, Roots
<1>3. PICK lost : IsLost(lost, h, r) /\ g = DecrefAt(h, UNION {lost[k] : k \in 0 .. Depth})
  BY <1>1, <1>2, DecrefIs
<1>4. PICK K, M : K = Losers(lost) /\ M = Dying(h, lost)
  OBVIOUS
<1>5. g = DecrefAt(h, K)
  BY <1>3, <1>4 DEF Losers
<1>6. /\ K \in SUBSET Places
      /\ r # Nil => r \in K
      /\ \A a \in K : a # r => \E m \in M : a \in Kids(h, m)
      /\ \A m \in M : \A a \in Kids(h, m) : a # Nil => a \in K
      /\ \A a, b \in K : SegmentOf(a) = SegmentOf(b) => a = b
  BY <1>2, <1>3, <1>4, LosersIs
<1>7. M = {a \in K : h[a].refcnt = 1}
  BY <1>4 DEF Dying
<1>8. FreeNode \in NodeRec /\ FreeNode.refcnt = 0 /\ FreeNode.child[1] = Nil /\ FreeNode.child[2] = Nil
  <2>1. <<Nil, Nil>> \in [1 .. 2 -> Pointers]
    BY DEF Pointers
  <2> QED
    BY <2>1 DEF FreeNode, NodeRec
<1>9. ASSUME NEW a \in K PROVE h[a].refcnt \in Nat /\ h[a].refcnt # 0
  <2>1. a \in Places
    BY <1>6
  <2>2. CASE a = r
    <3>1. t \in RootsOf(R, a)
      BY <2>2, <1>1 DEF RootsOf
    <3> QED
      BY <3>1, <2>1, <1>2, PointedLives, NodeFields
  <2>3. CASE a # r
    <3>1. PICK m \in M : a \in Kids(h, m)
      BY <2>3, <1>6
    <3>2. m \in Places
      BY <3>1, <1>6, <1>7
    <3>3. a # Nil
      BY <2>1, PlaceIs
    <3> QED
      BY <2>1, <3>1, <3>2, <3>3, <1>2, KidsOther, NodeFields
  <2> QED
    BY <2>2, <2>3
<1> DEFINE Less(a) == [h[a] EXCEPT !.refcnt = h[a].refcnt - 1]
<1>10. \A a \in Places : g[a] = IF a \notin K THEN h[a] ELSE IF h[a].refcnt = 1 THEN FreeNode ELSE Less(a)
  BY <1>5, Zenon DEF DecrefAt
<1>11. ASSUME NEW a \in K
       PROVE  /\ Less(a) \in NodeRec /\ Less(a).refcnt = h[a].refcnt - 1 /\ Less(a).child = h[a].child
              /\ Less(a).value = h[a].value /\ Less(a).reloc = h[a].reloc
  <2>1. h[a] \in NodeRec
    BY <1>2, <1>6, NodeFields
  <2>2. h[a].refcnt - 1 \in Nat
    BY <1>9
  <2> QED
    BY <2>1, <2>2 DEF NodeRec
<1> HIDE DEF Less
<1>12. \A a \in Places \ K : g[a] = h[a]
  BY <1>10
<1>13. \A a \in M : g[a] = FreeNode
  BY <1>6, <1>7, <1>10
<1>14. \A a \in K \ M : g[a] = Less(a)
  BY <1>6, <1>7, <1>10
<1>15. g \in Heaps
  <2>1. \A a \in Places : g[a] \in NodeRec
    BY <1>2, <1>8, <1>10, <1>11, NodeFields
  <2>2. g = [a \in Places |-> g[a]]
    BY <1>5 DEF DecrefAt
  <2> QED
    BY <2>1, <2>2 DEF Heaps
<1>16. IsDecref(g, h, r, K, M)
  BY <1>6, <1>7, <1>8, <1>11, <1>12, <1>13, <1>14, <1>15 DEF IsDecref
<1> QED
  BY <1>1, <1>16

LEMMA DecrefGood ==
  ASSUME NEW h, NEW R, Good(h, R), NEW t \in Tables, R[t] # NoTable
  PROVE  Good(Decref(h, R[t]), With(R, t, NoTable))
<1>1. PICK r, g, W : r = R[t] /\ g = Decref(h, r) /\ W = With(R, t, NoTable)
  OBVIOUS
<1>2. h \in Heaps /\ Shape(h) /\ FreeEmpty(h) /\ Exact(h, R) /\ R \in Roots /\ r \in RootNodes \cup {Nil}
  BY <1>1 DEF Good, Roots
<1>3. PICK K, M : IsDecref(g, h, r, K, M)
  BY <1>1, DecrefFacts
<1>4. /\ g \in Heaps /\ K \in SUBSET Places /\ M = {a \in K : h[a].refcnt = 1}
      /\ r # Nil => r \in K
      /\ \A a \in Places \ K : g[a] = h[a]
      /\ \A a \in M : g[a].refcnt = 0 /\ g[a].child[1] = Nil /\ g[a].child[2] = Nil
      /\ \A a \in K \ M : g[a].refcnt = h[a].refcnt - 1 /\ g[a].child = h[a].child
  BY <1>3 DEF IsDecref
<1>5. /\ \A a \in K : a # r => \E m \in M : a \in Kids(h, m)
      /\ \A m \in M : \A a \in Kids(h, m) : a # Nil => a \in K
      /\ \A a, b \in K : SegmentOf(a) = SegmentOf(b) => a = b
  BY <1>3 DEF IsDecref
<1>6. ASSUME NEW a \in Places PROVE Parents(g, a) = Parents(h, a) \ M
  <2>1. ASSUME NEW p \in Places PROVE p \in Parents(g, a) <=> p \in Parents(h, a) /\ p \notin M
    <3>1. CASE p \in M
      <4>1. g[p].child[1] = Nil /\ g[p].child[2] = Nil /\ a # Nil
        BY <3>1, <1>4, PlaceIs
      <4> QED
        BY <4>1, <3>1 DEF Parents
    <3>2. CASE p \notin M
      <4>1. g[p].child = h[p].child
        BY <3>2, <1>4
      <4> QED
        BY <4>1, <3>2 DEF Parents
    <3> QED
      BY <3>1, <3>2
  <2>2. Parents(g, a) \subseteq Places /\ Parents(h, a) \subseteq Places
    BY DEF Parents
  <2> QED
    BY <2>1, <2>2
<1>7. Shape(g)
  <2>1. ASSUME NEW a \in Places, NEW d \in 1 .. 2, g[a].child[d] # Nil
        PROVE  g[a].child[d] = h[a].child[d]
    BY <2>1, <1>4
  <2> QED
    BY <2>1, <1>2 DEF Shape
<1>8. W \in Roots /\ \A a : a # NoTable => RootsOf(W, a) = RootsOf(R, a) \ {t}
  BY <1>1, <1>2, WithIs
<1>9. ASSUME NEW a \in Places
      PROVE  /\ a \notin K => RootsOf(W, a) = RootsOf(R, a) /\ Parents(g, a) = Parents(h, a)
             /\ a \in K => \/ /\ t \in RootsOf(R, a) /\ RootsOf(W, a) = RootsOf(R, a) \ {t}
                              /\ Parents(g, a) = Parents(h, a)
                           \/ /\ RootsOf(W, a) = RootsOf(R, a)
                              /\ \E m \in Parents(h, a) : Parents(g, a) = Parents(h, a) \ {m}
  <2>1. a # Nil /\ a # NoTable
    BY PlaceIs
  <2>2. RootsOf(W, a) = RootsOf(R, a) \ {t} /\ (t \in RootsOf(R, a) <=> a = r)
    BY <2>1, <1>1, <1>8 DEF RootsOf
  <2>3. ASSUME NEW m \in Parents(h, a) PROVE m \in Places /\ a \in Kids(h, m)
    BY <2>3 DEF Parents, Kids
  <2>4. CASE a \notin K
    <3>1. a # r
      BY <2>1, <2>4, <1>4
    <3>2. \A m \in M : m \notin Parents(h, a)
      BY <2>1, <2>3, <2>4, <1>5
    <3> QED
      BY <3>1, <3>2, <2>2, <2>4, <1>6
  <2>5. CASE a \in K /\ a = r
    <3>1. SegmentOf(a) = Whole
      BY <2>1, <2>5, <1>2 DEF RootNodes
    <3>2. Parents(h, a) = {}
      BY <3>1, <1>2, RootNoParent
    <3> QED
      BY <3>2, <2>2, <2>5, <1>6
  <2>6. CASE a \in K /\ a # r
    <3>1. PICK m \in M : a \in Kids(h, m)
      BY <2>6, <1>5
    <3>2. m \in K /\ m \in Places
      BY <3>1, <1>4
    <3>3. m \in Parents(h, a)
      BY <3>1, <3>2 DEF Parents, Kids
    <3>4. ASSUME NEW n \in M, n \in Parents(h, a) PROVE n = m
      <4>1. n \in K /\ n \in Places
        BY <3>4, <1>4
      <4>2. PICK d \in 1 .. 2 : h[m].child[d] = a
        BY <3>3 DEF Parents
      <4>3. PICK e \in 1 .. 2 : h[n].child[e] = a
        BY <3>4 DEF Parents
      <4>4. /\ ~IsLeaf(SegmentOf(m)) /\ SegmentOf(a) = Half(SegmentOf(m), d)
            /\ SegmentOf(m) \in Segments /\ Half(SegmentOf(m), d) \in Segments
        BY <4>2, <3>2, <2>1, <1>2, ParentIs
      <4>5. /\ ~IsLeaf(SegmentOf(n)) /\ SegmentOf(a) = Half(SegmentOf(n), e)
            /\ SegmentOf(n) \in Segments
        BY <4>1, <4>3, <2>1, <1>2, ParentIs
      <4>6. SegmentOf(m) = SegmentOf(n)
        BY <4>4, <4>5, HalfOnce
      <4> QED
        BY <4>1, <4>6, <3>2, <1>5
    <3>5. Parents(g, a) = Parents(h, a) \ {m}
      BY <3>1, <3>4, <1>6
    <3> QED
      BY <3>3, <3>5, <2>2, <2>6
  <2> QED
    BY <2>4, <2>5, <2>6
<1>10. ASSUME NEW a \in Places
       PROVE  /\ g[a].refcnt = Cardinality(RootsOf(W, a)) + Cardinality(Parents(g, a))
              /\ a \in K => h[a].refcnt # 0
  <2>1. PICK x, y, z, w : /\ x = Cardinality(RootsOf(R, a)) /\ y = Cardinality(Parents(h, a))
                          /\ z = Cardinality(RootsOf(W, a)) /\ w = Cardinality(Parents(g, a))
    OBVIOUS
  <2>2. /\ x \in Nat /\ y \in Nat /\ z \in Nat /\ w \in Nat /\ h[a].refcnt = x + y
        /\ IsFiniteSet(RootsOf(R, a)) /\ IsFiniteSet(Parents(h, a))
    BY <2>1, <1>2, PointersFinite DEF Exact
  <2>3. CASE a \notin K
    <3>1. z = x /\ w = y
      BY <2>1, <2>3, <1>9
    <3>2. g[a] = h[a]
      BY <2>3, <1>4
    <3> QED
      BY <3>1, <3>2, <2>1, <2>2, <2>3
  <2>4. CASE a \in K
    <3>1. z + w = (x + y) - 1
      <4>1. CASE /\ t \in RootsOf(R, a) /\ RootsOf(W, a) = RootsOf(R, a) \ {t}
                 /\ Parents(g, a) = Parents(h, a)
        <5>1. z = x - 1 /\ w = y
          BY <4>1, <2>1, <2>2, LessOne
        <5> QED
          BY <5>1, <2>2
      <4>2. CASE /\ RootsOf(W, a) = RootsOf(R, a)
                 /\ \E m \in Parents(h, a) : Parents(g, a) = Parents(h, a) \ {m}
        <5>1. PICK m \in Parents(h, a) : Parents(g, a) = Parents(h, a) \ {m}
          BY <4>2
        <5>2. w = y - 1
          BY <5>1, <2>1, <2>2, LessOne
        <5>3. z = x
          BY <4>2, <2>1
        <5> QED
          BY <5>2, <5>3, <2>2
      <4> QED
        BY <4>1, <4>2, <2>4, <1>9
    <3>2. h[a].refcnt # 0
      BY <3>1, <2>2
    <3>3. g[a].refcnt = (x + y) - 1
      <4>1. CASE a \in M
        BY <4>1, <2>2, <1>4
      <4>2. CASE a \notin M
        BY <4>2, <2>2, <2>4, <1>4
      <4> QED
        BY <4>1, <4>2
    <3> QED
      BY <3>1, <3>2, <3>3, <2>1
  <2> QED
    BY <2>3, <2>4
<1>11. FreeEmpty(g)
  <2>1. ASSUME NEW a \in Places, g[a].refcnt = 0, NEW d \in 1 .. 2 PROVE g[a].child[d] = Nil
    <3>1. CASE a \in M
      BY <3>1, <1>4
    <3>2. CASE a \in K \ M
      <4>1. h[a].refcnt \in Nat /\ h[a].refcnt # 0 /\ h[a].refcnt # 1
        BY <3>2, <1>2, <1>4, <1>10, NodeFields
      <4>2. g[a].refcnt = h[a].refcnt - 1
        BY <3>2, <1>4
      <4> QED
        BY <4>1, <4>2, <2>1
    <3>3. CASE a \notin K
      <4>1. g[a] = h[a]
        BY <3>3, <1>4
      <4> QED
        BY <4>1, <2>1, <1>2 DEF FreeEmpty
    <3> QED
      BY <3>1, <3>2, <3>3
  <2> QED
    BY <2>1 DEF FreeEmpty
<1>12. Exact(g, W)
  BY <1>10 DEF Exact
<1>13. Good(g, W)
  BY <1>4, <1>7, <1>8, <1>11, <1>12 DEF Good
<1> QED
  BY <1>1, <1>13

(* No other table meets a node that is freed. *)
LEMMA DecrefNodes ==
  ASSUME NEW h, NEW R, Good(h, R), NEW t \in Tables, R[t] # NoTable,
         NEW K, NEW M, IsDecref(Decref(h, R[t]), h, R[t], K, M),
         NEW u \in Tables \ {t}, R[u] # NoTable, NEW f \in Fields
  PROVE  \A j \in 1 .. Len(Path[f]) :
           /\ Nodes(Decref(h, R[t]), R[u], f)[j] = Nodes(h, R[u], f)[j]
           /\ Nodes(h, R[u], f)[j] \notin M
<1>1. PICK r, g, s, ns, ms, L :
        /\ r = R[t] /\ g = Decref(h, r) /\ s = R[u]
        /\ ns = Nodes(h, s, f) /\ ms = Nodes(g, s, f) /\ L = Len(Path[f])
  OBVIOUS
<1>2. /\ h \in Heaps /\ Shape(h) /\ R \in Roots /\ r \in RootNodes \cup {Nil}
      /\ s \in RootNodes \cup {Nil}
  BY <1>1 DEF Good, Roots
<1>3. /\ g \in Heaps /\ K \in SUBSET Places /\ M = {a \in K : h[a].refcnt = 1}
      /\ \A a \in K : a # r => \E m \in M : a \in Kids(h, m)
      /\ \A a \in Places \ K : g[a] = h[a]
      /\ \A a \in K \ M : g[a].child = h[a].child
  BY <1>1 DEF IsDecref
<1>4. Shape(g)
  BY <1>1, DecrefGood DEF Good
<1>5. Walk(ns, h, s, f) /\ Walk(ms, g, s, f) /\ L \in Nat \ {0}
  BY <1>1, <1>2, <1>3, <1>4, NodesWalk, PathFacts
<1> DEFINE S == {k \in 0 .. L - 1 : ms[k + 1] = ns[k + 1] /\ ns[k + 1] \notin M}
<1>6. 0 \in S
  <2>1. ms[1] = s /\ ns[1] = s
    BY <1>5 DEF Walk
  <2>2. ASSUME s \in M PROVE FALSE
    <3>1. s \in Places /\ h[s].refcnt = 1 /\ s \in K /\ s # Nil
      BY <2>2, <1>3, PlaceIs
    <3>2. CASE s = r
      <4>1. t = u
        BY <3>1, <3>2, <1>1, OnePointer
      <4> QED
        BY <4>1
    <3>3. CASE s # r
      <4>1. PICK m \in M : s \in Kids(h, m)
        BY <3>1, <3>3, <1>3
      <4>2. m \in Parents(h, s)
        BY <4>1, <1>3 DEF Parents, Kids
      <4>3. SegmentOf(s) = Whole
        BY <3>1, <1>2 DEF RootNodes
      <4> QED
        BY <4>2, <4>3, <3>1, <1>2, RootNoParent
    <3> QED
      BY <3>2, <3>3
  <2> QED
    BY <2>1, <2>2, <1>5
<1>7. ASSUME NEW k \in 0 .. (L - 1) - 1, k \in S PROVE k + 1 \in S
  <2>1. PICK j : j = k + 1
    OBVIOUS
  <2>2. j \in 1 .. L /\ j # L /\ k + 1 \in 0 .. L - 1 /\ j + 1 = (k + 1) + 1
    BY <2>1, <1>5
  <2>3. PICK a, b, d : a = ns[j] /\ b = ns[j + 1] /\ d = Direction(Path[f][j], f)
    OBVIOUS
  <2>4. b = Child(h, a, d) /\ ms[j + 1] = Child(g, ms[j], d) /\ ms[j] = a
        /\ a \in Pointers /\ a \notin M /\ d \in 1 .. 2
    BY <2>1, <2>2, <2>3, <1>1, <1>5, <1>7 DEF Walk, Direction
  <2>5. a # Nil => g[a].child = h[a].child
    BY <2>4, <1>3 DEF Pointers
  <2>6. ms[j + 1] = b
    BY <2>4, <2>5 DEF Child
  <2>7. ASSUME b \in M PROVE FALSE
    <3>1. b \in Places /\ h[b].refcnt = 1 /\ b \in K /\ b # Nil
      BY <2>7, <1>3, PlaceIs
    <3>2. a \in Places /\ h[a].child[d] = b
      BY <3>1, <2>4 DEF Child, Pointers
    <3>3. CASE b = r
      <4>1. SegmentOf(b) = Whole
        BY <3>1, <3>3, <1>2 DEF RootNodes
      <4>2. a \in Parents(h, b)
        BY <3>2, <2>4 DEF Parents
      <4> QED
        BY <4>1, <4>2, <3>1, <1>2, RootNoParent
    <3>4. CASE b # r
      <4>1. PICK m \in M : b \in Kids(h, m)
        BY <3>1, <3>4, <1>3
      <4>2. PICK e \in 1 .. 2 : h[m].child[e] = b
        BY <4>1 DEF Kids
      <4>3. m \in Places
        BY <4>1, <1>3
      <4>4. m = a
        BY <4>2, <4>3, <3>1, <3>2, <2>4, OnePointer
      <4> QED
        BY <4>1, <4>4, <2>4
    <3> QED
      BY <3>3, <3>4
  <2> QED
    BY <2>2, <2>3, <2>6, <2>7
<1> HIDE DEF S
<1>8. 0 .. L - 1 \subseteq S
  <2>1. L - 1 \in Nat
    BY <1>5
  <2> QED
    BY <2>1, <1>6, <1>7, SetInduction
<1>9. ASSUME NEW j \in 1 .. L PROVE ms[j] = ns[j] /\ ns[j] \notin M
  <2>1. PICK k : k = j - 1
    OBVIOUS
  <2>2. k \in 0 .. L - 1 /\ k + 1 = j
    BY <2>1, <1>5
  <2> QED
    BY <2>2, <1>8 DEF S
<1> QED
  BY <1>1, <1>9

LEMMA DecrefSame ==
  ASSUME NEW h, NEW R, Good(h, R), NEW t \in Tables, R[t] # NoTable,
         NEW u \in Tables \ {t}, R[u] # NoTable, NEW f \in Fields
  PROVE  Same(Decref(h, R[t]), R[u], h, R[u], f)
<1>1. PICK g : g = Decref(h, R[t])
  OBVIOUS
<1>2. PICK K, M : IsDecref(g, h, R[t], K, M)
  BY <1>1, DecrefFacts
<1>3. Len(Path[f]) \in 1 .. Len(Path[f]) /\ h \in Heaps /\ Shape(h) /\ R[u] \in RootNodes \cup {Nil}
  BY PathFacts DEF Good, Roots
<1>4. PICK a : a = Find(h, R[u], f)
  OBVIOUS
<1>5. Find(g, R[u], f) = a /\ a \notin M
  <2>1. IsDecref(Decref(h, R[t]), h, R[t], K, M)
    BY <1>1, <1>2
  <2>2. \A j \in 1 .. Len(Path[f]) :
          /\ Nodes(Decref(h, R[t]), R[u], f)[j] = Nodes(h, R[u], f)[j]
          /\ Nodes(h, R[u], f)[j] \notin M
    BY <2>1, DecrefNodes
  <2> QED
    BY <2>2, <1>1, <1>3, <1>4 DEF Find
<1>6. a \in Pointers
  BY <1>3, <1>4, NodesWalk DEF Find, Walk
<1>7. a # Nil => g[a].value = h[a].value
  BY <1>2, <1>5, <1>6 DEF IsDecref, Pointers
<1> QED
  BY <1>1, <1>4, <1>5, <1>7 DEF Same

-----------------------------------------------------------------------------
(***************************************************************************)
(* The nodes of one tree.                                                  *)
(***************************************************************************)

\* a is a node of the tree with root r: every field below it meets it
On(h, r, a) ==
  /\ a \in Places
  /\ \A f \in Fields : In(f, SegmentOf(a)) => Nodes(h, r, f)[LevelOf(SegmentOf(a))] = a

LEMMA OnRoot ==
  ASSUME NEW h \in Heaps, Shape(h), NEW r \in RootNodes
  PROVE  On(h, r, r)
<1>1. r \in Places /\ SegmentOf(r) = Whole
  BY DEF RootNodes
<1>2. LevelOf(SegmentOf(r)) = 1
  BY <1>1, WholeLevel
<1>3. ASSUME NEW f \in Fields PROVE Nodes(h, r, f)[1] = r
  BY NodesFacts
<1> QED
  BY <1>1, <1>2, <1>3 DEF On

LEMMA OnChild ==
  ASSUME NEW h \in Heaps, Shape(h), NEW r \in RootNodes \cup {Nil}, NEW a, On(h, r, a),
         NEW d \in 1 .. 2, h[a].child[d] # Nil
  PROVE  /\ On(h, r, h[a].child[d]) /\ ~IsLeaf(SegmentOf(a))
         /\ LevelOf(SegmentOf(h[a].child[d])) = LevelOf(SegmentOf(a)) + 1
<1>1. PICK b, j : b = h[a].child[d] /\ j = LevelOf(SegmentOf(a)) /\ b # Nil
  OBVIOUS
<1>2. a \in Places
  BY DEF On
<1>3. /\ b \in Places /\ ~IsLeaf(SegmentOf(a)) /\ SegmentOf(b) = Half(SegmentOf(a), d)
      /\ SegmentOf(a) \in Segments /\ Half(SegmentOf(a), d) \in Segments
  BY <1>1, <1>2, ParentIs
<1>4. /\ LevelOf(SegmentOf(b)) = j + 1
      /\ \A f \in Fields : In(f, SegmentOf(b)) => In(f, SegmentOf(a)) /\ Direction(SegmentOf(a), f) = d
  BY <1>1, <1>3, HalfLevel
<1>5. ASSUME NEW f \in Fields, In(f, SegmentOf(b)) PROVE Nodes(h, r, f)[j + 1] = b
  <2>1. In(f, SegmentOf(a)) /\ Direction(SegmentOf(a), f) = d
    BY <1>4, <1>5
  <2>2. j \in 1 .. Len(Path[f]) /\ Path[f][j] = SegmentOf(a)
    BY <2>1, <1>1, <1>3, SegmentLevel
  <2>3. Nodes(h, r, f)[j] = a
    BY <2>1, <1>1 DEF On
  <2>4. Walk(Nodes(h, r, f), h, r, f)
    BY NodesWalk
  <2>5. j # Len(Path[f])
    BY <2>2, <1>3, PathFacts
  <2>6. Nodes(h, r, f)[j + 1] = Child(h, a, d)
    BY <2>1, <2>2, <2>3, <2>4, <2>5 DEF Walk
  <2>7. a # Nil
    BY <1>2, PlaceIs
  <2> QED
    BY <2>6, <2>7, <1>1 DEF Child
<1>6. On(h, r, b)
  BY <1>3, <1>4, <1>5 DEF On
<1> QED
  BY <1>1, <1>3, <1>4, <1>6

LEMMA OnNodes ==
  ASSUME NEW h \in Heaps, Shape(h), NEW r \in RootNodes \cup {Nil}, NEW f \in Fields,
         NEW i \in 1 .. Len(Path[f]), Nodes(h, r, f)[i] # Nil
  PROVE  On(h, r, Nodes(h, r, f)[i]) /\ LevelOf(SegmentOf(Nodes(h, r, f)[i])) = i
<1>1. PICK a, s : a = Nodes(h, r, f)[i] /\ s = SegmentOf(a)
  OBVIOUS
<1>2. Walk(Nodes(h, r, f), h, r, f)
  BY NodesWalk
<1>3. a \in Places /\ s = Path[f][i]
  BY <1>1, <1>2 DEF Walk, Pointers
<1>4. s \in Segments
  BY <1>1, <1>3, PlaceIs
<1>5. i = LevelOf(s)
  BY <1>3, <1>4, SegmentLevel
<1>6. ASSUME NEW q \in Fields, In(q, s) PROVE Nodes(h, r, q)[i] = a
  <2>1. In(q, Path[f][i]) /\ i \in 1 .. i
    BY <1>3, <1>6, PathFacts
  <2> QED
    BY <2>1, <1>1, NodesAgree
<1> QED
  BY <1>1, <1>3, <1>5, <1>6 DEF On

\* A leaf of the tree is the node of its field.
LEMMA OnLeaf ==
  ASSUME NEW h \in Heaps, Shape(h), NEW r \in RootNodes \cup {Nil}, NEW a, On(h, r, a),
         IsLeaf(SegmentOf(a))
  PROVE  /\ SegmentOf(a)[1] \in Fields /\ Find(h, r, SegmentOf(a)[1]) = a
         /\ \A f \in Fields : In(f, SegmentOf(a)) => f = SegmentOf(a)[1]
<1>1. PICK s, f, j : s = SegmentOf(a) /\ f = s[1] /\ j = LevelOf(s)
  OBVIOUS
<1>2. s \in Segments
  BY <1>1, PlaceIs DEF On
<1>3. f \in Fields /\ In(f, s) /\ s \in Spans
  BY <1>1, <1>2, SegmentLevel
<1>4. j \in 1 .. Len(Path[f]) /\ Path[f][j] = s
  BY <1>1, <1>2, <1>3, SegmentLevel
<1>5. j = Len(Path[f])
  BY <1>1, <1>3, <1>4, PathFacts
<1>6. Nodes(h, r, f)[j] = a
  BY <1>1, <1>3 DEF On
<1>7. ASSUME NEW q \in Fields, In(q, s) PROVE q = f
  <2>1. q \in Int /\ s[1] \in Int /\ s[2] \in Int
    BY <1>3, ConstantsAssumption DEF Fields, Spans
  <2> QED
    BY <2>1, <1>1, <1>7 DEF In, IsLeaf
<1> QED
  BY <1>1, <1>3, <1>5, <1>6, <1>7 DEF Find

(* A descent of the tree, one node a step, has reached a leaf after Depth steps. *)
LEMMA DescentEnds ==
  ASSUME NEW h \in Heaps, Shape(h), NEW r \in RootNodes \cup {Nil}, NEW down, NEW n \in Places,
         On(h, r, n), down[0] = n,
         \A k \in 1 .. Depth :
           \/ down[k] = Nil
           \/ IsLeaf(SegmentOf(down[k - 1])) /\ down[k] = down[k - 1]
           \/ /\ down[k - 1] # Nil /\ ~IsLeaf(SegmentOf(down[k - 1]))
              /\ \E d \in 1 .. 2 : down[k] = h[down[k - 1]].child[d],
         \A k \in 0 .. Depth : down[k] # Nil
  PROVE  On(h, r, down[Depth]) /\ IsLeaf(SegmentOf(down[Depth]))
<1>1. Depth \in Nat \ {0}
  BY DepthIs
<1> DEFINE S == {k \in 0 .. Depth : /\ On(h, r, down[k])
                                   /\ (IsLeaf(SegmentOf(down[k])) \/ LevelOf(SegmentOf(down[k])) >= k + 1)}
<1>2. 0 \in S
  <2>1. SegmentOf(n) \in Segments
    BY PlaceIs
  <2>2. LevelOf(SegmentOf(n)) \in Nat \ {0}
    BY <2>1, SegmentLevel
  <2> QED
    BY <2>2, <1>1
<1>3. ASSUME NEW k \in 0 .. Depth - 1, k \in S PROVE k + 1 \in S
  <2>1. PICK i, a, b : i = k + 1 /\ a = down[k] /\ b = down[i]
    OBVIOUS
  <2>2. i \in 1 .. Depth /\ i \in 0 .. Depth /\ i - 1 = k
    BY <2>1, <1>1
  <2>3. On(h, r, a) /\ (IsLeaf(SegmentOf(a)) \/ LevelOf(SegmentOf(a)) >= k + 1) /\ b # Nil
    BY <2>1, <2>2, <1>3
  <2>4. \/ IsLeaf(SegmentOf(a)) /\ b = a
        \/ a # Nil /\ ~IsLeaf(SegmentOf(a)) /\ \E d \in 1 .. 2 : b = h[a].child[d]
    BY <2>1, <2>2, <2>3
  <2>5. CASE IsLeaf(SegmentOf(a)) /\ b = a
    BY <2>1, <2>2, <2>3, <2>5
  <2>6. CASE ~IsLeaf(SegmentOf(a)) /\ \E d \in 1 .. 2 : b = h[a].child[d]
    <3>1. PICK d \in 1 .. 2 : b = h[a].child[d]
      BY <2>6
    <3>2. On(h, r, b) /\ LevelOf(SegmentOf(b)) = LevelOf(SegmentOf(a)) + 1
      BY <3>1, <2>3, OnChild
    <3>3. SegmentOf(a) \in Segments
      BY <2>3, PlaceIs DEF On
    <3>4. LevelOf(SegmentOf(a)) \in Nat
      BY <3>3, SegmentLevel
    <3>5. LevelOf(SegmentOf(b)) >= i + 1
      BY <3>2, <3>4, <2>1, <2>2, <2>3, <2>6
    <3> QED
      BY <3>2, <3>5, <2>1, <2>2
  <2> QED
    BY <2>4, <2>5, <2>6
<1> HIDE DEF S
<1>4. 0 .. Depth \subseteq S
  BY <1>1, <1>2, <1>3, SetInduction
<1>5. PICK a, s : a = down[Depth] /\ s = SegmentOf(a)
  OBVIOUS
<1>6. On(h, r, a) /\ (IsLeaf(s) \/ LevelOf(s) >= Depth + 1)
  BY <1>1, <1>4, <1>5 DEF S
<1>7. s \in Segments
  BY <1>5, <1>6, PlaceIs DEF On
<1>8. PICK f : f = s[1] /\ f \in Fields /\ In(f, s)
  BY <1>7, SegmentLevel
<1>9. LevelOf(s) \in 1 .. Len(Path[f])
  BY <1>7, <1>8, SegmentLevel
<1>10. Len(Path[f]) <= Depth /\ Len(Path[f]) \in Nat
  BY <1>8, DepthIs, PathFacts
<1> QED
  BY <1>1, <1>5, <1>6, <1>9, <1>10

LEMMA StepRelocIs ==
  ASSUME NEW h \in Heaps, NEW n \in Pointers
  PROVE  /\ StepReloc(h, n) \in Pointers
         /\ n = Nil => StepReloc(h, n) = Nil
         /\ n # Nil /\ IsLeaf(SegmentOf(n)) => StepReloc(h, n) = n
         /\ n # Nil /\ ~IsLeaf(SegmentOf(n)) => \E d \in 1 .. 2 : StepReloc(h, n) = h[n].child[d]
<1>1. CASE n = Nil \/ IsLeaf(SegmentOf(n))
  BY <1>1 DEF StepReloc
<1>2. CASE ~(n = Nil \/ IsLeaf(SegmentOf(n)))
  <2>1. n \in Places
    BY <1>2 DEF Pointers
  <2>2. h[n].child[1] \in Pointers /\ h[n].child[2] \in Pointers
    BY <2>1, NodeFields
  <2>3. StepReloc(h, n) = h[n].child[1] \/ StepReloc(h, n) = h[n].child[2]
    BY <1>2 DEF StepReloc
  <2> QED
    BY <2>2, <2>3, <1>2
<1> QED
  BY <1>1, <1>2

IsRelocDescent(down, h, r) ==
  /\ down \in [0 .. Depth -> Pointers] /\ down[0] = r
  /\ \A k \in 1 .. Depth : down[k] = StepReloc(h, down[k - 1])

LEMMA RelocDescent ==
  ASSUME NEW h \in Heaps, NEW r \in RootNodes \cup {Nil}
  PROVE  \E down : IsRelocDescent(down, h, r) /\ FirstRelocNode(h, r) = down[Depth]
<1> DEFINE N == Depth
           P(y) == StepReloc(h, y)
           F == [k \in 1 .. N |-> [y \in Pointers |-> P(y)]]
           Def(w) == [k \in 0 .. N |-> IF k = 0 THEN r ELSE P(w[k - 1])]
           down == CHOOSE w : w = Def(w)
<1>0. FirstRelocNode(h, r) = down[N]
  BY Zenon DEF FirstRelocNode
<1>1. N \in Nat
  BY DepthIs
<1>2. r \in Pointers
  BY DEF RootNodes, Pointers
<1>3. ASSUME NEW y \in Pointers PROVE P(y) \in Pointers
  BY StepRelocIs
<1> HIDE DEF N, P
<1>4. F \in [1 .. N -> [Pointers -> Pointers]]
  BY <1>3
<1>5. PICK g : IteratesFrom(g, N, Pointers, r, F)
  <2> HIDE DEF F
  <2> QED
    BY <1>1, <1>2, <1>4, Iteration
<1>6. g \in [0 .. N -> Pointers] /\ g[0] = r /\ \A i \in 1 .. N : g[i] = F[i][g[i - 1]]
  BY <1>5 DEF IteratesFrom
<1>7. ASSUME NEW i \in 1 .. N PROVE g[i] = P(g[i - 1])
  <2>1. g[i - 1] \in Pointers
    BY <1>1, <1>6
  <2>2. F[i][g[i - 1]] = P(g[i - 1])
    BY <2>1, Zenon
  <2> QED
    BY <1>6, <2>2
<1> HIDE DEF F
<1>8. \A i \in 0 .. N : g[i] = IF i = 0 THEN r ELSE P(g[i - 1])
  <2>1. \A i \in 0 .. N : i = 0 \/ i \in 1 .. N
    BY <1>1
  <2> QED
    BY <2>1, <1>6, <1>7
<1>9. \E w : w = Def(w)
  BY <1>6, <1>8
<1>10. down = Def(down)
  <2> HIDE DEF Def
  <2> QED
    BY <1>9, Zenon
<1> HIDE DEF down
<1>11. down[0] = r
  BY <1>1, <1>10
<1>12. ASSUME NEW i \in 1 .. N PROVE down[i] = P(down[i - 1])
  <2>1. i \in 0 .. N /\ i # 0
    BY <1>1
  <2>2. down[i] = Def(down)[i]
    BY <1>10
  <2> QED
    BY <2>1, <2>2
<1>13. DOMAIN down = 0 .. N /\ down = [k \in DOMAIN down |-> down[k]]
  BY <1>10
<1> HIDE DEF Def
<1> DEFINE S == {i \in 0 .. N : down[i] \in Pointers}
<1>14. 0 \in S
  BY <1>1, <1>2, <1>11
<1>15. ASSUME NEW i \in 0 .. N - 1, i \in S PROVE i + 1 \in S
  <2>1. i + 1 \in 1 .. N /\ i + 1 \in 0 .. N /\ (i + 1) - 1 = i
    BY <1>1
  <2>2. down[i + 1] = P(down[i]) /\ down[i] \in Pointers
    BY <2>1, <1>12, <1>15
  <2> QED
    BY <2>1, <2>2, <1>3
<1>16. 0 .. N \subseteq S
  <2> HIDE DEF S
  <2> QED
    BY <1>1, <1>14, <1>15, SetInduction
<1>17. down \in [0 .. N -> Pointers]
  BY <1>13, <1>16
<1>18. IsRelocDescent(down, h, r)
  BY <1>11, <1>12, <1>17 DEF IsRelocDescent, N, P
<1> QED
  BY <1>0, <1>18 DEF N

\* The search for a relocated address ends in the node of a field, or nowhere.
LEMMA FirstRelocIs ==
  ASSUME NEW h \in Heaps, Shape(h), NEW r \in RootNodes \cup {Nil}, FirstRelocNode(h, r) # Nil
  PROVE  On(h, r, FirstRelocNode(h, r)) /\ IsLeaf(SegmentOf(FirstRelocNode(h, r)))
<1>1. PICK down, n : IsRelocDescent(down, h, r) /\ n = FirstRelocNode(h, r) /\ n = down[Depth] /\ n # Nil
  BY RelocDescent
<1>2. Depth \in Nat \ {0}
  BY DepthIs
<1>3. down \in [0 .. Depth -> Pointers] /\ down[0] = r
      /\ \A k \in 1 .. Depth : down[k] = StepReloc(h, down[k - 1])
  BY <1>1 DEF IsRelocDescent
\* a descent that left the tree stays outside
<1>4. ASSUME NEW k \in 0 .. Depth PROVE down[k] # Nil
  <2>1. SUFFICES ASSUME down[k] = Nil PROVE FALSE
    OBVIOUS
  <2> DEFINE S == {i \in 0 .. Depth - k : down[k + i] = Nil}
  <2>2. 0 \in S
    BY <2>1, <1>2
  <2>3. ASSUME NEW i \in 0 .. (Depth - k) - 1, i \in S PROVE i + 1 \in S
    <3>1. PICK j : j = (k + i) + 1
      OBVIOUS
    <3>2. j \in 1 .. Depth /\ j - 1 = k + i /\ k + (i + 1) = j /\ i + 1 \in 0 .. Depth - k
      BY <3>1, <2>3, <1>2
    <3>3. down[j] = StepReloc(h, down[k + i]) /\ down[k + i] = Nil
      BY <3>2, <2>3, <1>3
    <3>4. down[j] = Nil
      BY <3>3 DEF StepReloc
    <3> QED
      BY <3>2, <3>4
  <2> HIDE DEF S
  <2>4. 0 .. Depth - k \subseteq S
    <3>1. Depth - k \in Nat
      BY <1>2
    <3> QED
      BY <3>1, <2>2, <2>3, SetInduction
  <2>5. Depth - k \in S /\ k + (Depth - k) = Depth
    BY <2>4, <1>2
  <2>6. down[Depth] = Nil
    BY <2>5 DEF S
  <2> QED
    BY <2>6, <1>1
<1>5. r \in RootNodes /\ r \in Places
  BY <1>2, <1>3, <1>4 DEF RootNodes
<1>6. On(h, r, r)
  BY <1>5, OnRoot
<1>7. ASSUME NEW k \in 1 .. Depth
      PROVE  \/ down[k] = Nil
             \/ IsLeaf(SegmentOf(down[k - 1])) /\ down[k] = down[k - 1]
             \/ /\ down[k - 1] # Nil /\ ~IsLeaf(SegmentOf(down[k - 1]))
                /\ \E d \in 1 .. 2 : down[k] = h[down[k - 1]].child[d]
  <2>1. PICK a : a = down[k - 1]
    OBVIOUS
  <2>2. a \in Pointers /\ a # Nil /\ down[k] = StepReloc(h, a)
    BY <2>1, <1>2, <1>3, <1>4
  <2> QED
    BY <2>1, <2>2, StepRelocIs
<1>8. On(h, r, down[Depth]) /\ IsLeaf(SegmentOf(down[Depth]))
  BY <1>3, <1>4, <1>5, <1>6, <1>7, DescentEnds
<1> QED
  BY <1>1, <1>8

-----------------------------------------------------------------------------
(***************************************************************************)
(* Hash codes.                                                             *)
(***************************************************************************)
HashCodes == SUBSET (Fields \X SUBSET Addresses)

\* the hash code of one field of a tree, and of the tree
HashAt(h, r, dflt, f) ==
  IF Find(h, r, f) = Nil THEN {} ELSE FieldHash(f, h[Find(h, r, f)].value, dflt[f])

HashOf(h, r, dflt) == UNION {HashAt(h, r, dflt, f) : f \in Fields}

LEMMA ComputeHashIs ==
  ASSUME NEW h, NEW r
  PROVE  ComputeHash(h, r) = HashOf(h, r, default)
<1> DEFINE C(f) == FieldHash(f, h[Find(h, r, f)].value, default[f])
           D(f) == Find(h, r, f) # Nil
<1>1. ComputeHash(h, r) = UNION {C(f) : f \in {q \in Fields : D(q)}}
  BY DEF ComputeHash, Initialised
<1>2. \A f : HashAt(h, r, default, f) = IF D(f) THEN C(f) ELSE {}
  BY DEF HashAt
<1> HIDE DEF C, D
<1>3. \A z : z \in UNION {C(f) : f \in {q \in Fields : D(q)}} <=> \E f \in Fields : D(f) /\ z \in C(f)
  OBVIOUS
<1>4. \A z : z \in HashOf(h, r, default) <=> \E f \in Fields : z \in HashAt(h, r, default, f)
  BY DEF HashOf
<1>5. \A z : z \in ComputeHash(h, r) <=> z \in HashOf(h, r, default)
  BY <1>1, <1>2, <1>3, <1>4
<1> QED
  BY <1>5

LEMMA HashAtIs ==
  ASSUME NEW h \in Heaps, Shape(h), NEW r \in RootNodes \cup {Nil}, NEW dflt, NEW f \in Fields
  PROVE  /\ HashAt(h, r, dflt, f) \in HashCodes
         /\ \A z \in HashAt(h, r, dflt, f) : z[1] = f
<1>1. Find(h, r, f) # Nil => Find(h, r, f) \in Places
  <2>1. Walk(Nodes(h, r, f), h, r, f) /\ Len(Path[f]) \in 1 .. Len(Path[f])
    BY NodesWalk, PathFacts
  <2> QED
    BY <2>1 DEF Find, Walk, Pointers
<1>2. CASE Find(h, r, f) = Nil
  BY <1>2 DEF HashAt, HashCodes
<1>3. CASE Find(h, r, f) # Nil
  <2>1. PICK v : v = h[Find(h, r, f)].value
    OBVIOUS
  <2>2. v \in SUBSET Addresses
    BY <2>1, <1>1, <1>3, NodeFields
  <2>3. HashAt(h, r, dflt, f) = {} \/ HashAt(h, r, dflt, f) = {<<f, v>>}
    BY <2>1, <1>3 DEF HashAt, FieldHash
  <2> QED
    BY <2>2, <2>3 DEF HashCodes
<1> QED
  BY <1>2, <1>3

LEMMA HashOfIs ==
  ASSUME NEW h \in Heaps, Shape(h), NEW r \in RootNodes \cup {Nil}, NEW dflt
  PROVE  HashOf(h, r, dflt) \in HashCodes
<1>1. \A f \in Fields : HashAt(h, r, dflt, f) \in HashCodes
  BY HashAtIs
<1> QED
  BY <1>1 DEF HashOf, HashCodes

\* A field that is the same has the same hash code.
LEMMA HashAtSame ==
  ASSUME NEW g, NEW q, NEW h, NEW r, NEW f, Same(g, q, h, r, f), NEW d, NEW e, d[f] = e[f]
  PROVE  HashAt(g, q, d, f) = HashAt(h, r, e, f)
  BY DEF Same, HashAt

(* The incremental hash code: the old field out, the new one in. *)
Elsewhere(g, q, h, r, f) == \A e \in Fields \ {f} : Same(g, q, h, r, e)

LEMMA HashStep ==
  ASSUME NEW g \in Heaps, Shape(g), NEW q \in RootNodes \cup {Nil},
         NEW h \in Heaps, Shape(h), NEW r \in RootNodes \cup {Nil},
         NEW f \in Fields, NEW d, Elsewhere(g, q, h, r, f)
  PROVE  HashOf(g, q, d) =
           SymDiff(SymDiff(HashOf(h, r, d), HashAt(h, r, d, f)), HashAt(g, q, d, f))
<1>1. PICK A, B : A = HashAt(h, r, d, f) /\ B = HashAt(g, q, d, f)
  OBVIOUS
<1>2. \A e \in Fields \ {f} : HashAt(g, q, d, e) = HashAt(h, r, d, e)
  BY HashAtSame DEF Elsewhere
<1>3. \A e \in Fields : \A z \in HashAt(h, r, d, e) : z[1] = e
  BY HashAtIs
<1>4. \A e \in Fields : \A z \in HashAt(g, q, d, e) : z[1] = e
  BY HashAtIs
<1>5. \A z : z \in HashOf(h, r, d) <=> \E e \in Fields : z \in HashAt(h, r, d, e)
  BY DEF HashOf
<1>6. \A z : z \in HashOf(g, q, d) <=> \E e \in Fields : z \in HashAt(g, q, d, e)
  BY DEF HashOf
<1>7. ASSUME NEW z
      PROVE  z \in SymDiff(HashOf(h, r, d), A) <=> \E e \in Fields \ {f} : z \in HashAt(h, r, d, e)
  BY <1>1, <1>3, <1>5 DEF SymDiff
<1>8. ASSUME NEW z
      PROVE  z \in SymDiff(SymDiff(HashOf(h, r, d), A), B) <=> z \in HashOf(g, q, d)
  <2>1. PICK C : C = SymDiff(HashOf(h, r, d), A)
    OBVIOUS
  <2>2. z \in C <=> \E e \in Fields \ {f} : z \in HashAt(g, q, d, e)
    BY <2>1, <1>2, <1>7
  <2>3. z \in C => z \notin B
    BY <2>2, <1>1, <1>4
  <2>4. z \in HashOf(g, q, d) <=> z \in C \/ z \in B
    BY <2>2, <1>1, <1>6
  <2>5. z \in SymDiff(C, B) <=> z \in C \/ z \in B
    BY <2>3 DEF SymDiff
  <2> QED
    BY <2>1, <2>4, <2>5
<1> QED
  BY <1>1, <1>8

-----------------------------------------------------------------------------
(***************************************************************************)
(* The loop that resolves the relocated addresses of a fork.               *)
(***************************************************************************)
LEMMA ResolveSetIs ==
  ASSUME NEW v \in SUBSET Addresses
  PROVE  /\ ResolveSet(v) \in SUBSET Addresses /\ ~Relocated(ResolveSet(v))
         /\ ~Relocated(v) => ResolveSet(v) = v
<1> DEFINE E(a) == IF a \in Reloc THEN AllocTab[a] ELSE a
<1>1. ResolveSet(v) = {E(a) : a \in v}
  BY DEF ResolveSet
<1>2. \A a \in v : E(a) \in Addresses /\ E(a) \notin Reloc
  BY ConstantsAssumption DEF Addresses
<1>3. ~Relocated(v) => \A a \in v : E(a) = a
  BY DEF Relocated
<1> HIDE DEF E
<1>4. ~Relocated(ResolveSet(v))
  BY <1>1, <1>2 DEF Relocated
<1> QED
  BY <1>1, <1>2, <1>3, <1>4

Resolved(T, f, v) == UpdateRelocatedFlag(Assign(PrepareToWrite(T, f), f, v), f, FALSE)

LEMMA ResolvedSame ==
  ASSUME NEW T, NEW R, NEW t \in Tables, TreeGood(T, R, t), NEW f \in Fields,
         NEW v \in SUBSET Addresses, Find(T.heap, T.root, f) # Nil
  PROVE  /\ TreeGood(Resolved(T, f, v), R, t)
         /\ SameBut(Resolved(T, f, v), T, R, t, {f})
         /\ Shows(Resolved(T, f, v), f, v)
<1>1. PICK U, V, X : /\ U = PrepareToWrite(T, f) /\ V = Assign(U, f, v)
                     /\ X = UpdateRelocatedFlag(V, f, FALSE) /\ X = Resolved(T, f, v)
  BY DEF Resolved
<1>2. TreeGood(U, R, t)
  BY <1>1, PrepareToWriteGood
<1>3. SameBut(U, T, R, t, {}) /\ Private(U, f, Len(Path[f]))
  BY <1>1, PrepareToWriteSame
<1>4. Find(U.heap, U.root, f) # Nil
  <2>1. Same(U.heap, U.root, T.heap, T.root, f)
    BY <1>3 DEF SameBut
  <2> QED
    BY <2>1 DEF Same
<1>5. TreeGood(V, R, t)
  BY <1>1, <1>2, AssignGood
<1>6. SameBut(V, U, R, t, {f}) /\ Shows(V, f, v)
  BY <1>1, <1>2, <1>3, <1>4, AssignSame
<1>7. TreeGood(X, R, t)
  BY <1>1, <1>5, UpdateFlagGood
<1>8. SameBut(X, V, R, t, {})
  BY <1>1, <1>5, UpdateFlagSame
<1>9. Shows(X, f, v)
  <2>1. Same(X.heap, X.root, V.heap, V.root, f)
    BY <1>8 DEF SameBut
  <2> QED
    BY <2>1, <1>6 DEF Same, Shows
<1>10. SameBut(V, T, R, t, {} \cup {f})
  BY <1>3, <1>6, SameButTrans
<1>11. SameBut(X, T, R, t, ({} \cup {f}) \cup {})
  BY <1>8, <1>10, SameButTrans
<1>12. ({} \cup {f}) \cup {} = {f}
  OBVIOUS
<1> QED
  BY <1>1, <1>7, <1>9, <1>11, <1>12

\* x is a state of the loop
Resolving(x, R, t) ==
  /\ x \in [tree : Trees, hash : HashCodes, fault : BOOLEAN]
  /\ TreeGood(x.tree, R, t)
  /\ x.hash = HashOf(x.tree.heap, x.tree.root, default)

\* y follows x in the loop
Turn(y, x) ==
  \/ y = x /\ (x.fault \/ ~HasReloc(x.tree.heap, x.tree.root))
  \/ /\ ~x.fault /\ HasReloc(x.tree.heap, x.tree.root)
     /\ FirstRelocNode(x.tree.heap, x.tree.root) = Nil
     /\ y.tree = x.tree /\ y.fault = TRUE
  \/ /\ ~x.fault /\ HasReloc(x.tree.heap, x.tree.root)
     /\ FirstRelocNode(x.tree.heap, x.tree.root) # Nil
     /\ y.fault = FALSE
     /\ \E f \in Fields :
          /\ Find(x.tree.heap, x.tree.root, f) = FirstRelocNode(x.tree.heap, x.tree.root)
          /\ y.tree = Resolved(x.tree, f,
                               ResolveSet(x.tree.heap[FirstRelocNode(x.tree.heap, x.tree.root)].value))

LEMMA ResolveStepIs ==
  ASSUME NEW x, NEW R, NEW t \in Tables, Resolving(x, R, t)
  PROVE  Resolving(ResolveStep(x), R, t) /\ Turn(ResolveStep(x), x)
<1>1. PICK h, r, n, y : /\ h = x.tree.heap /\ r = x.tree.root /\ n = FirstRelocNode(h, r)
                        /\ y = ResolveStep(x)
  OBVIOUS
<1>2. /\ x \in [tree : Trees, hash : HashCodes, fault : BOOLEAN]
      /\ TreeGood(x.tree, R, t) /\ x.hash = HashOf(h, r, default)
  BY <1>1 DEF Resolving
<1>3. h \in Heaps /\ Shape(h) /\ r \in RootNodes \cup {Nil}
  BY <1>1, <1>2, TreeFields
<1>4. CASE x.fault \/ ~HasReloc(h, r)
  <2>1. y = x
    BY <1>1, <1>4 DEF ResolveStep
  <2>2. Turn(x, x)
    <3>1. x.fault \/ ~HasReloc(x.tree.heap, x.tree.root)
      BY <1>1, <1>4
    <3> QED
      BY <3>1, Zenon DEF Turn
  <2>3. ResolveStep(x) = x
    BY <2>1, <1>1, Zenon
  <2> QED
    BY <2>2, <2>3, Zenon
<1>5. CASE ~(x.fault \/ ~HasReloc(h, r)) /\ n = Nil
  <2>1. y = [x EXCEPT !.fault = TRUE]
    BY <1>1, <1>5 DEF ResolveStep, ResolveNode
  <2>2. y \in [tree : Trees, hash : HashCodes, fault : BOOLEAN] /\ y.tree = x.tree
        /\ y.hash = x.hash /\ y.fault = TRUE
    BY <2>1, <1>2
  <2> QED
    BY <2>2, <1>1, <1>2, <1>5 DEF Turn, Resolving
<1>6. CASE ~(x.fault \/ ~HasReloc(h, r)) /\ n # Nil
  <2>1. On(h, r, n) /\ IsLeaf(SegmentOf(n))
    BY <1>1, <1>3, <1>6, FirstRelocIs
  <2>2. PICK f : f = SegmentOf(n)[1] /\ f \in Fields /\ Find(h, r, f) = n
    BY <2>1, <1>3, OnLeaf
  <2>3. PICK old, v : old = h[n].value /\ v = ResolveSet(old)
    OBVIOUS
  <2>4. n \in Places
    BY <2>1 DEF On
  <2>5. old \in SUBSET Addresses /\ v \in SUBSET Addresses
    <3>1. old \in SUBSET Addresses
      BY <2>3, <2>4, <1>3, NodeFields
    <3> QED
      BY <3>1, <2>3, ResolveSetIs
  <2>6. y = ResolveField(x, f, old)
    BY <2>2, <2>3, <1>1, <1>6 DEF ResolveStep, ResolveNode
  <2>7. PICK U : U = Resolved(x.tree, f, v)
    OBVIOUS
  <2>8. y = [tree |-> U,
             hash |-> SymDiff(SymDiff(x.hash, FieldHash(f, old, default[f])), FieldHash(f, v, default[f])),
             fault |-> FALSE]
    BY <2>3, <2>6, <2>7 DEF ResolveField, Resolved
  <2>9. TreeGood(U, R, t) /\ SameBut(U, x.tree, R, t, {f}) /\ Shows(U, f, v)
    BY <2>2, <2>5, <2>7, <1>1, <1>2, <1>6, ResolvedSame
  <2>10. U.heap \in Heaps /\ Shape(U.heap) /\ U.root \in RootNodes \cup {Nil} /\ U \in Trees
    BY <2>9, TreeFields DEF TreeGood
  <2>11. HashAt(h, r, default, f) = FieldHash(f, old, default[f])
    BY <2>2, <2>3, <1>6 DEF HashAt
  <2>12. HashAt(U.heap, U.root, default, f) = FieldHash(f, v, default[f])
    BY <2>9 DEF HashAt, Shows
  <2>13. Elsewhere(U.heap, U.root, h, r, f)
    BY <2>9, <1>1 DEF SameBut, Elsewhere
  <2>14. y.hash = HashOf(U.heap, U.root, default)
    <3>1. HashOf(U.heap, U.root, default) =
            SymDiff(SymDiff(HashOf(h, r, default), HashAt(h, r, default, f)), HashAt(U.heap, U.root, default, f))
      <4>1. PICK g, q, d : g = U.heap /\ q = U.root /\ d = default
        OBVIOUS
      <4>2. HashOf(g, q, d) =
              SymDiff(SymDiff(HashOf(h, r, d), HashAt(h, r, d, f)), HashAt(g, q, d, f))
        <5>1. g \in Heaps /\ Shape(g) /\ q \in RootNodes \cup {Nil} /\ Elsewhere(g, q, h, r, f)
          BY <4>1, <2>10, <2>13
        <5> QED
          BY <5>1, <2>2, <1>3, HashStep, SMTT(30)
      <4> QED
        BY <4>1, <4>2
    <3> QED
      BY <3>1, <2>8, <2>11, <2>12, <1>2
  <2>15. y.hash \in HashCodes
    BY <2>10, <2>14, HashOfIs
  <2>16. y.tree = U /\ y.fault = FALSE /\ y \in [tree : Trees, hash : HashCodes, fault : BOOLEAN]
    <3>1. PICK c : c = y.hash
      OBVIOUS
    <3>2. y = [tree |-> U, hash |-> c, fault |-> FALSE]
      BY <3>1, <2>8
    <3> QED
      BY <3>1, <3>2, <2>10, <2>15
  <2>17. Resolving(y, R, t)
    BY <2>9, <2>14, <2>16, SMTT(30) DEF Resolving
  <2>18. Turn(y, x)
    BY <2>2, <2>3, <2>7, <2>16, <1>1, <1>6 DEF Turn
  <2> QED
    BY <2>17, <2>18, <1>1
<1> QED
  BY <1>4, <1>5, <1>6

IsLoop(turn, x, R, t) ==
  /\ turn[0] = x
  /\ \A k \in 0 .. FieldCount : Resolving(turn[k], R, t)
  /\ \A k \in 1 .. FieldCount : Turn(turn[k], turn[k - 1])

LEMMA ResolveAllIs ==
  ASSUME NEW x, NEW R, NEW t \in Tables, Resolving(x, R, t)
  PROVE  \E turn : IsLoop(turn, x, R, t) /\ ResolveAll(x) = turn[FieldCount]
<1> DEFINE N == FieldCount
           X == {y \in [tree : Trees, hash : HashCodes, fault : BOOLEAN] : Resolving(y, R, t)}
           P(y) == ResolveStep(y)
           F == [k \in 1 .. N |-> [y \in X |-> P(y)]]
           Def(w) == [k \in 0 .. N |-> IF k = 0 THEN x ELSE P(w[k - 1])]
           turn == CHOOSE w : w = Def(w)
<1>0. ResolveAll(x) = turn[N]
  BY Zenon DEF ResolveAll
<1>1. N \in Nat
  BY ConstantsAssumption
<1>2. x \in X
  BY DEF Resolving
<1>3. ASSUME NEW y \in X PROVE P(y) \in X /\ Turn(P(y), y)
  <2>1. Resolving(y, R, t)
    OBVIOUS
  <2>2. Resolving(P(y), R, t) /\ Turn(P(y), y)
    BY <2>1, ResolveStepIs
  <2>3. P(y) \in [tree : Trees, hash : HashCodes, fault : BOOLEAN]
    BY <2>2 DEF Resolving
  <2> QED
    BY <2>2, <2>3
<1>3b. \A y \in X : Resolving(y, R, t)
  OBVIOUS
<1> HIDE DEF N, P, X
<1>4. F \in [1 .. N -> [X -> X]]
  BY <1>3
<1>5. PICK g : IteratesFrom(g, N, X, x, F)
  <2> HIDE DEF F
  <2> QED
    BY <1>1, <1>2, <1>4, Iteration
<1>6. g \in [0 .. N -> X] /\ g[0] = x /\ \A i \in 1 .. N : g[i] = F[i][g[i - 1]]
  BY <1>5 DEF IteratesFrom
<1>7. ASSUME NEW i \in 1 .. N PROVE g[i] = P(g[i - 1])
  <2>1. g[i - 1] \in X
    BY <1>1, <1>6
  <2>2. F[i][g[i - 1]] = P(g[i - 1])
    BY <2>1, Zenon
  <2> QED
    BY <1>6, <2>2
<1> HIDE DEF F
<1>8. \A i \in 0 .. N : g[i] = IF i = 0 THEN x ELSE P(g[i - 1])
  <2>1. \A i \in 0 .. N : i = 0 \/ i \in 1 .. N
    BY <1>1
  <2> QED
    BY <2>1, <1>6, <1>7
<1>9. \E w : w = Def(w)
  BY <1>6, <1>8
<1>10. turn = Def(turn)
  <2> HIDE DEF Def
  <2> QED
    BY <1>9, Zenon
<1> HIDE DEF turn
<1>11. turn[0] = x
  BY <1>1, <1>10
<1>12. ASSUME NEW i \in 1 .. N PROVE turn[i] = P(turn[i - 1])
  <2>1. i \in 0 .. N /\ i # 0
    BY <1>1
  <2>2. turn[i] = Def(turn)[i]
    BY <1>10
  <2> QED
    BY <2>1, <2>2
<1> HIDE DEF Def
<1> DEFINE S == {i \in 0 .. N : turn[i] \in X}
<1>14. 0 \in S
  BY <1>1, <1>2, <1>11
<1>15. ASSUME NEW i \in 0 .. N - 1, i \in S PROVE i + 1 \in S
  <2>1. i + 1 \in 1 .. N /\ i + 1 \in 0 .. N /\ (i + 1) - 1 = i
    BY <1>1
  <2>2. turn[i + 1] = P(turn[i]) /\ turn[i] \in X
    BY <2>1, <1>12, <1>15
  <2> QED
    BY <2>1, <2>2, <1>3
<1>16. 0 .. N \subseteq S
  <2> HIDE DEF S
  <2> QED
    BY <1>1, <1>14, <1>15, SetInduction
<1>17. \A k \in 0 .. N : turn[k] \in X
  BY <1>16
<1>18. ASSUME NEW k \in 1 .. N PROVE Turn(turn[k], turn[k - 1])
  <2>1. k - 1 \in 0 .. N
    BY <1>1
  <2>2. turn[k - 1] \in X
    BY <2>1, <1>17
  <2> QED
    BY <2>2, <1>3, <1>12
<1>19. IsLoop(turn, x, R, t)
  BY <1>3b, <1>11, <1>17, <1>18 DEF IsLoop, N
<1> QED
  BY <1>0, <1>19 DEF N

\* A turn changes one field of one table, and initialises none.
LEMMA TurnSame ==
  ASSUME NEW x, NEW y, NEW R, NEW t \in Tables, Resolving(x, R, t), Turn(y, x)
  PROVE  /\ SameBut(y.tree, x.tree, R, t, Fields)
         /\ \A f \in Fields :
              Find(y.tree.heap, y.tree.root, f) = Nil <=> Find(x.tree.heap, x.tree.root, f) = Nil
<1>1. PICK T, U : T = x.tree /\ U = y.tree
  OBVIOUS
<1>2. TreeGood(T, R, t)
  BY <1>1 DEF Resolving
<1>3. CASE U = T
  BY <1>1, <1>3, SameButRefl
<1>4. CASE \E f \in Fields :
             /\ Find(T.heap, T.root, f) = FirstRelocNode(T.heap, T.root)
             /\ FirstRelocNode(T.heap, T.root) # Nil
             /\ U = Resolved(T, f, ResolveSet(T.heap[FirstRelocNode(T.heap, T.root)].value))
  <2>1. PICK f, n, v :
          /\ f \in Fields /\ Find(T.heap, T.root, f) = n /\ n = FirstRelocNode(T.heap, T.root) /\ n # Nil
          /\ v = ResolveSet(T.heap[n].value) /\ U = Resolved(T, f, v)
    BY <1>4
  <2>2. T.heap \in Heaps /\ Shape(T.heap) /\ T.root \in RootNodes \cup {Nil}
    BY <1>2, TreeFields
  <2>3. n \in Places
    BY <2>1, <2>2, FirstRelocIs DEF On
  <2>4. v \in SUBSET Addresses
    BY <2>1, <2>2, <2>3, NodeFields, ResolveSetIs
  <2>5. SameBut(U, T, R, t, {f}) /\ Shows(U, f, v)
    BY <2>1, <2>4, <1>2, ResolvedSame
  <2>6. SameBut(U, T, R, t, Fields)
    BY <2>5 DEF SameBut
  <2>7. ASSUME NEW q \in Fields PROVE Find(U.heap, U.root, q) = Nil <=> Find(T.heap, T.root, q) = Nil
    <3>1. CASE q = f
      BY <3>1, <2>1, <2>5 DEF Shows
    <3>2. CASE q # f
      BY <3>2, <2>5 DEF SameBut, Same
    <3> QED
      BY <3>1, <3>2, SMTT(30)
  <2> QED
    BY <2>6, <2>7, <1>1
<1> QED
  BY <1>1, <1>3, <1>4 DEF Turn

LEMMA LoopSame ==
  ASSUME NEW x, NEW R, NEW t \in Tables, NEW turn, IsLoop(turn, x, R, t)
  PROVE  \A k \in 0 .. FieldCount :
           /\ SameBut(turn[k].tree, x.tree, R, t, Fields)
           /\ \A f \in Fields : Find(turn[k].tree.heap, turn[k].tree.root, f) = Nil <=>
                                Find(x.tree.heap, x.tree.root, f) = Nil
<1> DEFINE Q(y) == /\ SameBut(y.tree, x.tree, R, t, Fields)
                   /\ \A f \in Fields : Find(y.tree.heap, y.tree.root, f) = Nil <=>
                                        Find(x.tree.heap, x.tree.root, f) = Nil
           S == {k \in 0 .. FieldCount : Q(turn[k])}
<1>1. FieldCount \in Nat
  BY ConstantsAssumption
<1>2. 0 \in S
  <2>1. turn[0] = x
    BY DEF IsLoop
  <2>2. Q(x)
    BY SameButRefl
  <2> QED
    BY <2>1, <2>2, <1>1
<1>3. ASSUME NEW k \in 0 .. FieldCount - 1, k \in S PROVE k + 1 \in S
  <2>1. PICK y, z, i : y = turn[k] /\ i = k + 1 /\ z = turn[i]
    OBVIOUS
  <2>2. i \in 1 .. FieldCount /\ i - 1 = k /\ k \in 0 .. FieldCount /\ i \in 0 .. FieldCount
    BY <2>1, <1>1
  <2>3. Resolving(y, R, t) /\ Turn(z, y)
    BY <2>1, <2>2 DEF IsLoop
  <2>4. /\ SameBut(z.tree, y.tree, R, t, Fields)
        /\ \A f \in Fields : Find(z.tree.heap, z.tree.root, f) = Nil <=> Find(y.tree.heap, y.tree.root, f) = Nil
    BY <2>3, TurnSame
  <2>5. Q(y)
    BY <2>1, <1>3
  <2>6. SameBut(z.tree, x.tree, R, t, Fields \cup Fields)
    BY <2>4, <2>5, SameButTrans
  <2>7. Fields \cup Fields = Fields
    OBVIOUS
  <2>8. Q(z)
    BY <2>4, <2>5, <2>6, <2>7
  <2> HIDE DEF Q
  <2> QED
    BY <2>1, <2>2, <2>8
<1> HIDE DEF S
<1>4. 0 .. FieldCount \subseteq S
  BY <1>1, <1>2, <1>3, SetInduction
<1> QED
  BY <1>4 DEF S

-----------------------------------------------------------------------------
(***************************************************************************)
(* The inductive invariant: the memory is good, a field that a table has   *)
(* was queried before, and the hash code of a table is the one of its      *)
(* content.                                                                *)
(***************************************************************************)
Defaults == {"zero", "pos", "neg", Nil}

\* A field that some table has is one whose default is known.
DefaultsKnown ==
  \A t \in Tables, f \in Fields :
    root[t] # NoTable /\ Find(heap, root[t], f) # Nil => default[f] # Nil

HashRight == \A t \in Tables : root[t] # NoTable => hash[t] = HashOf(heap, root[t], default)

StaticInv ==
  /\ Good(heap, root)
  /\ default \in [Fields -> Defaults]
  /\ hash \in [Tables -> HashCodes]
  /\ fault \in BOOLEAN
  /\ DefaultsKnown
  /\ HashRight

LEMMA HashSame ==
  ASSUME NEW g, NEW q, NEW h, NEW r, NEW d, NEW e,
         \A f \in Fields : Same(g, q, h, r, f) /\ (d[f] = e[f] \/ Find(h, r, f) = Nil)
  PROVE  HashOf(g, q, d) = HashOf(h, r, e)
<1>1. ASSUME NEW f \in Fields PROVE HashAt(g, q, d, f) = HashAt(h, r, e, f)
  <2>1. Same(g, q, h, r, f) /\ (d[f] = e[f] \/ Find(h, r, f) = Nil)
    OBVIOUS
  <2>2. CASE d[f] = e[f]
    BY <2>1, <2>2, HashAtSame
  <2>3. CASE Find(h, r, f) = Nil
    BY <2>1, <2>3 DEF Same, HashAt
  <2> QED
    BY <2>1, <2>2, <2>3
<1> DEFINE A(f) == HashAt(g, q, d, f)
           B(f) == HashAt(h, r, e, f)
<1>2. \A f \in Fields : A(f) = B(f)
  BY <1>1
<1>3. HashOf(g, q, d) = UNION {A(f) : f \in Fields} /\ HashOf(h, r, e) = UNION {B(f) : f \in Fields}
  BY DEF HashOf
<1> HIDE DEF A, B
<1>4. {A(f) : f \in Fields} = {B(f) : f \in Fields}
  BY <1>2
<1> QED
  BY <1>3, <1>4

\* A read that creates a field with its default leaves the hash code.
LEMMA ReadHash ==
  ASSUME NEW T, NEW R, NEW t \in Tables, TreeGood(T, R, t), NEW f \in Fields, NEW d,
         d[f] \in Addresses
  PROVE  HashOf(GetRO(T, f, d[f]).heap, GetRO(T, f, d[f]).root, d) = HashOf(T.heap, T.root, d)
<1>1. PICK U, a : a = d[f] /\ U = GetRO(T, f, a) /\ a \in Addresses
  OBVIOUS
<1>2. IsGetRO(U, T, R, t, f, {a})
  BY <1>1, GetROSame
<1>3. TreeGood(U, R, t) /\ SameBut(U, T, R, t, {f})
  BY <1>2 DEF IsGetRO
<1>4. CASE Find(T.heap, T.root, f) # Nil
  BY <1>1, <1>2, <1>4 DEF IsGetRO
<1>5. CASE Find(T.heap, T.root, f) = Nil
  <2>1. Shows(U, f, {a})
    BY <1>2, <1>5 DEF IsGetRO
  <2>2. PICK h, r, g, q : h = T.heap /\ r = T.root /\ g = U.heap /\ q = U.root
    OBVIOUS
  <2>3. /\ h \in Heaps /\ Shape(h) /\ r \in RootNodes \cup {Nil}
        /\ g \in Heaps /\ Shape(g) /\ q \in RootNodes \cup {Nil}
    BY <2>2, <1>3, TreeFields
  <2>4. HashAt(h, r, d, f) = {}
    BY <2>2, <1>5 DEF HashAt
  <2>5. HashAt(g, q, d, f) = {}
    BY <2>1, <2>2, <1>1 DEF HashAt, FieldHash, Shows
  <2>6. Elsewhere(g, q, h, r, f)
    BY <2>2, <1>3 DEF SameBut, Elsewhere
  <2>7. HashOf(g, q, d) = SymDiff(SymDiff(HashOf(h, r, d), HashAt(h, r, d, f)), HashAt(g, q, d, f))
    BY <2>3, <2>6, HashStep
  <2>8. \A H : SymDiff(SymDiff(H, {}), {}) = H
    BY DEF SymDiff
  <2> QED
    BY <2>2, <2>4, <2>5, <2>7, <2>8, <1>1
<1> QED
  BY <1>4, <1>5

OldHash(T, f, d) ==
  IF Find(T.heap, T.root, f) = Nil THEN {}
  ELSE FieldHash(f, T.heap[Find(T.heap, T.root, f)].value, d)

\* A write replaces the hash code of the old value by that of the new one.
LEMMA WriteHash ==
  ASSUME NEW T, NEW R, NEW t \in Tables, TreeGood(T, R, t), NEW f \in Fields, NEW d,
         d[f] \in Addresses, NEW v \in SUBSET Addresses, NEW flag \in BOOLEAN,
         NEW U, U = Written(T, f, v, d[f], flag)
  PROVE  HashOf(U.heap, U.root, d) =
           SymDiff(SymDiff(HashOf(T.heap, T.root, d), OldHash(T, f, d[f])), FieldHash(f, v, d[f]))
<1>1. TreeGood(U, R, t) /\ SameBut(U, T, R, t, {f}) /\ Shows(U, f, v)
  <2>1. PICK a : a = d[f] /\ a \in Addresses
    OBVIOUS
  <2> QED
    BY <2>1, WrittenSame
<1>2. PICK h, r, g, q : h = T.heap /\ r = T.root /\ g = U.heap /\ q = U.root
  OBVIOUS
<1>3. /\ h \in Heaps /\ Shape(h) /\ r \in RootNodes \cup {Nil}
      /\ g \in Heaps /\ Shape(g) /\ q \in RootNodes \cup {Nil}
  BY <1>1, <1>2, TreeFields
<1>4. HashAt(h, r, d, f) = OldHash(T, f, d[f])
  BY <1>2 DEF HashAt, OldHash
<1>5. HashAt(g, q, d, f) = FieldHash(f, v, d[f])
  BY <1>1, <1>2 DEF HashAt, Shows
<1>6. Elsewhere(g, q, h, r, f)
  BY <1>1, <1>2 DEF SameBut, Elsewhere
<1>7. HashOf(g, q, d) = SymDiff(SymDiff(HashOf(h, r, d), HashAt(h, r, d, f)), HashAt(g, q, d, f))
  BY <1>3, <1>6, HashStep
<1> QED
  BY <1>2, <1>4, <1>5, <1>7

LEMMA InvFacts ==
  ASSUME StaticInv
  PROVE  /\ heap \in Heaps /\ Shape(heap) /\ root \in Roots
         /\ \A t \in Tables : root[t] # NoTable => /\ root[t] \in RootNodes \cup {Nil}
                                                   /\ TreeGood(Tree(heap, root[t]), root, t)
<1>1. PICK h, R : h = heap /\ R = root /\ Good(h, R)
  BY DEF StaticInv
<1>2. h \in Heaps /\ R \in Roots /\ Shape(h)
  BY <1>1 DEF Good
<1>3. ASSUME NEW t \in Tables, R[t] # NoTable
      PROVE  R[t] \in RootNodes \cup {Nil} /\ TreeGood(Tree(h, R[t]), R, t)
  <2>1. PICK r : r = R[t] /\ r \in RootNodes \cup {Nil}
    BY <1>2, <1>3 DEF Roots
  <2>2. With(R, t, r) = R
    BY <2>1, <1>2, WithSame
  <2>3. TreeGood(Tree(h, r), R, t)
    BY <2>1, <2>2, <1>1, <1>2, MakeTree
  <2> QED
    BY <2>1, <2>3
<1> QED
  BY <1>1, <1>2, <1>3

\* A step that changes one table and its hash code, and nothing that another
\* table shows.
LEMMA ChangeInv ==
  ASSUME StaticInv, NEW t \in Tables, NEW g, NEW q \in RootNodes \cup {Nil, NoTable},
         Good(g, With(root, t, q)), NEW c \in HashCodes,
         heap' = g, root' = [root EXCEPT ![t] = q], hash' = [hash EXCEPT ![t] = c],
         default' \in [Fields -> Defaults], fault' \in BOOLEAN,
         \A e \in Fields : default'[e] = default[e] \/ default[e] = Nil,
         \A u \in Tables \ {t} : root[u] # NoTable =>
           \A e \in Fields : Same(g, root[u], heap, root[u], e),
         q # NoTable => /\ c = HashOf(g, q, default')
                        /\ \A e \in Fields : Find(g, q, e) # Nil => default'[e] # Nil
  PROVE  StaticInv'
<1>1. PICK d, dd, h, R, RR, H, HH :
        /\ d = default /\ dd = default' /\ h = heap /\ R = root /\ RR = root' /\ H = hash /\ HH = hash'
  OBVIOUS
<1>2. R \in Roots /\ RR = With(R, t, q) /\ H \in [Tables -> HashCodes]
  BY <1>1, InvFacts DEF With, StaticInv
<1>3. RR \in Roots /\ RR[t] = q /\ \A u \in Tables \ {t} : RR[u] = R[u]
  BY <1>2, WithIs
<1>4. HH \in [Tables -> HashCodes] /\ HH[t] = c /\ \A u \in Tables \ {t} : HH[u] = H[u]
  BY <1>1, <1>2
<1>5. \A u \in Tables, e \in Fields : R[u] # NoTable /\ Find(h, R[u], e) # Nil => d[e] # Nil
  BY <1>1 DEF StaticInv, DefaultsKnown
<1>6. \A u \in Tables : R[u] # NoTable => H[u] = HashOf(h, R[u], d)
  BY <1>1 DEF StaticInv, HashRight
<1>7. \A e \in Fields : dd[e] = d[e] \/ d[e] = Nil
  BY <1>1
<1>8. \A u \in Tables \ {t} : R[u] # NoTable => \A e \in Fields : Same(g, R[u], h, R[u], e)
  BY <1>1
<1>9. q # NoTable => c = HashOf(g, q, dd) /\ \A e \in Fields : Find(g, q, e) # Nil => dd[e] # Nil
  BY <1>1
<1>10. ASSUME NEW u \in Tables \ {t}, R[u] # NoTable
       PROVE  /\ HashOf(g, R[u], dd) = HashOf(h, R[u], d)
              /\ \A e \in Fields : Find(g, R[u], e) # Nil => dd[e] # Nil
  <2>1. PICK r : r = R[u]
    OBVIOUS
  <2>2. \A e \in Fields : Same(g, r, h, r, e) /\ (dd[e] = d[e] \/ Find(h, r, e) = Nil)
    BY <2>1, <1>5, <1>7, <1>8, <1>10
  <2>3. HashOf(g, r, dd) = HashOf(h, r, d)
    BY <2>2, HashSame
  <2>4. \A e \in Fields : Find(g, r, e) # Nil => dd[e] # Nil
    BY <2>1, <2>2, <1>5, <1>10 DEF Same
  <2> QED
    BY <2>1, <2>3, <2>4
<1>11. ASSUME NEW u \in Tables, RR[u] # NoTable
       PROVE  /\ HH[u] = HashOf(g, RR[u], dd)
              /\ \A e \in Fields : Find(g, RR[u], e) # Nil => dd[e] # Nil
  <2>1. CASE u = t
    BY <2>1, <1>3, <1>4, <1>9, <1>11
  <2>2. CASE u # t
    BY <2>2, <1>3, <1>4, <1>6, <1>10, <1>11
  <2> QED
    BY <2>1, <2>2
<1>12. Good(heap', root')
  BY <1>1, <1>2
<1>13. DefaultsKnown'
  BY <1>1, <1>11 DEF DefaultsKnown
<1>14. HashRight'
  BY <1>1, <1>11 DEF HashRight
<1> QED
  BY <1>1, <1>4, <1>12, <1>13, <1>14 DEF StaticInv

LEMMA FindEmpty ==
  ASSUME NEW h \in Heaps, Shape(h), NEW f \in Fields
  PROVE  \A i \in 1 .. Len(Path[f]) : Nodes(h, Nil, f)[i] = Nil
<1>1. PICK ns, L : ns = Nodes(h, Nil, f) /\ L = Len(Path[f]) /\ L \in Nat \ {0}
  BY PathFacts
<1>2. Walk(ns, h, Nil, f)
  BY <1>1, NodesWalk
<1>3. ns[1] = Nil /\ \A i \in 1 .. L : i # L => ns[i + 1] = Child(h, ns[i], Direction(Path[f][i], f))
  BY <1>1, <1>2 DEF Walk
<1> DEFINE S == {k \in 0 .. L - 1 : ns[k + 1] = Nil}
<1>4. 0 \in S
  BY <1>1, <1>3
<1>5. ASSUME NEW k \in 0 .. (L - 1) - 1, k \in S PROVE k + 1 \in S
  <2>1. PICK i : i = k + 1 /\ i \in 1 .. L /\ i # L /\ i \in 0 .. L - 1
    BY <1>1
  <2>2. ns[i] = Nil
    BY <2>1, <1>5
  <2>3. ns[i + 1] = Nil
    BY <2>1, <2>2, <1>3 DEF Child
  <2> QED
    BY <2>1, <2>3
<1>6. 0 .. L - 1 \subseteq S
  <2> HIDE DEF S
  <2>1. L - 1 \in Nat
    BY <1>1
  <2> QED
    BY <2>1, <1>4, <1>5, SetInduction
<1>7. ASSUME NEW i \in 1 .. L PROVE ns[i] = Nil
  <2>1. PICK k : k = i - 1 /\ k \in 0 .. L - 1 /\ i = k + 1
    BY <1>1
  <2> QED
    BY <2>1, <1>6
<1> QED
  BY <1>1, <1>7

LEMMA InitInv ==
  ASSUME Init
  PROVE  StaticInv
<1>1. PICK h, R : h = heap /\ R = root
  OBVIOUS
<1>2. h = [a \in Places |-> FreeNode] /\ R = [t \in Tables |-> NoTable]
  BY <1>1 DEF Init
<1>3. FreeNode \in NodeRec /\ FreeNode.refcnt = 0 /\ FreeNode.child[1] = Nil /\ FreeNode.child[2] = Nil
  <2>1. <<Nil, Nil>> \in [1 .. 2 -> Pointers]
    BY DEF Pointers
  <2> QED
    BY <2>1 DEF FreeNode, NodeRec
<1>4. \A a \in Places : h[a] = FreeNode
  BY <1>2
<1>5. h \in Heaps
  BY <1>2, <1>3 DEF Heaps
<1>6. R \in Roots /\ \A t \in Tables : R[t] = NoTable
  BY <1>2 DEF Roots
<1>7. \A a \in Places : \A d \in 1 .. 2 : h[a].child[d] = Nil
  <2>1. \A d \in 1 .. 2 : d = 1 \/ d = 2
    OBVIOUS
  <2> QED
    BY <2>1, <1>3, <1>4
<1>8. Shape(h) /\ FreeEmpty(h)
  BY <1>7 DEF Shape, FreeEmpty
<1>9. Exact(h, R)
  <2>1. ASSUME NEW a \in Places
        PROVE  h[a].refcnt = Cardinality(RootsOf(R, a)) + Cardinality(Parents(h, a))
    <3>1. a # NoTable /\ a # Nil
      BY PlaceIs
    <3>2. RootsOf(R, a) = {}
      BY <3>1, <1>6 DEF RootsOf
    <3>3. Parents(h, a) = {}
      BY <3>1, <1>7 DEF Parents
    <3>4. Cardinality({}) = 0
      BY FS_EmptySet
    <3>5. h[a].refcnt = 0
      BY <1>3, <1>4
    <3> QED
      BY <3>2, <3>3, <3>4, <3>5
  <2> QED
    BY <2>1 DEF Exact
<1>10. Good(heap, root)
  BY <1>1, <1>5, <1>6, <1>8, <1>9 DEF Good
<1>11. hash \in [Tables -> HashCodes]
  BY DEF Init, HashCodes
<1>12. default \in [Fields -> Defaults] /\ fault \in BOOLEAN
  BY DEF Init, Defaults
<1>13. DefaultsKnown /\ HashRight
  BY <1>1, <1>6 DEF DefaultsKnown, HashRight
<1> QED
  BY <1>10, <1>11, <1>12, <1>13 DEF StaticInv

\* What a query does to the defaults
Queried(dd, d, f) ==
  /\ dd \in [Fields -> Defaults]
  /\ \A e \in Fields : dd[e] = d[e] \/ d[e] = Nil
  /\ dd[f] # Nil => dd[f] \in Addresses
  /\ \A e \in Fields \ {f} : dd[e] = d[e]

LEMMA DefaultValueIs ==
  ASSUME NEW lit
  PROVE  DefaultValue(lit) \in Defaults
  BY DEF DefaultValue, Sign, Defaults

LEMMA QueryIs ==
  ASSUME StaticInv, NEW f \in Fields
  PROVE  /\ default' = [default EXCEPT ![f] = Query(f)] => Queried(default', default, f)
         /\ default' = default => Queried(default', default, f)
<1>1. PICK d, dd, v : d = default /\ dd = default' /\ v = Query(f) /\ d \in [Fields -> Defaults]
  BY DEF StaticInv
<1>2. v \in Defaults /\ (d[f] # Nil => v = d[f])
  BY <1>1, DefaultValueIs DEF Query
<1>3. \A a \in Defaults : a # Nil => a \in Addresses
  BY DEF Defaults, Addresses, Constant
<1>4. ASSUME dd = [d EXCEPT ![f] = v] PROVE Queried(dd, d, f)
  <2>1. dd \in [Fields -> Defaults] /\ dd[f] = v /\ \A e \in Fields \ {f} : dd[e] = d[e]
    BY <1>1, <1>2, <1>4
  <2> QED
    BY <2>1, <1>2, <1>3 DEF Queried
<1>5. ASSUME dd = d PROVE Queried(dd, d, f)
  BY <1>1, <1>3, <1>5 DEF Queried
<1> QED
  BY <1>1, <1>4, <1>5

LEMMA NewInv ==
  ASSUME StaticInv, NEW t \in Tables, New(t)
  PROVE  StaticInv'
<1>1. PICK g, q, c : g = heap /\ q = Nil /\ c = {}
  OBVIOUS
<1>2. /\ heap' = g /\ root' = [root EXCEPT ![t] = q] /\ hash' = [hash EXCEPT ![t] = c]
      /\ default' = default /\ fault' = fault /\ root[t] = NoTable
  BY <1>1 DEF New, Live
<1>3. Good(g, With(root, t, q))
  <2>1. PICK R : R = root
    OBVIOUS
  <2>2. Good(g, R) /\ R[t] = NoTable
    BY <2>1, <1>1, <1>2 DEF StaticInv
  <2>3. Good(g, With(R, t, Nil))
    BY <2>2, NewGood
  <2> QED
    BY <2>1, <2>3, <1>1
<1>4. \A e \in Fields : Find(g, q, e) = Nil
  <2>1. ASSUME NEW e \in Fields PROVE Find(g, q, e) = Nil
    <3>1. g \in Heaps /\ Shape(g) /\ Len(Path[e]) \in 1 .. Len(Path[e])
      BY <1>1, InvFacts, PathFacts
    <3> QED
      BY <3>1, <1>1, FindEmpty DEF Find
  <2> QED
    BY <2>1
<1>5. c \in HashCodes
  BY <1>1 DEF HashCodes
<1>6. c = HashOf(g, q, default')
  BY <1>1, <1>4 DEF HashOf, HashAt
<1>7. default' \in [Fields -> Defaults] /\ fault' \in BOOLEAN /\ \A e \in Fields : default'[e] = default[e]
  BY <1>2 DEF StaticInv
<1>8. q \in RootNodes \cup {Nil, NoTable}
  BY <1>1
<1>9. \A u \in Tables \ {t} : root[u] # NoTable =>
        \A e \in Fields : Same(g, root[u], heap, root[u], e)
  BY <1>1 DEF Same
<1> QED
  BY <1>2, <1>3, <1>4, <1>5, <1>6, <1>7, <1>8, <1>9, ChangeInv

LEMMA FreeInv ==
  ASSUME StaticInv, NEW t \in Tables, Free(t)
  PROVE  StaticInv'
<1>1. PICK g, q, c : g = Decref(heap, root[t]) /\ q = NoTable /\ c = {}
  OBVIOUS
<1>2. /\ heap' = g /\ root' = [root EXCEPT ![t] = q] /\ hash' = [hash EXCEPT ![t] = c]
      /\ default' = default /\ fault' = fault /\ root[t] # NoTable
  BY <1>1 DEF Free, Live
<1>3. PICK h, R : h = heap /\ R = root /\ Good(h, R) /\ R[t] # NoTable /\ g = Decref(h, R[t])
  BY <1>1, <1>2 DEF StaticInv
<1>4. Good(g, With(root, t, q))
  BY <1>1, <1>3, DecrefGood
<1>5. \A u \in Tables \ {t} : root[u] # NoTable =>
        \A e \in Fields : Same(g, root[u], heap, root[u], e)
  <2>1. ASSUME NEW u \in Tables \ {t}, R[u] # NoTable, NEW e \in Fields
        PROVE  Same(g, R[u], h, R[u], e)
    BY <2>1, <1>3, DecrefSame
  <2> QED
    BY <2>1, <1>3
<1>6. c \in HashCodes
  BY <1>1 DEF HashCodes
<1>7. default' \in [Fields -> Defaults] /\ fault' \in BOOLEAN /\ \A e \in Fields : default'[e] = default[e]
  BY <1>2 DEF StaticInv
<1>8. q \in RootNodes \cup {Nil, NoTable}
  BY <1>1
<1> QED
  BY <1>1, <1>2, <1>4, <1>5, <1>6, <1>7, <1>8, ChangeInv

\* A step that changes one field of a table
LEMMA FieldInv ==
  ASSUME StaticInv, NEW t \in Tables, root[t] # NoTable, NEW f \in Fields, NEW U,
         TreeGood(U, root, t), SameBut(U, Tree(heap, root[t]), root, t, {f}), SetTree(t, U),
         Queried(default', default, f), Find(U.heap, U.root, f) # Nil => default'[f] # Nil,
         hash' = [hash EXCEPT ![t] = HashOf(U.heap, U.root, default')], fault' = fault
  PROVE  StaticInv'
<1>1. PICK g, q, c, R, d, dd, h :
        /\ g = U.heap /\ q = U.root /\ R = root /\ d = default /\ dd = default' /\ h = heap
        /\ c = HashOf(g, q, dd)
  OBVIOUS
<1>2. /\ heap' = g /\ root' = [root EXCEPT ![t] = q] /\ hash' = [hash EXCEPT ![t] = c]
  BY <1>1 DEF SetTree
<1>3. g \in Heaps /\ Shape(g) /\ q \in RootNodes \cup {Nil} /\ Good(g, With(R, t, q))
  BY <1>1, TreeFields
<1>4. c \in HashCodes
  BY <1>1, <1>3, HashOfIs
<1>5. SameBut(U, Tree(h, R[t]), R, t, {f})
  BY <1>1
<1>6. PICK T, rt : rt = R[t] /\ T = Tree(h, rt)
  OBVIOUS
<1>6b. T.heap = h /\ T.root = R[t]
  BY <1>6 DEF Tree
<1>7. /\ \A e \in Fields \ {f} : Same(g, q, h, R[t], e)
      /\ \A u \in Tables \ {t} : R[u] # NoTable => \A e \in Fields : Same(g, R[u], h, R[u], e)
  BY <1>1, <1>5, <1>6, <1>6b DEF SameBut
<1>8. /\ dd \in [Fields -> Defaults]
      /\ \A e \in Fields : dd[e] = d[e] \/ d[e] = Nil
      /\ \A e \in Fields \ {f} : dd[e] = d[e]
  BY <1>1 DEF Queried
<1>9. \A e \in Fields : Find(h, R[t], e) # Nil => d[e] # Nil
  BY <1>1 DEF StaticInv, DefaultsKnown
<1>10. \A e \in Fields : Find(g, q, e) # Nil => dd[e] # Nil
  <2>1. ASSUME NEW e \in Fields, Find(g, q, e) # Nil PROVE dd[e] # Nil
    <3>1. CASE e = f
      BY <3>1, <2>1, <1>1
    <3>2. CASE e # f
      BY <3>2, <2>1, <1>7, <1>8, <1>9 DEF Same
    <3> QED
      BY <3>1, <3>2
  <2> QED
    BY <2>1
<1>11. fault' \in BOOLEAN
  BY DEF StaticInv
<1>12. q \in RootNodes \cup {Nil, NoTable}
  BY <1>3
<1>13. Good(g, With(root, t, q)) /\ default' \in [Fields -> Defaults]
  BY <1>1, <1>3, <1>8
<1>14. \A e \in Fields : default'[e] = default[e] \/ default[e] = Nil
  BY <1>1, <1>8
<1>15. \A u \in Tables \ {t} : root[u] # NoTable =>
         \A e \in Fields : Same(g, root[u], heap, root[u], e)
  BY <1>1, <1>7
<1>16. c = HashOf(g, q, default') /\ \A e \in Fields : Find(g, q, e) # Nil => default'[e] # Nil
  BY <1>1, <1>10
<1> QED
  BY <1>2, <1>4, <1>11, <1>12, <1>13, <1>14, <1>15, <1>16, ChangeInv

\* The first query of a field changes no hash code.
LEMMA HashNow ==
  ASSUME StaticInv, NEW t \in Tables, root[t] # NoTable, NEW f \in Fields,
         Queried(default', default, f)
  PROVE  hash[t] = HashOf(heap, root[t], default')
<1>1. PICK h, r, d, dd : h = heap /\ r = root[t] /\ d = default /\ dd = default'
  OBVIOUS
<1>2. \A e \in Fields : dd[e] = d[e] \/ d[e] = Nil
  BY <1>1 DEF Queried
<1>3. \A e \in Fields : Find(h, r, e) # Nil => d[e] # Nil
  BY <1>1 DEF StaticInv, DefaultsKnown
<1>4. \A e \in Fields : Same(h, r, h, r, e) /\ (dd[e] = d[e] \/ Find(h, r, e) = Nil)
  BY <1>2, <1>3 DEF Same
<1>5. HashOf(h, r, dd) = HashOf(h, r, d)
  BY <1>4, HashSame
<1>6. hash[t] = HashOf(h, r, d)
  BY <1>1 DEF StaticInv, HashRight
<1> QED
  BY <1>1, <1>5, <1>6

LEMMA HashKept ==
  ASSUME StaticInv, NEW t \in Tables
  PROVE  hash = [hash EXCEPT ![t] = hash[t]]
<1>1. hash \in [Tables -> HashCodes]
  BY DEF StaticInv
<1> QED
  BY <1>1

LEMMA ReadInv ==
  ASSUME StaticInv, NEW t \in Tables, root[t] # NoTable, NEW f \in Fields,
         Queried(default', default, f), default'[f] # Nil, Read(t, f, default'[f])
  PROVE  StaticInv'
<1>1. PICK T, d, R : T = Tree(heap, root[t]) /\ d = default' /\ R = root
  OBVIOUS
<1>2. PICK U : U = GetRO(T, f, d[f])
  OBVIOUS
<1>3. TreeGood(T, R, t) /\ T.heap = heap /\ T.root = root[t]
  BY <1>1, InvFacts DEF Tree
<1>4. d[f] \in Addresses
  BY <1>1 DEF Queried
<1>5. IsGetRO(U, T, R, t, f, {d[f]})
  BY <1>2, <1>3, <1>4, GetROSame
<1>6. TreeGood(U, R, t) /\ SameBut(U, T, R, t, {f})
  BY <1>5 DEF IsGetRO
<1>7. HashOf(U.heap, U.root, d) = HashOf(T.heap, T.root, d)
  BY <1>2, <1>3, <1>4, ReadHash
<1>8. hash' = [hash EXCEPT ![t] = HashOf(U.heap, U.root, default')]
  <2>1. HashOf(U.heap, U.root, default') = hash[t]
    BY <1>1, <1>3, <1>7, HashNow
  <2>2. hash' = hash
    BY DEF Read
  <2> QED
    BY <2>1, <2>2, HashKept
<1>9. SetTree(t, U) /\ fault' = fault
  BY <1>1, <1>2 DEF Read, TreeOf
<1> QED
  BY <1>1, <1>6, <1>8, <1>9, FieldInv

LEMMA WriteInv ==
  ASSUME StaticInv, NEW t \in Tables, root[t] # NoTable, NEW f \in Fields,
         Queried(default', default, f), default'[f] # Nil, NEW v \in SUBSET Addresses,
         NEW flag \in BOOLEAN, NEW T, TreeGood(T, root, t),
         SameBut(T, Tree(heap, root[t]), root, t, {f}),
         HashOf(T.heap, T.root, default') = hash[t],
         Write(t, T, f, v, default'[f], flag)
  PROVE  StaticInv'
<1>1. PICK d, R, S : d = default' /\ R = root /\ S = Tree(heap, root[t])
  OBVIOUS
<1>2. d[f] \in Addresses
  BY <1>1 DEF Queried
<1>3. PICK U : U = Written(T, f, v, d[f], flag)
  OBVIOUS
<1>4. TreeGood(U, R, t) /\ SameBut(U, T, R, t, {f})
  <2>1. PICK a : a = d[f] /\ a \in Addresses
    BY <1>2
  <2> QED
    BY <2>1, <1>1, <1>3, WrittenSame
<1>5. SameBut(U, S, R, t, {f})
  <2>1. SameBut(U, S, R, t, {f} \cup {f})
    BY <1>1, <1>4, SameButTrans
  <2>2. {f} \cup {f} = {f}
    OBVIOUS
  <2> QED
    BY <2>1, <2>2
<1>6. HashOf(U.heap, U.root, d) =
        SymDiff(SymDiff(HashOf(T.heap, T.root, d), OldHash(T, f, d[f])), FieldHash(f, v, d[f]))
  BY <1>1, <1>2, <1>3, WriteHash
<1>7. hash' = [hash EXCEPT ![t] = SymDiff(SymDiff(hash[t], OldHash(T, f, d[f])), FieldHash(f, v, d[f]))]
  BY <1>1 DEF Write, OldHash
<1>8. hash' = [hash EXCEPT ![t] = HashOf(U.heap, U.root, default')]
  BY <1>1, <1>6, <1>7
<1>9. SetTree(t, U) /\ fault' = fault
  BY <1>1, <1>3 DEF Write, Written
<1> QED
  BY <1>1, <1>4, <1>5, <1>8, <1>9, FieldInv

LEMMA SgetInv ==
  ASSUME StaticInv, NEW t \in Tables, NEW f \in Fields, Sget(t, f)
  PROVE  StaticInv'
<1>1. root[t] # NoTable /\ default'[f] # Nil /\ Read(t, f, default'[f])
  BY DEF Sget, Live
<1>2. Queried(default', default, f)
  BY QueryIs DEF Sget
<1> QED
  BY <1>1, <1>2, ReadInv

LEMMA InputIs ==
  ASSUME NEW v \in Inputs
  PROVE  /\ v \in SUBSET Addresses /\ SetRef(v) \in BOOLEAN
         /\ OneBit(cesk_set_get_reloc(v)) \in BOOLEAN
  BY ConstantsAssumption DEF SetRef, OneBit

LEMMA SputInv ==
  ASSUME StaticInv, NEW t \in Tables, NEW f \in Fields, NEW v \in Inputs, Sput(t, f, v)
  PROVE  StaticInv'
<1>1. PICK T : T = Tree(heap, root[t])
  OBVIOUS
<1>2. root[t] # NoTable /\ default'[f] # Nil /\ Write(t, T, f, v, default'[f], SetRef(v))
  BY <1>1 DEF Sput, Live, TreeOf
<1>3. Queried(default', default, f)
  BY QueryIs DEF Sput
<1>4. TreeGood(T, root, t) /\ T.heap = heap /\ T.root = root[t]
  BY <1>1, <1>2, InvFacts DEF Tree
<1>5. SameBut(T, Tree(heap, root[t]), root, t, {f})
  BY <1>1, SameButRefl
<1>6. HashOf(T.heap, T.root, default') = hash[t]
  BY <1>2, <1>3, <1>4, HashNow
<1>7. PICK flag : flag = SetRef(v)
  OBVIOUS
<1>8. v \in SUBSET Addresses /\ flag \in BOOLEAN
  BY <1>7, InputIs
<1>9. Write(t, T, f, v, default'[f], flag)
  BY <1>2, <1>7
<1> QED
  BY <1>2, <1>3, <1>4, <1>5, <1>6, <1>8, <1>9, WriteInv

LEMMA SputFailsInv ==
  ASSUME StaticInv, NEW t \in Tables, NEW f \in Fields, SputFails(t, f)
  PROVE  StaticInv'
<1>1. PICK T, R : T = Tree(heap, root[t]) /\ R = root
  OBVIOUS
<1>2. root[t] # NoTable /\ SetTree(t, PrepareToWrite(T, f)) /\ default' = default /\ hash' = hash /\ fault' = fault
  BY <1>1 DEF SputFails, Live, TreeOf
<1>3. Queried(default', default, f)
  BY <1>2, QueryIs
<1>4. TreeGood(T, R, t)
  BY <1>1, <1>2, InvFacts
<1>4b. T.heap = heap /\ T.root = root[t]
  BY <1>1 DEF Tree
<1>5. PICK U : U = PrepareToWrite(T, f)
  OBVIOUS
<1>6. TreeGood(U, R, t) /\ SameBut(U, T, R, t, {})
  BY <1>4, <1>5, PrepareToWriteGood, PrepareToWriteSame
<1>7. \A e \in Fields : Same(U.heap, U.root, T.heap, T.root, e)
  BY <1>6 DEF SameBut
<1>8. SameBut(U, T, R, t, {f})
  BY <1>6, <1>7 DEF SameBut
<1>9. HashOf(U.heap, U.root, default') = hash[t]
  <2>1. PICK g, q, h, r, d : g = U.heap /\ q = U.root /\ h = T.heap /\ r = T.root /\ d = default'
    OBVIOUS
  <2>2. \A e \in Fields : Same(g, q, h, r, e) /\ (d[e] = d[e] \/ Find(h, r, e) = Nil)
    BY <2>1, <1>7
  <2>3. HashOf(g, q, d) = HashOf(h, r, d)
    BY <2>2, HashSame
  <2>4. HashOf(heap, root[t], default') = hash[t]
    BY <1>2, <1>3, HashNow
  <2> QED
    BY <2>1, <2>3, <2>4, <1>4b
<1>10. hash' = [hash EXCEPT ![t] = HashOf(U.heap, U.root, default')]
  BY <1>2, <1>9, HashKept
<1>11. Find(U.heap, U.root, f) # Nil => default'[f] # Nil
  <2>1. Find(heap, root[t], f) # Nil => default[f] # Nil
    BY <1>2 DEF StaticInv, DefaultsKnown
  <2> QED
    BY <2>1, <1>2, <1>4b, <1>7 DEF Same
<1>12. SetTree(t, U)
  BY <1>2, <1>5
<1> QED
  BY <1>1, <1>2, <1>3, <1>6, <1>8, <1>10, <1>11, <1>12, FieldInv

LEMMA ApplyDiffInv ==
  ASSUME StaticInv, NEW t \in Tables, NEW f \in Fields, NEW v \in Inputs, ApplyDiff(t, f, v)
  PROVE  StaticInv'
<1>1. PICK S, R, d : S = Tree(heap, root[t]) /\ R = root /\ d = default'
  OBVIOUS
<1>2. root[t] # NoTable /\ default' = default /\ default'[f] # Nil
  BY DEF ApplyDiff, Live
<1>3. Queried(default', default, f)
  BY <1>2, QueryIs
<1>4. CASE Read(t, f, default[f])
  BY <1>2, <1>3, <1>4, ReadInv
<1>5. PICK T : T = GetRO(S, f, d[f])
  OBVIOUS
<1>6. CASE Write(t, T, f, v, default[f], OneBit(cesk_set_get_reloc(v)))
  <2>1. TreeGood(S, R, t)
    BY <1>1, <1>2, InvFacts
  <2>2. S.heap = heap /\ S.root = root[t]
    BY <1>1 DEF Tree
  <2>3. d[f] \in Addresses
    BY <1>1, <1>2, <1>3 DEF Queried
  <2>4. IsGetRO(T, S, R, t, f, {d[f]})
    BY <2>1, <2>3, <1>5, GetROSame
  <2>5. TreeGood(T, R, t) /\ SameBut(T, S, R, t, {f})
    BY <2>4 DEF IsGetRO
  <2>6. HashOf(T.heap, T.root, d) = HashOf(S.heap, S.root, d)
    BY <2>1, <2>3, <1>5, ReadHash
  <2>7. HashOf(heap, root[t], default') = hash[t]
    BY <1>2, <1>3, HashNow
  <2>8. HashOf(T.heap, T.root, default') = hash[t]
    BY <2>2, <2>6, <2>7, <1>1
  <2>9. TreeGood(T, root, t) /\ SameBut(T, Tree(heap, root[t]), root, t, {f})
    BY <2>5, <1>1
  <2>10. PICK flag : flag = OneBit(cesk_set_get_reloc(v))
    OBVIOUS
  <2>10b. v \in SUBSET Addresses /\ flag \in BOOLEAN
    BY <2>10, InputIs, Zenon
  <2>11. Write(t, T, f, v, default'[f], flag)
    BY <2>10, <1>2, <1>6
  <2> QED
    BY <2>8, <2>9, <2>10b, <2>11, <1>2, <1>3, WriteInv
<1> QED
  BY <1>1, <1>2, <1>4, <1>5, <1>6 DEF ApplyDiff, TreeOf

\* The fork of a tree, before its addresses are resolved
LEMMA ForkTree ==
  ASSUME StaticInv, NEW s \in Tables, NEW t \in Tables, root[s] # NoTable, root[t] = NoTable,
         NEW T, T = Tree(Incref(heap, root[s]), root[s])
  PROVE  /\ TreeGood(T, root, t)
         /\ T.heap = Incref(heap, root[s]) /\ T.root = root[s]
         /\ HashOf(T.heap, T.root, default) = hash[s]
         /\ \A e \in Fields : Same(T.heap, T.root, heap, root[s], e)
         /\ \A u \in Tables \ {t} : root[u] # NoTable =>
              \A e \in Fields : Same(T.heap, root[u], heap, root[u], e)
<1>1. PICK h, R, r, g, d : h = heap /\ R = root /\ r = R[s] /\ g = Incref(h, r) /\ d = default
  OBVIOUS
<1>2. Good(h, R) /\ h \in Heaps /\ Shape(h) /\ R \in Roots /\ r \in RootNodes \cup {Nil}
  BY <1>1, InvFacts DEF StaticInv
<1>3. Good(g, With(R, t, r))
  BY <1>1, <1>2, ForkGood
<1>4. TreeGood(Tree(g, r), R, t)
  BY <1>2, <1>3, MakeTree
<1>5. T = Tree(g, r) /\ T.heap = g /\ T.root = r
  <2>1. T = Tree(g, r)
    BY <1>1
  <2> QED
    BY <2>1 DEF Tree
<1>6. IsIncref(g, h, r)
  BY <1>1, <1>2, IncrefIs
<1>7. /\ g \in Heaps /\ Shape(g)
      /\ \A a \in Places : g[a].child = h[a].child /\ g[a].value = h[a].value
  BY <1>3, <1>6 DEF IsIncref, Good
<1>8. \A q \in RootNodes \cup {Nil}, e \in Fields : Same(g, q, h, q, e)
  BY <1>2, <1>7, SameRead
<1>9. \A u \in Tables : R[u] # NoTable => R[u] \in RootNodes \cup {Nil}
  BY <1>1, InvFacts
<1>10. HashOf(g, r, d) = HashOf(h, r, d)
  <2>1. \A e \in Fields : Same(g, r, h, r, e) /\ (d[e] = d[e] \/ Find(h, r, e) = Nil)
    BY <1>2, <1>8
  <2> QED
    BY <2>1, HashSame
<1>11. HashOf(h, r, d) = hash[s]
  BY <1>1 DEF StaticInv, HashRight
<1> QED
  BY <1>1, <1>2, <1>4, <1>5, <1>8, <1>9, <1>10, <1>11

LEMMA ForkInv ==
  ASSUME StaticInv, NEW s \in Tables, NEW t \in Tables, Fork(s, t)
  PROVE  StaticInv'
<1>1. PICK T, g, q, c : T = Tree(Incref(heap, root[s]), root[s]) /\ g = T.heap /\ q = T.root /\ c = hash[s]
  OBVIOUS
<1>2. root[s] # NoTable /\ root[t] = NoTable /\ default' = default /\ fault' = fault
  BY DEF Fork, Live
<1>3. /\ TreeGood(T, root, t)
      /\ g = Incref(heap, root[s]) /\ q = root[s]
      /\ HashOf(g, q, default) = hash[s]
      /\ \A e \in Fields : Same(g, q, heap, root[s], e)
      /\ \A u \in Tables \ {t} : root[u] # NoTable =>
           \A e \in Fields : Same(g, root[u], heap, root[u], e)
  BY <1>1, <1>2, ForkTree
<1>4. heap' = g /\ root' = [root EXCEPT ![t] = q] /\ hash' = [hash EXCEPT ![t] = c]
  BY <1>1, <1>3 DEF Fork
<1>5. Good(g, With(root, t, q)) /\ q \in RootNodes \cup {Nil, NoTable}
  <2>1. PICK R : R = root
    OBVIOUS
  <2>2. Good(g, With(R, t, q)) /\ q \in RootNodes \cup {Nil}
    BY <2>1, <1>1, <1>3, TreeFields
  <2> QED
    BY <2>1, <2>2
<1>6. c \in HashCodes /\ default' \in [Fields -> Defaults] /\ fault' \in BOOLEAN
  BY <1>1, <1>2 DEF StaticInv
<1>7. \A e \in Fields : default'[e] = default[e] \/ default[e] = Nil
  BY <1>2
<1>8. c = HashOf(g, q, default')
  BY <1>1, <1>2, <1>3
<1>9. \A e \in Fields : Find(g, q, e) # Nil => default'[e] # Nil
  BY <1>2, <1>3 DEF Same, StaticInv, DefaultsKnown
<1> QED
  BY <1>3, <1>4, <1>5, <1>6, <1>7, <1>8, <1>9, ChangeInv

\* What the loop leaves: the final tree of a callee
LEMMA CalleeTree ==
  ASSUME StaticInv, NEW s \in Tables, NEW t \in Tables, root[s] # NoTable, root[t] = NoTable,
         NEW x0, x0 = [tree |-> Tree(Incref(heap, root[s]), root[s]), hash |-> hash[s], fault |-> FALSE]
  PROVE  Resolving(x0, root, t)
<1>1. PICK T, c, R : T = Tree(Incref(heap, root[s]), root[s]) /\ c = hash[s] /\ R = root
  OBVIOUS
<1>2. TreeGood(T, R, t) /\ HashOf(T.heap, T.root, default) = c
  BY <1>1, ForkTree
<1>3. T \in Trees
  BY <1>2 DEF TreeGood
<1>4. c \in HashCodes
  BY <1>1 DEF StaticInv
<1>5. x0 = [tree |-> T, hash |-> c, fault |-> FALSE]
  BY <1>1
<1>6. x0.tree = T /\ x0.hash = c /\ x0 \in [tree : Trees, hash : HashCodes, fault : BOOLEAN]
  BY <1>3, <1>4, <1>5
<1> QED
  BY <1>1, <1>2, <1>6 DEF Resolving

LEMMA ForkCalleeInv ==
  ASSUME StaticInv, NEW s \in Tables, NEW t \in Tables, ForkCallee(s, t)
  PROVE  StaticInv'
<1>1. root[s] # NoTable /\ root[t] = NoTable /\ default' = default
  BY DEF ForkCallee, Live
<1>2. PICK x0, T, R : /\ T = Tree(Incref(heap, root[s]), root[s]) /\ R = root
                      /\ x0 = [tree |-> T, hash |-> hash[s], fault |-> FALSE]
  OBVIOUS
<1>3. PICK x : /\ x = ResolveAll(x0)
               /\ SetTree(t, x.tree) /\ hash' = [hash EXCEPT ![t] = x.hash] /\ fault' = x.fault
  BY <1>2 DEF ForkCallee
<1>4. Resolving(x0, R, t)
  BY <1>1, <1>2, CalleeTree
<1>5. PICK turn : IsLoop(turn, x0, R, t) /\ x = turn[FieldCount]
  BY <1>3, <1>4, ResolveAllIs
<1>6. FieldCount \in 0 .. FieldCount
  BY ConstantsAssumption
<1>7. /\ SameBut(x.tree, x0.tree, R, t, Fields)
      /\ \A f \in Fields : Find(x.tree.heap, x.tree.root, f) = Nil <=>
                           Find(x0.tree.heap, x0.tree.root, f) = Nil
  BY <1>5, <1>6, LoopSame
<1>8. Resolving(x, R, t)
  BY <1>5, <1>6 DEF IsLoop
<1>9. PICK U, g, q, c : U = x.tree /\ g = U.heap /\ q = U.root /\ c = x.hash
  OBVIOUS
<1>10. /\ TreeGood(U, R, t) /\ c = HashOf(g, q, default)
       /\ x \in [tree : Trees, hash : HashCodes, fault : BOOLEAN]
  BY <1>8, <1>9 DEF Resolving
<1>11. c \in HashCodes /\ fault' \in BOOLEAN
  BY <1>3, <1>9, <1>10
<1>12. heap' = g /\ root' = [root EXCEPT ![t] = q] /\ hash' = [hash EXCEPT ![t] = c]
  BY <1>3, <1>9 DEF SetTree
<1>13. Good(g, With(root, t, q)) /\ q \in RootNodes \cup {Nil, NoTable}
  <2>1. Good(g, With(R, t, q)) /\ q \in RootNodes \cup {Nil}
    BY <1>9, <1>10, TreeFields
  <2> QED
    BY <2>1, <1>2
<1>14. /\ \A e \in Fields : Same(T.heap, T.root, heap, root[s], e)
       /\ \A u \in Tables \ {t} : root[u] # NoTable =>
            \A e \in Fields : Same(T.heap, root[u], heap, root[u], e)
  BY <1>1, <1>2, ForkTree
<1>15. x0.tree = T
  BY <1>2
<1>16. \A u \in Tables \ {t} : root[u] # NoTable =>
         \A e \in Fields : Same(g, root[u], heap, root[u], e)
  BY <1>2, <1>7, <1>9, <1>14, <1>15 DEF SameBut, Same
<1>17. \A e \in Fields : Find(g, q, e) # Nil => default'[e] # Nil
  <2>1. \A e \in Fields : Find(heap, root[s], e) # Nil => default[e] # Nil
    BY <1>1 DEF StaticInv, DefaultsKnown
  <2>2. \A e \in Fields : Find(g, q, e) # Nil => Find(heap, root[s], e) # Nil
    BY <1>7, <1>9, <1>14, <1>15 DEF Same
  <2> QED
    BY <2>1, <2>2, <1>1
<1>18. /\ default' \in [Fields -> Defaults] /\ c = HashOf(g, q, default')
       /\ \A e \in Fields : default'[e] = default[e] \/ default[e] = Nil
  BY <1>1, <1>10 DEF StaticInv
<1> QED
  BY <1>11, <1>12, <1>13, <1>16, <1>17, <1>18, ChangeInv

LEMMA StutterInv ==
  ASSUME StaticInv, UNCHANGED vars
  PROVE  StaticInv'
  BY DEF StaticInv, vars, DefaultsKnown, HashRight

LEMMA NextInv ==
  ASSUME StaticInv, [Next]_vars
  PROVE  StaticInv'
<1>1. CASE UNCHANGED vars
  BY <1>1, StutterInv
<1>2. CASE \E t \in Tables : New(t) \/ Free(t)
  BY <1>2, NewInv, FreeInv
<1>3. CASE \E s, t \in Tables : Fork(s, t) \/ ForkCallee(s, t)
  BY <1>3, ForkInv, ForkCalleeInv
<1>4. CASE \E t \in Tables, f \in Fields : Sget(t, f) \/ SputFails(t, f)
  BY <1>4, SgetInv, SputFailsInv
<1>5. CASE \E t \in Tables, f \in Fields, v \in Inputs : Sput(t, f, v) \/ ApplyDiff(t, f, v)
  BY <1>5, SputInv, ApplyDiffInv
<1> QED
  BY <1>1, <1>2, <1>3, <1>4, <1>5 DEF Next

\* The inductive invariant of the static tables: good memory, known defaults
\* and right hash codes, kept by every operation of a frame.
THEOREM StaticInvariant == Spec => []StaticInv
<1>1. Init => StaticInv
  BY InitInv
<1>2. StaticInv /\ [Next]_vars => StaticInv'
  BY NextInv
<1> QED
  BY <1>1, <1>2, PTL DEF Spec

LEMMA InvTypeOK ==
  ASSUME StaticInv
  PROVE  TypeOK
<1>1. PICK h, R : h = heap /\ R = root /\ Good(h, R)
  BY DEF StaticInv
<1>2. h \in Heaps /\ R \in Roots /\ Shape(h)
  BY <1>1 DEF Good
<1>3. Cardinality(Tables) \in Nat
  BY PointersAssumption, FS_CardinalityType
<1>4. ASSUME NEW a \in Places
      PROVE  /\ h[a].refcnt \in 0 .. Cardinality(Tables) + 1
             /\ h[a].reloc \in BOOLEAN
             /\ h[a].value \subseteq Addresses
             /\ \A d \in 1 .. 2 : h[a].child[d] # Nil =>
                   SegmentOf(h[a].child[d]) = Half(SegmentOf(a), d)
  <2>1. h[a].refcnt \in Nat /\ h[a].reloc \in BOOLEAN /\ h[a].value \in SUBSET Addresses
    BY <1>2, NodeFields
  <2>2. h[a].refcnt <= Cardinality(Tables)
    BY <1>1, CounterBound
  <2>3. h[a].refcnt \in 0 .. Cardinality(Tables) + 1
    BY <2>1, <2>2, <1>3
  <2>4. \A d \in 1 .. 2 : h[a].child[d] # Nil => SegmentOf(h[a].child[d]) = Half(SegmentOf(a), d)
    BY <1>2 DEF Shape
  <2> QED
    BY <2>1, <2>3, <2>4
<1>5. \A t \in Tables : R[t] # NoTable /\ R[t] # Nil => SegmentOf(R[t]) = <<0, FieldCount>>
  BY <1>2 DEF Roots, RootNodes, Whole
<1>6. default \in [Fields -> Addresses \cup {Nil}]
  <2>1. Defaults \subseteq Addresses \cup {Nil}
    BY DEF Defaults, Addresses, Constant
  <2> QED
    BY <2>1 DEF StaticInv
<1>7. fault \in BOOLEAN
  BY DEF StaticInv
<1> QED
  BY <1>1, <1>4, <1>5, <1>6, <1>7 DEF TypeOK, Live

LEMMA InvRefcnt ==
  ASSUME StaticInv
  PROVE  RefcntExact
<1>1. PICK h, R : h = heap /\ R = root /\ Good(h, R)
  BY DEF StaticInv
<1>2. h \in Heaps /\ R \in Roots /\ Shape(h) /\ FreeEmpty(h) /\ Exact(h, R)
  BY <1>1 DEF Good
<1>3. ASSUME NEW a \in Places
      PROVE  h[a].refcnt = Cardinality({t \in {u \in Tables : R[u] # NoTable} : R[t] = a})
                           + Cardinality({p \in Places : h[p].refcnt > 0 /\ a \in ToSet(h[p].child)})
  <2>1. a # Nil /\ a # NoTable
    BY PlaceIs
  <2>2. {t \in {u \in Tables : R[u] # NoTable} : R[t] = a} = RootsOf(R, a)
    BY <2>1 DEF RootsOf
  <2>3. ASSUME NEW p \in Places
        PROVE  h[p].refcnt > 0 /\ a \in ToSet(h[p].child) <=> \E d \in 1 .. 2 : h[p].child[d] = a
    <3>1. ToSet(h[p].child) = {h[p].child[1], h[p].child[2]}
      BY <1>2, ToSetKids DEF Kids
    <3>2. h[p].refcnt \in Nat
      BY <1>2, NodeFields
    <3>3. h[p].refcnt = 0 => \A d \in 1 .. 2 : h[p].child[d] = Nil
      BY <1>2 DEF FreeEmpty
    <3>4. (\E d \in 1 .. 2 : h[p].child[d] = a) <=> h[p].child[1] = a \/ h[p].child[2] = a
      <4>1. \A d \in 1 .. 2 : d = 1 \/ d = 2
        OBVIOUS
      <4> QED
        BY <4>1
    <3>5. (\E d \in 1 .. 2 : h[p].child[d] = a) => h[p].refcnt > 0
      BY <3>2, <3>3, <2>1
    <3> QED
      BY <3>1, <3>4, <3>5
  <2>4. {p \in Places : h[p].refcnt > 0 /\ a \in ToSet(h[p].child)} = Parents(h, a)
    BY <2>3 DEF Parents
  <2> QED
    BY <2>2, <2>4, <1>2 DEF Exact
<1> QED
  BY <1>1, <1>3 DEF RefcntExact, Live

LEMMA InvHash ==
  ASSUME StaticInv
  PROVE  HashExact
  BY ComputeHashIs DEF StaticInv, HashRight, HashExact, Live

\* Every reachable state has the types of the table's memory, and no counter
\* of a node exceeds the number of tables (cesk_static.c:20).
THEOREM TypeCorrect == Spec => []TypeOK
<1>1. StaticInv => TypeOK
  BY InvTypeOK
<1> QED
  BY <1>1, StaticInvariant, PTL

\* For any number of fields and tables, and any values: the counter of every
\* node is the number of pointers to it.  Copying a shared path, inserting
\* below it, resolving a callee's fields and freeing a table that shares
\* subtrees neither leak a node nor free one that is still in use
\* (cesk_static.c:84-102, 179-199, 204-240).
THEOREM CountsExact == Spec => []RefcntExact
<1>1. StaticInv => RefcntExact
  BY InvRefcnt
<1> QED
  BY <1>1, StaticInvariant, PTL

\* The incremental hash code of every table is the one computed from its
\* content, after every mixture of reads that create fields, writes, diffs,
\* forks and resolutions (cesk_static.h:154-160).
THEOREM HashesExact == Spec => []HashExact
<1>1. StaticInv => HashExact
  BY InvHash
<1> QED
  BY <1>1, StaticInvariant, PTL

-----------------------------------------------------------------------------
(***************************************************************************)
(* The search for the next field.  Every living inner node has a child, so *)
(* that the leftmost leaf below a node is the first field of its segment.  *)
(***************************************************************************)
Full(h) ==
  \A a \in Places : h[a].refcnt # 0 /\ ~IsLeaf(SegmentOf(a)) =>
    \E d \in 1 .. 2 : h[a].child[d] # Nil

Rich(h, r) ==
  \A a \in Places : On(h, r, a) /\ ~IsLeaf(SegmentOf(a)) => \E d \in 1 .. 2 : h[a].child[d] # Nil

LEMMA FullRich ==
  ASSUME NEW h, NEW R, Good(h, R), Full(h), NEW t \in Tables, R[t] \in RootNodes \cup {Nil}
  PROVE  Rich(h, R[t])
<1>1. PICK r : r = R[t]
  OBVIOUS
<1>2. ASSUME NEW a \in Places, On(h, r, a), ~IsLeaf(SegmentOf(a))
      PROVE  \E d \in 1 .. 2 : h[a].child[d] # Nil
  <2>1. PICK s, f, i : s = SegmentOf(a) /\ f = s[1] /\ i = LevelOf(s)
    OBVIOUS
  <2>2. s \in Segments
    BY <2>1, PlaceIs
  <2>3. f \in Fields /\ In(f, s) /\ i \in 1 .. Len(Path[f])
    BY <2>1, <2>2, SegmentLevel
  <2>4. Nodes(h, r, f)[i] = a /\ a # Nil
    BY <2>1, <2>3, <1>2, PlaceIs DEF On
  <2>5. h[Nodes(h, R[t], f)[i]].refcnt # 0
    BY <2>3, <2>4, <1>1, NodesLive
  <2> QED
    BY <2>4, <2>5, <1>1, <1>2 DEF Full
<1> QED
  BY <1>1, <1>2 DEF Rich

LEMMA StepLeftIs ==
  ASSUME NEW h \in Heaps, Shape(h), NEW r \in RootNodes \cup {Nil}, Rich(h, r),
         NEW a, On(h, r, a)
  PROVE  /\ On(h, r, StepLeft(h, a))
         /\ IsLeaf(SegmentOf(a)) => StepLeft(h, a) = a
         /\ ~IsLeaf(SegmentOf(a)) =>
              \/ StepLeft(h, a) = h[a].child[1] /\ h[a].child[1] # Nil
              \/ StepLeft(h, a) = h[a].child[2] /\ h[a].child[2] # Nil /\ h[a].child[1] = Nil
<1>1. CASE IsLeaf(SegmentOf(a))
  BY <1>1 DEF StepLeft
<1>2. CASE ~IsLeaf(SegmentOf(a))
  <2>1. PICK d \in 1 .. 2 : h[a].child[d] # Nil
    BY <1>2 DEF Rich, On
  <2>2. d = 1 \/ d = 2
    OBVIOUS
  <2>3. CASE h[a].child[1] # Nil
    <3>1. StepLeft(h, a) = h[a].child[1]
      BY <2>3, <1>2 DEF StepLeft
    <3>2. On(h, r, h[a].child[1])
      BY <2>3, OnChild
    <3> QED
      BY <3>1, <3>2, <2>3, <1>2
  <2>4. CASE h[a].child[1] = Nil
    <3>1. StepLeft(h, a) = h[a].child[2] /\ h[a].child[2] # Nil
      BY <2>1, <2>2, <2>4, <1>2 DEF StepLeft
    <3>2. On(h, r, h[a].child[2])
      BY <3>1, OnChild
    <3> QED
      BY <3>1, <3>2, <2>4, <1>2
  <2> QED
    BY <2>3, <2>4
<1> QED
  BY <1>1, <1>2

IsLeftDescent(down, h, r, n) ==
  /\ down[0] = n
  /\ \A k \in 0 .. Depth : On(h, r, down[k])
  /\ \A k \in 1 .. Depth : down[k] = StepLeft(h, down[k - 1])

LEMMA LeftDescent ==
  ASSUME NEW h \in Heaps, Shape(h), NEW r \in RootNodes \cup {Nil}, Rich(h, r),
         NEW n \in Places, On(h, r, n)
  PROVE  \E down : IsLeftDescent(down, h, r, n) /\ Leftmost(h, n) = SegmentOf(down[Depth])[1]
<1> DEFINE N == Depth
           X == {a \in Places : On(h, r, a)}
           P(y) == StepLeft(h, y)
           F == [k \in 1 .. N |-> [y \in X |-> P(y)]]
           Def(w) == [k \in 0 .. N |-> IF k = 0 THEN n ELSE P(w[k - 1])]
           down == CHOOSE w : w = Def(w)
<1>0. Leftmost(h, n) = SegmentOf(down[N])[1]
  BY Zenon DEF Leftmost
<1>1. N \in Nat
  BY DepthIs
<1>2. n \in X
  OBVIOUS
<1>3. ASSUME NEW y \in X PROVE P(y) \in X
  <2>1. On(h, r, P(y))
    BY StepLeftIs
  <2> QED
    BY <2>1 DEF On
<1>3b. \A y \in X : On(h, r, y)
  OBVIOUS
<1> HIDE DEF N, P, X
<1>4. F \in [1 .. N -> [X -> X]]
  BY <1>3
<1>5. PICK g : IteratesFrom(g, N, X, n, F)
  <2> HIDE DEF F
  <2> QED
    BY <1>1, <1>2, <1>4, Iteration
<1>6. g \in [0 .. N -> X] /\ g[0] = n /\ \A i \in 1 .. N : g[i] = F[i][g[i - 1]]
  BY <1>5 DEF IteratesFrom
<1>7. ASSUME NEW i \in 1 .. N PROVE g[i] = P(g[i - 1])
  <2>1. g[i - 1] \in X
    BY <1>1, <1>6
  <2>2. F[i][g[i - 1]] = P(g[i - 1])
    BY <2>1, Zenon
  <2> QED
    BY <1>6, <2>2
<1> HIDE DEF F
<1>8. \A i \in 0 .. N : g[i] = IF i = 0 THEN n ELSE P(g[i - 1])
  <2>1. \A i \in 0 .. N : i = 0 \/ i \in 1 .. N
    BY <1>1
  <2> QED
    BY <2>1, <1>6, <1>7
<1>9. \E w : w = Def(w)
  BY <1>6, <1>8
<1>10. down = Def(down)
  <2> HIDE DEF Def
  <2> QED
    BY <1>9, Zenon
<1> HIDE DEF down
<1>11. down[0] = n
  BY <1>1, <1>10
<1>12. ASSUME NEW i \in 1 .. N PROVE down[i] = P(down[i - 1])
  <2>1. i \in 0 .. N /\ i # 0
    BY <1>1
  <2>2. down[i] = Def(down)[i]
    BY <1>10
  <2> QED
    BY <2>1, <2>2
<1> HIDE DEF Def
<1> DEFINE S == {i \in 0 .. N : down[i] \in X}
<1>14. 0 \in S
  BY <1>1, <1>2, <1>11
<1>15. ASSUME NEW i \in 0 .. N - 1, i \in S PROVE i + 1 \in S
  <2>1. i + 1 \in 1 .. N /\ i + 1 \in 0 .. N /\ (i + 1) - 1 = i
    BY <1>1
  <2>2. down[i + 1] = P(down[i]) /\ down[i] \in X
    BY <2>1, <1>12, <1>15
  <2> QED
    BY <2>1, <2>2, <1>3
<1>16. 0 .. N \subseteq S
  <2> HIDE DEF S
  <2> QED
    BY <1>1, <1>14, <1>15, SetInduction
<1>17. \A k \in 0 .. N : On(h, r, down[k])
  BY <1>3b, <1>16
<1>18. IsLeftDescent(down, h, r, n)
  BY <1>11, <1>12, <1>17 DEF IsLeftDescent, N, P
<1> QED
  BY <1>0, <1>18 DEF N

\* A node that is missing on a path hides the field.
LEMMA NilBelow ==
  ASSUME NEW h \in Heaps, Shape(h), NEW r \in RootNodes \cup {Nil}, NEW f \in Fields,
         NEW i \in 1 .. Len(Path[f]), Nodes(h, r, f)[i] = Nil
  PROVE  Find(h, r, f) = Nil
<1>1. PICK ns, L : ns = Nodes(h, r, f) /\ L = Len(Path[f]) /\ L \in Nat \ {0}
  BY PathFacts
<1>2. Walk(ns, h, r, f)
  BY <1>1, NodesWalk
<1>3. \A j \in 1 .. L : j # L /\ ns[j] = Nil => ns[j + 1] = Nil
  BY <1>1, <1>2 DEF Walk, Child
<1> DEFINE S == {k \in 0 .. L - i : ns[i + k] = Nil}
<1>4. 0 \in S
  BY <1>1
<1>5. ASSUME NEW k \in 0 .. (L - i) - 1, k \in S PROVE k + 1 \in S
  <2>1. PICK j : j = i + k /\ j \in 1 .. L /\ j # L /\ k + 1 \in 0 .. L - i /\ i + (k + 1) = j + 1
    BY <1>1
  <2>2. ns[j + 1] = Nil
    BY <2>1, <1>3, <1>5
  <2> QED
    BY <2>1, <2>2
<1>6. 0 .. L - i \subseteq S
  <2> HIDE DEF S
  <2>1. L - i \in Nat
    BY <1>1
  <2> QED
    BY <2>1, <1>4, <1>5, SetInduction
<1>7. PICK k : k = L - i
  OBVIOUS
<1>7b. k \in 0 .. L - i /\ i + k = L
  <2>1. L \in Nat /\ i \in 1 .. L
    BY <1>1
  <2> QED
    BY <2>1, <1>7
<1>8. ns[L] = Nil
  <2>1. k \in S
    BY <1>6, <1>7b
  <2> QED
    BY <2>1, <1>7b
<1> QED
  BY <1>1, <1>8 DEF Find

\* The leftmost leaf below a node is the first field of its segment.
LEMMA LeftmostIs ==
  ASSUME NEW h \in Heaps, Shape(h), NEW r \in RootNodes \cup {Nil}, Rich(h, r),
         NEW n \in Places, On(h, r, n)
  PROVE  /\ Leftmost(h, n) \in Fields /\ In(Leftmost(h, n), SegmentOf(n))
         /\ Find(h, r, Leftmost(h, n)) # Nil
         /\ \A f \in Fields : In(f, SegmentOf(n)) /\ Find(h, r, f) # Nil => Leftmost(h, n) <= f
<1>1. PICK down, m : /\ IsLeftDescent(down, h, r, n) /\ m = Leftmost(h, n)
                     /\ m = SegmentOf(down[Depth])[1]
  BY LeftDescent
<1>2. Depth \in Nat \ {0}
  BY DepthIs
<1>3. /\ down[0] = n
      /\ \A k \in 0 .. Depth : On(h, r, down[k])
      /\ \A k \in 1 .. Depth : down[k] = StepLeft(h, down[k - 1])
  BY <1>1 DEF IsLeftDescent
<1>4. \A k \in 0 .. Depth : down[k] \in Places /\ down[k] # Nil
  BY <1>3, PlaceIs DEF On
<1>5. ASSUME NEW k \in 1 .. Depth
      PROVE  \/ down[k] = Nil
             \/ IsLeaf(SegmentOf(down[k - 1])) /\ down[k] = down[k - 1]
             \/ /\ down[k - 1] # Nil /\ ~IsLeaf(SegmentOf(down[k - 1]))
                /\ \E d \in 1 .. 2 : down[k] = h[down[k - 1]].child[d]
  <2>1. PICK a, j : j = k - 1 /\ a = down[j] /\ j \in 0 .. Depth
    BY <1>2
  <2>2. On(h, r, a) /\ a # Nil /\ down[k] = StepLeft(h, a)
    BY <2>1, <1>3, <1>4
  <2> QED
    BY <2>1, <2>2, StepLeftIs
<1>6. On(h, r, down[Depth]) /\ IsLeaf(SegmentOf(down[Depth]))
  BY <1>3, <1>4, <1>5, DescentEnds
<1>7. m \in Fields /\ Find(h, r, m) # Nil
  <2>1. PICK a : a = down[Depth] /\ a # Nil
    BY <1>2, <1>4
  <2>2. On(h, r, a) /\ IsLeaf(SegmentOf(a))
    BY <2>1, <1>6
  <2> QED
    BY <2>1, <2>2, <1>1, OnLeaf
<1> DEFINE Good1(s) == /\ s \in Spans
                       /\ SegmentOf(n)[1] <= s[1] /\ s[2] <= SegmentOf(n)[2]
                       /\ \A f \in Fields : In(f, SegmentOf(n)) /\ Find(h, r, f) # Nil => s[1] <= f
           S == {k \in 0 .. Depth : Good1(SegmentOf(down[k]))}
<1>8. 0 \in S
  <2>1. SegmentOf(n) \in Spans
    BY PlaceIs, SegmentLevel
  <2> QED
    BY <2>1, <1>2, <1>3 DEF In, Spans
<1>9. ASSUME NEW k \in 0 .. Depth - 1, k \in S PROVE k + 1 \in S
  <2>1. PICK i, a, b : i = k + 1 /\ a = down[k] /\ b = down[i]
    OBVIOUS
  <2>2. i \in 1 .. Depth /\ i \in 0 .. Depth /\ i - 1 = k /\ k \in 0 .. Depth
    BY <2>1, <1>2
  <2>3. On(h, r, a) /\ a \in Places /\ b = StepLeft(h, a) /\ b \in Places
    BY <2>1, <2>2, <1>3, <1>4
  <2>4. PICK s, u, w : s = SegmentOf(a) /\ u = SegmentOf(b) /\ w = SegmentOf(n)
    OBVIOUS
  <2>5. Good1(s)
    BY <2>1, <2>4, <1>9
  <2>6. s \in Segments /\ u \in Segments /\ u \in Spans
    BY <2>3, <2>4, PlaceIs, SegmentLevel
  <2>7. Good1(u)
    <3>1. CASE IsLeaf(s)
      <4>1. u = s
        BY <3>1, <2>3, <2>4, StepLeftIs
      <4> QED
        BY <4>1, <2>5
    <3>2. CASE ~IsLeaf(s)
      <4>1. PICK d \in 1 .. 2 : /\ b = h[a].child[d] /\ h[a].child[d] # Nil
                                /\ d = 2 => h[a].child[1] = Nil
        BY <3>2, <2>3, <2>4, StepLeftIs
      <4>2. u = Half(s, d)
        BY <4>1, <2>3, <2>4 DEF Shape
      <4>3. s[1] \in Int /\ s[2] \in Int /\ s[2] - s[1] > 1
        BY <3>2, <2>5 DEF Spans, IsLeaf
      <4>4. s[1] < Middle(s) /\ Middle(s) < s[2]
        BY <4>3 DEF Middle
      <4>5. s[1] <= u[1] /\ u[2] <= s[2] /\ (d = 1 => u[1] = s[1]) /\ (d = 2 => u[1] = Middle(s))
        <5>1. PICK x : x = Middle(s) /\ x \in Int
          BY <4>3 DEF Middle
        <5>2. CASE d = 1
          <6>1. u = <<s[1], x>>
            BY <5>1, <5>2, <4>2 DEF Half
          <6> QED
            BY <6>1, <5>1, <5>2, <4>3, <4>4
        <5>3. CASE d = 2
          <6>1. u = <<x, s[2]>>
            BY <5>1, <5>3, <4>2 DEF Half
          <6> QED
            BY <6>1, <5>1, <5>3, <4>3, <4>4
        <5> QED
          BY <5>2, <5>3
      <4>6. w[1] <= u[1] /\ u[2] <= w[2]
        <5>1. w \in Spans
          BY <2>4, PlaceIs, SegmentLevel
        <5>2. w[1] \in Int /\ w[2] \in Int /\ u[1] \in Int /\ u[2] \in Int
          BY <5>1, <2>6 DEF Spans
        <5> QED
          BY <5>2, <4>3, <4>5, <2>4, <2>5
      <4>7. ASSUME NEW f \in Fields, In(f, w), Find(h, r, f) # Nil PROVE u[1] <= f
        <5>1. s[1] <= f /\ f \in Int /\ f < w[2]
          BY <4>7, <2>4, <2>5 DEF Fields, In
        <5>2. CASE d = 1
          BY <5>1, <5>2, <4>5
        <5>3. CASE d = 2
          <6>1. SUFFICES ASSUME f < Middle(s) PROVE FALSE
            BY <5>1, <5>3, <4>3, <4>5 DEF Middle
          <6>2. In(f, s) /\ Direction(s, f) = 1
            BY <6>1, <5>1, <4>3, <4>4 DEF In, Direction, Middle
          <6>3. PICK l : l = LevelOf(s) /\ l \in 1 .. Len(Path[f]) /\ Path[f][l] = s
            BY <6>2, <2>6, SegmentLevel
          <6>4. Nodes(h, r, f)[l] = a
            BY <6>2, <6>3, <2>3, <2>4 DEF On
          <6>5. l # Len(Path[f]) /\ l + 1 \in 1 .. Len(Path[f])
            BY <6>3, <3>2, PathFacts
          <6>6. Nodes(h, r, f)[l + 1] = Child(h, a, 1)
            <7>1. PICK ns : ns = Nodes(h, r, f)
              OBVIOUS
            <7>2. Walk(ns, h, r, f)
              BY <7>1, NodesWalk
            <7>3. ns[l + 1] = Child(h, ns[l], Direction(Path[f][l], f))
              BY <7>2, <6>3, <6>5 DEF Walk
            <7> QED
              BY <7>1, <7>3, <6>2, <6>3, <6>4
          <6>7. Child(h, a, 1) = Nil
            BY <5>3, <4>1, <2>3, PlaceIs DEF Child
          <6>8. Find(h, r, f) = Nil
            BY <6>5, <6>6, <6>7, NilBelow
          <6> QED
            BY <6>8, <4>7
        <5> QED
          BY <5>2, <5>3
      <4> QED
        BY <4>6, <4>7, <2>4, <2>6
    <3> QED
      BY <3>1, <3>2
  <2> QED
    BY <2>1, <2>2, <2>4, <2>7
<1> HIDE DEF S
<1>10. 0 .. Depth \subseteq S
  BY <1>2, <1>8, <1>9, SetInduction
<1>11. PICK s : s = SegmentOf(down[Depth]) /\ m = s[1] /\ Good1(s) /\ s \in Segments
  <2>1. Depth \in S
    BY <1>2, <1>10
  <2>2. Good1(SegmentOf(down[Depth]))
    BY <2>1 DEF S
  <2>3. SegmentOf(down[Depth]) \in Segments
    BY <1>2, <1>4, PlaceIs
  <2> QED
    BY <2>2, <2>3, <1>1
<1>12. In(m, SegmentOf(n))
  <2>1. In(s[1], s) /\ SegmentOf(n) \in Spans
    BY <1>11, SegmentLevel, PlaceIs
  <2> QED
    BY <2>1, <1>11 DEF In, Spans
<1> QED
  BY <1>1, <1>7, <1>11, <1>12

LEMMA NodesSeq ==
  ASSUME NEW h \in Heaps, Shape(h), NEW r \in RootNodes \cup {Nil}, NEW f \in Fields
  PROVE  Nodes(h, r, f) \in Seq(Pointers) /\ Len(Nodes(h, r, f)) = Len(Path[f])
<1> DEFINE L == Len(Path[f])
           C(n, i) == Child(h, n, Direction(Path[f][i], f))
           Def(w) == [i \in 1 .. L |-> IF i = 1 THEN r ELSE C(w[i - 1], i - 1)]
           at == CHOOSE w : w = Def(w)
<1>0. Nodes(h, r, f) = at
  BY Zenon DEF Nodes
<1>1. L \in Nat \ {0}
  BY PathFacts
<1>2. PICK ns : ns = Nodes(h, r, f)
  OBVIOUS
<1>3. Walk(ns, h, r, f)
  BY <1>2, NodesWalk
<1>4. /\ ns[1] = r /\ \A i \in 1 .. L : ns[i] \in Pointers
      /\ \A i \in 1 .. L : i # L => ns[i + 1] = C(ns[i], i)
  BY <1>3 DEF Walk
<1> HIDE DEF L, C
<1>5. \E w : w = Def(w)
  <2> DEFINE w == [i \in 1 .. L |-> ns[i]]
  <2>1. ASSUME NEW i \in 1 .. L PROVE w[i] = IF i = 1 THEN r ELSE C(w[i - 1], i - 1)
    <3>1. w[i] = ns[i]
      OBVIOUS
    <3>2. CASE i = 1
      BY <3>1, <3>2, <1>4
    <3>3. CASE i # 1
      <4>1. PICK j : j = i - 1 /\ j \in 1 .. L /\ j # L /\ j + 1 = i
        BY <3>3, <1>1
      <4>2. w[j] = ns[j] /\ ns[j + 1] = C(ns[j], j)
        BY <4>1, <1>4
      <4> QED
        BY <3>1, <3>3, <4>1, <4>2
    <3> QED
      BY <3>2, <3>3
  <2>2. w = [i \in 1 .. L |-> w[i]]
    OBVIOUS
  <2> HIDE DEF w
  <2>3. w = Def(w)
    BY <2>1, <2>2
  <2> QED
    BY <2>3
<1>6. at = Def(at)
  <2> HIDE DEF Def
  <2> QED
    BY <1>5, Zenon
<1> HIDE DEF at
<1>7. DOMAIN at = 1 .. L /\ at = [i \in DOMAIN at |-> at[i]]
  BY <1>6
<1>8. ns = [i \in 1 .. L |-> ns[i]]
  <2>1. ns = at
    BY <1>0, <1>2
  <2> QED
    BY <2>1, <1>7
<1>9. ns \in [1 .. L -> Pointers]
  BY <1>4, <1>8
<1>10. ns \in Seq(Pointers) /\ Len(ns) = L
  BY <1>1, <1>9
<1> QED
  BY <1>2, <1>10 DEF L

LEMMA GreatestMember ==
  ASSUME NEW n \in Nat, NEW S \in SUBSET (1 .. n), S # {}
  PROVE  \E m \in S : \A k \in S : k <= m
<1> DEFINE Z == {i \in Nat : \E k \in S : i = n - k}
<1>1. PICK x : x \in S
  OBVIOUS
<1>2. n - x \in Z
  BY <1>1
<1>3. Z \in SUBSET Nat
  OBVIOUS
<1>4. PICK z \in Z : \A i \in Z : z <= i
  <2> HIDE DEF Z
  <2> QED
    BY <1>2, <1>3, LeastMember
<1>5. PICK m \in S : z = n - m
  OBVIOUS
<1>6. ASSUME NEW k \in S PROVE k <= m
  <2>1. PICK i : i = n - k /\ i \in Z
    OBVIOUS
  <2>2. z <= i
    BY <2>1, <1>4
  <2> QED
    BY <2>1, <2>2, <1>5
<1> QED
  BY <1>6

LEMMA MiddleIs ==
  ASSUME NEW s \in Spans, ~IsLeaf(s)
  PROVE  Middle(s) \in Int /\ s[1] < Middle(s) /\ Middle(s) < s[2]
         /\ s[1] \in Int /\ s[2] \in Int
         /\ Half(s, 1) = <<s[1], Middle(s)>> /\ Half(s, 2) = <<Middle(s), s[2]>>
<1>1. s[1] \in Int /\ s[2] \in Int /\ s[2] - s[1] > 1
  BY DEF Spans, IsLeaf
<1> QED
  BY <1>1 DEF Middle, Half

\* The ancestors with an unvisited right child, as Climb collects them
Open(h, ns, f) ==
  {i \in 1 .. Len(Path[f]) - 1 : ns[i] # Nil /\ h[ns[i]].child[2] \notin {Nil, ns[i + 1]}}

Deepest(x) == CHOOSE i \in x : \A j \in x : j <= i

LEMMA ClimbOpen ==
  ASSUME NEW h \in Heaps, Shape(h), NEW r \in RootNodes \cup {Nil}, NEW f \in Fields,
         NEW ns, ns = Nodes(h, r, f)
  PROVE  Climb(h, ns) = IF Open(h, ns, f) = {} THEN Nil
                        ELSE Leftmost(h, h[ns[Deepest(Open(h, ns, f))]].child[2])
<1> DEFINE Q(x) == IF x = {} THEN Nil ELSE Leftmost(h, h[ns[Deepest(x)]].child[2])
           X == {i \in 1 .. Len(ns) - 1 : ns[i] # Nil /\ h[ns[i]].child[2] \notin {Nil, ns[i + 1]}}
<1>1. Len(ns) = Len(Path[f])
  BY NodesSeq
<1>2. Climb(h, ns) = Q(X)
  BY Zenon DEF Climb, Deepest
<1>3. X = Open(h, ns, f)
  BY <1>1 DEF Open
<1>4. Q(X) = Q(Open(h, ns, f))
  <2> HIDE DEF Q, X
  <2> QED
    BY <1>3
<1> QED
  BY <1>2, <1>4, Zenon

OpenAt(h, r, f, ns, i) ==
  /\ i \in 1 .. Len(Path[f]) /\ i + 1 \in 1 .. Len(Path[f])
  /\ ns[i] \in Places /\ SegmentOf(ns[i]) = Path[f][i] /\ On(h, r, ns[i])
  /\ Path[f][i] \in Spans /\ ~IsLeaf(Path[f][i])
  /\ i \in Open(h, ns, f) <=> (f < Middle(Path[f][i]) /\ h[ns[i]].child[2] # Nil)

\* The search goes on to the right of every node that was left to the left.
LEMMA OpenIs ==
  ASSUME NEW h \in Heaps, Shape(h), NEW r \in RootNodes \cup {Nil}, NEW f \in Fields,
         NEW ns, ns = Nodes(h, r, f), NEW i \in 1 .. Len(Path[f]) - 1, ns[i] # Nil
  PROVE  OpenAt(h, r, f, ns, i)
<1>1. PICK L, s, a : L = Len(Path[f]) /\ s = Path[f][i] /\ a = ns[i] /\ L \in Nat \ {0}
  BY PathFacts
<1>2. i \in 1 .. L /\ i + 1 \in 1 .. L /\ i # L
  BY <1>1
<1>3. Walk(ns, h, r, f)
  BY NodesWalk
<1>4. a \in Places /\ SegmentOf(a) = s /\ ns[i + 1] = Child(h, a, Direction(s, f))
  BY <1>1, <1>2, <1>3 DEF Walk, Pointers
<1>5. On(h, r, a)
  BY <1>1, <1>2, OnNodes
<1>6. s \in Spans /\ ~IsLeaf(s)
  BY <1>1, <1>2, PathFacts
<1>7. ns[i + 1] = h[a].child[Direction(s, f)]
  BY <1>4, PlaceIs DEF Child
<1>8. CASE f < Middle(s)
  <2>1. ns[i + 1] = h[a].child[1]
    BY <1>7, <1>8 DEF Direction
  <2>2. h[a].child[2] # Nil => h[a].child[2] # h[a].child[1]
    <3>1. SUFFICES ASSUME h[a].child[2] # Nil, h[a].child[2] = h[a].child[1] PROVE FALSE
      OBVIOUS
    <3>2. SegmentOf(h[a].child[2]) = Half(s, 2) /\ SegmentOf(h[a].child[1]) = Half(s, 1)
      BY <3>1, <1>4 DEF Shape
    <3>3. Half(s, 1) = Half(s, 2)
      BY <3>1, <3>2
    <3>4. <<s[1], Middle(s)>> = <<Middle(s), s[2]>> /\ s[1] < Middle(s) /\ s[1] \in Int /\ Middle(s) \in Int
      BY <3>3, <1>6, MiddleIs
    <3>5. s[1] = Middle(s)
      BY <3>4
    <3> QED
      BY <3>4, <3>5
  <2>3. i \in Open(h, ns, f) <=> h[a].child[2] # Nil
    BY <2>1, <2>2, <1>1 DEF Open
  <2> QED
    BY <2>3, <1>1, <1>2, <1>4, <1>5, <1>6, <1>8 DEF OpenAt
<1>9. CASE ~(f < Middle(s))
  <2>1. ns[i + 1] = h[a].child[2]
    BY <1>7, <1>9 DEF Direction
  <2>2. i \notin Open(h, ns, f)
    BY <2>1, <1>1 DEF Open
  <2> QED
    BY <2>2, <1>1, <1>2, <1>4, <1>5, <1>6, <1>9 DEF OpenAt
<1> QED
  BY <1>8, <1>9

\* m is the first field of the tree after f, or Nil
IsNext(m, h, r, f) ==
  \/ m = Nil /\ \A g \in Fields : f < g => Find(h, r, g) = Nil
  \/ /\ m \in Fields /\ f < m /\ Find(h, r, m) # Nil
     /\ \A g \in Fields : f < g /\ Find(h, r, g) # Nil => m <= g

\* Two paths part in a node where the smaller field goes left.
LEMMA Parting ==
  ASSUME NEW f \in Fields, NEW g \in Fields, f < g
  PROVE  \E i \in 1 .. Len(Path[f]) - 1 :
           /\ i \in 1 .. Len(Path[g]) /\ i + 1 \in 1 .. Len(Path[g])
           /\ Path[g][i] = Path[f][i] /\ In(g, Path[f][i])
           /\ f < Middle(Path[f][i]) /\ Middle(Path[f][i]) <= g
<1> DEFINE p == Path[f]
           L == Len(p)
           S == {i \in 1 .. L : In(g, p[i])}
<1>1. L \in Nat \ {0} /\ f \in Int /\ g \in Int
  BY PathFacts DEF Fields
<1>2. 1 \in S
  BY <1>1, PathFacts DEF In, Whole, Fields
<1>3. PICK i \in S : \A k \in S : k <= i
  <2>1. S \in SUBSET (1 .. L) /\ S # {} /\ L \in Nat
    BY <1>1, <1>2
  <2> HIDE DEF S, L
  <2> QED
    BY <2>1, GreatestMember
<1>4. PICK s : s = p[i]
  OBVIOUS
<1>5. i \in 1 .. L /\ In(g, s) /\ In(f, s) /\ s \in Spans /\ (IsLeaf(s) <=> i = L)
      /\ (i # L => p[i + 1] = Half(s, Direction(s, f)))
  BY <1>3, <1>4, PathFacts
<1>6. s[1] \in Int /\ s[2] \in Int /\ s[1] <= f /\ g < s[2]
  BY <1>5 DEF In, Spans
<1>7. ~IsLeaf(s)
  BY <1>1, <1>6 DEF IsLeaf
<1>8. i # L /\ i + 1 \in 1 .. L /\ i \in 1 .. L - 1
  BY <1>1, <1>5, <1>7
<1>9. ~In(g, p[i + 1])
  <2>1. SUFFICES ASSUME i + 1 \in S PROVE FALSE
    BY <1>8
  <2>2. i + 1 <= i
    BY <2>1, <1>3
  <2> QED
    BY <2>2, <1>5
<1>10. PICK d : d = Direction(s, f) /\ p[i + 1] = Half(s, d) /\ (d = 1 \/ d = 2)
  BY <1>5, <1>8 DEF Direction
<1>11. PICK x : x = Middle(s) /\ x \in Int /\ Half(s, 1) = <<s[1], x>> /\ Half(s, 2) = <<x, s[2]>>
  BY <1>5, <1>7, MiddleIs
<1>12. f < x /\ x <= g
  <2>1. CASE d = 1
    <3>1. f < x
      BY <2>1, <1>10, <1>11 DEF Direction
    <3>2. ~(s[1] <= g /\ g < x)
      BY <2>1, <1>9, <1>10, <1>11 DEF In
    <3> QED
      BY <3>1, <3>2, <1>1, <1>6, <1>11
  <2>2. CASE d = 2
    <3>1. ~(f < x)
      BY <2>2, <1>10, <1>11 DEF Direction
    <3>2. ~(x <= g /\ g < s[2])
      BY <2>2, <1>9, <1>10, <1>11 DEF In
    <3> QED
      BY <3>1, <3>2, <1>1, <1>6, <1>11
  <2> QED
    BY <2>1, <2>2, <1>10
<1>13. i \in 1 .. Len(Path[g]) /\ Path[g][i] = s
  <2>1. In(g, Path[f][i]) /\ i \in 1 .. Len(Path[f])
    BY <1>4, <1>5
  <2>2. \A j \in 1 .. i : j \in 1 .. Len(Path[g]) /\ Path[g][j] = Path[f][j]
    BY <2>1, PathsAgree
  <2>3. i \in 1 .. i
    BY <1>1, <1>5
  <2> QED
    BY <2>2, <2>3, <1>4
<1>14. i + 1 \in 1 .. Len(Path[g])
  <2>1. Len(Path[g]) \in Nat /\ (IsLeaf(Path[g][i]) <=> i = Len(Path[g]))
    BY <1>13, PathFacts
  <2> QED
    BY <2>1, <1>7, <1>13
<1> QED
  BY <1>4, <1>5, <1>8, <1>11, <1>12, <1>13, <1>14

LEMMA ClimbNext ==
  ASSUME NEW h \in Heaps, Shape(h), NEW r \in RootNodes \cup {Nil}, Rich(h, r), NEW f \in Fields
  PROVE  IsNext(Climb(h, Nodes(h, r, f)), h, r, f)
<1>1. PICK ns, O, L : ns = Nodes(h, r, f) /\ O = Open(h, ns, f) /\ L = Len(Path[f]) /\ L \in Nat \ {0}
  BY PathFacts
<1>2. O \in SUBSET (1 .. L - 1) /\ L - 1 \in Nat
  BY <1>1 DEF Open
<1>3. \A i \in O : ns[i] # Nil
  BY <1>1 DEF Open
\* a later field makes the node where its path parts an open one
<1>4. ASSUME NEW g \in Fields, f < g, Find(h, r, g) # Nil
      PROVE  \E i \in O : /\ In(g, Path[f][i]) /\ Middle(Path[f][i]) <= g
                          /\ Path[f][i] \in Spans /\ ~IsLeaf(Path[f][i])
  <2>1. PICK i \in 1 .. L - 1 :
          /\ i \in 1 .. Len(Path[g]) /\ i + 1 \in 1 .. Len(Path[g])
          /\ Path[g][i] = Path[f][i] /\ In(g, Path[f][i])
          /\ f < Middle(Path[f][i]) /\ Middle(Path[f][i]) <= g
    BY <1>1, <1>4, Parting
  <2>2. PICK ms, s : ms = Nodes(h, r, g) /\ s = Path[f][i]
    OBVIOUS
  <2>3. ms[i] = ns[i]
    <3>1. i \in 1 .. Len(Path[f]) /\ i \in 1 .. i
      BY <1>1
    <3> QED
      BY <3>1, <2>1, <2>2, <1>1, NodesAgree
  <2>4. ms[i] # Nil /\ ms[i + 1] # Nil
    BY <2>1, <2>2, <1>4, NilBelow
  <2>5. s \in Spans /\ ~IsLeaf(s)
    <3>1. i \in 1 .. L /\ i # L
      BY <1>1
    <3> QED
      BY <3>1, <2>2, <1>1, PathFacts
  <2>6. Direction(s, g) = 2
    <3>1. Middle(s) \in Int /\ g \in Int
      BY <2>5, MiddleIs DEF Fields
    <3> QED
      BY <3>1, <2>1, <2>2 DEF Direction
  <2>7. ms[i + 1] = Child(h, ms[i], 2)
    <3>1. i # Len(Path[g])
      BY <2>1, PathFacts
    <3>2. Walk(ms, h, r, g)
      BY <2>2, NodesWalk
    <3>3. ms[i + 1] = Child(h, ms[i], Direction(Path[g][i], g))
      BY <3>1, <3>2, <2>1 DEF Walk
    <3> QED
      BY <3>3, <2>1, <2>2, <2>6
  <2>8. h[ns[i]].child[2] # Nil
    BY <2>3, <2>4, <2>7 DEF Child
  <2>9. i \in Open(h, ns, f)
    <3>1. ns[i] # Nil /\ i \in 1 .. Len(Path[f]) - 1
      BY <2>3, <2>4, <1>1
    <3>2. OpenAt(h, r, f, ns, i)
      BY <3>1, <1>1, OpenIs
    <3> QED
      BY <3>2, <2>1, <2>8 DEF OpenAt
  <2> QED
    BY <2>1, <2>2, <2>5, <2>9, <1>1
<1>5. CASE O = {}
  <2>1. Climb(h, ns) = Nil
    BY <1>1, <1>5, ClimbOpen
  <2>2. \A g \in Fields : f < g => Find(h, r, g) = Nil
    BY <1>4, <1>5
  <2> QED
    BY <2>1, <2>2, <1>1 DEF IsNext
<1>6. CASE O # {}
  <2>1. \E i \in O : \A j \in O : j <= i
    BY <1>2, <1>6, GreatestMember
  <2>2. PICK i : i = Deepest(O)
    OBVIOUS
  <2>3. i \in O /\ \A j \in O : j <= i
    BY <2>1, <2>2, Zenon DEF Deepest
  <2>4. PICK a, s, n : a = ns[i] /\ s = Path[f][i] /\ n = h[a].child[2]
    OBVIOUS
  <2>5. Climb(h, ns) = Leftmost(h, n)
    BY <1>1, <1>6, <2>2, <2>4, ClimbOpen
  <2>6. i \in 1 .. L - 1
    BY <2>3, <1>2
  <2>7. /\ a \in Places /\ SegmentOf(a) = s /\ On(h, r, a) /\ s \in Spans /\ ~IsLeaf(s)
        /\ f < Middle(s) /\ n # Nil
    <3>1. i \in 1 .. Len(Path[f]) - 1 /\ ns[i] # Nil /\ i \in Open(h, ns, f)
      BY <2>3, <2>6, <1>1, <1>3
    <3>2. OpenAt(h, r, f, ns, i)
      BY <3>1, <1>1, OpenIs
    <3> QED
      BY <3>1, <3>2, <2>4 DEF OpenAt
  <2>8. On(h, r, n) /\ n \in Places /\ SegmentOf(n) = Half(s, 2)
    <3>1. On(h, r, n)
      BY <2>4, <2>7, OnChild
    <3>2. SegmentOf(n) = Half(s, 2)
      BY <2>4, <2>7 DEF Shape
    <3> QED
      BY <3>1, <3>2 DEF On
  <2>9. PICK m : m = Leftmost(h, n)
    OBVIOUS
  <2>10. /\ m \in Fields /\ In(m, Half(s, 2)) /\ Find(h, r, m) # Nil
         /\ \A g \in Fields : In(g, Half(s, 2)) /\ Find(h, r, g) # Nil => m <= g
    BY <2>8, <2>9, LeftmostIs
  <2>11. PICK x : /\ x = Middle(s) /\ x \in Int /\ Half(s, 2) = <<x, s[2]>>
                  /\ s[1] \in Int /\ s[2] \in Int /\ s[1] < x /\ x < s[2]
    BY <2>7, MiddleIs
  <2>12. f \in Int /\ m \in Int /\ x <= m /\ m < s[2] /\ f < m
    BY <2>7, <2>10, <2>11 DEF In, Fields
  <2>13. ASSUME NEW g \in Fields, f < g, Find(h, r, g) # Nil PROVE m <= g
    <3>1. PICK k \in O : /\ In(g, Path[f][k]) /\ Middle(Path[f][k]) <= g
                         /\ Path[f][k] \in Spans /\ ~IsLeaf(Path[f][k])
      BY <1>4, <2>13
    <3>2. k <= i /\ k \in 1 .. L - 1 /\ g \in Int
      BY <2>3, <1>2 DEF Fields
    <3>3. CASE k = i
      <4>1. In(g, s) /\ x <= g
        BY <3>1, <3>3, <2>4, <2>11
      <4>2. In(g, Half(s, 2))
        BY <4>1, <2>11 DEF In
      <4> QED
        BY <4>2, <2>10, <2>13
    <3>4. CASE k # i
      <4>1. PICK u, y : u = Path[f][k] /\ y = Middle(u) /\ u \in Spans /\ ~IsLeaf(u) /\ y <= g
        BY <3>1
      <4>2. y \in Int /\ Half(u, 1) = <<u[1], y>>
        BY <4>1, MiddleIs
      <4>3. f < y
        <5>1. ns[k] # Nil /\ k \in 1 .. Len(Path[f]) - 1 /\ k \in Open(h, ns, f)
          BY <3>2, <1>1, <1>3
        <5>2. OpenAt(h, r, f, ns, k)
          BY <5>1, <1>1, OpenIs
        <5> QED
          BY <5>1, <5>2, <4>1 DEF OpenAt
      <4>4. k \in 1 .. L /\ k # L /\ k + 1 \in 1 .. L /\ i \in 1 .. L /\ k + 1 <= i
        BY <3>2, <3>4, <2>6, <1>1
      <4>5. Path[f][k + 1] = Half(u, 1)
        BY <4>1, <4>3, <4>4, <1>1, PathFacts DEF Direction
      <4>6. s[2] <= Path[f][k + 1][2]
        <5>1. CASE k + 1 = i
          BY <5>1, <2>4, <2>11
        <5>2. CASE k + 1 # i
          <6>1. PICK j : j = k + 1 /\ j \in 1 .. L /\ j < i
            BY <5>2, <4>4
          <6> QED
            BY <6>1, <4>4, <2>4, <1>1, PathFacts
        <5> QED
          BY <5>1, <5>2
      <4>7. s[2] <= y
        BY <4>2, <4>5, <4>6
      <4> QED
        BY <4>1, <4>2, <4>7, <3>2, <2>11, <2>12
    <3> QED
      BY <3>3, <3>4
  <2>14. IsNext(m, h, r, f)
    BY <2>10, <2>12, <2>13 DEF IsNext
  <2> QED
    BY <2>5, <2>9, <2>14, <1>1
<1> QED
  BY <1>5, <1>6

(* The operations on the tree leave no inner node without a child. *)
LEMMA SameFull ==
  ASSUME NEW h, Full(h), NEW g, SamePointers(g, h)
  PROVE  Full(g)
  BY DEF Full, SamePointers

LEMMA PointingFull ==
  ASSUME NEW h \in Heaps, Full(h), NEW p \in Places, NEW d \in 1 .. 2, NEW c \in Places
  PROVE  Full(Pointing(h, p, d, c))
<1>1. PICK g : g = Pointing(h, p, d, c)
  OBVIOUS
<1>2. c \in Pointers /\ c # Nil
  BY PlaceIs DEF Pointers
<1>3. IsPointing(g, h, p, d, c)
  BY <1>1, <1>2, PointingIs
<1>4. ASSUME NEW a \in Places, g[a].refcnt # 0, ~IsLeaf(SegmentOf(a))
      PROVE  \E e \in 1 .. 2 : g[a].child[e] # Nil
  <2>1. CASE a = p
    BY <2>1, <1>2, <1>3 DEF IsPointing
  <2>2. CASE a # p
    <3>1. g[a] = h[a]
      BY <2>2, <1>3 DEF IsPointing
    <3> QED
      BY <3>1, <1>4 DEF Full
  <2> QED
    BY <2>1, <2>2
<1> QED
  BY <1>1, <1>4 DEF Full

LEMMA DuplicateFull ==
  ASSUME NEW h, NEW R, Good(h, R), Full(h), NEW n \in Places, NEW c \in Places,
         h[n].refcnt > 1, h[c].refcnt = 0, SegmentOf(c) = SegmentOf(n)
  PROVE  Full(Duplicate(h, n, c))
<1>1. PICK D : D = Duplicate(h, n, c)
  OBVIOUS
<1>2. c # n
  OBVIOUS
<1>3. IsDuplicate(D, h, n, c)
  BY <1>1, <1>2, DuplicateIs
<1>4. ASSUME NEW a \in Places, D[a].refcnt # 0, ~IsLeaf(SegmentOf(a))
      PROVE  \E e \in 1 .. 2 : D[a].child[e] # Nil
  <2>1. CASE a = c
    BY <2>1, <1>3, <1>4 DEF IsDuplicate, Full
  <2>2. CASE a # c
    <3>1. h[a].refcnt # 0
      <4>1. CASE a = n
        BY <4>1
      <4>2. CASE a \in Kids(h, n)
        BY <4>2, PlaceIs, KidsOther
      <4>3. CASE a # n /\ a \notin Kids(h, n)
        BY <4>3, <2>2, <1>3, <1>4 DEF IsDuplicate
      <4> QED
        BY <4>1, <4>2, <4>3
    <3>2. D[a].child = h[a].child
      BY <2>2, <1>3 DEF IsDuplicate
    <3> QED
      BY <3>1, <3>2, <1>4 DEF Full
  <2> QED
    BY <2>1, <2>2
<1> QED
  BY <1>1, <1>4 DEF Full

LEMMA PrepareLevelFull ==
  ASSUME NEW T, NEW R, NEW t \in Tables, TreeGood(T, R, t), Full(T.heap), NEW f \in Fields,
         NEW i \in 1 .. Len(Path[f])
  PROVE  Full(PrepareLevel(T, f, i).heap)
<1>1. PICK ns, h, r, W : ns = Nodes(h, r, f) /\ h = T.heap /\ r = T.root /\ W = With(R, t, r)
  OBVIOUS
<1>2. PrepareLevel(T, f, i) =
        IF ns[i] = Nil \/ T.heap[ns[i]].refcnt = 1 THEN T ELSE CopyAt(T, f, i, ns)
  BY <1>1, Zenon DEF PrepareLevel, PrepareNode, CopyAt
<1>3. CASE ns[i] = Nil \/ T.heap[ns[i]].refcnt = 1
  BY <1>2, <1>3
<1>4. CASE ~(ns[i] = Nil \/ T.heap[ns[i]].refcnt = 1)
  <2>1. Good(h, W) /\ W[t] = r /\ r \in RootNodes \cup {Nil} /\ h \in Heaps
    BY <1>1, TreeFields
  <2>2. PICK n \in Places, c \in Places :
           /\ n = ns[i] /\ SegmentOf(n) = Path[f][i]
           /\ SegmentOf(c) = SegmentOf(n) /\ h[c].refcnt = 0
           /\ i = 1 => CopyAt(T, f, i, ns) = Tree(Duplicate(h, n, c), c)
           /\ i # 1 => \E p \in Places : \E d \in 1 .. 2 :
                CopyAt(T, f, i, ns) = Tree(Pointing(Duplicate(h, n, c), p, d, c), r)
    BY <1>1, <1>4, CopyAtIs
  <2>3. h[n].refcnt > 1
    <3>1. h[n].refcnt # 0
      BY <2>1, <2>2, <1>1, <1>4, NodesLive
    <3>2. h[n].refcnt \in Nat
      BY <2>1, NodeFields
    <3> QED
      BY <3>1, <3>2, <2>2, <1>1, <1>4
  <2>4. PICK D : D = Duplicate(h, n, c) /\ Full(D)
    BY <2>1, <2>2, <2>3, <1>1, DuplicateFull
  <2>5. D \in Heaps
    <3>1. IsDuplicate(D, h, n, c)
      BY <2>1, <2>2, <2>3, <2>4, DuplicateIs
    <3> QED
      BY <3>1 DEF IsDuplicate
  <2>6. PICK U : U = CopyAt(T, f, i, ns) /\ PrepareLevel(T, f, i) = U
    BY <1>2, <1>4
  <2>7. CASE i = 1
    BY <2>2, <2>4, <2>6, <2>7 DEF Tree
  <2>8. CASE i # 1
    <3>1. PICK p \in Places, d \in 1 .. 2 : U = Tree(Pointing(D, p, d, c), r)
      BY <2>2, <2>4, <2>6, <2>8
    <3>2. PICK g : g = Pointing(D, p, d, c) /\ Full(g)
      BY <2>4, <2>5, PointingFull
    <3>3. U.heap = g
      BY <3>1, <3>2 DEF Tree
    <3> QED
      BY <3>2, <3>3, <2>6
  <2> QED
    BY <2>7, <2>8
<1> QED
  BY <1>3, <1>4

LEMMA PrepareToWriteFull ==
  ASSUME NEW T, NEW R, NEW t \in Tables, TreeGood(T, R, t), Full(T.heap), NEW f \in Fields
  PROVE  Full(PrepareToWrite(T, f).heap)
<1>1. PICK after, L : Prepares(after, T, R, t, f) /\ PrepareToWrite(T, f) = after[L] /\ L = Len(Path[f])
  BY PrepareToWriteIs
<1>2. L \in Nat \ {0}
  BY <1>1, PathFacts
<1> DEFINE S == {k \in 0 .. L : Full(after[k].heap)}
<1>3. 0 \in S
  BY <1>1, <1>2 DEF Prepares
<1>4. ASSUME NEW k \in 0 .. L - 1, k \in S PROVE k + 1 \in S
  <2>1. PICK i, V : i = k + 1 /\ V = after[k]
    OBVIOUS
  <2>2. i \in 1 .. Len(Path[f]) /\ i - 1 = k /\ k \in 0 .. L /\ i \in 0 .. L
    BY <2>1, <1>1, <1>2
  <2>3. TreeGood(V, R, t) /\ after[i] = PrepareLevel(V, f, i)
    BY <2>1, <2>2, <1>1 DEF Prepares
  <2>4. Full(V.heap)
    BY <2>1, <1>4
  <2>5. Full(after[i].heap)
    BY <2>2, <2>3, <2>4, PrepareLevelFull
  <2> QED
    BY <2>1, <2>2, <2>5
<1> HIDE DEF S
<1>5. 0 .. L \subseteq S
  BY <1>2, <1>3, <1>4, SetInduction
<1>6. L \in S
  BY <1>2, <1>5
<1> QED
  BY <1>1, <1>6 DEF S

LEMMA GrownFull ==
  ASSUME NEW h, Full(h), NEW f \in Fields, NEW first \in 1 .. Len(Path[f]), NEW new,
         FreshPath(h, f, new), NEW v, NEW A, IsGrown(A, h, f, first, new, v)
  PROVE  Full(A)
<1>1. ASSUME NEW a \in Places, A[a].refcnt # 0, ~IsLeaf(SegmentOf(a))
      PROVE  \E e \in 1 .. 2 : A[a].child[e] # Nil
  <2>1. CASE \E i \in first .. Len(Path[f]) : a = new[i]
    <3>1. PICK i \in first .. Len(Path[f]) : a = new[i]
      BY <2>1
    <3>2. i \in 1 .. Len(Path[f]) /\ Len(Path[f]) \in Nat
      BY PathFacts
    <3>3. SegmentOf(a) = Path[f][i]
      BY <3>1, <3>2 DEF FreshPath
    <3>4. i < Len(Path[f]) /\ i + 1 \in 1 .. Len(Path[f])
      BY <3>2, <3>3, <1>1, PathFacts
    <3>5. Direction(Path[f][i], f) \in 1 .. 2
      BY DEF Direction
    <3>6. A[a].child[Direction(Path[f][i], f)] = new[i + 1]
      BY <3>1, <3>4, <3>5 DEF IsGrown
    <3>7. new[i + 1] # Nil
      BY <3>4, PlaceIs DEF FreshPath
    <3> QED
      BY <3>5, <3>6, <3>7
  <2>2. CASE ~\E i \in first .. Len(Path[f]) : a = new[i]
    <3>1. A[a] = h[a]
      BY <2>2 DEF IsGrown
    <3> QED
      BY <3>1, <1>1 DEF Full
  <2> QED
    BY <2>1, <2>2
<1> QED
  BY <1>1 DEF Full

LEMMA InsertsFull ==
  ASSUME NEW T, NEW R, NEW t \in Tables, TreeGood(T, R, t), Full(T.heap), NEW f \in Fields,
         NEW v, NEW U, NEW first, NEW new, Inserts(U, T, f, first, new, v)
  PROVE  Full(U.heap)
<1>1. PICK ns, h, r, d, p : /\ ns = Nodes(h, r, f) /\ h = T.heap /\ r = T.root
                            /\ p = ns[first - 1] /\ d = Direction(Path[f][first - 1], f)
  OBVIOUS
<1>2. /\ first \in 1 .. Len(Path[f]) /\ FreshPath(h, f, new)
      /\ \A j \in 1 .. first - 1 : ns[j] # Nil
  BY <1>1 DEF Inserts
<1>3. PICK A : /\ IsGrown(A, h, f, first, new, v)
               /\ first = 1 => U = Tree(A, new[1])
               /\ first # 1 => U = Tree(Pointing(A, p, d, new[first]), r)
  BY <1>1 DEF Inserts
<1>4. Full(A)
  BY <1>1, <1>2, <1>3, GrownFull
<1>5. CASE first = 1
  BY <1>3, <1>4, <1>5 DEF Tree
<1>6. CASE first # 1
  <2>1. PICK j : j = first - 1 /\ j \in 1 .. first - 1 /\ j \in 1 .. Len(Path[f])
    BY <1>2, <1>6, PathFacts
  <2>2. p # Nil /\ p \in Pointers
    <3>1. Walk(ns, h, r, f)
      BY <1>1, TreeFields, NodesWalk
    <3> QED
      BY <3>1, <2>1, <1>1, <1>2 DEF Walk
  <2>3. p \in Places /\ d \in 1 .. 2
    BY <2>2, <1>1 DEF Pointers, Direction
  <2>4. new[first] \in Places /\ A \in Heaps
    BY <1>2, <1>3 DEF FreshPath, IsGrown
  <2>5. PICK g : g = Pointing(A, p, d, new[first])
    OBVIOUS
  <2>6. Full(g)
    BY <2>3, <2>4, <2>5, <1>4, PointingFull
  <2>7. U.heap = g
    BY <2>5, <1>3, <1>6 DEF Tree
  <2> QED
    BY <2>6, <2>7
<1> QED
  BY <1>5, <1>6

LEMMA GetROFull ==
  ASSUME NEW T, NEW R, NEW t \in Tables, TreeGood(T, R, t), Full(T.heap), NEW f \in Fields,
         NEW dflt \in Addresses
  PROVE  Full(GetRO(T, f, dflt).heap)
<1>0. {dflt} \in SUBSET Addresses
  OBVIOUS
<1>1. PICK v : v = {dflt} /\ v \in SUBSET Addresses
  BY <1>0, Zenon
<1>2. CASE Find(T.heap, T.root, f) # Nil
  BY <1>2 DEF GetRO
<1>3. CASE Find(T.heap, T.root, f) = Nil
  <2>1. PICK U, V : U = PrepareToWrite(T, f) /\ V = InsertWritable(U, f, v) /\ V = GetRO(T, f, dflt)
    BY <1>1, <1>3 DEF GetRO, Insert
  <2>2. TreeGood(U, R, t) /\ Full(U.heap)
    BY <2>1, PrepareToWriteGood, PrepareToWriteFull
  <2>3. Find(U.heap, U.root, f) = Nil
    <3>1. SameBut(U, T, R, t, {})
      BY <2>1, PrepareToWriteSame
    <3> QED
      BY <3>1, <1>3 DEF SameBut, Same
  <2>4. PICK first, new : Inserts(V, U, f, first, new, v)
    BY <2>1, <2>2, <2>3, <1>1, InsertWritableIs
  <2> QED
    BY <2>1, <2>2, <2>4, InsertsFull
<1> QED
  BY <1>2, <1>3

LEMMA FlaggedFull ==
  ASSUME NEW T, NEW R, NEW t \in Tables, TreeGood(T, R, t), Full(T.heap), NEW f \in Fields,
         NEW v \in SUBSET Addresses, NEW flag \in BOOLEAN
  PROVE  Full(UpdateRelocatedFlag(Assign(T, f, v), f, flag).heap)
<1>1. PICK V, X : V = Assign(T, f, v) /\ X = UpdateRelocatedFlag(V, f, flag)
  OBVIOUS
<1>2. TreeGood(V, R, t)
  BY <1>1, AssignGood
<1>3. PICK g : V = Tree(g, T.root) /\ SamePointers(g, T.heap)
  BY <1>1, AssignIs
<1>4. V.heap = g /\ Full(g)
  BY <1>3, SameFull DEF Tree
<1>5. PICK k : X = Tree(k, V.root) /\ SamePointers(k, V.heap)
  BY <1>1, <1>2, UpdateFlagIs
<1>6. X.heap = k /\ Full(k)
  BY <1>4, <1>5, SameFull DEF Tree
<1> QED
  BY <1>1, <1>6

LEMMA WrittenFull ==
  ASSUME NEW T, NEW R, NEW t \in Tables, TreeGood(T, R, t), Full(T.heap), NEW f \in Fields,
         NEW v \in SUBSET Addresses, NEW dflt \in Addresses, NEW flag \in BOOLEAN
  PROVE  Full(Written(T, f, v, dflt, flag).heap)
<1>1. PICK P, U : P = PrepareToWrite(T, f) /\ U = GetRO(P, f, dflt) /\ U = GetRW(T, f, dflt)
  BY DEF GetRW
<1>2. TreeGood(P, R, t) /\ Full(P.heap)
  BY <1>1, PrepareToWriteGood, PrepareToWriteFull
<1>3. TreeGood(U, R, t) /\ Full(U.heap)
  BY <1>1, <1>2, GetRWSame, GetROFull
<1>4. Full(UpdateRelocatedFlag(Assign(U, f, v), f, flag).heap)
  BY <1>3, FlaggedFull
<1> QED
  BY <1>1, <1>4 DEF Written

LEMMA ResolvedFull ==
  ASSUME NEW T, NEW R, NEW t \in Tables, TreeGood(T, R, t), Full(T.heap), NEW f \in Fields,
         NEW v \in SUBSET Addresses
  PROVE  Full(Resolved(T, f, v).heap)
<1>1. PICK U : U = PrepareToWrite(T, f)
  OBVIOUS
<1>2. TreeGood(U, R, t) /\ Full(U.heap)
  BY <1>1, PrepareToWriteGood, PrepareToWriteFull
<1>3. PICK flag \in BOOLEAN : flag = FALSE
  OBVIOUS
<1>4. Full(UpdateRelocatedFlag(Assign(U, f, v), f, flag).heap)
  BY <1>2, FlaggedFull
<1> QED
  BY <1>1, <1>3, <1>4 DEF Resolved

LEMMA TurnFull ==
  ASSUME NEW x, NEW y, NEW R, NEW t \in Tables, Resolving(x, R, t), Turn(y, x), Full(x.tree.heap)
  PROVE  Full(y.tree.heap)
<1>1. PICK T, U : T = x.tree /\ U = y.tree
  OBVIOUS
<1>2. TreeGood(T, R, t) /\ Full(T.heap)
  BY <1>1 DEF Resolving
<1>3. CASE U = T
  BY <1>1, <1>3
<1>4. CASE \E f \in Fields :
             /\ Find(T.heap, T.root, f) = FirstRelocNode(T.heap, T.root)
             /\ FirstRelocNode(T.heap, T.root) # Nil
             /\ U = Resolved(T, f, ResolveSet(T.heap[FirstRelocNode(T.heap, T.root)].value))
  <2>1. PICK f, n, v :
          /\ f \in Fields /\ n = FirstRelocNode(T.heap, T.root) /\ n # Nil
          /\ v = ResolveSet(T.heap[n].value) /\ U = Resolved(T, f, v)
    BY <1>4
  <2>2. T.heap \in Heaps /\ Shape(T.heap) /\ T.root \in RootNodes \cup {Nil}
    BY <1>2, TreeFields
  <2>3. n \in Places
    BY <2>1, <2>2, FirstRelocIs DEF On
  <2>4. v \in SUBSET Addresses
    BY <2>1, <2>2, <2>3, NodeFields, ResolveSetIs
  <2> QED
    BY <2>1, <2>4, <1>1, <1>2, ResolvedFull
<1> QED
  BY <1>1, <1>3, <1>4 DEF Turn

LEMMA LoopFull ==
  ASSUME NEW x, NEW R, NEW t \in Tables, NEW turn, IsLoop(turn, x, R, t), Full(x.tree.heap)
  PROVE  Full(turn[FieldCount].tree.heap)
<1> DEFINE S == {k \in 0 .. FieldCount : Full(turn[k].tree.heap)}
<1>1. FieldCount \in Nat
  BY ConstantsAssumption
<1>2. 0 \in S
  BY <1>1 DEF IsLoop
<1>3. ASSUME NEW k \in 0 .. FieldCount - 1, k \in S PROVE k + 1 \in S
  <2>1. PICK y, z, i : y = turn[k] /\ i = k + 1 /\ z = turn[i]
    OBVIOUS
  <2>2. i \in 1 .. FieldCount /\ i - 1 = k /\ k \in 0 .. FieldCount /\ i \in 0 .. FieldCount
    BY <2>1, <1>1
  <2>3. Resolving(y, R, t) /\ Turn(z, y)
    BY <2>1, <2>2 DEF IsLoop
  <2>4. Full(y.tree.heap)
    BY <2>1, <1>3
  <2>5. Full(z.tree.heap)
    BY <2>3, <2>4, TurnFull
  <2> QED
    BY <2>1, <2>2, <2>5
<1> HIDE DEF S
<1>4. 0 .. FieldCount \subseteq S
  BY <1>1, <1>2, <1>3, SetInduction
<1>5. FieldCount \in S
  BY <1>1, <1>4
<1> QED
  BY <1>5 DEF S

LEMMA IncrefFull ==
  ASSUME NEW h, NEW R, Good(h, R), Full(h), NEW s \in Tables, R[s] # NoTable
  PROVE  Full(Incref(h, R[s]))
<1>1. PICK r, g : r = R[s] /\ g = Incref(h, r)
  OBVIOUS
<1>2. h \in Heaps /\ r \in RootNodes \cup {Nil}
  BY <1>1 DEF Good, Roots
<1>3. IsIncref(g, h, r)
  BY <1>1, <1>2, IncrefIs
<1>4. ASSUME NEW a \in Places, g[a].refcnt # 0, ~IsLeaf(SegmentOf(a))
      PROVE  \E e \in 1 .. 2 : g[a].child[e] # Nil
  <2>1. h[a].refcnt # 0
    <3>1. CASE a = r
      <4>1. s \in RootsOf(R, a)
        BY <3>1, <1>1 DEF RootsOf
      <4> QED
        BY <4>1, PointedLives
    <3>2. CASE a # r
      BY <3>2, <1>3, <1>4 DEF IsIncref
    <3> QED
      BY <3>1, <3>2
  <2>2. g[a].child = h[a].child
    BY <1>3 DEF IsIncref
  <2> QED
    BY <2>1, <2>2, <1>4 DEF Full
<1> QED
  BY <1>1, <1>4 DEF Full

LEMMA DecrefFull ==
  ASSUME NEW h, NEW R, Good(h, R), Full(h), NEW t \in Tables, R[t] # NoTable
  PROVE  Full(Decref(h, R[t]))
<1>1. PICK r, g : r = R[t] /\ g = Decref(h, r)
  OBVIOUS
<1>2. PICK K, M : IsDecref(g, h, r, K, M)
  BY <1>1, DecrefFacts
<1>3. ASSUME NEW a \in Places, g[a].refcnt # 0, ~IsLeaf(SegmentOf(a))
      PROVE  \E e \in 1 .. 2 : g[a].child[e] # Nil
  <2>1. CASE a \notin K
    <3>1. g[a] = h[a]
      BY <2>1, <1>2 DEF IsDecref
    <3> QED
      BY <3>1, <1>3 DEF Full
  <2>2. CASE a \in M
    BY <2>2, <1>2, <1>3 DEF IsDecref
  <2>3. CASE a \in K \ M
    <3>1. g[a].child = h[a].child
      BY <2>3, <1>2 DEF IsDecref
    <3>2. h[a].refcnt # 0
      <4>1. CASE a = r
        <5>1. t \in RootsOf(R, a)
          BY <4>1, <1>1 DEF RootsOf
        <5> QED
          BY <5>1, PointedLives
      <4>2. CASE a # r
        <5>1. PICK m \in M : a \in Kids(h, m)
          BY <4>2, <2>3, <1>2 DEF IsDecref
        <5>2. m \in Places
          BY <5>1, <1>2 DEF IsDecref
        <5> QED
          BY <5>1, <5>2, PlaceIs, KidsOther
      <4> QED
        BY <4>1, <4>2
    <3> QED
      BY <3>1, <3>2, <1>3 DEF Full
  <2> QED
    BY <2>1, <2>2, <2>3
<1> QED
  BY <1>1, <1>3 DEF Full

\* The invariant together with the fullness of the memory
FullInv == StaticInv /\ Full(heap)

LEMMA InitFull ==
  ASSUME Init
  PROVE  FullInv
<1>1. \A a \in Places : heap[a].refcnt = 0
  BY DEF Init, FreeNode
<1> QED
  BY <1>1, InitInv DEF FullInv, Full

LEMMA ReadFull ==
  ASSUME FullInv, NEW t \in Tables, root[t] # NoTable, NEW f \in Fields,
         Queried(default', default, f), default'[f] # Nil, Read(t, f, default'[f])
  PROVE  Full(heap')
<1>1. PICK T, d, R : T = Tree(heap, root[t]) /\ d = default'[f] /\ R = root
  OBVIOUS
<1>2. StaticInv /\ Full(heap)
  BY DEF FullInv
<1>3. TreeGood(T, R, t) /\ T.heap = heap
  BY <1>1, <1>2, InvFacts DEF Tree
<1>4. d \in Addresses
  BY <1>1 DEF Queried
<1>5. Full(GetRO(T, f, d).heap)
  BY <1>2, <1>3, <1>4, GetROFull
<1>6. heap' = GetRO(T, f, d).heap
  BY <1>1 DEF Read, TreeOf, SetTree
<1> QED
  BY <1>5, <1>6

LEMMA WriteFull ==
  ASSUME FullInv, NEW t \in Tables, NEW f \in Fields,
         Queried(default', default, f), default'[f] # Nil, NEW v \in SUBSET Addresses,
         NEW flag \in BOOLEAN, NEW T, TreeGood(T, root, t), Full(T.heap),
         Write(t, T, f, v, default'[f], flag)
  PROVE  Full(heap')
<1>1. PICK d, R : d = default'[f] /\ R = root
  OBVIOUS
<1>2. d \in Addresses
  BY <1>1 DEF Queried
<1>3. Full(Written(T, f, v, d, flag).heap)
  BY <1>1, <1>2, WrittenFull
<1>4. heap' = Written(T, f, v, d, flag).heap
  BY <1>1 DEF Write, Written, SetTree
<1> QED
  BY <1>3, <1>4

LEMMA SputFull ==
  ASSUME FullInv, NEW t \in Tables, NEW f \in Fields, NEW v \in Inputs, Sput(t, f, v)
  PROVE  Full(heap')
<1>1. PICK T : T = Tree(heap, root[t])
  OBVIOUS
<1>2. root[t] # NoTable /\ default'[f] # Nil /\ Write(t, T, f, v, default'[f], SetRef(v))
  BY <1>1 DEF Sput, Live, TreeOf
<1>3. StaticInv /\ Full(heap)
  BY DEF FullInv
<1>4. Queried(default', default, f)
  BY <1>3, QueryIs DEF Sput
<1>5. TreeGood(T, root, t) /\ T.heap = heap
  BY <1>1, <1>2, <1>3, InvFacts DEF Tree
<1>6. PICK flag : flag = SetRef(v)
  OBVIOUS
<1>7. v \in SUBSET Addresses /\ flag \in BOOLEAN
  BY <1>6, InputIs
<1>8. Write(t, T, f, v, default'[f], flag)
  BY <1>2, <1>6
<1> QED
  BY <1>2, <1>3, <1>4, <1>5, <1>7, <1>8, WriteFull

LEMMA SgetFull ==
  ASSUME FullInv, NEW t \in Tables, NEW f \in Fields, Sget(t, f)
  PROVE  Full(heap')
<1>1. root[t] # NoTable /\ default'[f] # Nil /\ Read(t, f, default'[f])
  BY DEF Sget, Live
<1>2. Queried(default', default, f)
  BY QueryIs DEF Sget, FullInv
<1> QED
  BY <1>1, <1>2, ReadFull

LEMMA SputFailsFull ==
  ASSUME FullInv, NEW t \in Tables, NEW f \in Fields, SputFails(t, f)
  PROVE  Full(heap')
<1>1. PICK T, R : T = Tree(heap, root[t]) /\ R = root
  OBVIOUS
<1>2. root[t] # NoTable /\ heap' = PrepareToWrite(T, f).heap
  BY <1>1 DEF SputFails, Live, TreeOf, SetTree
<1>3. TreeGood(T, R, t) /\ Full(T.heap)
  BY <1>1, <1>2, InvFacts DEF Tree, FullInv
<1> QED
  BY <1>2, <1>3, PrepareToWriteFull

LEMMA ApplyDiffFull ==
  ASSUME FullInv, NEW t \in Tables, NEW f \in Fields, NEW v \in Inputs, ApplyDiff(t, f, v)
  PROVE  Full(heap')
<1>1. PICK S, R, d : S = Tree(heap, root[t]) /\ R = root /\ d = default'[f]
  OBVIOUS
<1>2. root[t] # NoTable /\ default' = default /\ default'[f] # Nil /\ StaticInv /\ Full(heap)
  BY DEF ApplyDiff, Live, FullInv
<1>3. Queried(default', default, f)
  BY <1>2, QueryIs
<1>4. CASE Read(t, f, default[f])
  BY <1>2, <1>3, <1>4, ReadFull
<1>5. PICK T : T = GetRO(S, f, d)
  OBVIOUS
<1>6. CASE Write(t, T, f, v, default[f], OneBit(cesk_set_get_reloc(v)))
  <2>1. TreeGood(S, R, t) /\ S.heap = heap
    BY <1>1, <1>2, InvFacts DEF Tree
  <2>2. d \in Addresses
    BY <1>1, <1>2, <1>3 DEF Queried
  <2>3. IsGetRO(T, S, R, t, f, {d})
    BY <2>1, <2>2, <1>5, GetROSame
  <2>4. TreeGood(T, R, t)
    BY <2>3 DEF IsGetRO
  <2>5. Full(T.heap)
    BY <2>1, <2>2, <1>2, <1>5, GetROFull
  <2>6. PICK flag : flag = OneBit(cesk_set_get_reloc(v))
    OBVIOUS
  <2>7. v \in SUBSET Addresses /\ flag \in BOOLEAN
    BY <2>6, InputIs, Zenon
  <2>8. Write(t, T, f, v, default'[f], flag)
    BY <2>6, <1>2, <1>6
  <2> QED
    BY <2>4, <2>5, <2>7, <2>8, <1>1, <1>2, <1>3, WriteFull
<1> QED
  BY <1>1, <1>2, <1>4, <1>5, <1>6 DEF ApplyDiff, TreeOf

LEMMA ForkFull ==
  ASSUME FullInv, NEW s \in Tables, NEW t \in Tables, Fork(s, t)
  PROVE  Full(heap')
<1>1. PICK h, R : h = heap /\ R = root
  OBVIOUS
<1>2. R[s] # NoTable /\ heap' = Incref(h, R[s]) /\ Good(h, R) /\ Full(h)
  BY <1>1 DEF Fork, Live, FullInv, StaticInv
<1> QED
  BY <1>2, IncrefFull

LEMMA FreeFull ==
  ASSUME FullInv, NEW t \in Tables, Free(t)
  PROVE  Full(heap')
<1>1. PICK h, R : h = heap /\ R = root
  OBVIOUS
<1>2. R[t] # NoTable /\ heap' = Decref(h, R[t]) /\ Good(h, R) /\ Full(h)
  BY <1>1 DEF Free, Live, FullInv, StaticInv
<1> QED
  BY <1>2, DecrefFull

LEMMA ForkCalleeFull ==
  ASSUME FullInv, NEW s \in Tables, NEW t \in Tables, ForkCallee(s, t)
  PROVE  Full(heap')
<1>1. root[s] # NoTable /\ root[t] = NoTable /\ StaticInv /\ Full(heap)
  BY DEF ForkCallee, Live, FullInv
<1>2. PICK x0, T, R : /\ T = Tree(Incref(heap, root[s]), root[s]) /\ R = root
                      /\ x0 = [tree |-> T, hash |-> hash[s], fault |-> FALSE]
  OBVIOUS
<1>3. PICK x : x = ResolveAll(x0) /\ heap' = x.tree.heap
  BY <1>2 DEF ForkCallee, SetTree
<1>4. Resolving(x0, R, t)
  BY <1>1, <1>2, CalleeTree
<1>5. PICK turn : IsLoop(turn, x0, R, t) /\ x = turn[FieldCount]
  BY <1>3, <1>4, ResolveAllIs
<1>6. Full(x0.tree.heap)
  <2>1. PICK h : h = heap
    OBVIOUS
  <2>2. Full(Incref(h, R[s]))
    BY <2>1, <1>1, <1>2, IncrefFull DEF StaticInv
  <2>3. x0.tree.heap = Incref(h, R[s])
    BY <2>1, <1>2 DEF Tree
  <2> QED
    BY <2>2, <2>3
<1> QED
  BY <1>3, <1>5, <1>6, LoopFull

LEMMA NextFull ==
  ASSUME FullInv, [Next]_vars
  PROVE  FullInv'
<1>1. StaticInv'
  BY NextInv DEF FullInv
<1>2. Full(heap')
  <2>1. CASE heap' = heap
    BY <2>1 DEF FullInv
  <2>2. CASE \E t \in Tables : New(t) \/ Free(t)
    BY <2>1, <2>2, FreeFull DEF New
  <2>3. CASE \E s, t \in Tables : Fork(s, t) \/ ForkCallee(s, t)
    BY <2>3, ForkFull, ForkCalleeFull
  <2>4. CASE \E t \in Tables, f \in Fields : Sget(t, f) \/ SputFails(t, f)
    BY <2>4, SgetFull, SputFailsFull
  <2>5. CASE \E t \in Tables, f \in Fields, v \in Inputs : Sput(t, f, v) \/ ApplyDiff(t, f, v)
    BY <2>5, SputFull, ApplyDiffFull
  <2> QED
    BY <2>1, <2>2, <2>3, <2>4, <2>5 DEF Next, vars
<1> QED
  BY <1>1, <1>2 DEF FullInv, Full

(* The search for the next field of a table *)
LEMMA TreeNextIs ==
  ASSUME NEW h \in Heaps, Shape(h), NEW r \in RootNodes \cup {Nil}, Rich(h, r),
         NEW start \in 0 .. FieldCount, NEW m, m = TreeNext(h, r, start)
  PROVE  \/ m = Nil /\ \A g \in Fields : start <= g => Find(h, r, g) = Nil
         \/ /\ m \in Fields /\ start <= m /\ Find(h, r, m) # Nil
            /\ \A g \in Fields : start <= g /\ Find(h, r, g) # Nil => m <= g
<1>1. FieldCount \in Nat \ {0} /\ start \in Int /\ Fields \subseteq Int
  BY ConstantsAssumption DEF Fields
<1>2. CASE start < FieldCount
  <2>1. start \in Fields
    BY <1>1, <1>2 DEF Fields
  <2>2. m = IF Find(h, r, start) # Nil THEN start ELSE Climb(h, Nodes(h, r, start))
    BY <1>2 DEF TreeNext
  <2>3. CASE Find(h, r, start) # Nil
    BY <2>1, <2>2, <2>3, <1>1
  <2>4. CASE Find(h, r, start) = Nil
    <3>1. IsNext(m, h, r, start)
      BY <2>1, <2>2, <2>4, ClimbNext
    <3>2. \A g \in Fields : start <= g => g = start \/ start < g
      BY <1>1
    <3>3. \A g \in Fields : start < g => start <= g
      BY <1>1
    <3> QED
      BY <3>1, <3>2, <3>3, <2>4 DEF IsNext
  <2> QED
    BY <2>3, <2>4
<1>3. CASE ~(start < FieldCount)
  <2>1. PICK f : f = FieldCount - 1
    OBVIOUS
  <2>2. f \in Fields /\ (\A g \in Fields : ~(f < g) /\ ~(start <= g))
    BY <2>1, <1>1, <1>3 DEF Fields
  <2>3. m = Climb(h, Nodes(h, r, f))
    BY <2>1, <1>3 DEF TreeNext
  <2>4. IsNext(m, h, r, f)
    BY <2>2, <2>3, ClimbNext
  <2>5. m = Nil
    BY <2>2, <2>4 DEF IsNext
  <2> QED
    BY <2>2, <2>5
<1> QED
  BY <1>2, <1>3

LEMMA InvNext ==
  ASSUME FullInv
  PROVE  NextExact
<1>1. ASSUME NEW t \in Live, NEW start \in 0 .. FieldCount, NEW later,
             later = {f \in Initialised(heap, root[t]) : f >= start}
      PROVE  IF later = {} THEN TreeNext(heap, root[t], start) = Nil
             ELSE /\ TreeNext(heap, root[t], start) \in later
                  /\ \A f \in later : TreeNext(heap, root[t], start) <= f
  <2>1. PICK h, r, R, m : h = heap /\ R = root /\ r = R[t] /\ m = TreeNext(h, r, start)
    OBVIOUS
  <2>2. t \in Tables /\ r # NoTable
    BY <2>1 DEF Live
  <2>3. Good(h, R) /\ Full(h) /\ h \in Heaps /\ Shape(h) /\ r \in RootNodes \cup {Nil}
    BY <2>1, <2>2, InvFacts DEF FullInv, StaticInv
  <2>4. Rich(h, r)
    BY <2>1, <2>2, <2>3, FullRich
  <2>5. \/ m = Nil /\ \A g \in Fields : start <= g => Find(h, r, g) = Nil
        \/ /\ m \in Fields /\ start <= m /\ Find(h, r, m) # Nil
           /\ \A g \in Fields : start <= g /\ Find(h, r, g) # Nil => m <= g
    BY <2>1, <2>3, <2>4, TreeNextIs
  <2>6. \A f : f \in later <=> f \in Fields /\ Find(h, r, f) # Nil /\ start <= f
    <3>1. \A f \in Fields : f >= start <=> start <= f
      BY ConstantsAssumption DEF Fields
    <3> QED
      BY <3>1, <2>1, <1>1 DEF Initialised
  <2>7. CASE later = {}
    BY <2>1, <2>5, <2>6, <2>7
  <2>8. CASE later # {}
    BY <2>1, <2>5, <2>6, <2>8
  <2> QED
    BY <2>7, <2>8
<1> QED
  BY <1>1 DEF NextExact

\* In every state of every table the search finds the smallest field the table
\* has at or after the start, and nothing when there is none
\* (cesk_static.c:385-421).
THEOREM NextFieldExact == Spec => []NextExact
<1>1. Init => FullInv
  BY InitFull
<1>2. FullInv /\ [Next]_vars => FullInv'
  BY NextFull
<1>3. FullInv => NextExact
  BY InvNext
<1> QED
  BY <1>1, <1>2, <1>3, PTL DEF Spec
=============================================================================
