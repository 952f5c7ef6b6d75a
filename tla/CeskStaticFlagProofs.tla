------------------------ MODULE CeskStaticFlagProofs ------------------------
(***************************************************************************)
(* Flags and views of the static tables: the flags of a table that is not  *)
(* stale lead to its relocated addresses, and every table shows what was   *)
(* written through it.                                                     *)
(*                                                                         *)
(* The memory, the reference counters and the hash codes are the subject   *)
(* of CeskStaticProofs, whose lemmas this module uses.                     *)
(***************************************************************************)
EXTENDS CeskStaticProofs

-----------------------------------------------------------------------------
(***************************************************************************)
(* What a tree consists of                                                 *)
(***************************************************************************)

\* The change from memory h to memory g leaves the tree at r as it is.
Kept(g, h, r) ==
  \A a \in Places : On(h, r, a) =>
    g[a].child = h[a].child /\ g[a].value = h[a].value /\ g[a].reloc = h[a].reloc

LEMMA KeptNodes ==
  ASSUME NEW h \in Heaps, Shape(h), NEW g \in Heaps, Shape(g), NEW r \in RootNodes \cup {Nil},
         Kept(g, h, r), NEW f \in Fields
  PROVE  \A j \in 1 .. Len(Path[f]) : Nodes(g, r, f)[j] = Nodes(h, r, f)[j]
<1>1. PICK ns, ms, L : ns = Nodes(h, r, f) /\ ms = Nodes(g, r, f) /\ L = Len(Path[f])
  OBVIOUS
<1>2. Walk(ns, h, r, f) /\ Walk(ms, g, r, f)
  BY <1>1, NodesWalk
<1>3. L \in Nat \ {0}
  BY <1>1, PathFacts
<1>4. ASSUME NEW j \in 1 .. L, ns[j] # Nil PROVE g[ns[j]].child = h[ns[j]].child
  <2>1. On(h, r, ns[j])
    BY <1>1, <1>4, OnNodes
  <2>2. ns[j] \in Places
    BY <2>1 DEF On
  <2> QED
    BY <2>1, <2>2 DEF Kept
<1> DEFINE S == {k \in 0 .. L - 1 : ms[k + 1] = ns[k + 1]}
<1>5. 0 \in S
  BY <1>2, <1>3 DEF Walk
<1>6. ASSUME NEW k \in 0 .. (L - 1) - 1, k \in S PROVE k + 1 \in S
  <2>1. PICK j : j = k + 1
    OBVIOUS
  <2>2. j \in 1 .. L /\ j # L /\ k + 1 \in 0 .. L - 1 /\ j + 1 = (k + 1) + 1
    BY <2>1, <1>3
  <2>3. PICK d : d = Direction(Path[f][j], f)
    OBVIOUS
  <2>4. ns[j + 1] = Child(h, ns[j], d) /\ ms[j + 1] = Child(g, ms[j], d) /\ ms[j] = ns[j]
    BY <2>1, <2>2, <2>3, <1>1, <1>2, <1>6 DEF Walk
  <2>5. ns[j] # Nil => g[ns[j]].child = h[ns[j]].child
    BY <2>2, <1>4
  <2>6. ms[j + 1] = ns[j + 1]
    BY <2>4, <2>5 DEF Child
  <2> QED
    BY <2>2, <2>6
<1> HIDE DEF S
<1>7. 0 .. L - 1 \subseteq S
  <2>1. L - 1 \in Nat
    BY <1>3
  <2> QED
    BY <2>1, <1>5, <1>6, SetInduction
<1>8. ASSUME NEW j \in 1 .. L PROVE ms[j] = ns[j]
  <2>1. PICK k : k = j - 1
    OBVIOUS
  <2>2. k \in 0 .. L - 1 /\ k + 1 = j
    BY <2>1, <1>3
  <2> QED
    BY <2>2, <1>7 DEF S
<1> QED
  BY <1>1, <1>8

LEMMA KeptOn ==
  ASSUME NEW h \in Heaps, Shape(h), NEW g \in Heaps, Shape(g), NEW r \in RootNodes \cup {Nil},
         Kept(g, h, r), NEW a
  PROVE  On(g, r, a) <=> On(h, r, a)
<1>1. ASSUME NEW f \in Fields, a \in Places, In(f, SegmentOf(a))
      PROVE  Nodes(g, r, f)[LevelOf(SegmentOf(a))] = Nodes(h, r, f)[LevelOf(SegmentOf(a))]
  <2>1. PICK i : i = LevelOf(SegmentOf(a))
    OBVIOUS
  <2>2. i \in 1 .. Len(Path[f])
    BY <2>1, <1>1, PlaceIs, SegmentLevel
  <2> QED
    BY <2>1, <2>2, KeptNodes
<1> QED
  BY <1>1 DEF On

LEMMA KeptTrans ==
  ASSUME NEW h \in Heaps, Shape(h), NEW g \in Heaps, Shape(g), NEW r \in RootNodes \cup {Nil},
         Kept(g, h, r), NEW k, Kept(k, g, r)
  PROVE  Kept(k, h, r)
<1>1. ASSUME NEW a \in Places, On(h, r, a)
      PROVE  k[a].child = h[a].child /\ k[a].value = h[a].value /\ k[a].reloc = h[a].reloc
  <2>1. On(g, r, a)
    BY <1>1, KeptOn
  <2> QED
    BY <2>1, <1>1 DEF Kept
<1> QED
  BY <1>1 DEF Kept

LEMMA KeptSame ==
  ASSUME NEW h \in Heaps, Shape(h), NEW g \in Heaps, Shape(g), NEW r \in RootNodes \cup {Nil},
         Kept(g, h, r), NEW f \in Fields
  PROVE  Find(g, r, f) = Find(h, r, f) /\ Content(g, Find(g, r, f)) = Content(h, Find(h, r, f))
<1>1. Len(Path[f]) \in 1 .. Len(Path[f])
  BY PathFacts
<1>2. Find(g, r, f) = Find(h, r, f)
  BY <1>1, KeptNodes DEF Find
<1>3. PICK n : n = Find(h, r, f)
  OBVIOUS
<1>4. CASE n = Nil
  BY <1>2, <1>3, <1>4 DEF Content
<1>5. CASE n # Nil
  <2>1. On(h, r, n)
    BY <1>1, <1>3, <1>5, OnNodes DEF Find
  <2>2. n \in Places
    BY <2>1 DEF On
  <2> QED
    BY <2>1, <2>2, <1>2, <1>3 DEF Kept, Content
<1> QED
  BY <1>4, <1>5

-----------------------------------------------------------------------------
(***************************************************************************)
(* The flags                                                               *)
(***************************************************************************)

\* The flag of node a says whether its subtree, or its value, has a relocated
\* address.
FlagAt(h, a) ==
  HasReloc(h, a) <=> IF IsLeaf(SegmentOf(a)) THEN Relocated(h[a].value)
                     ELSE HasReloc(h, h[a].child[1]) \/ HasReloc(h, h[a].child[2])

\* All flags of the tree at r are right.
Flagged(h, r) == \A a \in Places : On(h, r, a) => FlagAt(h, a)

\* All flags beside the path to f are right.
FlaggedOff(h, r, f) == \A a \in Places : On(h, r, a) /\ ~In(f, SegmentOf(a)) => FlagAt(h, a)

LEMMA FlagSame ==
  ASSUME NEW h, NEW g, NEW a \in Places, NEW b \in Places, SegmentOf(b) = SegmentOf(a),
         HasReloc(g, b) <=> HasReloc(h, a),
         IsLeaf(SegmentOf(a)) => g[b].value = h[a].value,
         ~IsLeaf(SegmentOf(a)) =>
           \A d \in 1 .. 2 : HasReloc(g, g[b].child[d]) <=> HasReloc(h, h[a].child[d]),
         FlagAt(h, a)
  PROVE  FlagAt(g, b)
<1>1. CASE IsLeaf(SegmentOf(a))
  BY <1>1 DEF FlagAt
<1>2. CASE ~IsLeaf(SegmentOf(a))
  <2>1. /\ HasReloc(g, g[b].child[1]) <=> HasReloc(h, h[a].child[1])
        /\ HasReloc(g, g[b].child[2]) <=> HasReloc(h, h[a].child[2])
    BY <1>2
  <2> QED
    BY <2>1, <1>2 DEF FlagAt
<1> QED
  BY <1>1, <1>2

LEMMA KeptFlagged ==
  ASSUME NEW h \in Heaps, Shape(h), NEW g \in Heaps, Shape(g), NEW r \in RootNodes \cup {Nil},
         Kept(g, h, r), Flagged(h, r)
  PROVE  Flagged(g, r)
<1>1. ASSUME NEW a \in Places, On(g, r, a) PROVE FlagAt(g, a)
  <2>1. On(h, r, a)
    BY <1>1, KeptOn
  <2>2. FlagAt(h, a)
    BY <2>1 DEF Flagged
  <2>3. ASSUME NEW b, On(h, r, b) PROVE HasReloc(g, b) <=> HasReloc(h, b)
    BY <2>3 DEF HasReloc, Kept, On
  <2>4. g[a].child = h[a].child /\ g[a].value = h[a].value
    BY <2>1 DEF Kept
  <2>5. ASSUME NEW d \in 1 .. 2
        PROVE  HasReloc(g, g[a].child[d]) <=> HasReloc(h, h[a].child[d])
    <3>1. PICK b : b = h[a].child[d] /\ b = g[a].child[d]
      BY <2>4
    <3>2. CASE b = Nil
      BY <3>1, <3>2 DEF HasReloc
    <3>3. CASE b # Nil
      <4>1. On(h, r, b)
        BY <3>1, <3>3, <2>1, OnChild
      <4> QED
        BY <4>1, <3>1, <2>3
    <3> QED
      BY <3>2, <3>3
  <2>6. HasReloc(g, a) <=> HasReloc(h, a)
    BY <2>1, <2>3
  <2> QED
    BY <2>2, <2>4, <2>5, <2>6, FlagSame
<1> QED
  BY <1>1 DEF Flagged

-----------------------------------------------------------------------------
(***************************************************************************)
(* Copying a node                                                          *)
(***************************************************************************)
LEMMA OnLive ==
  ASSUME NEW h, NEW R, Good(h, R), NEW u \in Tables, R[u] \in RootNodes \cup {Nil},
         NEW a, On(h, R[u], a)
  PROVE  a \in Places /\ a # Nil /\ h[a].refcnt # 0
<1>1. a \in Places /\ a # Nil
  BY PlaceIs DEF On
<1>2. PICK s, f, i : s = SegmentOf(a) /\ f = s[1] /\ i = LevelOf(s)
  OBVIOUS
<1>3. f \in Fields /\ In(f, s) /\ i \in 1 .. Len(Path[f])
  BY <1>1, <1>2, PlaceIs, SegmentLevel
<1>4. Nodes(h, R[u], f)[i] = a
  BY <1>2, <1>3 DEF On
<1> QED
  BY <1>1, <1>3, <1>4, NodesLive

\* Node b stands for a node of the tree at r, after n was copied to c.
StandsFor(b, h, r, n, c) ==
  \E a \in Places : On(h, r, a) /\ Replaced(b, a, n, c) /\ SegmentOf(b) = SegmentOf(a)

LEMMA CopiedOn ==
  ASSUME NEW h, NEW R, Good(h, R), NEW u \in Tables, R[u] \in RootNodes \cup {Nil},
         NEW g, NEW n, NEW c, IsCopied(g, h, n, c),
         NEW r \in RootNodes \cup {Nil}, Replaced(r, R[u], n, c), NEW b, On(g, r, b)
  PROVE  StandsFor(b, h, R[u], n, c)
<1>1. h \in Heaps /\ Shape(h) /\ g \in Heaps /\ Shape(g) /\ n \in Places
  BY DEF IsCopied, Good
<1>2. PICK s, f, i : s = SegmentOf(b) /\ f = s[1] /\ i = LevelOf(s)
  OBVIOUS
<1>3. f \in Fields /\ In(f, s) /\ i \in 1 .. Len(Path[f]) /\ b # Nil /\ b \in Places
  BY <1>2, PlaceIs, SegmentLevel DEF On
<1>4. Nodes(g, r, f)[i] = b
  BY <1>2, <1>3 DEF On
<1>5. PICK a : a = Nodes(h, R[u], f)[i]
  OBVIOUS
<1>6. Replaced(b, a, n, c)
  BY <1>3, <1>4, <1>5, CopiedNodes
<1>7. a # Nil
  BY <1>1, <1>3, <1>6, PlaceIs DEF Replaced
<1>8. On(h, R[u], a)
  BY <1>1, <1>3, <1>5, <1>7, OnNodes
<1>9. SegmentOf(b) = SegmentOf(a)
  <2>1. Walk(Nodes(h, R[u], f), h, R[u], f) /\ Walk(Nodes(g, r, f), g, r, f)
    BY <1>1, <1>3, NodesWalk
  <2> QED
    BY <2>1, <1>3, <1>4, <1>5, <1>7 DEF Walk
<1> QED
  BY <1>6, <1>8, <1>9 DEF On, StandsFor

LEMMA CopiedHas ==
  ASSUME NEW h, NEW R, Good(h, R), NEW u \in Tables, R[u] \in RootNodes \cup {Nil},
         NEW g, NEW n, NEW c, IsCopied(g, h, n, c), ~HasReloc(h, n),
         NEW a, a = Nil \/ On(h, R[u], a), NEW b, Replaced(b, a, n, c)
  PROVE  HasReloc(g, b) <=> HasReloc(h, a)
<1>1. n # Nil /\ c # Nil /\ n \in Places /\ c \in Places
  BY PlaceIs DEF IsCopied
<1>2. CASE a = Nil
  BY <1>1, <1>2 DEF Replaced, HasReloc
<1>3. CASE On(h, R[u], a) /\ b = a
  <2>1. a \in Places /\ h[a].refcnt # 0
    BY <1>3, OnLive
  <2>2. a # c
    BY <2>1 DEF IsCopied
  <2> QED
    BY <2>1, <2>2, <1>3 DEF IsCopied, HasReloc
<1>4. CASE a = n /\ b = c
  BY <1>1, <1>4 DEF IsCopied, HasReloc
<1> QED
  BY <1>2, <1>3, <1>4 DEF Replaced

\* A copied node whose flag is clear loses nothing.
LEMMA CopiedFlagged ==
  ASSUME NEW h, NEW R, Good(h, R), NEW u \in Tables, R[u] \in RootNodes \cup {Nil},
         NEW g, NEW n, NEW c, IsCopied(g, h, n, c), ~HasReloc(h, n),
         NEW r \in RootNodes \cup {Nil}, Replaced(r, R[u], n, c), Flagged(h, R[u])
  PROVE  Flagged(g, r)
<1>1. ASSUME NEW b \in Places, On(g, r, b) PROVE FlagAt(g, b)
  <2>0. StandsFor(b, h, R[u], n, c)
    BY <1>1, CopiedOn
  <2>1. PICK a \in Places : On(h, R[u], a) /\ Replaced(b, a, n, c) /\ SegmentOf(b) = SegmentOf(a)
    BY <2>0 DEF StandsFor
  <2>2. FlagAt(h, a)
    BY <2>1 DEF Flagged
  <2>3. HasReloc(g, b) <=> HasReloc(h, a)
    BY <2>1, CopiedHas
  <2>4. a # c
    <3>1. h[a].refcnt # 0
      BY <2>1, OnLive
    <3> QED
      BY <3>1 DEF IsCopied
  <2>5. g[b].value = h[a].value
    BY <2>1, <2>4 DEF IsCopied, Replaced
  <2>6. ASSUME NEW d \in 1 .. 2
        PROVE  HasReloc(g, g[b].child[d]) <=> HasReloc(h, h[a].child[d])
    <3>1. PICK x, y : x = h[a].child[d] /\ y = g[b].child[d]
      OBVIOUS
    <3>2. x = Nil \/ On(h, R[u], x)
      BY <3>1, <2>1, OnChild DEF Good
    <3>3. Replaced(y, x, n, c)
      BY <3>1, <2>1, <2>4 DEF IsCopied, Replaced
    <3> QED
      BY <3>1, <3>2, <3>3, CopiedHas
  <2> QED
    BY <2>1, <2>2, <2>3, <2>5, <2>6, FlagSame
<1> QED
  BY <1>1 DEF Flagged

\* The copy of a node of the path to f
LEMMA CopiedFlaggedOff ==
  ASSUME NEW h, NEW R, Good(h, R), NEW u \in Tables, R[u] \in RootNodes \cup {Nil},
         NEW g, NEW n, NEW c, IsCopied(g, h, n, c),
         NEW r \in RootNodes \cup {Nil}, Replaced(r, R[u], n, c),
         NEW f \in Fields, In(f, SegmentOf(n)), FlaggedOff(h, R[u], f)
  PROVE  FlaggedOff(g, r, f)
<1>1. ASSUME NEW b \in Places, On(g, r, b), ~In(f, SegmentOf(b)) PROVE FlagAt(g, b)
  <2>0. StandsFor(b, h, R[u], n, c)
    BY <1>1, CopiedOn
  <2>1. PICK a \in Places : On(h, R[u], a) /\ Replaced(b, a, n, c) /\ SegmentOf(b) = SegmentOf(a)
    BY <2>0 DEF StandsFor
  <2>2. b = a
    BY <2>1, <1>1 DEF Replaced
  <2>3. FlagAt(h, a)
    BY <2>1, <1>1 DEF FlaggedOff
  <2>4. ASSUME NEW x, On(h, R[u], x)
        PROVE  x # c /\ (HasReloc(g, x) <=> HasReloc(h, x))
    <3>1. x \in Places /\ x # Nil /\ h[x].refcnt # 0
      BY <2>4, OnLive
    <3>2. x # c
      BY <3>1 DEF IsCopied
    <3> QED
      BY <3>1, <3>2 DEF IsCopied, HasReloc
  <2>5. g[a].value = h[a].value
    BY <2>1, <2>4 DEF IsCopied
  <2>6. ASSUME NEW d \in 1 .. 2
        PROVE  HasReloc(g, g[a].child[d]) <=> HasReloc(h, h[a].child[d])
    <3>1. PICK x, y : x = h[a].child[d] /\ y = g[a].child[d]
      OBVIOUS
    <3>2. Replaced(y, x, n, c)
      BY <3>1, <2>1, <2>4 DEF IsCopied
    <3>3. CASE x = Nil
      BY <3>1, <3>2, <3>3, PlaceIs DEF Replaced, HasReloc, IsCopied
    <3>4. CASE x # Nil
      <4>1. On(h, R[u], x) /\ ~IsLeaf(SegmentOf(a))
        BY <3>1, <3>4, <2>1, OnChild DEF Good
      <4>2. x \in Places
        BY <4>1 DEF On
      <4>3. x # n
        <5>1. SUFFICES ASSUME x = n PROVE In(f, SegmentOf(a))
          BY <2>2, <1>1
        <5>2. SegmentOf(x) = Half(SegmentOf(a), d)
          BY <3>1, <3>4, ParentIs DEF Good
        <5>3. SegmentOf(a) \in Segments /\ Half(SegmentOf(a), d) \in Segments
          BY <4>2, <5>2, PlaceIs
        <5> QED
          BY <4>1, <5>1, <5>2, <5>3, HalfLevel
      <4>4. y = x
        BY <3>2, <4>3 DEF Replaced
      <4> QED
        BY <4>1, <4>4, <3>1, <2>4
    <3> QED
      BY <3>3, <3>4
  <2>7. HasReloc(g, a) <=> HasReloc(h, a)
    BY <2>1, <2>4
  <2> QED
    BY <2>1, <2>2, <2>3, <2>5, <2>6, <2>7, FlagSame
<1> QED
  BY <1>1 DEF FlaggedOff

\* The tables other than t keep their trees.
Keeps(U, T, R, t) == \A u \in Tables \ {t} : R[u] # NoTable => Kept(U.heap, T.heap, R[u])

LEMMA KeepsRefl ==
  ASSUME NEW T, NEW R, NEW t
  PROVE  Keeps(T, T, R, t)
  BY DEF Keeps, Kept

LEMMA KeepsTrans ==
  ASSUME NEW R, NEW t \in Tables, NEW T, TreeGood(T, R, t), NEW U, TreeGood(U, R, t), NEW V,
         Keeps(U, T, R, t), Keeps(V, U, R, t)
  PROVE  Keeps(V, T, R, t)
<1>1. ASSUME NEW u \in Tables \ {t}, R[u] # NoTable PROVE Kept(V.heap, T.heap, R[u])
  <2>1. R[u] \in RootNodes \cup {Nil}
    BY <1>1 DEF TreeGood, Roots
  <2>2. T.heap \in Heaps /\ Shape(T.heap) /\ U.heap \in Heaps /\ Shape(U.heap)
    BY TreeFields
  <2>3. PICK h, g, k, r : h = T.heap /\ g = U.heap /\ k = V.heap /\ r = R[u]
    OBVIOUS
  <2>4. Kept(g, h, r) /\ Kept(k, g, r)
    BY <2>3, <1>1 DEF Keeps
  <2> QED
    BY <2>1, <2>2, <2>3, <2>4, KeptTrans
<1> QED
  BY <1>1 DEF Keeps

\* The root of another table
LEMMA OtherRoot ==
  ASSUME NEW T, NEW R, NEW t \in Tables, TreeGood(T, R, t), NEW u \in Tables \ {t}, R[u] # NoTable
  PROVE  R[u] \in RootNodes \cup {Nil} /\ With(R, t, T.root)[u] = R[u]
<1>1. R \in Roots /\ T.root \in RootNodes \cup {Nil}
  BY TreeFields
<1> QED
  BY <1>1, WithIs DEF Roots

\* A node of a private path is in no tree of another table.
LEMMA PrivateOff ==
  ASSUME NEW T, NEW R, NEW t \in Tables, TreeGood(T, R, t), NEW f \in Fields,
         NEW i \in 1 .. Len(Path[f]), Private(T, f, i), Nodes(T.heap, T.root, f)[i] # Nil,
         NEW u \in Tables \ {t}, R[u] # NoTable, NEW a, On(T.heap, R[u], a)
  PROVE  a # Nodes(T.heap, T.root, f)[i]
<1>1. SUFFICES ASSUME a = Nodes(T.heap, T.root, f)[i] PROVE FALSE
  OBVIOUS
<1>2. PICK h, r, q : h = T.heap /\ r = T.root /\ q = R[u]
  OBVIOUS
<1>3. r \in RootNodes \cup {Nil} /\ h \in Heaps /\ Shape(h)
  BY <1>2, TreeFields
<1>4. SegmentOf(a) = Path[f][i]
  <2>1. Walk(Nodes(h, r, f), h, r, f)
    BY <1>3, NodesWalk
  <2> QED
    BY <2>1, <1>1, <1>2 DEF Walk
<1>5. In(f, SegmentOf(a)) /\ LevelOf(SegmentOf(a)) = i
  <2>1. On(h, r, a) /\ LevelOf(SegmentOf(a)) = i
    BY <1>1, <1>2, <1>3, OnNodes
  <2> QED
    BY <2>1, <1>4, PathFacts
<1>6. Nodes(h, q, f)[i] = a
  BY <1>2, <1>5 DEF On
<1>7. i \in 1 .. i
  BY PathFacts
<1>8. Nodes(T.heap, R[u], f)[i] # Nodes(T.heap, T.root, f)[i]
  BY <1>7, PrivateApart
<1> QED
  BY <1>1, <1>2, <1>6, <1>8

\* The copy of the i-th node, below a private one, changes no other tree.
LEMMA CopyAtKeeps ==
  ASSUME NEW T, NEW R, NEW t \in Tables, TreeGood(T, R, t), NEW f \in Fields,
         NEW i \in 1 .. Len(Path[f]), NEW U, TreeGood(U, R, t), Private(T, f, i - 1),
         NEW n, NEW c, IsCopyAt(U, T, f, i, n, c)
  PROVE  Keeps(U, T, R, t)
<1>1. PICK h, g, W, V, ns : /\ h = T.heap /\ g = U.heap /\ ns = Nodes(T.heap, T.root, f)
                            /\ W = With(R, t, T.root) /\ V = With(R, t, U.root)
  OBVIOUS
<1>2. Good(h, W) /\ Good(g, V) /\ h \in Heaps /\ g \in Heaps /\ Shape(h) /\ Shape(g)
      /\ W[t] = T.root /\ T.root \in RootNodes \cup {Nil} /\ V[t] = U.root
      /\ U.root \in RootNodes \cup {Nil}
  BY <1>1, TreeFields
<1>3. /\ n = ns[i] /\ n \in Places /\ IsCopied(g, h, n, c) /\ g[c].refcnt = 1
      /\ i = 1 => U.root = c
      /\ i # 1 => g[ns[i - 1]].child[Direction(Path[f][i - 1], f)] = c
  BY <1>1 DEF IsCopyAt
<1>4. c \in Places /\ h[c].refcnt = 0
  BY <1>3 DEF IsCopied
<1>5. ASSUME NEW u \in Tables \ {t}, R[u] # NoTable, NEW a \in Places, On(h, R[u], a)
      PROVE  g[a].child = h[a].child /\ g[a].value = h[a].value /\ g[a].reloc = h[a].reloc
  <2>1. R[u] \in RootNodes \cup {Nil} /\ W[u] = R[u]
    BY <1>1, <1>5, OtherRoot
  <2>2. h[a].refcnt # 0
    BY <2>1, <1>2, <1>5, OnLive
  <2>3. a # c
    BY <2>2, <1>4
  <2>4. \A e \in 1 .. 2 : Replaced(g[a].child[e], h[a].child[e], n, c)
    BY <2>3, <1>3 DEF IsCopied
  <2>5. ASSUME NEW e \in 1 .. 2, g[a].child[e] = c PROVE FALSE
    <3>1. CASE i = 1
      <4>1. c \in RootNodes
        BY <3>1, <1>2, <1>3, <1>4, PlaceIs
      <4>2. SegmentOf(c) = Whole
        BY <4>1 DEF RootNodes
      <4>3. Parents(g, c) = {}
        BY <4>2, <1>2, <1>4, RootNoParent
      <4> QED
        BY <4>3, <2>5 DEF Parents
    <3>2. CASE i # 1
      <4>1. PICK j : j = i - 1
        OBVIOUS
      <4>2. j \in 1 .. Len(Path[f])
        BY <4>1, <3>2, PathFacts
      <4>3. ns[j] \in Places /\ Direction(Path[f][j], f) \in 1 .. 2
        BY <4>1, <3>2, <1>1, <1>2, <1>3, PlaceIs, NodesLive
      <4>4. g[ns[j]].child[Direction(Path[f][j], f)] = c
        BY <4>1, <3>2, <1>3
      <4>5. a = ns[j]
        BY <4>3, <4>4, <2>5, <1>2, <1>3, <1>4, OnePointer
      <4>6. Private(T, f, j) /\ ns[j] # Nil
        BY <4>1, <4>3, PlaceIs
      <4> QED
        BY <4>2, <4>5, <4>6, <1>1, <1>5, PrivateOff
    <3> QED
      BY <3>1, <3>2
  <2>6. \A e \in 1 .. 2 : g[a].child[e] = h[a].child[e]
    BY <2>4, <2>5 DEF Replaced
  <2>7. g[a].child = h[a].child
    <3>1. g[a].child \in [1 .. 2 -> Pointers] /\ h[a].child \in [1 .. 2 -> Pointers]
      BY <1>2, NodeFields
    <3> QED
      BY <3>1, <2>6
  <2> QED
    BY <2>3, <2>7, <1>3 DEF IsCopied
<1> QED
  BY <1>1, <1>5 DEF Keeps, Kept

\* In words: a node of the path that is shared has no flagged node below it.
LEMMA DropsFlagIs ==
  ASSUME NEW h, NEW r, NEW f \in Fields, NEW ns, ns = Nodes(h, r, f)
  PROVE  DropsFlag(h, r, f) <=>
           \E i, j \in 1 .. Len(Path[f]) :
             i <= j /\ ns[i] # Nil /\ h[ns[i]].refcnt > 1 /\ HasReloc(h, ns[j])
<1>1. DOMAIN Path[f] = 1 .. Len(Path[f])
  BY PathFacts
<1> QED
  BY <1>1 DEF DropsFlag

\* Copying a shared node above which no flag is lost loses no flag, now or later.
LEMMA CopyAtDrops ==
  ASSUME NEW T, NEW R, NEW t \in Tables, TreeGood(T, R, t), NEW f \in Fields,
         NEW i \in 1 .. Len(Path[f]), NEW U, TreeGood(U, R, t),
         NEW n, NEW c, IsCopyAt(U, T, f, i, n, c), T.heap[n].refcnt > 1,
         ~DropsFlag(T.heap, T.root, f)
  PROVE  ~HasReloc(T.heap, n) /\ ~DropsFlag(U.heap, U.root, f)
<1>1. PICK h, g, W, ns, ms, r, q :
        /\ h = T.heap /\ g = U.heap /\ r = T.root /\ q = U.root /\ W = With(R, t, r)
        /\ ns = Nodes(h, r, f) /\ ms = Nodes(g, q, f)
  OBVIOUS
<1>2. /\ Good(h, W) /\ h \in Heaps /\ g \in Heaps /\ Shape(h) /\ Shape(g)
      /\ W[t] = r /\ r \in RootNodes \cup {Nil} /\ q \in RootNodes \cup {Nil}
  BY SMTT(30), <1>1, TreeFields
<1>3. /\ n = ns[i] /\ n \in Places /\ SegmentOf(n) = Path[f][i] /\ IsCopied(g, h, n, c)
      /\ Replaced(q, r, n, c) /\ g[c].refcnt = 1 /\ c \in Places
      /\ \A a \in Places \ {n, c} : a \notin Kids(h, n) => g[a].refcnt = h[a].refcnt
  BY <1>1 DEF IsCopyAt, IsCopied
<1>4. \A k, j \in 1 .. Len(Path[f]) :
        k <= j /\ ns[k] # Nil /\ h[ns[k]].refcnt > 1 => ~HasReloc(h, ns[j])
  BY <1>1, DropsFlagIs
<1>5. ~HasReloc(h, n)
  <2>1. n # Nil /\ i <= i /\ h[ns[i]].refcnt > 1
    BY <1>1, <1>3, PlaceIs
  <2> QED
    BY <2>1, <1>3, <1>4
<1>6. ASSUME NEW j \in 1 .. Len(Path[f])
      PROVE  Replaced(ms[j], ns[j], n, c) /\ (HasReloc(g, ms[j]) <=> HasReloc(h, ns[j]))
  <2>1. Replaced(ms[j], ns[j], n, c)
    <3>1. W[t] \in RootNodes \cup {Nil} /\ Replaced(q, W[t], n, c)
      BY <1>2, <1>3
    <3>2. Replaced(Nodes(g, q, f)[j], Nodes(h, W[t], f)[j], n, c)
      BY <3>1, <1>2, <1>3, CopiedNodes
    <3> QED
      BY <3>2, <1>1, <1>2
  <2>2. ns[j] = Nil \/ On(h, W[t], ns[j])
    BY <1>1, <1>2, OnNodes
  <2> QED
    BY <2>1, <2>2, <1>2, <1>3, <1>5, CopiedHas
<1>7. ASSUME NEW k \in 1 .. Len(Path[f]), NEW j \in 1 .. Len(Path[f]),
             k <= j, ms[k] # Nil, g[ms[k]].refcnt > 1
      PROVE  ~HasReloc(g, ms[j])
  <2>1. PICK a : a = ms[k]
    OBVIOUS
  <2>2. a # c
    BY <2>1, <1>3, <1>7
  <2>3. a = ns[k]
    BY <2>1, <2>2, <1>6 DEF Replaced
  <2>4. a \in Places /\ SegmentOf(a) = Path[f][k]
    <3>1. Walk(ns, h, r, f)
      BY <1>1, <1>2, NodesWalk
    <3> QED
      BY <3>1, <2>1, <2>3, <1>7 DEF Walk, Pointers
  <2>5. CASE a = n
    BY <2>1, <2>3, <2>5, <1>1, <1>4, <1>6, <1>7
  <2>6. CASE a \in Kids(h, n)
    <3>1. ~(k < i)
      <4>1. SUFFICES ASSUME k < i PROVE FALSE
        OBVIOUS
      <4>2. k \in 1 .. i - 1
        BY <4>1, PathFacts
      <4> QED
        BY <4>2, <2>4, <2>6, <1>2, <1>3, AboveNode
    <3>2. i <= j
      BY <3>1, <1>7, PathFacts
    <3>3. ns[i] # Nil /\ h[ns[i]].refcnt > 1
      BY <1>1, <1>3, PlaceIs
    <3> QED
      BY <3>2, <3>3, <1>4, <1>6
  <2>7. CASE a # n /\ a \notin Kids(h, n)
    <3>1. h[a].refcnt = g[a].refcnt
      BY <2>2, <2>4, <2>7, <1>3
    <3>2. ns[k] # Nil /\ h[ns[k]].refcnt > 1
      BY <3>1, <2>1, <2>3, <1>7
    <3> QED
      BY <3>2, <1>4, <1>6, <1>7
  <2> QED
    BY <2>5, <2>6, <2>7
<1>8. ~DropsFlag(g, q, f)
  BY <1>1, <1>7, DropsFlagIs
<1> QED
  BY <1>1, <1>5, <1>8

\* What making the path to f writable does to flags
IsPrepared(U, T, R, t, f) ==
  /\ Keeps(U, T, R, t)
  /\ FlaggedOff(T.heap, T.root, f) => FlaggedOff(U.heap, U.root, f)
  /\ Flagged(T.heap, T.root) /\ ~DropsFlag(T.heap, T.root, f) =>
       Flagged(U.heap, U.root) /\ ~DropsFlag(U.heap, U.root, f)

LEMMA PrepareLevelFlags ==
  ASSUME NEW T, NEW R, NEW t \in Tables, TreeGood(T, R, t), NEW f \in Fields,
         NEW i \in 1 .. Len(Path[f]), Private(T, f, i - 1)
  PROVE  IsPrepared(PrepareLevel(T, f, i), T, R, t, f)
<1>1. PICK ns : ns = Nodes(T.heap, T.root, f)
  OBVIOUS
<1>2. PrepareLevel(T, f, i) =
        IF ns[i] = Nil \/ T.heap[ns[i]].refcnt = 1 THEN T ELSE CopyAt(T, f, i, ns)
  BY <1>1, Zenon DEF PrepareLevel, PrepareNode, CopyAt
<1>3. CASE ns[i] = Nil \/ T.heap[ns[i]].refcnt = 1
  BY <1>2, <1>3, KeepsRefl DEF IsPrepared
<1>4. CASE ~(ns[i] = Nil \/ T.heap[ns[i]].refcnt = 1)
  <2>1. PICK U : U = CopyAt(T, f, i, ns)
    OBVIOUS
  <2>2. PICK n, c : IsCopyAt(U, T, f, i, n, c)
    BY <2>1, <1>1, <1>4, CopyAtCopied
  <2>3. TreeGood(U, R, t)
    BY <2>1, <1>1, <1>4, CopyAtGood
  <2>4. Keeps(U, T, R, t)
    BY <2>2, <2>3, CopyAtKeeps
  <2>5. PICK h, g, W, r, q : /\ h = T.heap /\ g = U.heap /\ r = T.root /\ q = U.root
                             /\ W = With(R, t, r)
    OBVIOUS
  <2>6. /\ Good(h, W) /\ W[t] = r /\ r \in RootNodes \cup {Nil} /\ q \in RootNodes \cup {Nil}
        /\ h \in Heaps
    BY <2>3, <2>5, TreeFields
  <2>7. /\ IsCopied(g, h, n, c) /\ Replaced(q, W[t], n, c) /\ n = ns[i] /\ n \in Places
        /\ SegmentOf(n) = Path[f][i]
    BY <2>2, <2>5, <2>6, <1>1 DEF IsCopyAt
  <2>8. W[t] \in RootNodes \cup {Nil}
    BY <2>6
  <2>9. h[n].refcnt > 1
    <3>1. n = Nodes(h, W[t], f)[i] /\ n # Nil
      BY <2>5, <2>6, <2>7, <1>1, <1>4
    <3>2. h[n].refcnt # 0
      BY <3>1, <2>6, <2>8, NodesLive
    <3>3. h[n].refcnt \in Nat
      BY <2>6, <2>7, NodeFields
    <3> QED
      BY <3>2, <3>3, <2>5, <2>7, <1>4
  <2>10. FlaggedOff(h, r, f) => FlaggedOff(g, q, f)
    <3>1. In(f, SegmentOf(n))
      BY <2>7, PathFacts
    <3> QED
      BY <3>1, <2>6, <2>7, <2>8, CopiedFlaggedOff
  <2>11. ASSUME Flagged(h, r), ~DropsFlag(h, r, f)
         PROVE  Flagged(g, q) /\ ~DropsFlag(g, q, f)
    <3>1. ~HasReloc(h, n) /\ ~DropsFlag(g, q, f)
      BY <2>2, <2>3, <2>5, <2>9, <2>11, CopyAtDrops
    <3> QED
      BY <3>1, <2>6, <2>7, <2>8, <2>11, CopiedFlagged
  <2>12. IsPrepared(U, T, R, t, f)
    BY <2>4, <2>5, <2>10, <2>11 DEF IsPrepared
  <2>13. PrepareLevel(T, f, i) = U
    BY <2>1, <1>2, <1>4
  <2> QED
    BY <2>12, <2>13
<1> QED
  BY <1>3, <1>4

LEMMA PrepareToWriteFlags ==
  ASSUME NEW T, NEW R, NEW t \in Tables, TreeGood(T, R, t), NEW f \in Fields
  PROVE  IsPrepared(PrepareToWrite(T, f), T, R, t, f)
<1>1. PICK after, L : Prepares(after, T, R, t, f) /\ PrepareToWrite(T, f) = after[L] /\ L = Len(Path[f])
  BY PrepareToWriteIs
<1>2. L \in Nat \ {0}
  BY <1>1, PathFacts
<1> DEFINE S == {k \in 0 .. L : IsPrepared(after[k], T, R, t, f) /\ Private(after[k], f, k)}
<1>3. 0 \in S
  <2>1. after[0] = T
    BY <1>1 DEF Prepares
  <2>2. Private(T, f, 0)
    BY DEF Private
  <2>3. IsPrepared(T, T, R, t, f)
    BY KeepsRefl DEF IsPrepared
  <2> QED
    BY <2>1, <2>2, <2>3, <1>2
<1>4. ASSUME NEW k \in 0 .. L - 1, k \in S PROVE k + 1 \in S
  <2>1. PICK i, V, U : i = k + 1 /\ V = after[k] /\ U = after[i]
    OBVIOUS
  <2>2. i \in 1 .. Len(Path[f]) /\ i - 1 = k /\ k \in 0 .. L /\ i \in 0 .. L
    BY <2>1, <1>1, <1>2
  <2>3. TreeGood(V, R, t) /\ U = PrepareLevel(V, f, i)
    BY <2>1, <2>2, <1>1 DEF Prepares
  <2>4. IsPrepared(V, T, R, t, f) /\ Private(V, f, i - 1)
    BY <2>1, <2>2, <1>4
  <2>5. IsPrepared(U, V, R, t, f) /\ Private(U, f, i)
    BY <2>2, <2>3, <2>4, PrepareLevelFlags, PrepareLevelPrivate
  <2>6. Keeps(U, T, R, t)
    BY <2>3, <2>4, <2>5, KeepsTrans DEF IsPrepared
  <2>7. IsPrepared(U, T, R, t, f)
    BY <2>4, <2>5, <2>6 DEF IsPrepared
  <2> QED
    BY <2>1, <2>2, <2>5, <2>7
<1> HIDE DEF S
<1>5. 0 .. L \subseteq S
  BY <1>2, <1>3, <1>4, SetInduction
<1>6. L \in S
  BY <1>2, <1>5
<1> QED
  BY <1>1, <1>6 DEF S

-----------------------------------------------------------------------------
(***************************************************************************)
(* Changing a private path                                                 *)
(***************************************************************************)
LEMMA LocalKeeps ==
  ASSUME NEW T, NEW R, NEW t \in Tables, TreeGood(T, R, t), NEW f \in Fields,
         Private(T, f, Len(Path[f])), NEW U, Local(U, T, f)
  PROVE  Keeps(U, T, R, t)
<1>1. ASSUME NEW u \in Tables \ {t}, R[u] # NoTable, NEW a \in Places, On(T.heap, R[u], a)
      PROVE  /\ U.heap[a].child = T.heap[a].child /\ U.heap[a].value = T.heap[a].value
             /\ U.heap[a].reloc = T.heap[a].reloc
  <2>1. PICK h, W, q : h = T.heap /\ W = With(R, t, T.root) /\ q = R[u]
    OBVIOUS
  <2>2. Good(h, W) /\ q \in RootNodes \cup {Nil} /\ W[u] = q
    BY <2>1, <1>1, TreeFields, OtherRoot
  <2>3. a # Nil /\ h[a].refcnt # 0
    BY <2>1, <2>2, <1>1, OnLive
  <2>4. ASSUME NEW i \in 1 .. Len(Path[f]) PROVE Nodes(T.heap, T.root, f)[i] # a
    <3>1. CASE Nodes(T.heap, T.root, f)[i] = Nil
      BY <3>1, <2>3
    <3>2. CASE Nodes(T.heap, T.root, f)[i] # Nil
      <4>1. Private(T, f, i)
        <5>1. 1 .. i \subseteq 1 .. Len(Path[f])
          BY PathFacts
        <5> QED
          BY <5>1 DEF Private
      <4> QED
        BY <4>1, <3>2, <1>1, PrivateOff
    <3> QED
      BY <3>1, <3>2
  <2> QED
    BY <2>1, <2>3, <2>4 DEF Local
<1> QED
  BY <1>1 DEF Keeps, Kept

\* Node b was in the tree before field f was inserted, or it is new.
OldOrNew(b, T, f, first, new) ==
  \/ On(T.heap, T.root, b)
  \/ In(f, SegmentOf(b)) /\ \E j \in first .. Len(Path[f]) : b = new[j]

LEMMA InsertsOn ==
  ASSUME NEW T, NEW R, NEW t \in Tables, TreeGood(T, R, t), NEW f \in Fields,
         NEW v, NEW U, TreeGood(U, R, t), NEW first, NEW new, Inserts(U, T, f, first, new, v),
         NEW b, On(U.heap, U.root, b)
  PROVE  OldOrNew(b, T, f, first, new)
<1>1. PICK h, g, r, q : h = T.heap /\ g = U.heap /\ r = T.root /\ q = U.root
  OBVIOUS
<1>2. /\ h \in Heaps /\ Shape(h) /\ r \in RootNodes \cup {Nil}
      /\ g \in Heaps /\ Shape(g) /\ q \in RootNodes \cup {Nil}
  BY <1>1, TreeFields
<1>3. PICK s, e, i : s = SegmentOf(b) /\ e = s[1] /\ i = LevelOf(s)
  OBVIOUS
<1>4. e \in Fields /\ In(e, s) /\ i \in 1 .. Len(Path[e]) /\ b # Nil /\ Path[e][i] = s
  BY <1>3, PlaceIs, SegmentLevel DEF On
<1>5. Nodes(g, q, e)[i] = b
  BY <1>1, <1>3, <1>4 DEF On
<1>6. PICK a : a = Nodes(h, r, e)[i]
  OBVIOUS
<1>7. InsertedAt(b, a, e, f, first, new, i)
  <2>1. InsertedAt(Nodes(U.heap, U.root, e)[i], Nodes(T.heap, T.root, e)[i], e, f, first, new, i)
    BY <1>4, InsertsNodes
  <2> QED
    BY <2>1, <1>1, <1>5, <1>6
<1>8. CASE b = a
  <2>1. On(h, r, a)
    BY SMTT(30), <1>2, <1>4, <1>6, <1>8, OnNodes
  <2> QED
    BY <2>1, <1>1, <1>8 DEF OldOrNew
<1>9. CASE b = new[i] /\ i \in first .. Len(Path[f]) /\ Path[e][i] = Path[f][i]
  <2>1. i \in 1 .. Len(Path[f])
    BY <1>4, <1>9, PathFacts
  <2>2. In(f, Path[f][i])
    BY <2>1, PathFacts
  <2> QED
    BY <2>2, <1>3, <1>4, <1>9 DEF OldOrNew
<1> QED
  BY <1>7, <1>8, <1>9 DEF InsertedAt

LEMMA InsertsHas ==
  ASSUME NEW T, NEW R, NEW t \in Tables, TreeGood(T, R, t), NEW f \in Fields,
         NEW v, NEW U, NEW first, NEW new, Inserts(U, T, f, first, new, v),
         NEW x, x = Nil \/ On(T.heap, T.root, x)
  PROVE  HasReloc(U.heap, x) <=> HasReloc(T.heap, x)
<1>1. PICK h, g, W, ns : h = T.heap /\ g = U.heap /\ W = With(R, t, T.root) /\ ns = Nodes(T.heap, T.root, f)
  OBVIOUS
<1>2. CASE x = Nil
  BY <1>2 DEF HasReloc
<1>3. CASE On(h, T.root, x)
  <2>1. Good(h, W) /\ W[t] = T.root /\ T.root \in RootNodes \cup {Nil}
    BY <1>1, TreeFields
  <2>2. x \in Places /\ h[x].refcnt # 0
    BY <2>1, <1>3, OnLive
  <2>3. IsInserted(g, h, ns, f, first, new, v)
    BY <1>1, InsertsIs
  <2>4. g[x].reloc = h[x].reloc
    <3>1. CASE first = 1 \/ x # ns[first - 1]
      BY <3>1, <2>2, <2>3 DEF IsInserted
    <3>2. CASE first # 1 /\ x = ns[first - 1]
      BY <3>2, <2>3 DEF IsInserted
    <3> QED
      BY <3>1, <3>2
  <2> QED
    BY <2>4, <1>1 DEF HasReloc
<1> QED
  BY <1>1, <1>2, <1>3

\* Inserting a value without a relocated address keeps the flags right.
LEMMA InsertsFlagged ==
  ASSUME NEW T, NEW R, NEW t \in Tables, TreeGood(T, R, t), NEW f \in Fields,
         NEW v, NEW U, TreeGood(U, R, t), NEW first, NEW new, Inserts(U, T, f, first, new, v),
         ~Relocated(v), Flagged(T.heap, T.root)
  PROVE  Flagged(U.heap, U.root)
<1>1. PICK h, g, W, ns, r, q : /\ h = T.heap /\ g = U.heap /\ r = T.root /\ q = U.root
                               /\ W = With(R, t, r) /\ ns = Nodes(h, r, f)
  OBVIOUS
<1>2. Good(h, W) /\ W[t] = r /\ r \in RootNodes \cup {Nil} /\ h \in Heaps /\ Shape(h)
      /\ g \in Heaps /\ Shape(g)
  BY <1>1, TreeFields
<1>3. IsInserted(g, h, ns, f, first, new, v)
  BY <1>1, InsertsIs
<1>4. first \in 1 .. Len(Path[f]) /\ ns[first] = Nil /\ FreshPath(h, f, new)
  BY <1>1 DEF Inserts
<1>5. Len(Path[f]) \in Nat /\ first .. Len(Path[f]) \subseteq 1 .. Len(Path[f])
  BY <1>4, PathFacts
<1>6. \A x : x = Nil \/ On(h, r, x) => (HasReloc(g, x) <=> HasReloc(h, x))
  BY <1>1, InsertsHas
<1>7. ASSUME NEW i \in first .. Len(Path[f]) PROVE ~HasReloc(g, new[i])
  BY <1>3 DEF HasReloc, IsInserted
<1>8. ASSUME NEW i \in first .. Len(Path[f]), On(g, q, new[i]) PROVE FlagAt(g, new[i])
  <2>1. i \in 1 .. Len(Path[f])
    BY <1>5
  <2>2. SegmentOf(new[i]) = Path[f][i]
    BY <2>1, <1>4 DEF FreshPath
  <2>3. CASE i = Len(Path[f])
    <3>1. g[new[i]].value = v
      BY <2>3, <1>3 DEF IsInserted
    <3>2. IsLeaf(SegmentOf(new[i]))
      BY <2>1, <2>2, <2>3, PathFacts
    <3> QED
      BY <3>1, <3>2, <1>7 DEF FlagAt
  <2>4. CASE i # Len(Path[f])
    <3>1. ~IsLeaf(SegmentOf(new[i]))
      BY <2>1, <2>2, <2>4, PathFacts
    <3>2. i + 1 \in first .. Len(Path[f])
      BY <2>4, <1>4, <1>5
    <3>3. ASSUME NEW d \in 1 .. 2 PROVE ~HasReloc(g, g[new[i]].child[d])
      <4>1. g[new[i]].child[d] = Nil \/ g[new[i]].child[d] = new[i + 1]
        BY <1>3 DEF IsInserted
      <4> QED
        BY <4>1, <3>2, <1>7 DEF HasReloc
    <3> QED
      BY <3>1, <3>3, <1>7 DEF FlagAt
  <2> QED
    BY <2>3, <2>4
<1>9. ASSUME NEW a \in Places, On(h, r, a) PROVE FlagAt(g, a)
  <2>1. FlagAt(h, a)
    BY <1>1, <1>9 DEF Flagged
  <2>2. h[a].refcnt # 0
    BY <1>2, <1>9, OnLive
  <2>3. CASE first = 1 \/ a # ns[first - 1]
    <3>1. g[a] = h[a]
      BY <2>2, <2>3, <1>3 DEF IsInserted
    <3>2. ASSUME NEW d \in 1 .. 2 PROVE HasReloc(g, g[a].child[d]) <=> HasReloc(h, h[a].child[d])
      <4>1. h[a].child[d] = Nil \/ On(h, r, h[a].child[d])
        BY <1>2, <1>9, OnChild
      <4> QED
        BY <4>1, <3>1, <1>6
    <3>3. HasReloc(g, a) <=> HasReloc(h, a)
      BY <1>6, <1>9
    <3> QED
      BY <3>1, <3>2, <3>3, <2>1, FlagSame
  <2>4. CASE first # 1 /\ a = ns[first - 1]
    <3>1. PICK k, d : k = first - 1 /\ d = Direction(Path[f][k], f)
      OBVIOUS
    <3>2. k \in 1 .. Len(Path[f]) /\ k # Len(Path[f]) /\ first = k + 1 /\ d \in 1 .. 2
      BY <3>1, <2>4, <1>4, <1>5 DEF Direction
    <3>3. /\ g[a].child[d] = new[first]
          /\ \A e \in 1 .. 2 \ {d} : g[a].child[e] = h[a].child[e]
          /\ g[a].value = h[a].value
      BY <3>1, <2>4, <1>3 DEF IsInserted
    <3>4. h[a].child[d] = Nil
      <4>1. Walk(ns, h, r, f)
        BY <1>1, <1>2, NodesWalk
      <4>2. ns[k + 1] = Child(h, ns[k], d)
        BY <4>1, <3>1, <3>2 DEF Walk
      <4> QED
        BY <4>2, <3>1, <3>2, <2>4, <1>4, <1>9, PlaceIs DEF Child
    <3>5. ASSUME NEW e \in 1 .. 2 PROVE HasReloc(g, g[a].child[e]) <=> HasReloc(h, h[a].child[e])
      <4>1. CASE e = d
        <5>1. first \in first .. Len(Path[f])
          BY <1>4, <1>5
        <5>2. ~HasReloc(g, new[first])
          BY <5>1, <1>7
        <5> QED
          BY <5>2, <4>1, <3>3, <3>4 DEF HasReloc
      <4>2. CASE e # d
        <5>1. h[a].child[e] = Nil \/ On(h, r, h[a].child[e])
          BY <1>2, <1>9, OnChild
        <5> QED
          BY <5>1, <4>2, <3>3, <1>6
      <4> QED
        BY <4>1, <4>2
    <3>6. HasReloc(g, a) <=> HasReloc(h, a)
      BY <1>6, <1>9
    <3> QED
      BY <3>3, <3>5, <3>6, <2>1, FlagSame
  <2> QED
    BY <2>3, <2>4
<1>10. ASSUME NEW b \in Places, On(g, q, b) PROVE FlagAt(g, b)
  <2>0. OldOrNew(b, T, f, first, new)
    BY <1>1, <1>10, InsertsOn
  <2>1. On(h, r, b) \/ \E j \in first .. Len(Path[f]) : b = new[j]
    BY <2>0, <1>1 DEF OldOrNew
  <2> QED
    BY <2>1, <1>8, <1>9, <1>10
<1> QED
  BY <1>1, <1>10 DEF Flagged

LEMMA InsertsFlaggedOff ==
  ASSUME NEW T, NEW R, NEW t \in Tables, TreeGood(T, R, t), NEW f \in Fields,
         NEW v, NEW U, TreeGood(U, R, t), NEW first, NEW new, Inserts(U, T, f, first, new, v),
         FlaggedOff(T.heap, T.root, f)
  PROVE  FlaggedOff(U.heap, U.root, f)
<1>1. PICK h, g, W, ns, r, q : /\ h = T.heap /\ g = U.heap /\ r = T.root /\ q = U.root
                               /\ W = With(R, t, r) /\ ns = Nodes(h, r, f)
  OBVIOUS
<1>2. Good(h, W) /\ W[t] = r /\ r \in RootNodes \cup {Nil} /\ h \in Heaps /\ Shape(h)
  BY <1>1, TreeFields
<1>3. IsInserted(g, h, ns, f, first, new, v) /\ first \in 1 .. Len(Path[f])
  BY <1>1, InsertsIs DEF Inserts
<1>4. \A x : x = Nil \/ On(h, r, x) => (HasReloc(g, x) <=> HasReloc(h, x))
  BY <1>1, InsertsHas
<1>5. ASSUME NEW b \in Places, On(g, q, b), ~In(f, SegmentOf(b)) PROVE FlagAt(g, b)
  <2>0. OldOrNew(b, T, f, first, new)
    BY <1>1, <1>5, InsertsOn
  <2>1. On(h, r, b)
    BY <2>0, <1>1, <1>5 DEF OldOrNew
  <2>2. FlagAt(h, b)
    BY <2>1, <1>1, <1>5 DEF FlaggedOff
  <2>3. h[b].refcnt # 0
    BY <2>1, <1>2, OnLive
  <2>4. first = 1 \/ b # ns[first - 1]
    <3>1. SUFFICES ASSUME first # 1, b = ns[first - 1] PROVE In(f, SegmentOf(b))
      BY <1>5
    <3>2. PICK k : k = first - 1 /\ k \in 1 .. Len(Path[f])
      BY <3>1, <1>3, PathFacts
    <3>3. Walk(ns, h, r, f)
      BY <1>1, <1>2, NodesWalk
    <3>4. SegmentOf(b) = Path[f][k]
      BY <3>1, <3>2, <3>3, PlaceIs DEF Walk
    <3> QED
      BY <3>2, <3>4, PathFacts
  <2>5. g[b] = h[b]
    BY <2>3, <2>4, <1>3 DEF IsInserted
  <2>6. ASSUME NEW d \in 1 .. 2 PROVE HasReloc(g, g[b].child[d]) <=> HasReloc(h, h[b].child[d])
    <3>1. h[b].child[d] = Nil \/ On(h, r, h[b].child[d])
      BY <2>1, <1>2, OnChild
    <3> QED
      BY <3>1, <2>5, <1>4
  <2>7. HasReloc(g, b) <=> HasReloc(h, b)
    BY <2>1, <1>4
  <2> QED
    BY <2>2, <2>5, <2>6, <2>7, FlagSame
<1> QED
  BY <1>1, <1>5 DEF FlaggedOff

\* What creating field f with the value v does to flags
IsCreated(U, T, R, t, f, v) ==
  /\ Keeps(U, T, R, t)
  /\ FlaggedOff(T.heap, T.root, f) => FlaggedOff(U.heap, U.root, f)
  /\ Flagged(T.heap, T.root) /\ ~DropsFlag(T.heap, T.root, f) /\ ~Relocated(v) =>
       Flagged(U.heap, U.root)

LEMMA InsertFlags ==
  ASSUME NEW T, NEW R, NEW t \in Tables, TreeGood(T, R, t), NEW f \in Fields,
         NEW v \in SUBSET Addresses, Find(T.heap, T.root, f) = Nil
  PROVE  IsCreated(Insert(T, f, v), T, R, t, f, v)
<1>1. PICK U, V : U = PrepareToWrite(T, f) /\ V = InsertWritable(U, f, v) /\ V = Insert(T, f, v)
  BY DEF Insert
<1>2. TreeGood(U, R, t) /\ SameBut(U, T, R, t, {}) /\ Private(U, f, Len(Path[f]))
  BY <1>1, PrepareToWriteGood, PrepareToWriteSame
<1>3. IsPrepared(U, T, R, t, f)
  BY <1>1, PrepareToWriteFlags
<1>4. Find(U.heap, U.root, f) = Nil
  <2>1. Same(U.heap, U.root, T.heap, T.root, f)
    BY <1>2 DEF SameBut
  <2> QED
    BY <2>1 DEF Same
<1>5. PICK first, new : Inserts(V, U, f, first, new, v)
  BY <1>1, <1>2, <1>4, InsertWritableIs
<1>6. TreeGood(V, R, t)
  BY <1>2, <1>5, InsertsGood
<1>7. Local(V, U, f)
  BY <1>2, <1>5, InsertsSame
<1>8. Keeps(V, U, R, t)
  BY <1>2, <1>7, LocalKeeps
<1>9. Keeps(V, T, R, t)
  BY <1>2, <1>3, <1>8, KeepsTrans DEF IsPrepared
<1>10. FlaggedOff(T.heap, T.root, f) => FlaggedOff(V.heap, V.root, f)
  BY <1>2, <1>3, <1>5, <1>6, InsertsFlaggedOff DEF IsPrepared
<1>11. Flagged(T.heap, T.root) /\ ~DropsFlag(T.heap, T.root, f) /\ ~Relocated(v) =>
         Flagged(V.heap, V.root)
  BY <1>2, <1>3, <1>5, <1>6, InsertsFlagged DEF IsPrepared
<1> QED
  BY <1>1, <1>9, <1>10, <1>11 DEF IsCreated

\* What reading field f, which may have to be created, does to flags
IsReadFlags(U, T, R, t, f) ==
  /\ Keeps(U, T, R, t)
  /\ FlaggedOff(T.heap, T.root, f) => FlaggedOff(U.heap, U.root, f)
  /\ Flagged(T.heap, T.root) /\ ~(Find(T.heap, T.root, f) = Nil /\ DropsFlag(T.heap, T.root, f)) =>
       Flagged(U.heap, U.root)

LEMMA GetROFlags ==
  ASSUME NEW T, NEW R, NEW t \in Tables, TreeGood(T, R, t), NEW f \in Fields,
         NEW dflt \in Addresses, ~Relocated({dflt})
  PROVE  IsReadFlags(GetRO(T, f, dflt), T, R, t, f)
<1>0. {dflt} \in SUBSET Addresses /\ ~Relocated({dflt})
  OBVIOUS
<1>1. PICK v : v = {dflt} /\ v \in SUBSET Addresses /\ ~Relocated(v)
  BY <1>0, Zenon
<1>2. PICK U : U = GetRO(T, f, dflt)
  OBVIOUS
<1>3. U = IF Find(T.heap, T.root, f) # Nil THEN T ELSE Insert(T, f, v)
  BY <1>1, <1>2 DEF GetRO
<1>4. CASE Find(T.heap, T.root, f) # Nil
  <2>1. U = T
    BY <1>3, <1>4
  <2>2. IsReadFlags(T, T, R, t, f)
    BY <1>4, KeepsRefl DEF IsReadFlags
  <2> QED
    BY <2>1, <2>2, <1>2, Zenon
<1>5. CASE Find(T.heap, T.root, f) = Nil
  <2>1. U = Insert(T, f, v)
    BY <1>3, <1>5
  <2>2. IsCreated(U, T, R, t, f, v)
    BY <2>1, <1>1, <1>5, InsertFlags
  <2>3. IsReadFlags(U, T, R, t, f)
    BY <2>2, <1>1, <1>5 DEF IsCreated, IsReadFlags
  <2> QED
    BY <2>3, <1>2
<1> QED
  BY <1>4, <1>5

-----------------------------------------------------------------------------
(***************************************************************************)
(* Writing a value and its flags                                           *)
(***************************************************************************)
LEMMA SameOn ==
  ASSUME NEW h \in Heaps, Shape(h), NEW g, SamePointers(g, h), NEW r \in RootNodes \cup {Nil}, NEW a
  PROVE  On(g, r, a) <=> On(h, r, a)
<1>1. ASSUME NEW f \in Fields, a \in Places, In(f, SegmentOf(a))
      PROVE  Nodes(g, r, f)[LevelOf(SegmentOf(a))] = Nodes(h, r, f)[LevelOf(SegmentOf(a))]
  <2>1. PICK i : i = LevelOf(SegmentOf(a))
    OBVIOUS
  <2>2. i \in 1 .. Len(Path[f])
    BY <2>1, <1>1, PlaceIs, SegmentLevel
  <2> QED
    BY <2>1, <2>2, SamePointersNodes
<1> QED
  BY <1>1 DEF On

\* The children of a node beside the path to f are beside it, too.
LEMMA OffChild ==
  ASSUME NEW h \in Heaps, Shape(h), NEW f \in Fields, NEW a \in Places, ~In(f, SegmentOf(a)),
         NEW d \in 1 .. 2, h[a].child[d] # Nil
  PROVE  h[a].child[d] \in Places /\ ~In(f, SegmentOf(h[a].child[d]))
<1>1. PICK x, s : x = h[a].child[d] /\ s = SegmentOf(a)
  OBVIOUS
<1>2. x \in Places /\ ~IsLeaf(s) /\ SegmentOf(x) = Half(s, d) /\ s \in Segments /\ Half(s, d) \in Segments
  BY <1>1, ParentIs
<1>3. In(f, Half(s, d)) => In(f, s)
  BY <1>2, HalfLevel
<1> QED
  BY <1>1, <1>2, <1>3

\* What a write of field f does to the other tables, and beside the path to f
IsAssigned(U, T, R, t, f) ==
  /\ Keeps(U, T, R, t)
  /\ FlaggedOff(T.heap, T.root, f) => FlaggedOff(U.heap, U.root, f)

LEMMA AssignFlags ==
  ASSUME NEW T, NEW R, NEW t \in Tables, TreeGood(T, R, t), NEW f \in Fields,
         Private(T, f, Len(Path[f])), NEW v \in SUBSET Addresses
  PROVE  IsAssigned(Assign(T, f, v), T, R, t, f)
<1>1. PICK g : /\ Assign(T, f, v) = Tree(g, T.root) /\ SamePointers(g, T.heap)
               /\ \A a \in Places :
                    /\ g[a].reloc = T.heap[a].reloc
                    /\ g[a].value = IF a = Find(T.heap, T.root, f) THEN v ELSE T.heap[a].value
  BY AssignIs
<1>2. PICK h, r, ns, U, L : /\ h = T.heap /\ r = T.root /\ ns = Nodes(h, r, f)
                            /\ U = Assign(T, f, v) /\ L = Len(Path[f])
  OBVIOUS
<1>3. U.heap = g /\ U.root = r
  BY <1>1, <1>2 DEF Tree
<1>4. h \in Heaps /\ Shape(h) /\ r \in RootNodes \cup {Nil}
  BY <1>2, TreeFields
<1>5. L \in 1 .. L /\ Find(h, r, f) = ns[L]
  BY <1>2, PathFacts DEF Find
<1>6. Local(U, T, f)
  <2>1. ASSUME NEW a \in Places, \A i \in 1 .. Len(Path[f]) : Nodes(T.heap, T.root, f)[i] # a
        PROVE  g[a].child = h[a].child /\ g[a].value = h[a].value /\ g[a].reloc = h[a].reloc
    <3>1. a # Find(h, r, f)
      BY <2>1, <1>2, <1>5
    <3> QED
      BY <3>1, <1>1, <1>2 DEF SamePointers
  <2> QED
    BY <2>1, <1>2, <1>3 DEF Local
<1>7. Keeps(U, T, R, t)
  BY <1>6, LocalKeeps
<1>8. ASSUME FlaggedOff(h, r, f), NEW a \in Places, On(g, r, a), ~In(f, SegmentOf(a))
      PROVE  FlagAt(g, a)
  <2>1. On(h, r, a)
    BY <1>1, <1>2, <1>4, <1>8, SameOn
  <2>2. FlagAt(h, a)
    BY <2>1, <1>8 DEF FlaggedOff
  <2>3. a # Find(h, r, f)
    <3>1. SUFFICES ASSUME a = ns[L] PROVE In(f, SegmentOf(a))
      BY <1>5, <1>8
    <3>2. Walk(ns, h, r, f)
      BY <1>2, <1>4, NodesWalk
    <3>3. SegmentOf(a) = Path[f][L]
      BY <3>1, <3>2, <1>2, <1>5, <1>8, PlaceIs DEF Walk
    <3> QED
      BY <3>3, <1>2, <1>5, PathFacts
  <2>4. g[a].value = h[a].value /\ g[a].child = h[a].child
    BY <2>3, <1>1, <1>2 DEF SamePointers
  <2>5. \A x \in Pointers : HasReloc(g, x) <=> HasReloc(h, x)
    BY <1>1, <1>2 DEF HasReloc, Pointers
  <2>6. ASSUME NEW d \in 1 .. 2 PROVE HasReloc(g, g[a].child[d]) <=> HasReloc(h, h[a].child[d])
    <3>1. h[a].child[d] \in Pointers
      BY <1>4, ChildIs
    <3> QED
      BY <3>1, <2>4, <2>5
  <2>7. HasReloc(g, a) <=> HasReloc(h, a)
    BY <2>5 DEF Pointers
  <2> QED
    BY <2>2, <2>4, <2>6, <2>7, FlagSame
<1>9. FlaggedOff(T.heap, T.root, f) => FlaggedOff(U.heap, U.root, f)
  BY <1>2, <1>3, <1>8 DEF FlaggedOff
<1> QED
  BY <1>2, <1>7, <1>9 DEF IsAssigned

\* Setting the flags of the path makes them right, if those beside it are.
IsUpdated(U, T, R, t, f, val) ==
  /\ Keeps(U, T, R, t)
  /\ FlaggedOff(T.heap, T.root, f)
     /\ (val <=> Relocated(T.heap[Find(T.heap, T.root, f)].value)) => Flagged(U.heap, U.root)

LEMMA UpdateFlags ==
  ASSUME NEW T, NEW R, NEW t \in Tables, TreeGood(T, R, t), NEW f \in Fields,
         Private(T, f, Len(Path[f])), Find(T.heap, T.root, f) # Nil, NEW val \in BOOLEAN
  PROVE  IsUpdated(UpdateRelocatedFlag(T, f, val), T, R, t, f, val)
<1>1. PICK h, r, ns, U, L : /\ h = T.heap /\ r = T.root /\ ns = Nodes(h, r, f)
                            /\ U = UpdateRelocatedFlag(T, f, val) /\ L = Len(Path[f])
  OBVIOUS
<1>2. PICK g, flag : /\ U = Tree(g, r) /\ SamePointers(g, h)
                     /\ IsFlags(flag, h, f, ns, val) /\ IsFlagged(g, h, f, ns, flag)
  BY <1>1, UpdateFlagIs
<1>3. U.heap = g /\ U.root = r
  BY <1>2 DEF Tree
<1>4. h \in Heaps /\ Shape(h) /\ r \in RootNodes \cup {Nil} /\ g \in Heaps
  BY <1>1, <1>2, TreeFields DEF SamePointers
<1>5. L \in Nat \ {0} /\ L \in 1 .. L /\ Find(h, r, f) = ns[L]
  BY <1>1, PathFacts DEF Find
<1>6. Walk(ns, h, r, f)
  BY <1>1, <1>4, NodesWalk
<1>7. \A i \in 1 .. L : ns[i] # Nil /\ ns[i] \in Places /\ SegmentOf(ns[i]) = Path[f][i]
  <2>1. \A i \in 1 .. L : ns[i] # Nil
    BY <1>1, <1>4, NilBelow
  <2> QED
    BY <2>1, <1>1, <1>6 DEF Walk, Pointers
<1>8. Local(U, T, f)
  BY <1>1, <1>2, <1>3 DEF Local, IsFlagged
<1>9. Keeps(U, T, R, t)
  BY <1>8, LocalKeeps
<1>10. ASSUME NEW a \in Places, ~In(f, SegmentOf(a)) PROVE g[a] = h[a]
  <2>1. \A i \in 1 .. L : ns[i] # a
    BY <1>1, <1>7, <1>10, PathFacts
  <2> QED
    BY <2>1, <1>1, <1>2 DEF IsFlagged
<1>11. \A a \in Places : g[a].child = h[a].child /\ g[a].value = h[a].value
  BY <1>2 DEF IsFlagged, SamePointers
<1>12. \A i \in 1 .. L : HasReloc(g, ns[i]) <=> flag[i]
  BY <1>1, <1>2, <1>7 DEF IsFlagged, HasReloc
<1>13. ASSUME FlaggedOff(h, r, f), val <=> Relocated(h[ns[L]].value),
              NEW a \in Places, On(g, r, a)
       PROVE  FlagAt(g, a)
  <2>1. On(h, r, a)
    BY <1>2, <1>4, <1>13, SameOn
  <2>2. CASE ~In(f, SegmentOf(a))
    <3>1. FlagAt(h, a)
      BY <2>1, <2>2, <1>13 DEF FlaggedOff
    <3>2. g[a] = h[a]
      BY <2>2, <1>10
    <3>3. ASSUME NEW d \in 1 .. 2 PROVE HasReloc(g, g[a].child[d]) <=> HasReloc(h, h[a].child[d])
      <4>1. CASE h[a].child[d] = Nil
        BY <4>1, <3>2 DEF HasReloc
      <4>2. CASE h[a].child[d] # Nil
        <5>1. h[a].child[d] \in Places /\ ~In(f, SegmentOf(h[a].child[d]))
          BY <4>2, <2>2, <1>4, OffChild
        <5>2. g[h[a].child[d]] = h[h[a].child[d]]
          BY <5>1, <1>10
        <5> QED
          BY <5>2, <3>2 DEF HasReloc
      <4> QED
        BY <4>1, <4>2
    <3>4. HasReloc(g, a) <=> HasReloc(h, a)
      BY <3>2 DEF HasReloc
    <3> QED
      BY <3>1, <3>2, <3>3, <3>4, FlagSame
  <2>3. CASE In(f, SegmentOf(a))
    <3>1. PICK i : i = LevelOf(SegmentOf(a))
      OBVIOUS
    <3>2. i \in 1 .. L /\ Path[f][i] = SegmentOf(a)
      BY <3>1, <2>3, <1>1, PlaceIs, SegmentLevel
    <3>3. ns[i] = a
      BY <3>1, <2>1, <2>3, <1>1 DEF On
    <3>4. HasReloc(g, a) <=> flag[i]
      BY <3>2, <3>3, <1>12
    <3>5. IsLeaf(SegmentOf(a)) <=> i = L
      BY <3>2, <1>1, PathFacts
    <3>6. CASE i = L
      <4>1. flag[i] = val
        BY <3>6, <1>1, <1>2 DEF IsFlags
      <4>2. g[a].value = h[ns[L]].value
        BY <3>3, <3>6, <1>11
      <4>3. HasReloc(g, a) <=> Relocated(g[a].value)
        BY <4>1, <4>2, <3>4, <1>13
      <4> QED
        BY <4>3, <3>5, <3>6 DEF FlagAt
    <3>7. CASE i # L
      <4>1. PICK d, j, x, y : /\ d = Direction(Path[f][i], f) /\ j = i + 1
                              /\ x = h[a].child[d] /\ y = h[a].child[3 - d]
        OBVIOUS
      <4>2. j \in 1 .. L /\ d \in 1 .. 2 /\ i \in 1 .. L - 1 /\ 3 - d \in 1 .. 2 /\ 3 - d # d
        BY <4>1, <3>2, <3>7, <1>5 DEF Direction
      <4>3. x = ns[j]
        <5>1. ns[i + 1] = Child(h, ns[i], d)
          BY <4>1, <3>2, <3>7, <1>1, <1>6 DEF Walk
        <5> QED
          BY <5>1, <4>1, <3>3, PlaceIs DEF Child
      <4>4. flag[i] <=> flag[j] \/ HasReloc(h, y)
        <5>1. flag[i] = (flag[i + 1] \/ HasReloc(h, h[ns[i]].child[3 - Direction(Path[f][i], f)]))
          BY <4>2, <1>1, <1>2 DEF IsFlags
        <5> QED
          BY <5>1, <4>1, <3>3
      <4>5. HasReloc(g, x) <=> flag[j]
        BY <4>2, <4>3, <1>12
      <4>6. HasReloc(g, y) <=> HasReloc(h, y)
        <5>1. CASE y = Nil
          BY <5>1 DEF HasReloc
        <5>2. CASE y # Nil
          <6>1. PICK s, e : s = SegmentOf(a) /\ e = 3 - d
            OBVIOUS
          <6>2. e \in 1 .. 2 /\ e # d /\ y = h[a].child[e]
            BY <6>1, <4>1, <4>2
          <6>3. /\ y \in Places /\ ~IsLeaf(s) /\ SegmentOf(y) = Half(s, e)
                /\ s \in Segments /\ Half(s, e) \in Segments
            BY <6>1, <6>2, <5>2, <1>4, ParentIs
          <6>4. In(f, Half(s, e)) => Direction(s, f) = e
            BY <6>2, <6>3, HalfLevel
          <6>5. ~In(f, SegmentOf(y))
            BY <6>1, <6>2, <6>3, <6>4, <4>1, <3>2
          <6>6. g[y] = h[y]
            BY <6>3, <6>5, <1>10
          <6> QED
            BY <6>6 DEF HasReloc
        <5> QED
          BY <5>1, <5>2
      <4>7. HasReloc(g, a) <=> HasReloc(g, x) \/ HasReloc(g, y)
        BY <4>4, <4>5, <4>6, <3>4
      <4>8. HasReloc(g, a) <=> HasReloc(g, g[a].child[1]) \/ HasReloc(g, g[a].child[2])
        <5>1. g[a].child = h[a].child
          BY <1>11
        <5>2. CASE d = 1
          BY <5>1, <5>2, <4>1, <4>7
        <5>3. CASE d = 2
          BY <5>1, <5>3, <4>1, <4>7
        <5> QED
          BY <5>2, <5>3, <4>2
      <4> QED
        BY <4>8, <3>5, <3>7 DEF FlagAt
    <3> QED
      BY <3>6, <3>7
  <2> QED
    BY <2>2, <2>3
<1>14. FlaggedOff(T.heap, T.root, f)
       /\ (val <=> Relocated(T.heap[Find(T.heap, T.root, f)].value)) => Flagged(U.heap, U.root)
  BY <1>1, <1>3, <1>5, <1>13 DEF Flagged
<1> QED
  BY <1>1, <1>9, <1>14 DEF IsUpdated

LEMMA FlaggedBeside ==
  ASSUME NEW h, NEW r, Flagged(h, r), NEW f
  PROVE  FlaggedOff(h, r, f)
  BY DEF Flagged, FlaggedOff

\* The value and the flags of a field with a writable path
LEMMA StoreFlags ==
  ASSUME NEW T, NEW R, NEW t \in Tables, TreeGood(T, R, t), NEW f \in Fields,
         Private(T, f, Len(Path[f])), Find(T.heap, T.root, f) # Nil,
         NEW v \in SUBSET Addresses, NEW flag \in BOOLEAN,
         NEW U, U = UpdateRelocatedFlag(Assign(T, f, v), f, flag)
  PROVE  /\ Keeps(U, T, R, t)
         /\ FlaggedOff(T.heap, T.root, f) /\ (flag <=> Relocated(v)) => Flagged(U.heap, U.root)
<1>1. PICK C : C = Assign(T, f, v)
  OBVIOUS
<1>2. TreeGood(C, R, t) /\ IsAssigned(C, T, R, t, f)
  BY <1>1, AssignGood, AssignFlags
<1>3. Shows(C, f, v) /\ Private(C, f, Len(Path[f]))
  BY <1>1, AssignSame
<1>4. U = UpdateRelocatedFlag(C, f, flag)
  BY <1>1
<1>5. Find(C.heap, C.root, f) # Nil /\ C.heap[Find(C.heap, C.root, f)].value = v
  BY <1>3 DEF Shows
<1>6. IsUpdated(U, C, R, t, f, flag)
  BY <1>2, <1>3, <1>4, <1>5, UpdateFlags
<1>7. TreeGood(U, R, t)
  BY <1>2, <1>4, UpdateFlagGood
<1>8. Keeps(U, T, R, t)
  BY <1>2, <1>6, KeepsTrans DEF IsUpdated, IsAssigned
<1>9. FlaggedOff(T.heap, T.root, f) /\ (flag <=> Relocated(v)) => Flagged(U.heap, U.root)
  BY <1>2, <1>5, <1>6 DEF IsUpdated, IsAssigned
<1> QED
  BY <1>8, <1>9

LEMMA WrittenFlags ==
  ASSUME NEW T, NEW R, NEW t \in Tables, TreeGood(T, R, t), NEW f \in Fields,
         NEW v \in SUBSET Addresses, NEW dflt \in Addresses, ~Relocated({dflt}), NEW flag \in BOOLEAN,
         NEW U, U = Written(T, f, v, dflt, flag)
  PROVE  /\ Keeps(U, T, R, t)
         /\ FlaggedOff(T.heap, T.root, f) /\ (flag <=> Relocated(v)) => Flagged(U.heap, U.root)
<1>1. PICK A, B : A = PrepareToWrite(T, f) /\ B = GetRO(A, f, dflt) /\ B = GetRW(T, f, dflt)
  BY DEF GetRW
<1>2. TreeGood(A, R, t) /\ IsPrepared(A, T, R, t, f)
  BY <1>1, PrepareToWriteGood, PrepareToWriteFlags
<1>3. IsReadFlags(B, A, R, t, f)
  BY <1>1, <1>2, GetROFlags
<1>4. TreeGood(B, R, t) /\ Find(B.heap, B.root, f) # Nil /\ Private(B, f, Len(Path[f]))
  BY <1>1, GetRWSame
<1>5. U = UpdateRelocatedFlag(Assign(B, f, v), f, flag)
  BY <1>1 DEF Written
<1>6. /\ Keeps(U, B, R, t)
      /\ FlaggedOff(B.heap, B.root, f) /\ (flag <=> Relocated(v)) => Flagged(U.heap, U.root)
  BY <1>4, <1>5, StoreFlags
<1>7. Keeps(B, T, R, t)
  BY <1>2, <1>3, <1>4, KeepsTrans DEF IsPrepared, IsReadFlags
<1>8. Keeps(U, T, R, t)
  BY <1>4, <1>6, <1>7, KeepsTrans
<1>9. FlaggedOff(T.heap, T.root, f) => FlaggedOff(B.heap, B.root, f)
  BY <1>2, <1>3 DEF IsPrepared, IsReadFlags
<1> QED
  BY <1>6, <1>8, <1>9

LEMMA ResolvedFlags ==
  ASSUME NEW T, NEW R, NEW t \in Tables, TreeGood(T, R, t), NEW f \in Fields,
         NEW v \in SUBSET Addresses, ~Relocated(v), Find(T.heap, T.root, f) # Nil,
         NEW U, U = Resolved(T, f, v)
  PROVE  /\ Keeps(U, T, R, t)
         /\ Flagged(T.heap, T.root) => Flagged(U.heap, U.root)
<1>1. PICK A : A = PrepareToWrite(T, f)
  OBVIOUS
<1>2. TreeGood(A, R, t) /\ IsPrepared(A, T, R, t, f)
  BY <1>1, PrepareToWriteGood, PrepareToWriteFlags
<1>3. SameBut(A, T, R, t, {}) /\ Private(A, f, Len(Path[f]))
  BY <1>1, PrepareToWriteSame
<1>4. Find(A.heap, A.root, f) # Nil
  <2>1. Same(A.heap, A.root, T.heap, T.root, f)
    BY <1>3 DEF SameBut
  <2> QED
    BY <2>1 DEF Same
<1>5. PICK no : no = FALSE /\ no \in BOOLEAN /\ (no <=> Relocated(v))
  OBVIOUS
<1>6. U = UpdateRelocatedFlag(Assign(A, f, v), f, no)
  BY <1>1, <1>5 DEF Resolved
<1>7. /\ Keeps(U, A, R, t)
      /\ FlaggedOff(A.heap, A.root, f) /\ (no <=> Relocated(v)) => Flagged(U.heap, U.root)
  BY <1>2, <1>3, <1>4, <1>5, <1>6, StoreFlags
<1>8. Keeps(U, T, R, t)
  BY <1>2, <1>7, KeepsTrans DEF IsPrepared
<1> QED
  BY <1>2, <1>5, <1>7, <1>8, FlaggedBeside DEF IsPrepared

-----------------------------------------------------------------------------
(***************************************************************************)
(* Following the flags                                                     *)
(***************************************************************************)

\* The descent from a flagged root ends in a leaf with a relocated address.
LEMMA RelocLeaf ==
  ASSUME NEW h \in Heaps, Shape(h), NEW r \in RootNodes \cup {Nil}, Flagged(h, r), HasReloc(h, r)
  PROVE  \E n \in Places : /\ n = FirstRelocNode(h, r) /\ On(h, r, n) /\ IsLeaf(SegmentOf(n))
                           /\ Relocated(h[n].value)
<1>1. PICK down : IsRelocDescent(down, h, r) /\ FirstRelocNode(h, r) = down[Depth]
  BY RelocDescent
<1>2. Depth \in Nat
  BY DepthIs
<1> DEFINE S == {k \in 0 .. Depth : On(h, r, down[k]) /\ HasReloc(h, down[k])}
<1>3. 0 \in S
  <2>1. r \in RootNodes
    BY DEF HasReloc
  <2>2. On(h, r, r)
    BY <2>1, OnRoot
  <2>3. down[0] = r
    BY <1>1 DEF IsRelocDescent
  <2> QED
    BY <2>2, <2>3, <1>2
<1>4. ASSUME NEW k \in 0 .. Depth - 1, k \in S PROVE k + 1 \in S
  <2>1. PICK i, a, b : i = k + 1 /\ a = down[k] /\ b = down[i]
    OBVIOUS
  <2>2. i \in 1 .. Depth /\ i - 1 = k /\ i \in 0 .. Depth
    BY <2>1, <1>2
  <2>3. b = StepReloc(h, a)
    BY <2>1, <2>2, <1>1 DEF IsRelocDescent
  <2>4. On(h, r, a) /\ HasReloc(h, a) /\ a \in Places
    BY <2>1, <1>4 DEF On
  <2>5. FlagAt(h, a)
    BY <2>4 DEF Flagged
  <2>6. CASE IsLeaf(SegmentOf(a))
    BY <2>1, <2>2, <2>3, <2>4, <2>6 DEF StepReloc
  <2>7. CASE ~IsLeaf(SegmentOf(a))
    <3>1. a # Nil
      BY <2>4, PlaceIs
    <3>2. \E d \in 1 .. 2 : b = h[a].child[d] /\ HasReloc(h, b)
      <4>1. HasReloc(h, h[a].child[1]) \/ HasReloc(h, h[a].child[2])
        BY <2>4, <2>5, <2>7 DEF FlagAt
      <4>2. b = IF HasReloc(h, h[a].child[1]) THEN h[a].child[1] ELSE h[a].child[2]
        BY <3>1, <2>3, <2>7 DEF StepReloc
      <4> QED
        BY <4>1, <4>2
    <3>3. PICK d \in 1 .. 2 : b = h[a].child[d] /\ HasReloc(h, b)
      BY <3>2
    <3>4. h[a].child[d] # Nil
      BY <3>3 DEF HasReloc
    <3>5. On(h, r, b)
      BY <3>3, <3>4, <2>4, OnChild
    <3> QED
      BY <3>3, <3>5, <2>1, <2>2
  <2> QED
    BY <2>6, <2>7
<1> HIDE DEF S
<1>5. Depth \in S
  BY <1>2, <1>3, <1>4, SetInduction
<1>6. PICK n : n = FirstRelocNode(h, r) /\ On(h, r, n) /\ HasReloc(h, n)
  BY <1>1, <1>5 DEF S
<1>7. n \in Places /\ n # Nil
  BY <1>6, PlaceIs DEF On
<1>8. IsLeaf(SegmentOf(n))
  BY <1>6, <1>7, FirstRelocIs
<1>9. Relocated(h[n].value)
  BY <1>6, <1>7, <1>8 DEF Flagged, FlagAt
<1> QED
  BY <1>6, <1>7, <1>8, <1>9

\* The root of a tree with a relocated address is flagged.
LEMMA RelocUp ==
  ASSUME NEW h \in Heaps, Shape(h), NEW r \in RootNodes \cup {Nil}, Flagged(h, r),
         NEW f \in Fields, Find(h, r, f) # Nil, Relocated(h[Find(h, r, f)].value)
  PROVE  HasReloc(h, r)
<1>1. PICK ns, L : ns = Nodes(h, r, f) /\ L = Len(Path[f])
  OBVIOUS
<1>2. L \in Nat \ {0} /\ L \in 1 .. L /\ Find(h, r, f) = ns[L]
  BY <1>1, PathFacts DEF Find
<1>3. Walk(ns, h, r, f)
  BY <1>1, NodesWalk
<1>4. \A i \in 1 .. L : ns[i] # Nil /\ ns[i] \in Places /\ SegmentOf(ns[i]) = Path[f][i]
                         /\ On(h, r, ns[i])
  <2>1. \A i \in 1 .. L : ns[i] # Nil
    BY <1>1, NilBelow
  <2> QED
    BY <2>1, <1>1, <1>3, OnNodes DEF Walk, Pointers
<1> DEFINE S == {k \in 0 .. L - 1 : HasReloc(h, ns[L - k])}
<1>5. 0 \in S
  <2>1. IsLeaf(SegmentOf(ns[L]))
    BY <1>1, <1>2, <1>4, PathFacts
  <2>2. FlagAt(h, ns[L])
    BY <1>2, <1>4 DEF Flagged
  <2>3. HasReloc(h, ns[L])
    BY <2>1, <2>2, <1>2 DEF FlagAt
  <2> QED
    BY <2>3, <1>2
<1>6. ASSUME NEW k \in 0 .. (L - 1) - 1, k \in S PROVE k + 1 \in S
  <2>1. PICK i, j : i = L - (k + 1) /\ j = L - k
    OBVIOUS
  <2>2. i \in 1 .. L /\ i # L /\ i + 1 = j /\ k + 1 \in 0 .. L - 1
    BY <2>1, <1>2
  <2>3. PICK d : d = Direction(Path[f][i], f) /\ d \in 1 .. 2
    BY DEF Direction
  <2>4. ns[j] = h[ns[i]].child[d]
    <3>1. ns[i + 1] = Child(h, ns[i], Direction(Path[f][i], f))
      BY <2>2, <1>1, <1>3 DEF Walk
    <3> QED
      BY <3>1, <2>2, <2>3, <1>4 DEF Child
  <2>5. HasReloc(h, ns[j])
    BY <2>1, <1>6
  <2>6. HasReloc(h, h[ns[i]].child[1]) \/ HasReloc(h, h[ns[i]].child[2])
    BY <2>3, <2>4, <2>5
  <2>7. ~IsLeaf(SegmentOf(ns[i])) /\ FlagAt(h, ns[i])
    BY <2>2, <1>1, <1>4, PathFacts DEF Flagged
  <2>8. HasReloc(h, ns[i])
    BY <2>6, <2>7 DEF FlagAt
  <2> QED
    BY <2>1, <2>2, <2>8
<1> HIDE DEF S
<1>7. 0 .. L - 1 \subseteq S
  <2>1. L - 1 \in Nat
    BY <1>2
  <2> QED
    BY <2>1, <1>5, <1>6, SetInduction
<1>8. PICK k : k = L - 1 /\ k \in 0 .. L - 1 /\ L - k = 1
  BY <1>2
<1>9. HasReloc(h, ns[1])
  BY <1>7, <1>8 DEF S
<1> QED
  BY <1>3, <1>9 DEF Walk

-----------------------------------------------------------------------------
(***************************************************************************)
(* The loop over the relocated fields                                      *)
(***************************************************************************)

\* The value of field f in tree T, Nil if it is not initialised
ValueIn(T, f) == Content(T.heap, Find(T.heap, T.root, f))

\* The fields that hold a relocated address
Marked(T) == {f \in Fields : ValueIn(T, f) # Nil /\ Relocated(ValueIn(T, f))}

\* Value w is v, or v with its relocated address replaced.
Resolves(w, v) == w = v \/ (v # Nil /\ w = ResolveSet(v))

LEMMA ValueInIs ==
  ASSUME NEW T, NEW R, NEW t \in Tables, TreeGood(T, R, t), NEW f \in Fields
  PROVE  /\ Find(T.heap, T.root, f) = Nil => ValueIn(T, f) = Nil
         /\ Find(T.heap, T.root, f) # Nil =>
              /\ ValueIn(T, f) = T.heap[Find(T.heap, T.root, f)].value
              /\ ValueIn(T, f) \in SUBSET Addresses /\ ValueIn(T, f) # Nil
<1>1. PICK h, r, n : h = T.heap /\ r = T.root /\ n = Find(h, r, f)
  OBVIOUS
<1>2. h \in Heaps /\ Shape(h) /\ r \in RootNodes \cup {Nil}
  BY <1>1, TreeFields
<1>3. Len(Path[f]) \in 1 .. Len(Path[f])
  BY PathFacts
<1>4. n # Nil => n \in Places
  <2>1. Walk(Nodes(h, r, f), h, r, f)
    BY <1>2, NodesWalk
  <2> QED
    BY <2>1, <1>1, <1>3 DEF Walk, Find, Pointers
<1>5. n # Nil => h[n].value \in SUBSET Addresses
  BY <1>2, <1>4, NodeFields
<1>6. n # Nil => h[n].value # Nil
  BY <1>5, PointersAssumption
<1>7. ValueIn(T, f) = IF n = Nil THEN Nil ELSE h[n].value
  BY <1>1 DEF ValueIn, Content
<1> QED
  BY <1>1, <1>5, <1>6, <1>7

LEMMA ValueInSame ==
  ASSUME NEW T, NEW U, NEW f, Same(U.heap, U.root, T.heap, T.root, f)
  PROVE  ValueIn(U, f) = ValueIn(T, f)
  BY DEF Same, ValueIn, Content

LEMMA ResolvesTrans ==
  ASSUME NEW u, u = Nil \/ u \in SUBSET Addresses, NEW v, Resolves(v, u), NEW w, Resolves(w, v)
  PROVE  Resolves(w, u)
<1>1. CASE w = v \/ v = u
  BY <1>1 DEF Resolves
<1>2. CASE u # Nil /\ v = ResolveSet(u) /\ w = ResolveSet(v)
  <2>1. u \in SUBSET Addresses
    BY <1>2
  <2>2. v \in SUBSET Addresses /\ ~Relocated(v)
    BY <2>1, <1>2, ResolveSetIs
  <2>3. w = v
    BY <2>2, <1>2, ResolveSetIs
  <2>4. w = ResolveSet(u)
    BY <2>3, <1>2, Zenon
  <2> QED
    BY <2>4, <1>2, Zenon DEF Resolves
<1> QED
  BY <1>1, <1>2 DEF Resolves

\* What one turn of the loop does
IsTurn(y, x, R, t) ==
  /\ Keeps(y.tree, x.tree, R, t)
  /\ Flagged(x.tree.heap, x.tree.root) /\ ~x.fault =>
       /\ Flagged(y.tree.heap, y.tree.root) /\ ~y.fault
       /\ Marked(y.tree) = {} \/ \E f \in Marked(x.tree) : Marked(y.tree) = Marked(x.tree) \ {f}
  /\ \A e \in Fields : Resolves(ValueIn(y.tree, e), ValueIn(x.tree, e))

LEMMA UnmarkedRoot ==
  ASSUME NEW T, NEW R, NEW t \in Tables, TreeGood(T, R, t), Flagged(T.heap, T.root),
         ~HasReloc(T.heap, T.root)
  PROVE  Marked(T) = {}
<1>1. SUFFICES ASSUME NEW f \in Marked(T) PROVE FALSE
  OBVIOUS
<1>2. f \in Fields /\ ValueIn(T, f) # Nil /\ Relocated(ValueIn(T, f))
  BY <1>1 DEF Marked
<1>3. Find(T.heap, T.root, f) # Nil /\ Relocated(T.heap[Find(T.heap, T.root, f)].value)
  BY <1>2, ValueInIs
<1> QED
  BY <1>2, <1>3, TreeFields, RelocUp

LEMMA TurnFlags ==
  ASSUME NEW x, NEW y, NEW R, NEW t \in Tables, Resolving(x, R, t), Resolving(y, R, t), Turn(y, x)
  PROVE  IsTurn(y, x, R, t)
<1>1. PICK T, U : T = x.tree /\ U = y.tree
  OBVIOUS
<1>2. TreeGood(T, R, t) /\ TreeGood(U, R, t)
  BY <1>1 DEF Resolving
<1>3. PICK h, r, n : h = T.heap /\ r = T.root /\ n = FirstRelocNode(h, r)
  OBVIOUS
<1>4. h \in Heaps /\ Shape(h) /\ r \in RootNodes \cup {Nil}
  BY <1>2, <1>3, TreeFields
<1>5. CASE y = x /\ (x.fault \/ ~HasReloc(h, r))
  <2>1. Flagged(h, r) /\ ~x.fault => Marked(T) = {}
    BY <1>2, <1>3, <1>5, UnmarkedRoot
  <2>2. \A e \in Fields : Resolves(ValueIn(T, e), ValueIn(T, e))
    BY DEF Resolves
  <2> QED
    BY <2>1, <2>2, <1>1, <1>3, <1>5, KeepsRefl DEF IsTurn
<1>6. CASE HasReloc(h, r) /\ n = Nil /\ U = T
  <2>1. ~Flagged(h, r)
    <3>1. SUFFICES ASSUME Flagged(h, r) PROVE FALSE
      OBVIOUS
    <3>2. PICK m \in Places : m = FirstRelocNode(h, r)
      BY <3>1, <1>4, <1>6, RelocLeaf
    <3> QED
      BY <3>2, <1>3, <1>6, PlaceIs
  <2>2. \A e \in Fields : Resolves(ValueIn(T, e), ValueIn(T, e))
    BY DEF Resolves
  <2> QED
    BY <2>1, <2>2, <1>1, <1>3, <1>6, KeepsRefl DEF IsTurn
<1>7. CASE /\ HasReloc(h, r) /\ n # Nil /\ y.fault = FALSE
           /\ \E f \in Fields : Find(h, r, f) = n /\ U = Resolved(T, f, ResolveSet(h[n].value))
  <2>1. PICK f \in Fields : Find(h, r, f) = n /\ U = Resolved(T, f, ResolveSet(h[n].value))
    BY <1>7
  <2>2. ValueIn(T, f) = h[n].value /\ h[n].value \in SUBSET Addresses /\ ValueIn(T, f) # Nil
    BY <2>1, <1>2, <1>3, <1>7, ValueInIs
  <2>3. PICK v : v = ResolveSet(h[n].value)
    OBVIOUS
  <2>4. v \in SUBSET Addresses /\ ~Relocated(v)
    BY <2>2, <2>3, ResolveSetIs
  <2>5. U = Resolved(T, f, v) /\ Find(T.heap, T.root, f) # Nil
    BY <2>1, <2>3, <1>3, <1>7
  <2>6. Keeps(U, T, R, t) /\ (Flagged(h, r) => Flagged(U.heap, U.root))
    BY <2>4, <2>5, <1>2, <1>3, ResolvedFlags
  <2>7. SameBut(U, T, R, t, {f}) /\ Shows(U, f, v)
    BY <2>4, <2>5, <1>2, ResolvedSame
  <2>8. ValueIn(U, f) = v
    BY <2>7 DEF Shows, ValueIn, Content
  <2>9. \A e \in Fields \ {f} : ValueIn(U, e) = ValueIn(T, e)
    BY <2>7, ValueInSame DEF SameBut
  <2>10. \A e \in Fields : Resolves(ValueIn(U, e), ValueIn(T, e))
    BY <2>2, <2>3, <2>8, <2>9 DEF Resolves
  <2>11. ASSUME Flagged(h, r) PROVE f \in Marked(T) /\ Marked(U) = Marked(T) \ {f}
    <3>1. PICK m \in Places : m = FirstRelocNode(h, r) /\ Relocated(h[m].value)
      BY <2>11, <1>4, <1>7, RelocLeaf
    <3>2. Relocated(ValueIn(T, f))
      BY <3>1, <2>2, <1>3
    <3>3. f \in Marked(T)
      BY <3>2, <2>2 DEF Marked
    <3>4. Marked(U) = Marked(T) \ {f}
      BY <2>4, <2>8, <2>9 DEF Marked
    <3> QED
      BY <3>3, <3>4
  <2>12. Flagged(T.heap, T.root) =>
           /\ Flagged(U.heap, U.root) /\ ~y.fault
           /\ \E e \in Marked(T) : Marked(U) = Marked(T) \ {e}
    BY <2>6, <2>11, <1>3, <1>7
  <2> QED
    BY <2>6, <2>10, <2>12, <1>1 DEF IsTurn
<1> QED
  BY <1>1, <1>3, <1>5, <1>6, <1>7 DEF Turn

\* What the first k turns do
IsTurned(y, x, R, t, k) ==
  /\ Keeps(y.tree, x.tree, R, t)
  /\ Flagged(x.tree.heap, x.tree.root) /\ ~x.fault =>
       /\ Flagged(y.tree.heap, y.tree.root) /\ ~y.fault
       /\ Cardinality(Marked(y.tree)) <= FieldCount - k
  /\ \A e \in Fields : Resolves(ValueIn(y.tree, e), ValueIn(x.tree, e))

LEMMA MarkedFinite ==
  ASSUME NEW T
  PROVE  IsFiniteSet(Marked(T)) /\ Cardinality(Marked(T)) \in Nat
         /\ Cardinality(Marked(T)) <= FieldCount
<1>1. FieldCount \in Nat \ {0}
  BY ConstantsAssumption
<1>2. IsFiniteSet(Fields) /\ Cardinality(Fields) = FieldCount
  <2>1. 0 \in Int /\ FieldCount - 1 \in Int /\ ~(0 > FieldCount - 1) /\ (FieldCount - 1) - 0 + 1 = FieldCount
    BY <1>1
  <2> QED
    BY <2>1, FS_Interval DEF Fields
<1>3. Marked(T) \subseteq Fields
  BY DEF Marked
<1>4. IsFiniteSet(Marked(T)) /\ Cardinality(Marked(T)) <= Cardinality(Fields)
  BY <1>2, <1>3, FS_Subset
<1> QED
  BY <1>2, <1>4, FS_CardinalityType

LEMMA LoopFlags ==
  ASSUME NEW x, NEW R, NEW t \in Tables, NEW turn, IsLoop(turn, x, R, t)
  PROVE  IsTurned(turn[FieldCount], x, R, t, FieldCount)
<1>1. FieldCount \in Nat \ {0}
  BY ConstantsAssumption
<1>2. Resolving(x, R, t)
  BY <1>1 DEF IsLoop
<1> DEFINE S == {k \in 0 .. FieldCount : IsTurned(turn[k], x, R, t, k)}
<1>3. 0 \in S
  <2>1. turn[0] = x
    BY DEF IsLoop
  <2>2. \A e \in Fields : Resolves(ValueIn(x.tree, e), ValueIn(x.tree, e))
    BY DEF Resolves
  <2>3. Cardinality(Marked(x.tree)) <= FieldCount - 0
    BY <1>1, MarkedFinite
  <2>4. IsTurned(x, x, R, t, 0)
    BY <2>2, <2>3, KeepsRefl DEF IsTurned
  <2> QED
    BY <2>1, <2>4, <1>1
<1>4. ASSUME NEW k \in 0 .. FieldCount - 1, k \in S PROVE k + 1 \in S
  <2>1. PICK i, y, z : i = k + 1 /\ y = turn[k] /\ z = turn[i]
    OBVIOUS
  <2>2. i \in 1 .. FieldCount /\ i - 1 = k /\ i \in 0 .. FieldCount /\ k \in 0 .. FieldCount
    BY <2>1, <1>1
  <2>3. Resolving(y, R, t) /\ Resolving(z, R, t) /\ Turn(z, y)
    BY <2>1, <2>2 DEF IsLoop
  <2>4. IsTurn(z, y, R, t)
    BY <2>3, TurnFlags
  <2>5. IsTurned(y, x, R, t, k)
    BY <2>1, <1>4
  <2>6. TreeGood(x.tree, R, t) /\ TreeGood(y.tree, R, t)
    BY <2>3, <1>2 DEF Resolving
  <2>7. Keeps(z.tree, x.tree, R, t)
    BY <2>4, <2>5, <2>6, KeepsTrans DEF IsTurn, IsTurned
  <2>8. ASSUME NEW e \in Fields PROVE Resolves(ValueIn(z.tree, e), ValueIn(x.tree, e))
    <3>1. PICK u, v, w : u = ValueIn(x.tree, e) /\ v = ValueIn(y.tree, e) /\ w = ValueIn(z.tree, e)
      OBVIOUS
    <3>2. Resolves(v, u) /\ Resolves(w, v)
      BY <3>1, <2>4, <2>5 DEF IsTurn, IsTurned
    <3>3. u = Nil \/ u \in SUBSET Addresses
      BY <3>1, <2>6, ValueInIs
    <3> QED
      BY <3>1, <3>2, <3>3, ResolvesTrans
  <2>9. ASSUME Flagged(x.tree.heap, x.tree.root), ~x.fault
        PROVE  /\ Flagged(z.tree.heap, z.tree.root) /\ ~z.fault
               /\ Cardinality(Marked(z.tree)) <= FieldCount - i
    <3>1. Flagged(y.tree.heap, y.tree.root) /\ ~y.fault /\ Cardinality(Marked(y.tree)) <= FieldCount - k
      BY <2>5, <2>9 DEF IsTurned
    <3>2. /\ Flagged(z.tree.heap, z.tree.root) /\ ~z.fault
          /\ Marked(z.tree) = {} \/ \E f \in Marked(y.tree) : Marked(z.tree) = Marked(y.tree) \ {f}
      BY <3>1, <2>4 DEF IsTurn
    <3>3. PICK c, d : c = Cardinality(Marked(z.tree)) /\ d = Cardinality(Marked(y.tree))
      OBVIOUS
    <3>4. d \in Nat /\ d <= FieldCount - k
      BY <3>1, <3>3, MarkedFinite
    <3>5. CASE Marked(z.tree) = {}
      <4>1. c = 0
        BY <3>3, <3>5, FS_EmptySet
      <4> QED
        BY <4>1, <3>2, <3>3, <2>2, <1>1
    <3>6. CASE \E f \in Marked(y.tree) : Marked(z.tree) = Marked(y.tree) \ {f}
      <4>1. PICK f \in Marked(y.tree) : Marked(z.tree) = Marked(y.tree) \ {f}
        BY <3>6
      <4>2. c = d - 1
        BY <4>1, <3>3, LessOne, MarkedFinite
      <4>3. c <= FieldCount - i
        BY <4>2, <3>4, <2>1, <2>2, <1>1
      <4> QED
        BY <4>3, <3>2, <3>3
    <3> QED
      BY <3>2, <3>5, <3>6
  <2>10. IsTurned(z, x, R, t, i)
    BY <2>7, <2>8, <2>9 DEF IsTurned
  <2> QED
    BY <2>1, <2>2, <2>10
<1> HIDE DEF S
<1>5. FieldCount \in S
  BY <1>1, <1>3, <1>4, SetInduction
<1> QED
  BY <1>5 DEF S

\* The whole loop: the flags stay right, nothing but relocated addresses
\* is replaced, and if the flags are right all of them are.
IsResolved(y, x, R, t) ==
  /\ Keeps(y.tree, x.tree, R, t)
  /\ \A e \in Fields : Find(x.tree.heap, x.tree.root, e) # Nil => Find(y.tree.heap, y.tree.root, e) # Nil
  /\ \A e \in Fields : Find(x.tree.heap, x.tree.root, e) = Nil => ValueIn(y.tree, e) = Nil
  /\ Flagged(x.tree.heap, x.tree.root) /\ ~x.fault =>
       /\ Flagged(y.tree.heap, y.tree.root) /\ ~y.fault
       /\ \A e \in Fields : Find(x.tree.heap, x.tree.root, e) # Nil =>
            ValueIn(y.tree, e) = ResolveSet(ValueIn(x.tree, e))

LEMMA ResolveAllFlags ==
  ASSUME NEW x, NEW R, NEW t \in Tables, Resolving(x, R, t)
  PROVE  IsResolved(ResolveAll(x), x, R, t) /\ TreeGood(ResolveAll(x).tree, R, t)
<1>1. PICK turn : IsLoop(turn, x, R, t) /\ ResolveAll(x) = turn[FieldCount]
  BY ResolveAllIs
<1>2. FieldCount \in Nat \ {0} /\ FieldCount \in 0 .. FieldCount
  BY ConstantsAssumption
<1>3. PICK y : y = ResolveAll(x) /\ y = turn[FieldCount]
  BY <1>1
<1>4. IsTurned(y, x, R, t, FieldCount)
  BY <1>1, <1>3, LoopFlags
<1>5. TreeGood(y.tree, R, t) /\ TreeGood(x.tree, R, t)
  BY <1>1, <1>2, <1>3 DEF IsLoop, Resolving
<1>6. \A e \in Fields : Find(y.tree.heap, y.tree.root, e) = Nil <=> Find(x.tree.heap, x.tree.root, e) = Nil
  BY <1>1, <1>2, <1>3, LoopSame
<1>7. \A e \in Fields : Find(x.tree.heap, x.tree.root, e) = Nil => ValueIn(y.tree, e) = Nil
  BY <1>5, <1>6, ValueInIs
<1>8. ASSUME Flagged(x.tree.heap, x.tree.root), ~x.fault
      PROVE  /\ Flagged(y.tree.heap, y.tree.root) /\ ~y.fault
             /\ \A e \in Fields : Find(x.tree.heap, x.tree.root, e) # Nil =>
                  ValueIn(y.tree, e) = ResolveSet(ValueIn(x.tree, e))
  <2>1. /\ Flagged(y.tree.heap, y.tree.root) /\ ~y.fault
        /\ Cardinality(Marked(y.tree)) <= FieldCount - FieldCount
    BY <1>4, <1>8 DEF IsTurned
  <2>2. Marked(y.tree) = {}
    <3>1. PICK c : c = Cardinality(Marked(y.tree))
      OBVIOUS
    <3>2. c \in Nat /\ IsFiniteSet(Marked(y.tree))
      BY <3>1, MarkedFinite
    <3>3. c = 0
      BY <3>1, <3>2, <2>1, <1>2
    <3> QED
      BY <3>1, <3>2, <3>3, FS_EmptySet
  <2>3. ASSUME NEW e \in Fields, Find(x.tree.heap, x.tree.root, e) # Nil
        PROVE  ValueIn(y.tree, e) = ResolveSet(ValueIn(x.tree, e))
    <3>1. PICK v, w : v = ValueIn(x.tree, e) /\ w = ValueIn(y.tree, e)
      OBVIOUS
    <3>2. v \in SUBSET Addresses /\ v # Nil /\ w # Nil
      BY <3>1, <2>3, <1>5, <1>6, ValueInIs
    <3>3. ~Relocated(w)
      BY <3>1, <3>2, <2>2 DEF Marked
    <3>4. w = v \/ w = ResolveSet(v)
      BY <3>1, <1>4 DEF IsTurned, Resolves
    <3> QED
      BY <3>1, <3>2, <3>3, <3>4, ResolveSetIs
  <2> QED
    BY <2>1, <2>3
<1> QED
  BY <1>3, <1>4, <1>5, <1>6, <1>7, <1>8 DEF IsResolved, IsTurned

-----------------------------------------------------------------------------
(***************************************************************************)
(* New, forked and freed tables                                            *)
(***************************************************************************)
LEMMA EmptyFlagged ==
  ASSUME NEW h \in Heaps, Shape(h)
  PROVE  Flagged(h, Nil)
<1>1. ASSUME NEW a \in Places, On(h, Nil, a) PROVE FALSE
  <2>1. PICK f, i : f = SegmentOf(a)[1] /\ i = LevelOf(SegmentOf(a))
    OBVIOUS
  <2>2. f \in Fields /\ In(f, SegmentOf(a)) /\ i \in 1 .. Len(Path[f]) /\ a # Nil
    BY <2>1, PlaceIs, SegmentLevel
  <2>3. Nodes(h, Nil, f)[i] = a
    BY <2>1, <2>2, <1>1 DEF On
  <2> QED
    BY <2>2, <2>3, FindEmpty
<1> QED
  BY <1>1 DEF Flagged

LEMMA IncrefKept ==
  ASSUME NEW h \in Heaps, NEW r \in RootNodes \cup {Nil}, NEW q
  PROVE  Kept(Incref(h, r), h, q)
<1>1. IsIncref(Incref(h, r), h, r)
  BY IncrefIs
<1> QED
  BY <1>1 DEF IsIncref, Kept

LEMMA DecrefKept ==
  ASSUME NEW h, NEW R, Good(h, R), NEW t \in Tables, R[t] # NoTable,
         NEW u \in Tables \ {t}, R[u] # NoTable
  PROVE  Kept(Decref(h, R[t]), h, R[u])
<1>1. PICK g : g = Decref(h, R[t])
  OBVIOUS
<1>2. PICK K, M : IsDecref(Decref(h, R[t]), h, R[t], K, M)
  BY DecrefFacts
<1>3. ASSUME NEW a \in Places, On(h, R[u], a)
      PROVE  g[a].child = h[a].child /\ g[a].value = h[a].value /\ g[a].reloc = h[a].reloc
  <2>1. PICK f, i : f = SegmentOf(a)[1] /\ i = LevelOf(SegmentOf(a))
    OBVIOUS
  <2>2. f \in Fields /\ In(f, SegmentOf(a)) /\ i \in 1 .. Len(Path[f])
    BY <2>1, PlaceIs, SegmentLevel
  <2>3. Nodes(h, R[u], f)[i] = a
    BY <2>1, <2>2, <1>3 DEF On
  <2>4. a \notin M
    BY <2>2, <2>3, <1>2, DecrefNodes
  <2>5. IsDecref(g, h, R[t], K, M)
    BY <1>1, <1>2
  <2>6. CASE a \notin K
    <3>1. g[a] = h[a]
      BY <2>5, <2>6 DEF IsDecref
    <3> QED
      BY <3>1
  <2>7. CASE a \in K
    BY <2>4, <2>5, <2>7 DEF IsDecref
  <2> QED
    BY <2>6, <2>7
<1> QED
  BY <1>1, <1>3 DEF Kept

-----------------------------------------------------------------------------
(***************************************************************************)
(* The invariant                                                           *)
(***************************************************************************)
Values == (SUBSET Addresses) \cup {Nil}

LEMMA NilValue == Nil \in Values
  BY DEF Values

ViewTypes == view \in [Tables -> [Fields -> Values]] /\ stale \in [Tables -> BOOLEAN]

\* A table shows what was written through it, and if no flag of it was lost its
\* flags are right.
ShownIn(T, w, b) ==
  /\ \A f \in Fields : w[f] = ValueIn(T, f)
  /\ ~b => Flagged(T.heap, T.root)

ViewsRight ==
  ~fault => \A t \in Tables : root[t] # NoTable => ShownIn(Tree(heap, root[t]), view[t], stale[t])

ViewInv == StaticInv /\ ViewTypes /\ ViewsRight

LEMMA KeptShown ==
  ASSUME NEW h \in Heaps, Shape(h), NEW g \in Heaps, Shape(g), NEW r \in RootNodes \cup {Nil},
         Kept(g, h, r), NEW w, NEW b, ShownIn(Tree(h, r), w, b)
  PROVE  ShownIn(Tree(g, r), w, b)
<1>1. PICK T, U : T = Tree(h, r) /\ U = Tree(g, r)
  OBVIOUS
<1>2. T.heap = h /\ T.root = r /\ U.heap = g /\ U.root = r
  BY <1>1 DEF Tree
<1>3. ASSUME NEW f \in Fields PROVE w[f] = ValueIn(U, f)
  <2>1. Content(g, Find(g, r, f)) = Content(h, Find(h, r, f))
    BY KeptSame
  <2>2. ValueIn(U, f) = ValueIn(T, f)
    BY <2>1, <1>2 DEF ValueIn
  <2> QED
    BY <2>2, <1>1 DEF ShownIn
<1>4. ~b => Flagged(U.heap, U.root)
  BY <1>1, <1>2, KeptFlagged DEF ShownIn
<1> QED
  BY <1>1, <1>3, <1>4 DEF ShownIn

\* A step that changes table t only
LEMMA ChangeViews ==
  ASSUME StaticInv, ViewTypes, ViewsRight, ~fault, StaticInv',
         NEW t \in Tables, NEW g, NEW q, NEW w \in [Fields -> Values], NEW b \in BOOLEAN,
         heap' = g, root' = [root EXCEPT ![t] = q],
         view' = [view EXCEPT ![t] = w], stale' = [stale EXCEPT ![t] = b],
         \A u \in Tables \ {t} : root[u] # NoTable => Kept(g, heap, root[u]),
         ~fault' /\ q # NoTable => ShownIn(Tree(g, q), w, b)
  PROVE  ViewTypes' /\ ViewsRight'
<1>1. view \in [Tables -> [Fields -> Values]] /\ stale \in [Tables -> BOOLEAN]
  BY DEF ViewTypes
<1>2. ViewTypes'
  BY <1>1 DEF ViewTypes
<1>3. heap \in Heaps /\ Shape(heap) /\ root \in Roots
  BY InvFacts
<1>4. g \in Heaps /\ Shape(g)
  BY DEF StaticInv, Good
<1>5. /\ root'[t] = q /\ view'[t] = w /\ stale'[t] = b
      /\ \A u \in Tables \ {t} : root'[u] = root[u] /\ view'[u] = view[u] /\ stale'[u] = stale[u]
  BY <1>1, <1>3 DEF Roots
<1>6. ASSUME ~fault', NEW u \in Tables, root'[u] # NoTable
      PROVE  ShownIn(Tree(heap', root'[u]), view'[u], stale'[u])
  <2>1. CASE u = t
    BY <2>1, <1>5, <1>6
  <2>2. CASE u # t
    <3>1. PICK h, r : h = heap /\ r = root[u]
      OBVIOUS
    <3>2. root'[u] = r /\ view'[u] = view[u] /\ stale'[u] = stale[u] /\ r # NoTable
      BY <3>1, <2>2, <1>5, <1>6
    <3>3. ShownIn(Tree(h, r), view[u], stale[u])
      BY <3>1, <3>2 DEF ViewsRight
    <3>4. r \in RootNodes \cup {Nil}
      BY <3>1, <3>2, <1>3 DEF Roots
    <3>5. Kept(g, h, r)
      BY <3>1, <3>2, <2>2
    <3>6. PICK x, c : x = view[u] /\ c = stale[u]
      OBVIOUS
    <3>7. h \in Heaps /\ Shape(h)
      BY <3>1, <1>3
    <3>8. ShownIn(Tree(h, r), x, c)
      BY <3>3, <3>6
    <3>9. ShownIn(Tree(g, r), x, c)
      BY <3>4, <3>5, <3>7, <3>8, <1>4, KeptShown
    <3> QED
      BY <3>2, <3>6, <3>9
  <2> QED
    BY <2>1, <2>2
<1>7. ViewsRight'
  BY <1>6 DEF ViewsRight
<1> QED
  BY <1>2, <1>7

LEMMA InitViews ==
  ASSUME Init
  PROVE  ViewInv
<1>1. StaticInv
  BY InitInv
<1>2. \A t \in Tables : root[t] = NoTable
  BY DEF Init
<1>3. ViewTypes
  BY NilValue DEF Init, ViewTypes
<1>4. ViewsRight
  BY <1>2 DEF ViewsRight
<1> QED
  BY <1>1, <1>3, <1>4 DEF ViewInv

LEMMA NewViews ==
  ASSUME ViewInv, StaticInv', NEW t \in Tables, New(t)
  PROVE  ViewInv'
<1>1. PICK w : w = [f \in Fields |-> Nil]
  OBVIOUS
<1>2. w \in [Fields -> Values] /\ \A f \in Fields : w[f] = Nil
  BY <1>1, NilValue
<1>3. PICK h : h = heap
  OBVIOUS
<1>4. h \in Heaps /\ Shape(h)
  BY <1>3, InvFacts DEF ViewInv
<1>5. PICK T : T = Tree(h, Nil)
  OBVIOUS
<1>6. T.heap = h /\ T.root = Nil
  BY <1>5 DEF Tree
<1>7. ASSUME NEW f \in Fields PROVE ValueIn(T, f) = Nil
  <2>1. Len(Path[f]) \in 1 .. Len(Path[f])
    BY PathFacts
  <2>2. Find(h, Nil, f) = Nil
    BY <2>1, <1>4, FindEmpty DEF Find
  <2> QED
    BY <2>2, <1>6 DEF ValueIn, Content
<1>8. Flagged(h, Nil)
  BY <1>4, EmptyFlagged
<1>9. ShownIn(Tree(h, Nil), w, FALSE)
  BY <1>2, <1>5, <1>6, <1>7, <1>8 DEF ShownIn
<1>10. \A u \in Tables \ {t} : root[u] # NoTable => Kept(h, heap, root[u])
  BY <1>3 DEF Kept
<1>11. /\ ~fault /\ heap' = h /\ root' = [root EXCEPT ![t] = Nil]
       /\ view' = [view EXCEPT ![t] = w] /\ stale' = [stale EXCEPT ![t] = FALSE]
  BY <1>1, <1>3 DEF New
<1>12. ViewTypes' /\ ViewsRight'
  BY <1>2, <1>9, <1>10, <1>11, ChangeViews DEF ViewInv
<1> QED
  BY <1>12 DEF ViewInv

LEMMA FreeViews ==
  ASSUME ViewInv, StaticInv', NEW t \in Tables, Free(t)
  PROVE  ViewInv'
<1>1. PICK w, g : w = [f \in Fields |-> Nil] /\ g = Decref(heap, root[t])
  OBVIOUS
<1>2. w \in [Fields -> Values]
  BY <1>1, NilValue
<1>3. /\ ~fault /\ root[t] # NoTable /\ heap' = g /\ root' = [root EXCEPT ![t] = NoTable]
      /\ view' = [view EXCEPT ![t] = w] /\ stale' = [stale EXCEPT ![t] = FALSE]
  BY <1>1 DEF Free, Live
<1>4. PICK h, R : h = heap /\ R = root
  OBVIOUS
<1>5. Good(h, R)
  BY <1>4 DEF ViewInv, StaticInv
<1>6. ASSUME NEW u \in Tables \ {t}, R[u] # NoTable PROVE Kept(g, h, R[u])
  BY <1>1, <1>3, <1>4, <1>5, <1>6, DecrefKept
<1>7. \A u \in Tables \ {t} : root[u] # NoTable => Kept(g, heap, root[u])
  BY <1>4, <1>6
<1>8. ViewTypes' /\ ViewsRight'
  BY <1>2, <1>3, <1>7, ChangeViews DEF ViewInv
<1> QED
  BY <1>8 DEF ViewInv

\* The fork of a table shows the same.
LEMMA ForkShown ==
  ASSUME ViewInv, ~fault, NEW s \in Tables, root[s] # NoTable, NEW g, g = Incref(heap, root[s])
  PROVE  /\ g \in Heaps /\ Shape(g)
         /\ \A u \in Tables : root[u] # NoTable => Kept(g, heap, root[u])
         /\ ShownIn(Tree(g, root[s]), view[s], stale[s])
<1>1. PICK h, r, w, b : h = heap /\ r = root[s] /\ w = view[s] /\ b = stale[s]
  OBVIOUS
<1>2. h \in Heaps /\ Shape(h) /\ r \in RootNodes \cup {Nil}
  BY <1>1, InvFacts DEF ViewInv
<1>3. g = Incref(h, r)
  BY <1>1
<1>4. IsIncref(g, h, r)
  BY <1>2, <1>3, IncrefIs
<1>5. g \in Heaps /\ Shape(g)
  BY <1>2, <1>4 DEF IsIncref, Shape
<1>6. \A q : Kept(g, h, q)
  BY <1>2, <1>3, IncrefKept
<1>7. ShownIn(Tree(h, r), w, b)
  BY <1>1 DEF ViewInv, ViewsRight
<1>8. ShownIn(Tree(g, r), w, b)
  BY <1>2, <1>5, <1>6, <1>7, KeptShown
<1> QED
  BY <1>1, <1>5, <1>6, <1>8

LEMMA ForkViews ==
  ASSUME ViewInv, StaticInv', NEW s \in Tables, NEW t \in Tables, Fork(s, t)
  PROVE  ViewInv'
<1>1. PICK g, w, b, q : g = Incref(heap, root[s]) /\ w = view[s] /\ b = stale[s] /\ q = root[s]
  OBVIOUS
<1>2. /\ ~fault /\ root[s] # NoTable /\ heap' = g /\ root' = [root EXCEPT ![t] = q]
      /\ view' = [view EXCEPT ![t] = w] /\ stale' = [stale EXCEPT ![t] = b]
  BY <1>1 DEF Fork, Live
<1>3. w \in [Fields -> Values] /\ b \in BOOLEAN
  BY <1>1 DEF ViewInv, ViewTypes
<1>4. /\ \A u \in Tables : root[u] # NoTable => Kept(g, heap, root[u])
      /\ ShownIn(Tree(g, q), w, b)
  BY <1>1, <1>2, ForkShown
<1>5. ViewTypes' /\ ViewsRight'
  BY <1>2, <1>3, <1>4, ChangeViews DEF ViewInv
<1> QED
  BY <1>5 DEF ViewInv

\* A step that changes field f of table t
LEMMA FieldViews ==
  ASSUME ViewInv, StaticInv', ~fault, NEW t \in Tables, root[t] # NoTable, NEW f \in Fields,
         NEW T, T = Tree(heap, root[t]), NEW U, TreeGood(U, root, t),
         Keeps(U, T, root, t), SameBut(U, T, root, t, {f}), SetTree(t, U),
         NEW v \in Values, ValueIn(U, f) = v, NEW b \in BOOLEAN, ~b => Flagged(U.heap, U.root),
         view' = [view EXCEPT ![t][f] = v], stale' = [stale EXCEPT ![t] = b]
  PROVE  ViewInv'
<1>1. PICK x : x = view[t]
  OBVIOUS
<1>2. x \in [Fields -> Values]
  BY <1>1 DEF ViewInv, ViewTypes
<1>3. PICK w : w = [x EXCEPT ![f] = v]
  OBVIOUS
<1>4. w \in [Fields -> Values] /\ w[f] = v /\ \A e \in Fields \ {f} : w[e] = x[e]
  BY <1>2, <1>3
<1>5. view' = [view EXCEPT ![t] = w]
  BY <1>1, <1>3
<1>6. PICK g, q : g = U.heap /\ q = U.root
  OBVIOUS
<1>7. heap' = g /\ root' = [root EXCEPT ![t] = q]
  BY <1>6 DEF SetTree
<1>8. T.heap = heap
  BY DEF Tree
<1>9. \A u \in Tables \ {t} : root[u] # NoTable => Kept(g, heap, root[u])
  BY <1>6, <1>8 DEF Keeps
<1>10. \A e \in Fields : x[e] = ValueIn(T, e)
  BY <1>1 DEF ViewInv, ViewsRight, ShownIn
<1>11. \A e \in Fields \ {f} : ValueIn(U, e) = ValueIn(T, e)
  BY ValueInSame DEF SameBut
<1>12. U = Tree(g, q)
  BY <1>6, TreeFields
<1>13. \A e \in Fields : w[e] = ValueIn(U, e)
  BY <1>4, <1>10, <1>11
<1>14. ShownIn(U, w, b)
  BY <1>13 DEF ShownIn
<1>15. ShownIn(Tree(g, q), w, b)
  BY <1>12, <1>14, Zenon
<1>16. StaticInv /\ ViewTypes /\ ViewsRight
  BY DEF ViewInv
<1>17. w \in [Fields -> Values]
  BY <1>4
<1>18. ~fault' /\ q # NoTable => ShownIn(Tree(g, q), w, b)
  BY <1>15
<1>19. stale' = [stale EXCEPT ![t] = b]
  OBVIOUS
<1>20. ViewTypes' /\ ViewsRight'
  BY <1>5, <1>7, <1>9, <1>16, <1>17, <1>18, <1>19, ChangeViews
<1> QED
  BY <1>20 DEF ViewInv

\* What table t shows before a step
LEMMA ShownNow ==
  ASSUME ViewInv, ~fault, NEW t \in Tables, root[t] # NoTable, NEW T, T = Tree(heap, root[t])
  PROVE  /\ TreeGood(T, root, t) /\ T.heap = heap /\ T.root = root[t]
         /\ \A f \in Fields : view[t][f] = ValueIn(T, f) /\ view[t][f] \in Values
         /\ stale[t] \in BOOLEAN
         /\ ~stale[t] => Flagged(T.heap, T.root)
<1>1. TreeGood(T, root, t)
  BY InvFacts DEF ViewInv
<1>2. ShownIn(T, view[t], stale[t])
  BY DEF ViewInv, ViewsRight
<1> QED
  BY <1>1, <1>2 DEF Tree, ShownIn, ViewInv, ViewTypes

LEMMA ReadViews ==
  ASSUME ViewInv, StaticInv', ~fault, NEW t \in Tables, root[t] # NoTable, NEW f \in Fields,
         NEW dflt \in Addresses, ~Relocated({dflt}), Read(t, f, dflt)
  PROVE  ViewInv'
<1>1. PICK T, R, U : T = Tree(heap, root[t]) /\ R = root /\ U = GetRO(T, f, dflt)
  OBVIOUS
<1>2. /\ TreeGood(T, R, t) /\ T.heap = heap /\ T.root = root[t]
      /\ view[t][f] = ValueIn(T, f) /\ view[t][f] \in Values /\ stale[t] \in BOOLEAN
      /\ ~stale[t] => Flagged(T.heap, T.root)
  BY <1>1, ShownNow
<1>3. IsGetRO(U, T, R, t, f, {dflt}) /\ IsReadFlags(U, T, R, t, f)
  BY <1>1, <1>2, GetROSame, GetROFlags
<1>4. /\ TreeGood(U, R, t) /\ SameBut(U, T, R, t, {f}) /\ Keeps(U, T, R, t)
      /\ Find(T.heap, T.root, f) # Nil => U = T
      /\ Find(T.heap, T.root, f) = Nil => Shows(U, f, {dflt})
      /\ Flagged(T.heap, T.root) /\ ~(Find(T.heap, T.root, f) = Nil /\ DropsFlag(T.heap, T.root, f)) =>
           Flagged(U.heap, U.root)
  BY <1>3 DEF IsGetRO, IsReadFlags
<1>5. PICK v : v = IF view[t][f] = Nil THEN {dflt} ELSE view[t][f]
  OBVIOUS
<1>6. PICK b : b = (stale[t] \/ (Find(heap, root[t], f) = Nil /\ DropsFlag(heap, root[t], f)))
  OBVIOUS
<1>7. view' = [view EXCEPT ![t][f] = v]
  BY <1>5 DEF Read
<1>8. stale' = [stale EXCEPT ![t] = b]
  BY <1>6 DEF Read
<1>9. b \in BOOLEAN
  BY <1>6, Zenon
<1>10. ~b => Flagged(U.heap, U.root)
  <2>1. ~b => ~stale[t] /\ ~(Find(heap, root[t], f) = Nil /\ DropsFlag(heap, root[t], f))
    BY <1>6, Zenon
  <2> QED
    BY <2>1, <1>2, <1>4
<1>11. SetTree(t, U)
  BY <1>1 DEF Read, TreeOf
<1>12. ValueIn(U, f) = v /\ v \in Values
  <2>1. CASE Find(T.heap, T.root, f) = Nil
    <3>1. v = {dflt}
      BY <2>1, <1>2, <1>5, ValueInIs
    <3>2. ValueIn(U, f) = {dflt}
      BY <2>1, <1>4 DEF Shows, ValueIn, Content
    <3>3. {dflt} \in Values
      BY DEF Values
    <3> QED
      BY <3>1, <3>2, <3>3, Zenon
  <2>2. CASE Find(T.heap, T.root, f) # Nil
    <3>1. ValueIn(T, f) # Nil
      BY <2>2, <1>2, ValueInIs
    <3>2. v = ValueIn(T, f)
      BY <3>1, <1>2, <1>5
    <3>3. U = T
      BY <2>2, <1>4
    <3> QED
      BY <3>2, <3>3, <1>2
  <2> QED
    BY <2>1, <2>2
<1> QED
  BY <1>1, <1>4, <1>7, <1>8, <1>9, <1>10, <1>11, <1>12, FieldViews

LEMMA WriteViews ==
  ASSUME ViewInv, StaticInv', ~fault, NEW t \in Tables, root[t] # NoTable, NEW f \in Fields,
         NEW dflt \in Addresses, ~Relocated({dflt}), NEW v \in SUBSET Addresses, NEW flag \in BOOLEAN,
         NEW S, S = Tree(heap, root[t]), NEW T, TreeGood(T, root, t),
         SameBut(T, S, root, t, {f}), Keeps(T, S, root, t),
         FlaggedOff(S.heap, S.root, f) => FlaggedOff(T.heap, T.root, f),
         Write(t, T, f, v, dflt, flag)
  PROVE  ViewInv'
<1>1. PICK R, U : R = root /\ U = Written(T, f, v, dflt, flag)
  OBVIOUS
<1>2. /\ TreeGood(S, R, t) /\ stale[t] \in BOOLEAN
      /\ ~stale[t] => Flagged(S.heap, S.root)
  BY <1>1, ShownNow
<1>3. TreeGood(T, R, t) /\ SameBut(T, S, R, t, {f}) /\ Keeps(T, S, R, t)
  BY <1>1
<1>4. TreeGood(U, R, t) /\ SameBut(U, T, R, t, {f}) /\ Shows(U, f, v)
  BY <1>1, <1>3, WrittenSame
<1>5. /\ Keeps(U, T, R, t)
      /\ FlaggedOff(T.heap, T.root, f) /\ (flag <=> Relocated(v)) => Flagged(U.heap, U.root)
  BY <1>1, <1>3, WrittenFlags
<1>6. Keeps(U, S, R, t)
  <2>1. TreeGood(S, R, t)
    BY <1>2
  <2>2. Keeps(U, T, R, t)
    BY <1>5
  <2> QED
    BY <2>1, <2>2, <1>3, KeepsTrans
<1>7. SameBut(U, S, R, t, {f})
  <2>1. SameBut(U, S, R, t, {f} \cup {f})
    BY <1>3, <1>4, SameButTrans
  <2>2. {f} \cup {f} = {f}
    OBVIOUS
  <2> QED
    BY <2>1, <2>2
<1>8. ValueIn(U, f) = v
  BY <1>4 DEF Shows, ValueIn, Content
<1>9. v \in Values
  BY DEF Values
<1>10. PICK b : b = (stale[t] \/ flag # Relocated(v))
  OBVIOUS
<1>11. b \in BOOLEAN /\ (~b => ~stale[t] /\ (flag <=> Relocated(v)))
  <2>1. b \in BOOLEAN /\ (~b => ~stale[t] /\ flag = Relocated(v))
    BY <1>10, Zenon
  <2>2. flag = Relocated(v) => (flag <=> Relocated(v))
    BY Zenon
  <2> QED
    BY <2>1, <2>2, Zenon
<1>12. ~b => Flagged(U.heap, U.root)
  <2>1. SUFFICES ASSUME ~b PROVE Flagged(U.heap, U.root)
    OBVIOUS
  <2>2. ~stale[t] /\ (flag <=> Relocated(v))
    BY <2>1, <1>11, Zenon
  <2>3. Flagged(S.heap, S.root)
    BY <2>2, <1>2
  <2>4. FlaggedOff(S.heap, S.root, f)
    BY <2>3, FlaggedBeside
  <2>5. FlaggedOff(T.heap, T.root, f)
    BY <2>4
  <2> QED
    BY <2>2, <2>5, <1>5
<1>13. SetTree(t, U) /\ view' = [view EXCEPT ![t][f] = v]
  BY <1>1 DEF Write, Written
<1>14. stale' = [stale EXCEPT ![t] = b]
  BY <1>10 DEF Write
<1> QED
  BY <1>1, <1>4, <1>6, <1>7, <1>8, <1>9, <1>11, <1>12, <1>13, <1>14, FieldViews

\* A default value is no relocated address.
LEMMA DefaultIs ==
  ASSUME NEW d \in Defaults, d # Nil
  PROVE  d \in Addresses /\ ~Relocated({d})
  BY ConstantsAssumption DEF Defaults, Addresses, Constant, Relocated

LEMMA SgetViews ==
  ASSUME ViewInv, StaticInv', NEW t \in Tables, NEW f \in Fields, Sget(t, f)
  PROVE  ViewInv'
<1>1. PICK d : d = default'[f]
  OBVIOUS
<1>2. ~fault /\ root[t] # NoTable /\ d # Nil /\ Read(t, f, d)
  BY <1>1 DEF Sget, Live
<1>3. d \in Defaults
  BY <1>1 DEF StaticInv
<1>4. d \in Addresses /\ ~Relocated({d})
  BY <1>2, <1>3, DefaultIs
<1> QED
  BY <1>2, <1>4, ReadViews

LEMMA SputViews ==
  ASSUME ViewInv, StaticInv', NEW t \in Tables, NEW f \in Fields, NEW v \in Inputs, Sput(t, f, v)
  PROVE  ViewInv'
<1>1. PICK d, S, flag : d = default'[f] /\ S = Tree(heap, root[t]) /\ flag = SetRef(v)
  OBVIOUS
<1>2. ~fault /\ root[t] # NoTable /\ d # Nil /\ Write(t, S, f, v, d, flag)
  BY <1>1 DEF Sput, Live, TreeOf
<1>3. d \in Defaults
  BY <1>1 DEF StaticInv
<1>4. d \in Addresses /\ ~Relocated({d})
  BY <1>2, <1>3, DefaultIs
<1>5. TreeGood(S, root, t) /\ SameBut(S, S, root, t, {f}) /\ Keeps(S, S, root, t)
  BY <1>1, <1>2, ShownNow, SameButRefl, KeepsRefl
<1>6. v \in SUBSET Addresses /\ flag \in BOOLEAN
  BY <1>1, InputIs
<1> QED
  BY <1>1, <1>2, <1>4, <1>5, <1>6, WriteViews

LEMMA SputFailsViews ==
  ASSUME ViewInv, StaticInv', NEW t \in Tables, NEW f \in Fields, SputFails(t, f)
  PROVE  ViewInv'
<1>1. PICK T, R, U : T = Tree(heap, root[t]) /\ R = root /\ U = PrepareToWrite(T, f)
  OBVIOUS
<1>2. ~fault /\ root[t] # NoTable /\ SetTree(t, U) /\ view' = view
  BY <1>1 DEF SputFails, Live, TreeOf
<1>3. /\ TreeGood(T, R, t) /\ T.heap = heap /\ T.root = root[t]
      /\ view[t][f] = ValueIn(T, f) /\ view[t][f] \in Values /\ stale[t] \in BOOLEAN
      /\ ~stale[t] => Flagged(T.heap, T.root)
  BY <1>1, <1>2, ShownNow
<1>4. TreeGood(U, R, t) /\ SameBut(U, T, R, t, {}) /\ IsPrepared(U, T, R, t, f)
  BY <1>1, <1>3, PrepareToWriteGood, PrepareToWriteSame, PrepareToWriteFlags
<1>5. SameBut(U, T, R, t, {f}) /\ Same(U.heap, U.root, T.heap, T.root, f)
  BY <1>4 DEF SameBut
<1>6. PICK v, b : v = view[t][f] /\ b = (stale[t] \/ DropsFlag(heap, root[t], f))
  OBVIOUS
<1>7. ValueIn(U, f) = v /\ v \in Values
  BY <1>3, <1>5, <1>6, ValueInSame
<1>8. stale' = [stale EXCEPT ![t] = b]
  BY <1>6 DEF SputFails
<1>9. view' = [view EXCEPT ![t][f] = v]
  <2>1. view \in [Tables -> [Fields -> Values]]
    BY DEF ViewInv, ViewTypes
  <2>2. [view[t] EXCEPT ![f] = v] = view[t]
    BY <2>1, <1>6
  <2>3. [view EXCEPT ![t] = view[t]] = view
    BY <2>1
  <2> QED
    BY <2>2, <2>3, <1>2
<1>10. b \in BOOLEAN /\ (~b => ~stale[t] /\ ~DropsFlag(heap, root[t], f))
  BY <1>6, Zenon
<1>11. ~b => Flagged(U.heap, U.root)
  BY <1>3, <1>4, <1>10 DEF IsPrepared
<1>12. Keeps(U, T, R, t)
  BY <1>4 DEF IsPrepared
<1>13. b \in BOOLEAN
  BY <1>10
<1>14. TreeGood(U, R, t) /\ SameBut(U, T, R, t, {f})
  BY <1>4, <1>5
<1>15. ~fault /\ root[t] # NoTable /\ SetTree(t, U)
  BY <1>2
<1>16. T = Tree(heap, root[t]) /\ R = root
  BY <1>1
<1> QED
  BY <1>7, <1>8, <1>9, <1>11, <1>12, <1>13, <1>14, <1>15, <1>16, FieldViews

LEMMA ApplyDiffViews ==
  ASSUME ViewInv, StaticInv', NEW t \in Tables, NEW f \in Fields, NEW v \in Inputs, ApplyDiff(t, f, v)
  PROVE  ViewInv'
<1>1. PICK S, R, d, T, flag :
        /\ S = Tree(heap, root[t]) /\ R = root /\ d = default[f] /\ T = GetRO(S, f, d)
        /\ flag = OneBit(cesk_set_get_reloc(v))
  OBVIOUS
<1>2. ~fault /\ root[t] # NoTable /\ d # Nil
  BY <1>1 DEF ApplyDiff, Live
<1>3. d \in Defaults
  BY <1>1 DEF ViewInv, StaticInv
<1>4. d \in Addresses /\ ~Relocated({d})
  BY <1>2, <1>3, DefaultIs
<1>5. CASE Read(t, f, d)
  BY <1>2, <1>4, <1>5, ReadViews
<1>6. CASE Write(t, T, f, v, d, flag)
  <2>1. TreeGood(S, R, t)
    BY <1>1, <1>2, ShownNow
  <2>2. IsGetRO(T, S, R, t, f, {d}) /\ IsReadFlags(T, S, R, t, f)
    BY <2>1, <1>1, <1>4, GetROSame, GetROFlags
  <2>3. TreeGood(T, R, t) /\ SameBut(T, S, R, t, {f}) /\ Keeps(T, S, R, t)
        /\ (FlaggedOff(S.heap, S.root, f) => FlaggedOff(T.heap, T.root, f))
    BY <2>2 DEF IsGetRO, IsReadFlags
  <2>4. v \in SUBSET Addresses /\ flag \in BOOLEAN
    BY <1>1, InputIs, Zenon
  <2> QED
    BY <2>3, <2>4, <1>1, <1>2, <1>4, <1>6, WriteViews
<1>7. Read(t, f, d) \/ Write(t, T, f, v, d, flag)
  BY <1>1 DEF ApplyDiff, TreeOf
<1> QED
  BY <1>5, <1>6, <1>7

LEMMA ForkCalleeViews ==
  ASSUME ViewInv, StaticInv', NEW s \in Tables, NEW t \in Tables, ForkCallee(s, t)
  PROVE  ViewInv'
<1>1. ~fault /\ root[s] # NoTable /\ root[t] = NoTable
  BY DEF ForkCallee, Live
<1>2. PICK x0, T, R, g, r : /\ g = Incref(heap, root[s]) /\ r = root[s] /\ T = Tree(g, r) /\ R = root
                            /\ x0 = [tree |-> T, hash |-> hash[s], fault |-> FALSE]
  OBVIOUS
<1>3. PICK x : /\ x = ResolveAll(x0)
               /\ SetTree(t, x.tree) /\ fault' = x.fault
               /\ view' = [view EXCEPT ![t] = [f \in Fields |->
                     IF view[s][f] = Nil THEN Nil
                     ELSE IF stale[s] THEN x.tree.heap[Find(x.tree.heap, x.tree.root, f)].value
                     ELSE ResolveSet(view[s][f])]]
  BY <1>2 DEF ForkCallee
<1>4. x0.tree = T /\ x0.fault = FALSE /\ T.heap = g /\ T.root = r
  BY <1>2 DEF Tree
<1>5. Resolving(x0, R, t)
  BY <1>1, <1>2, CalleeTree DEF ViewInv
<1>6. TreeGood(T, R, t)
  BY <1>4, <1>5 DEF Resolving
<1>7. PICK U : U = x.tree
  OBVIOUS
<1>8. IsResolved(x, x0, R, t) /\ TreeGood(U, R, t)
  BY <1>3, <1>5, <1>7, ResolveAllFlags
<1>9. /\ g \in Heaps /\ Shape(g)
      /\ \A u \in Tables : root[u] # NoTable => Kept(g, heap, root[u])
      /\ ShownIn(T, view[s], stale[s])
  BY <1>1, <1>2, ForkShown
<1>10. PICK old, b : old = view[s] /\ b = stale[s]
  OBVIOUS
<1>11. old \in [Fields -> Values] /\ b \in BOOLEAN
  BY <1>10 DEF ViewInv, ViewTypes
<1>12. /\ \A f \in Fields : old[f] = ValueIn(T, f)
       /\ ~b => Flagged(g, r)
  BY <1>4, <1>9, <1>10 DEF ShownIn
<1>13. PICK w : w = [f \in Fields |->
                       IF old[f] = Nil THEN Nil
                       ELSE IF b THEN U.heap[Find(U.heap, U.root, f)].value
                       ELSE ResolveSet(old[f])]
  OBVIOUS
<1>14. view' = [view EXCEPT ![t] = w]
  BY <1>3, <1>7, <1>10, <1>13
<1>15. /\ Keeps(U, T, R, t)
       /\ \A e \in Fields : Find(g, r, e) # Nil => Find(U.heap, U.root, e) # Nil
       /\ \A e \in Fields : Find(g, r, e) = Nil => ValueIn(U, e) = Nil
       /\ Flagged(g, r) =>
            /\ Flagged(U.heap, U.root)
            /\ \A e \in Fields : Find(g, r, e) # Nil => ValueIn(U, e) = ResolveSet(ValueIn(T, e))
  BY <1>4, <1>7, <1>8 DEF IsResolved
<1>16. ASSUME NEW f \in Fields PROVE w[f] = ValueIn(U, f) /\ w[f] \in Values
  <2>1. CASE Find(g, r, f) = Nil
    <3>1. old[f] = Nil
      BY <2>1, <1>4, <1>6, <1>12, ValueInIs
    <3>2. w[f] = Nil
      BY <3>1, <1>13
    <3> QED
      BY <2>1, <3>2, <1>15, NilValue
  <2>2. CASE Find(g, r, f) # Nil
    <3>1. old[f] = ValueIn(T, f) /\ old[f] # Nil
      BY <2>2, <1>4, <1>6, <1>12, ValueInIs
    <3>2. /\ ValueIn(U, f) = U.heap[Find(U.heap, U.root, f)].value
          /\ ValueIn(U, f) \in SUBSET Addresses
      BY <2>2, <1>8, <1>15, ValueInIs
    <3>3. CASE b
      <4>1. w[f] = U.heap[Find(U.heap, U.root, f)].value
        BY <3>1, <3>3, <1>13
      <4> QED
        BY <4>1, <3>2 DEF Values
    <3>4. CASE ~b
      <4>1. w[f] = ResolveSet(old[f])
        BY <3>1, <3>4, <1>13
      <4>2. ValueIn(U, f) = ResolveSet(ValueIn(T, f))
        BY <2>2, <3>4, <1>12, <1>15
      <4>3. w[f] = ValueIn(U, f)
        BY <4>1, <4>2, <3>1, Zenon
      <4> QED
        BY <4>3, <3>2 DEF Values
    <3> QED
      BY <3>3, <3>4
  <2> QED
    BY <2>1, <2>2
<1>17. w \in [Fields -> Values]
  <2>1. \A f \in Fields : w[f] \in Values
    BY <1>16
  <2> QED
    BY <2>1, <1>13
<1>18. ShownIn(U, w, b)
  BY <1>12, <1>15, <1>16 DEF ShownIn
<1>19. PICK k, q : k = U.heap /\ q = U.root
  OBVIOUS
<1>20. U = Tree(k, q)
  BY <1>8, <1>19, TreeFields
<1>21. ShownIn(Tree(k, q), w, b)
  BY <1>18, <1>20, Zenon
<1>22. ASSUME NEW u \in Tables \ {t}, R[u] # NoTable PROVE Kept(k, heap, R[u])
  <2>1. R[u] \in RootNodes \cup {Nil}
    BY <1>6, <1>22, OtherRoot
  <2>2. PICK h, z : h = heap /\ z = R[u]
    OBVIOUS
  <2>3. h \in Heaps /\ Shape(h)
    BY <2>2, InvFacts DEF ViewInv
  <2>4. Kept(g, h, z)
    BY <2>2, <1>2, <1>9, <1>22
  <2>5. Kept(k, g, z)
    BY <2>2, <1>4, <1>15, <1>19, <1>22 DEF Keeps
  <2>6. Kept(k, h, z)
    BY <2>1, <2>2, <2>3, <2>4, <2>5, <1>9, KeptTrans
  <2> QED
    BY <2>2, <2>6
<1>23. heap' = k /\ root' = [root EXCEPT ![t] = q] /\ stale' = [stale EXCEPT ![t] = b]
  BY <1>3, <1>7, <1>10, <1>19 DEF SetTree, ForkCallee
<1>24. \A u \in Tables \ {t} : root[u] # NoTable => Kept(k, heap, root[u])
  BY <1>2, <1>22
<1>25. ViewTypes' /\ ViewsRight'
  BY <1>1, <1>11, <1>14, <1>17, <1>21, <1>23, <1>24, ChangeViews DEF ViewInv
<1> QED
  BY <1>25 DEF ViewInv

LEMMA StutterViews ==
  ASSUME ViewInv, UNCHANGED vars
  PROVE  ViewInv'
<1>1. StaticInv'
  BY StutterInv DEF ViewInv
<1>2. ViewTypes'
  BY DEF ViewInv, ViewTypes, vars
<1>3. ViewsRight'
  BY DEF ViewInv, ViewsRight, vars
<1> QED
  BY <1>1, <1>2, <1>3 DEF ViewInv

LEMMA NextViews ==
  ASSUME ViewInv, [Next]_vars
  PROVE  ViewInv'
<1>0. StaticInv'
  BY NextInv DEF ViewInv
<1>1. CASE UNCHANGED vars
  BY <1>1, StutterViews
<1>2. CASE \E t \in Tables : New(t) \/ Free(t)
  BY <1>0, <1>2, NewViews, FreeViews
<1>3. CASE \E s, t \in Tables : Fork(s, t) \/ ForkCallee(s, t)
  BY <1>0, <1>3, ForkViews, ForkCalleeViews
<1>4. CASE \E t \in Tables, f \in Fields : Sget(t, f) \/ SputFails(t, f)
  BY <1>0, <1>4, SgetViews, SputFailsViews
<1>5. CASE \E t \in Tables, f \in Fields, v \in Inputs : Sput(t, f, v) \/ ApplyDiff(t, f, v)
  BY <1>0, <1>5, SputViews, ApplyDiffViews
<1> QED
  BY <1>1, <1>2, <1>3, <1>4, <1>5 DEF Next

-----------------------------------------------------------------------------
(***************************************************************************)
(* The theorems                                                            *)
(***************************************************************************)
LEMMA InvViewsExact ==
  ASSUME ViewInv
  PROVE  ViewsExact
<1>1. ASSUME NEW t \in Live, NEW f \in Fields, ~fault PROVE view[t][f] = ValueOf(t, f)
  <2>1. t \in Tables /\ root[t] # NoTable
    BY DEF Live
  <2>2. PICK T : T = Tree(heap, root[t])
    OBVIOUS
  <2>3. T.heap = heap /\ T.root = root[t] /\ view[t][f] = ValueIn(T, f)
    BY <2>1, <2>2, <1>1, ShownNow
  <2> QED
    BY <2>3 DEF ValueIn, ValueOf
<1> QED
  BY <1>1 DEF ViewsExact

\* Every table shows exactly what was written through it, or through the table
\* it was forked from before the fork, and a callee whose caller lost no flag
\* shows it with every relocated address replaced: no write through a shared
\* tree is ever seen by another frame (cesk_static.c:204-240, cesk_frame.c:248-299).
THEOREM ViewsCorrect == Spec => []ViewsExact
<1>1. Init => ViewInv
  BY InitViews
<1>2. ViewInv /\ [Next]_vars => ViewInv'
  BY NextViews
<1>3. ViewInv => ViewsExact
  BY InvViewsExact
<1> QED
  BY <1>1, <1>2, <1>3, PTL DEF Spec

LEMMA InvRelocFound ==
  ASSUME ViewInv
  PROVE  RelocFound
<1>1. ASSUME NEW t \in Live, ~stale[t], ~fault
      PROVE  /\ HasReloc(heap, root[t]) <=> ContainsReloc(t)
             /\ HasReloc(heap, root[t]) =>
                  \E n \in {FirstRelocNode(heap, root[t])} : n # Nil /\ Relocated(heap[n].value)
  <2>1. t \in Tables /\ root[t] # NoTable
    BY DEF Live
  <2>2. PICK h, r, T, R : h = heap /\ r = root[t] /\ T = Tree(heap, root[t]) /\ R = root
    OBVIOUS
  <2>3. TreeGood(T, R, t) /\ T.heap = h /\ T.root = r
    BY <2>1, <2>2, <1>1, ShownNow
  <2>4. /\ \A f \in Fields : view[t][f] = ValueIn(T, f)
        /\ Flagged(h, r)
    BY <2>1, <2>2, <2>3, <1>1, ShownNow
  <2>5. h \in Heaps /\ Shape(h) /\ r \in RootNodes \cup {Nil}
    BY <2>1, <2>2, InvFacts DEF ViewInv
  <2>6. \A f \in Fields : Find(h, r, f) # Nil => ValueIn(T, f) = h[Find(h, r, f)].value /\ ValueIn(T, f) # Nil
    BY <2>1, <2>3, ValueInIs
  <2>7. ASSUME HasReloc(h, r)
        PROVE  /\ ContainsReloc(t)
               /\ FirstRelocNode(h, r) # Nil /\ Relocated(h[FirstRelocNode(h, r)].value)
    <3>1. PICK n \in Places : /\ n = FirstRelocNode(h, r) /\ On(h, r, n) /\ IsLeaf(SegmentOf(n))
                              /\ Relocated(h[n].value)
      BY <2>4, <2>5, <2>7, RelocLeaf
    <3>2. PICK f : f = SegmentOf(n)[1]
      OBVIOUS
    <3>3. f \in Fields /\ Find(h, r, f) = n
      BY <3>1, <3>2, <2>5, OnLeaf
    <3>4. n # Nil
      BY PlaceIs
    <3>5. ValueIn(T, f) = h[n].value /\ ValueIn(T, f) # Nil
      BY <3>3, <3>4, <2>6
    <3>6. view[t][f] # Nil /\ Relocated(view[t][f])
      BY <3>1, <3>3, <3>5, <2>4
    <3> QED
      BY <3>1, <3>3, <3>4, <3>6 DEF ContainsReloc
  <2>8. ASSUME ContainsReloc(t) PROVE HasReloc(h, r)
    <3>1. PICK f \in Fields : view[t][f] # Nil /\ Relocated(view[t][f])
      BY <2>8 DEF ContainsReloc
    <3>2. ValueIn(T, f) # Nil /\ Relocated(ValueIn(T, f))
      BY <3>1, <2>4
    <3>3. Find(h, r, f) # Nil
      BY <3>2, <2>1, <2>3, ValueInIs
    <3>4. Relocated(h[Find(h, r, f)].value)
      BY <3>2, <3>3, <2>6
    <3> QED
      BY <3>3, <3>4, <2>4, <2>5, RelocUp
  <2> QED
    BY <2>2, <2>7, <2>8
<1> QED
  BY <1>1 DEF RelocFound

\* As long as a table lost no flag, its flags lead to a relocated address exactly
\* when one of its fields holds one, so that the loop that builds the table of a
\* callee misses none and follows no null pointer
\* (cesk_static.c:428-440, 652-707, cesk_frame.c:248-299).
THEOREM RelocsFound == Spec => []RelocFound
<1>1. Init => ViewInv
  BY InitViews
<1>2. ViewInv /\ [Next]_vars => ViewInv'
  BY NextViews
<1>3. ViewInv => RelocFound
  BY InvRelocFound
<1> QED
  BY <1>1, <1>2, <1>3, PTL DEF Spec
=============================================================================
