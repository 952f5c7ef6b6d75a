---------------------------- MODULE CeskSetProofs ----------------------------
(***************************************************************************)
(* Proofs about CeskSet, for any number of handles, addresses, tags and    *)
(* indices: the reference counts are exact, no write reaches a shared      *)
(* index, and no relocated address is missed; without colliding renames    *)
(* the views of a set agree and the table implements SetValues.            *)
(***************************************************************************)
EXTENDS CeskSet, FiniteSetTheorems, SequenceTheorems, TLAPS

(* Lists: what Backwards and concatenation contain. *)
LEMMA BackwardsElems ==
  ASSUME NEW S, NEW l \in Seq(S)
  PROVE  /\ Backwards(l) \in Seq(S)
         /\ Elems(Backwards(l)) = Elems(l)
         /\ Len(Backwards(l)) = Len(l)
<1>1. Len(l) \in Nat /\ \A k \in 1 .. Len(l) : l[k] \in S
  BY LenProperties, ElementOfSeq
<1>2. \A k \in 1 .. Len(l) : Len(l) + 1 - k \in 1 .. Len(l)
  BY <1>1
<1>3. Backwards(l) \in [1 .. Len(l) -> S]
  BY <1>1, <1>2 DEF Backwards
<1>4. Backwards(l) \in Seq(S)
  BY <1>1, <1>3, SeqDef
<1>5. Len(Backwards(l)) = Len(l)
  BY <1>4, <1>3, <1>1, LenProperties
<1>6. Elems(Backwards(l)) \subseteq Elems(l)
  BY <1>2, <1>5 DEF Elems, Backwards
<1>7. ASSUME NEW k \in 1 .. Len(l) PROVE l[k] \in Elems(Backwards(l))
  <2>1. Backwards(l)[Len(l) + 1 - k] = l[k]
    <3>1. Len(l) + 1 - (Len(l) + 1 - k) = k
      BY <1>1
    <3> QED BY <3>1, <1>2 DEF Backwards
  <2> QED BY <2>1, <1>2, <1>5 DEF Elems
<1>8. Elems(l) \subseteq Elems(Backwards(l))
  BY <1>7 DEF Elems
<1> QED BY <1>4, <1>5, <1>6, <1>8

Distinct(l) == \A j, k \in 1 .. Len(l) : l[j] = l[k] => j = k

LEMMA BackwardsDistinct ==
  ASSUME NEW S, NEW l \in Seq(S), Distinct(l)
  PROVE  Distinct(Backwards(l))
<1>1. Len(l) \in Nat /\ Len(Backwards(l)) = Len(l)
  BY LenProperties, BackwardsElems
<1>2. \A j \in 1 .. Len(l) : /\ Backwards(l)[j] = l[Len(l) + 1 - j]
                              /\ Len(l) + 1 - j \in 1 .. Len(l)
  BY <1>1 DEF Backwards
<1>3. SUFFICES ASSUME NEW j \in 1 .. Len(l), NEW k \in 1 .. Len(l),
                      Backwards(l)[j] = Backwards(l)[k]
               PROVE  j = k
  BY <1>1 DEF Distinct
<1>4. Len(l) + 1 - j = Len(l) + 1 - k
  BY <1>2, <1>3 DEF Distinct
<1> QED BY <1>1, <1>4

LEMMA ElemsTyped ==
  ASSUME NEW S, NEW l \in Seq(S)
  PROVE  Elems(l) \subseteq S
BY ElementOfSeq DEF Elems

LEMMA ConcatElems ==
  ASSUME NEW S, NEW l \in Seq(S), NEW m \in Seq(S)
  PROVE  /\ l \o m \in Seq(S)
         /\ Elems(l \o m) = Elems(l) \cup Elems(m)
         /\ Len(l \o m) = Len(l) + Len(m)
<1>1. /\ l \o m \in Seq(S) /\ Len(l \o m) = Len(l) + Len(m)
      /\ \A i \in 1 .. Len(l) + Len(m) :
           (l \o m)[i] = IF i <= Len(l) THEN l[i] ELSE m[i - Len(l)]
  BY ConcatProperties
<1>2. Len(l) \in Nat /\ Len(m) \in Nat
  BY LenProperties
<1>3. Elems(l \o m) \subseteq Elems(l) \cup Elems(m)
  BY <1>1, <1>2 DEF Elems
<1>4. ASSUME NEW i \in 1 .. Len(l) PROVE l[i] \in Elems(l \o m)
  <2>1. i \in 1 .. Len(l) + Len(m) /\ (l \o m)[i] = l[i]
    BY <1>1, <1>2
  <2> QED BY <2>1, <1>1 DEF Elems
<1>5. ASSUME NEW i \in 1 .. Len(m) PROVE m[i] \in Elems(l \o m)
  <2>1. /\ Len(l) + i \in 1 .. Len(l) + Len(m)
        /\ (l \o m)[Len(l) + i] = m[i]
    <3>1. Len(l) + i \in 1 .. Len(l) + Len(m) /\ ~(Len(l) + i <= Len(l)) /\ Len(l) + i - Len(l) = i
      BY <1>2
    <3> QED BY <3>1, <1>1
  <2> QED BY <2>1, <1>1 DEF Elems
<1> QED BY <1>1, <1>3, <1>4, <1>5 DEF Elems

LEMMA ConcatDistinct ==
  ASSUME NEW S, NEW l \in Seq(S), NEW m \in Seq(S),
         Distinct(l), Distinct(m), Elems(l) \cap Elems(m) = {}
  PROVE  Distinct(l \o m)
<1>1. /\ Len(l \o m) = Len(l) + Len(m)
      /\ \A i \in 1 .. Len(l) + Len(m) :
           (l \o m)[i] = IF i <= Len(l) THEN l[i] ELSE m[i - Len(l)]
  BY ConcatProperties
<1>2. Len(l) \in Nat /\ Len(m) \in Nat
  BY LenProperties
<1>3. ASSUME NEW i \in 1 .. Len(l) + Len(m)
      PROVE  \/ i \in 1 .. Len(l) /\ (l \o m)[i] = l[i]
             \/ i - Len(l) \in 1 .. Len(m) /\ (l \o m)[i] = m[i - Len(l)]
  BY <1>1, <1>2
<1>4. SUFFICES ASSUME NEW j \in 1 .. Len(l) + Len(m), NEW k \in 1 .. Len(l) + Len(m),
                      (l \o m)[j] = (l \o m)[k]
               PROVE  j = k
  BY <1>1 DEF Distinct
<1>5. CASE j \in 1 .. Len(l) /\ k \in 1 .. Len(l) /\ l[j] = l[k]
  BY <1>5 DEF Distinct
<1>6. CASE j - Len(l) \in 1 .. Len(m) /\ k - Len(l) \in 1 .. Len(m) /\ m[j - Len(l)] = m[k - Len(l)]
  <2>1. j - Len(l) = k - Len(l)
    BY <1>6 DEF Distinct
  <2> QED BY <2>1, <1>2
<1>7. CASE j \in 1 .. Len(l) /\ k - Len(l) \in 1 .. Len(m) /\ l[j] = m[k - Len(l)]
  BY <1>7 DEF Elems
<1>8. CASE k \in 1 .. Len(l) /\ j - Len(l) \in 1 .. Len(m) /\ l[k] = m[j - Len(l)]
  BY <1>8 DEF Elems
<1>9. \/ j \in 1 .. Len(l) /\ (l \o m)[j] = l[j]
      \/ j - Len(l) \in 1 .. Len(m) /\ (l \o m)[j] = m[j - Len(l)]
  BY <1>3
<1>10. \/ k \in 1 .. Len(l) /\ (l \o m)[k] = l[k]
       \/ k - Len(l) \in 1 .. Len(m) /\ (l \o m)[k] = m[k - Len(l)]
  BY <1>3
<1>11. CASE j \in 1 .. Len(l) /\ (l \o m)[j] = l[j]
  BY <1>11, <1>10, <1>4, <1>5, <1>7
<1>12. CASE j - Len(l) \in 1 .. Len(m) /\ (l \o m)[j] = m[j - Len(l)]
  BY <1>12, <1>10, <1>4, <1>6, <1>8
<1> QED BY <1>9, <1>11, <1>12

-----------------------------------------------------------------------------
(* One info node: its list stays inside its hash nodes and its relocation  *)
(* count does not miss an address.                                         *)
RelocCount(A) == Cardinality(A \cap RelocAddr)
WellFormed(s) ==
  /\ s \in SetInfo
  /\ Elems(s.list) \subseteq s.node /\ Distinct(s.list)
  /\ s.reloc >= RelocCount(s.node)

LEMMA RelocCountType ==
  ASSUME NEW A \in SUBSET Addr
  PROVE  RelocCount(A) \in Nat /\ IsFiniteSet(A) /\ IsFiniteSet(A \cap RelocAddr)
<1>1. IsFiniteSet(A)
  BY FS_Subset, SetAssumption
<1>2. IsFiniteSet(A \cap RelocAddr)
  BY <1>1, FS_Intersection
<1> QED BY <1>1, <1>2, FS_CardinalityType DEF RelocCount

LEMMA RelocCountMonotone ==
  ASSUME NEW A \in SUBSET Addr, NEW B \in SUBSET A
  PROVE  RelocCount(B) <= RelocCount(A)
<1>1. IsFiniteSet(A \cap RelocAddr) /\ B \cap RelocAddr \in SUBSET (A \cap RelocAddr)
  BY RelocCountType
<1> QED BY <1>1, FS_Subset DEF RelocCount

LEMMA RelocCountUnion ==
  ASSUME NEW A \in SUBSET Addr, NEW B \in SUBSET Addr
  PROVE  RelocCount(A \cup B) <= RelocCount(A) + RelocCount(B)
<1> DEFINE S == A \cap RelocAddr
           T == B \cap RelocAddr
<1>1. IsFiniteSet(S) /\ IsFiniteSet(T)
  BY RelocCountType
<1>2. /\ Cardinality(S \cup T) = Cardinality(S) + Cardinality(T) - Cardinality(S \cap T)
      /\ Cardinality(S) \in Nat /\ Cardinality(T) \in Nat
  BY <1>1, FS_Union, FS_CardinalityType
<1>3. Cardinality(S \cap T) \in Nat
  BY <1>1, FS_Intersection, FS_CardinalityType
<1>4. (A \cup B) \cap RelocAddr = S \cup T
  OBVIOUS
<1>5. /\ RelocCount(A \cup B) = Cardinality(S \cup T)
      /\ RelocCount(A) = Cardinality(S) /\ RelocCount(B) = Cardinality(T)
  BY <1>4 DEF RelocCount
<1> HIDE DEF S, T
<1> QED BY <1>2, <1>3, <1>5

LEMMA RelocCountRemove ==
  ASSUME NEW A \in SUBSET Addr, NEW a \in A
  PROVE  RelocCount(A \ {a}) = IF a \in RelocAddr THEN RelocCount(A) - 1 ELSE RelocCount(A)
<1>1. IsFiniteSet(A \cap RelocAddr)
  BY RelocCountType
<1>2. (A \ {a}) \cap RelocAddr = (A \cap RelocAddr) \ {a}
  OBVIOUS
<1> QED BY <1>1, <1>2, FS_RemoveElement DEF RelocCount

LEMMA RelocCountAdd ==
  ASSUME NEW A \in SUBSET Addr, NEW a \in Addr \ A
  PROVE  RelocCount(A \cup {a}) = IF a \in RelocAddr THEN RelocCount(A) + 1 ELSE RelocCount(A)
<1>1. IsFiniteSet(A \cap RelocAddr)
  BY RelocCountType
<1>2. CASE a \in RelocAddr
  <2>1. (A \cup {a}) \cap RelocAddr = (A \cap RelocAddr) \cup {a}
    BY <1>2
  <2> QED BY <1>1, <1>2, <2>1, FS_AddElement DEF RelocCount
<1>3. CASE a \notin RelocAddr
  <2>1. (A \cup {a}) \cap RelocAddr = A \cap RelocAddr
    BY <1>3
  <2> QED BY <1>3, <2>1 DEF RelocCount
<1> QED BY <1>2, <1>3

(* _cesk_set_duplicate *)
LEMMA DuplicateOK ==
  ASSUME NEW s, WellFormed(s)
  PROVE  WellFormed(Duplicate(s)) /\ Duplicate(s).refcnt = 1
<1> DEFINE d == Duplicate(s)
           order == Backwards(s.list)
<1>1. s \in SetInfo /\ s.list \in Seq(Addr) /\ s.node \in SUBSET Addr
  BY DEF WellFormed, SetInfo
<1>2. order \in Seq(Addr) /\ Elems(order) = Elems(s.list)
  BY <1>1, BackwardsElems
<1>3. Elems(s.list) \in SUBSET Addr /\ Elems(s.list) \subseteq s.node
  BY <1>1, ElemsTyped DEF WellFormed
<1>4. /\ d.refcnt = 1 /\ d.node = Elems(s.list) /\ d.list = order /\ d.reloc = s.reloc
      /\ d \in SetInfo
  <2> HIDE DEF order
  <2> DEFINE lnk == Elems(s.list) \ (IF order = <<>> THEN {} ELSE {order[1]})
  <2>1. lnk \in SUBSET Addr
    BY <1>3
  <2>2. d = [s EXCEPT !.refcnt = 1, !.node = Elems(s.list), !.list = order, !.linked = lnk]
    BY DEF Duplicate, order
  <2> HIDE DEF lnk, d
  <2> QED BY <1>1, <1>2, <1>3, <2>1, <2>2 DEF SetInfo
<1>5. s.reloc \in Nat /\ s.reloc >= RelocCount(s.node)
  BY <1>1 DEF WellFormed, SetInfo
<1>6. RelocCount(Elems(s.list)) <= RelocCount(s.node)
  BY <1>1, <1>3, RelocCountMonotone
<1>7. RelocCount(Elems(s.list)) \in Nat /\ RelocCount(s.node) \in Nat
  BY <1>1, <1>3, RelocCountType
<1>8. d.reloc >= RelocCount(d.node)
  BY <1>4, <1>5, <1>6, <1>7
<1>9. Distinct(order)
  BY <1>1, BackwardsDistinct DEF WellFormed
<1> HIDE DEF d
<1> QED BY <1>2, <1>4, <1>8, <1>9 DEF WellFormed, d

(* cesk_set_push and the loop of cesk_set_merge *)
LEMMA PushedOK ==
  ASSUME NEW s, WellFormed(s), NEW new \in Seq(Addr),
         Distinct(new), Elems(new) \cap s.node = {}
  PROVE  WellFormed(Pushed(s, new)) /\ Pushed(s, new).refcnt = s.refcnt
<1> DEFINE d == Pushed(s, new)
           E == Elems(new)
           l == Backwards(new) \o s.list
<1>1. /\ s \in SetInfo /\ s.list \in Seq(Addr) /\ s.node \in SUBSET Addr
      /\ s.reloc \in Nat /\ s.size \in Nat /\ s.ahash \in SUBSET Addr
  BY DEF WellFormed, SetInfo
<1>2. E \in SUBSET Addr /\ Len(new) \in Nat
  BY ElemsTyped, LenProperties
<1>3. l \in Seq(Addr) /\ Elems(l) = E \cup Elems(s.list)
  BY <1>1, BackwardsElems, ConcatElems
<1>4. /\ RelocCount(E) \in Nat /\ RelocCount(s.node) \in Nat
      /\ RelocCount(s.node \cup E) \in Nat
      /\ RelocCount(s.node \cup E) <= RelocCount(s.node) + RelocCount(E)
  BY <1>1, <1>2, RelocCountType, RelocCountUnion
<1>5. d = [s EXCEPT !.node = s.node \cup E, !.list = l, !.ahash = Xor(s.ahash, E),
                    !.size = s.size + Len(new), !.reloc = s.reloc + RelocCount(E)]
  BY <1>1 DEF Pushed, SetInfo, RelocCount
<1>6. Xor(s.ahash, E) \in SUBSET Addr
  BY <1>1, <1>2 DEF Xor
<1> HIDE DEF d, E, l
<1>7. /\ d.node = s.node \cup E /\ d.list = l /\ d.reloc = s.reloc + RelocCount(E)
      /\ d.refcnt = s.refcnt /\ d \in SetInfo
  <2>1. s.size + Len(new) \in Nat /\ s.reloc + RelocCount(E) \in Nat
    BY <1>1, <1>2, <1>4
  <2>2. s.node \cup E \in SUBSET Addr
    BY <1>1, <1>2
  <2> QED BY <1>1, <1>3, <1>5, <1>6, <2>1, <2>2 DEF SetInfo
<1>8. d.reloc >= RelocCount(d.node)
  <2>1. s.reloc >= RelocCount(s.node)
    BY DEF WellFormed
  <2> QED BY <2>1, <1>1, <1>4, <1>7
<1>9. Elems(d.list) \subseteq d.node
  BY <1>3, <1>7 DEF WellFormed
<1>10. Distinct(l)
  <2>1. Backwards(new) \in Seq(Addr) /\ Elems(Backwards(new)) = E /\ Distinct(Backwards(new))
    BY BackwardsElems, BackwardsDistinct DEF E
  <2>2. Distinct(s.list) /\ E \cap Elems(s.list) = {}
    BY DEF WellFormed, E
  <2> QED BY <1>1, <2>1, <2>2, ConcatDistinct DEF l
<1> QED BY <1>7, <1>8, <1>9, <1>10 DEF WellFormed, d

(* The elements that cesk_set_merge pushes are those of the source that    *)
(* the destination has not, each once.                                     *)
LEMMA MissingElems ==
  ASSUME NEW s, NEW l \in Seq(Addr), NEW new \in Missing(s, l)
  PROVE  /\ new \in Seq(Addr)
         /\ Elems(new) = Elems(l) \ s.node
         /\ Distinct(l) => Distinct(new)
<1> DEFINE K == {k \in 1 .. Len(l) : l[k] \notin s.node}
           N == 1 .. Cardinality(K)
<1>1. PICK p \in [N -> K] : /\ new = [j \in N |-> l[p[j]]]
                            /\ \A i, j \in N : i < j => p[i] < p[j]
  BY DEF Missing
<1>2. IsFiniteSet(K)
  <2>1. IsFiniteSet(1 .. Len(l)) /\ K \in SUBSET (1 .. Len(l))
    BY FS_Interval, LenProperties
  <2> QED BY <2>1, FS_Subset
<1>3. Cardinality(K) \in Nat
  BY <1>2, FS_CardinalityType
<1>4. \A j \in N : l[p[j]] \in Addr
  BY <1>1, ElementOfSeq
<1>5. new \in [1 .. Cardinality(K) -> Addr]
  BY <1>1, <1>4
<1>6. new \in Seq(Addr) /\ Len(new) = Cardinality(K)
  <2> HIDE DEF K
  <2>1. new \in Seq(Addr)
    BY <1>3, <1>5, SeqDef
  <2> QED BY <2>1, <1>3, <1>5, LenProperties
<1>7. \A i, j \in N : p[i] = p[j] => i = j
  <2> SUFFICES ASSUME NEW i \in N, NEW j \in N, p[i] = p[j], i # j PROVE FALSE
    OBVIOUS
  <2>1. p[i] \in Int /\ p[j] \in Int /\ (i < j \/ j < i)
    BY <1>1, <1>3, LenProperties
  <2>2. ~(p[i] < p[j]) /\ ~(p[j] < p[i])
    BY <2>1
  <2> QED BY <1>1, <2>1, <2>2
<1>8. p \in Surjection(N, K)
  <2>1. p \in Injection(N, K)
    BY <1>1, <1>7 DEF Injection, IsInjective
  <2>2. Cardinality(N) = Cardinality(K)
    BY <1>3, FS_Interval
  <2> QED BY <1>2, <2>1, <2>2, FS_Injection
<1>9. Elems(new) = Elems(l) \ s.node
  <2>1. Elems(new) \subseteq Elems(l) \ s.node
    BY <1>1, <1>6 DEF Elems
  <2>2. ASSUME NEW k \in K PROVE l[k] \in Elems(new)
    <3>1. PICK j \in N : p[j] = k
      BY <1>8 DEF Surjection
    <3> QED BY <3>1, <1>1, <1>6 DEF Elems
  <2> QED BY <2>1, <2>2 DEF Elems
<1>10. Distinct(l) => Distinct(new)
  <2> SUFFICES ASSUME Distinct(l), NEW i \in N, NEW j \in N, new[i] = new[j] PROVE i = j
    BY <1>6 DEF Distinct
  <2>1. p[i] \in 1 .. Len(l) /\ p[j] \in 1 .. Len(l) /\ l[p[i]] = l[p[j]]
    BY <1>1
  <2> QED BY <2>1, <1>7 DEF Distinct
<1> QED BY <1>6, <1>9, <1>10

LEMMA MergeTagsOK ==
  ASSUME NEW s, WellFormed(s), NEW tags \in SUBSET Tag
  PROVE  WellFormed(MergeTagsInto(s, tags)) /\ MergeTagsInto(s, tags).refcnt = s.refcnt
<1> DEFINE d == MergeTagsInto(s, tags)
           t == Xor(Xor(s.thash, {s.tags}), {s.tags \cup tags})
<1>1. s \in SetInfo
  BY DEF WellFormed
<1>2. t \in SUBSET (SUBSET Tag) /\ s.tags \cup tags \in SUBSET Tag
  BY <1>1 DEF Xor, SetInfo
<1>3. d = [s EXCEPT !.tags = s.tags \cup tags, !.thash = t]
  BY <1>1 DEF MergeTagsInto, SetInfo
<1> HIDE DEF d, t
<1>4. /\ d \in SetInfo /\ d.refcnt = s.refcnt /\ d.list = s.list
      /\ d.node = s.node /\ d.reloc = s.reloc
  BY <1>1, <1>2, <1>3 DEF SetInfo
<1> QED BY <1>4 DEF WellFormed, d

LEMMA AssignTagsOK ==
  ASSUME NEW s, WellFormed(s), NEW tags \in SUBSET Tag
  PROVE  /\ WellFormed([s EXCEPT !.tags = tags])
         /\ [s EXCEPT !.tags = tags].refcnt = s.refcnt
<1> DEFINE d == [s EXCEPT !.tags = tags]
<1>1. s \in SetInfo
  BY DEF WellFormed
<1>2. /\ d \in SetInfo /\ d.refcnt = s.refcnt /\ d.list = s.list
      /\ d.node = s.node /\ d.reloc = s.reloc
  BY <1>1 DEF SetInfo
<1> HIDE DEF d
<1> QED BY <1>2 DEF WellFormed, d

(* The relocation count after cesk_set_modify, whether `to' was there or   *)
(* not.                                                                    *)
LEMMA RelocAfterOK ==
  ASSUME NEW s, WellFormed(s), NEW from \in s.node, NEW to \in Addr,
         NEW A \in SUBSET Addr, A = s.node \ {from} \/ A = (s.node \ {from}) \cup {to},
         A = s.node \ {from} => to \in s.node, from # to
  PROVE  RelocAfter(s, from, to) \in Nat /\ RelocAfter(s, from, to) >= RelocCount(A)
<1>1. s.node \in SUBSET Addr /\ s.reloc \in Nat /\ s.reloc >= RelocCount(s.node)
  BY DEF WellFormed, SetInfo
<1> DEFINE B == s.node \ {from}
<1>2. B \in SUBSET Addr /\ RelocCount(B) \in Nat /\ RelocCount(s.node) \in Nat
  BY <1>1, RelocCountType
<1>3. RelocCount(B) = IF from \in RelocAddr THEN RelocCount(s.node) - 1 ELSE RelocCount(s.node)
  BY <1>1, RelocCountRemove
<1>4. to \in B => B \cup {to} = B
  OBVIOUS
<1>5. to \notin B => RelocCount(B \cup {to})
                      = IF to \in RelocAddr THEN RelocCount(B) + 1 ELSE RelocCount(B)
  BY <1>2, RelocCountAdd
<1>6. A = B => to \in B
  OBVIOUS
<1>7. RelocCount(A) = RelocCount(B) \/ (to \in RelocAddr /\ RelocCount(A) = RelocCount(B) + 1)
  <2>1. A = B \/ A = B \cup {to}
    OBVIOUS
  <2> HIDE DEF B
  <2> QED BY <2>1, <1>4, <1>5
<1>8. from \in RelocAddr /\ to \in RelocAddr => s.reloc >= RelocCount(B) + 1
  BY <1>1, <1>2, <1>3
<1> HIDE DEF B
<1> QED BY <1>1, <1>2, <1>3, <1>7, <1>8 DEF RelocAfter

LEMMA RenameOK ==
  ASSUME NEW s, WellFormed(s), NEW from \in s.node, NEW to \in Addr \ s.node
  PROVE  /\ WellFormed(Rename(s, from, to)) /\ Rename(s, from, to).refcnt = s.refcnt
         /\ Rename(s, from, to).node = (s.node \ {from}) \cup {to}
         /\ Rename(s, from, to).tags = s.tags
         /\ Elems(s.list) = s.node => Elems(Rename(s, from, to).list) = Rename(s, from, to).node
<1> DEFINE new(a) == IF a = from THEN to ELSE a
           d == Rename(s, from, to)
           A == {new(a) : a \in s.node}
           l == [k \in 1 .. Len(s.list) |-> new(s.list[k])]
           lnk == {new(a) : a \in s.linked}
           h == Xor(Xor(s.ahash, {from}), {to})
<1>1. /\ s \in SetInfo /\ s.list \in Seq(Addr) /\ s.node \in SUBSET Addr
      /\ s.linked \in SUBSET Addr /\ s.ahash \in SUBSET Addr /\ from # to
  BY DEF WellFormed, SetInfo
<1>2. A = (s.node \ {from}) \cup {to}
  OBVIOUS
<1>3. A \in SUBSET Addr /\ lnk \in SUBSET Addr /\ h \in SUBSET Addr
  BY <1>1 DEF Xor
<1>4. Len(s.list) \in Nat /\ \A k \in 1 .. Len(s.list) : s.list[k] \in s.node
  BY <1>1, LenProperties DEF WellFormed, Elems
<1>5. l \in [1 .. Len(s.list) -> Addr]
  BY <1>1, <1>4
<1>6. l \in Seq(Addr)
  <2> HIDE DEF l
  <2> QED BY <1>4, <1>5, SeqDef
<1>7. Len(l) = Len(s.list)
  BY <1>4, <1>6, LenProperties
<1>8. Elems(l) = {new(a) : a \in Elems(s.list)}
  BY <1>7 DEF Elems
<1>9. Distinct(l)
  <2> SUFFICES ASSUME NEW j \in 1 .. Len(s.list), NEW k \in 1 .. Len(s.list), l[j] = l[k]
               PROVE  j = k
    BY <1>7 DEF Distinct
  <2>1. s.list[j] = s.list[k]
    BY <1>4
  <2> QED BY <2>1 DEF WellFormed, Distinct
<1>10. RelocAfter(s, from, to) \in Nat /\ RelocAfter(s, from, to) >= RelocCount(A)
  <2> HIDE DEF A
  <2>1. to \in A
    BY <1>2
  <2> QED BY <1>1, <1>2, <1>3, <2>1, RelocAfterOK
<1>11. d = [s EXCEPT !.node = A, !.list = l, !.linked = lnk, !.ahash = h,
                     !.reloc = RelocAfter(s, from, to)]
  BY <1>1 DEF Rename, SetInfo
<1> HIDE DEF A, l, lnk, h, d
<1>12. /\ d \in SetInfo /\ d.node = A /\ d.list = l /\ d.refcnt = s.refcnt
       /\ d.reloc = RelocAfter(s, from, to) /\ d.tags = s.tags
  BY <1>1, <1>3, <1>6, <1>10, <1>11 DEF SetInfo
<1>13. Elems(s.list) \subseteq s.node
  BY DEF WellFormed
<1>14. Elems(l) \subseteq A
  BY <1>8, <1>13 DEF A
<1>15. Elems(s.list) = s.node => Elems(l) = A
  BY <1>8 DEF A
<1> QED BY <1>2, <1>9, <1>10, <1>12, <1>14, <1>15 DEF WellFormed, d

LEMMA DeleteOK ==
  ASSUME NEW s, WellFormed(s), NEW from \in s.node, NEW to \in s.node, from # to,
         NEW l \in ListsWithout(s, from)
  PROVE  WellFormed(Delete(s, from, to, l)) /\ Delete(s, from, to, l).refcnt = s.refcnt
<1> DEFINE d == Delete(s, from, to, l)
           A == s.node \ {from}
           t == s.list
<1>1. /\ s \in SetInfo /\ t \in Seq(Addr) /\ s.node \in SUBSET Addr
      /\ s.linked \in SUBSET Addr /\ s.ahash \in SUBSET Addr
      /\ Distinct(t) /\ Elems(t) \subseteq s.node
  BY DEF WellFormed, SetInfo
<1>2. Len(t) \in Nat /\ \A k \in 1 .. Len(t) : t[k] \in s.node
  BY <1>1, LenProperties DEF Elems
<1>3. l \in Seq(Addr) /\ Elems(l) \subseteq A /\ Distinct(l)
  <2>1. CASE from \notin Elems(t)
    <3>1. PICK n \in 0 .. Cardinality(A) : l \in [1 .. n -> A] /\ \A j, k \in 1 .. n : l[j] = l[k] => j = k
      BY <2>1 DEF ListsWithout
    <3>2. n \in Nat /\ l \in [1 .. n -> Addr]
      BY <1>1, <3>1
    <3>3. l \in Seq(Addr)
      BY <3>2, SeqDef
    <3>4. Len(l) = n
      BY <3>2, <3>3, LenProperties
    <3> QED BY <3>1, <3>3, <3>4 DEF Elems, Distinct
  <2>2. CASE from \in Elems(t)
    <3> DEFINE p == IndexIn(t, from)
               before == SubSeq(t, 1, p - 1)
               rest == SubSeq(t, p + 1, Len(t))
    <3>1. p \in 1 .. Len(t) /\ t[p] = from
      BY <2>2 DEF IndexIn, Elems
    <3>2. l = before \o rest \/ l = rest
      BY <2>2 DEF ListsWithout
    <3> HIDE DEF p
    <3>3. /\ before \in Seq(Addr) /\ Len(before) = p - 1
          /\ \A i \in 1 .. p - 1 : before[i] = t[i]
      <4>1. \A i \in 1 .. p - 1 : t[i] \in Addr
        BY <1>1, <1>2, <3>1
      <4> QED BY <4>1, <1>2, <3>1, SubSeqProperties
    <3>4. /\ rest \in Seq(Addr) /\ Len(rest) = Len(t) - p
          /\ \A i \in 1 .. Len(t) - p : rest[i] = t[p + i]
      <4>1. \A i \in p + 1 .. Len(t) : t[i] \in Addr
        BY <1>1, <1>2, <3>1
      <4> QED BY <4>1, <1>2, <3>1, SubSeqProperties
    <3> HIDE DEF before, rest
    <3>5. Distinct(before) /\ Distinct(rest)
      <4>1. Distinct(before)
        BY <3>1, <3>3, <1>1, <1>2 DEF Distinct
      <4>2. SUFFICES ASSUME NEW j \in 1 .. Len(t) - p, NEW k \in 1 .. Len(t) - p, rest[j] = rest[k]
                     PROVE  j = k
        BY <3>4, <4>1 DEF Distinct
      <4>3. p + j \in 1 .. Len(t) /\ p + k \in 1 .. Len(t) /\ t[p + j] = t[p + k]
        <5>1. p + j \in 1 .. Len(t) /\ p + k \in 1 .. Len(t)
          BY <3>1, <1>2
        <5>2. rest[j] = t[p + j] /\ rest[k] = t[p + k]
          BY <3>4
        <5> QED BY <5>1, <5>2, <4>2
      <4>4. p + j = p + k
        BY <4>3, <1>1 DEF Distinct
      <4> QED BY <4>4, <3>1
    <3>6. Elems(before) \subseteq A
      <4> SUFFICES ASSUME NEW i \in 1 .. p - 1 PROVE t[i] \in s.node /\ t[i] # from
        BY <3>3 DEF Elems
      <4>1. i \in 1 .. Len(t) /\ i # p
        BY <3>1, <1>2
      <4> QED BY <4>1, <3>1, <1>1, <1>2 DEF Distinct
    <3>7. Elems(rest) \subseteq A
      <4> SUFFICES ASSUME NEW i \in 1 .. Len(t) - p PROVE t[p + i] \in s.node /\ t[p + i] # from
        BY <3>4 DEF Elems
      <4>1. p + i \in 1 .. Len(t) /\ p + i # p
        BY <3>1, <1>2
      <4> QED BY <4>1, <3>1, <1>1, <1>2 DEF Distinct
    <3>8. Elems(before) \cap Elems(rest) = {}
      <4> SUFFICES ASSUME NEW i \in 1 .. p - 1, NEW j \in 1 .. Len(t) - p, t[i] = t[p + j]
                   PROVE  FALSE
        BY <3>3, <3>4 DEF Elems
      <4>1. i \in 1 .. Len(t) /\ p + j \in 1 .. Len(t) /\ i # p + j
        BY <3>1, <1>2
      <4> QED BY <4>1, <1>1 DEF Distinct
    <3>9. CASE l = rest
      BY <3>4, <3>5, <3>7, <3>9
    <3>10. CASE l = before \o rest
      BY <3>3, <3>4, <3>5, <3>6, <3>7, <3>8, <3>10, ConcatElems, ConcatDistinct
    <3> QED BY <3>2, <3>9, <3>10
  <2> QED BY <2>1, <2>2
<1>4. A \in SUBSET Addr /\ Xor(s.ahash, {from}) \in SUBSET Addr
  BY <1>1 DEF Xor
<1>5. LinkedWithout(s, from) \in SUBSET Addr
  <2>1. {t[k] : k \in {IndexIn(t, from) + 1} \cap 1 .. Len(t)} \in SUBSET Addr
    BY <1>1, <1>2
  <2> QED BY <2>1, <1>1 DEF LinkedWithout
<1>6. RelocAfter(s, from, to) \in Nat /\ RelocAfter(s, from, to) >= RelocCount(A)
  BY <1>1, <1>4, RelocAfterOK
<1>7. d = [s EXCEPT !.node = A, !.list = l, !.linked = LinkedWithout(s, from),
                    !.ahash = Xor(s.ahash, {from}), !.reloc = RelocAfter(s, from, to)]
  BY <1>1 DEF Delete, SetInfo
<1> HIDE DEF A, d, t
<1>8. /\ d \in SetInfo /\ d.node = A /\ d.list = l /\ d.refcnt = s.refcnt
      /\ d.reloc = RelocAfter(s, from, to)
  BY <1>1, <1>3, <1>4, <1>5, <1>6, <1>7 DEF SetInfo
<1> QED BY <1>3, <1>6, <1>8 DEF WellFormed, d

-----------------------------------------------------------------------------
(* The inductive invariant.  RefcntExact alone is not inductive: a write   *)
(* through a shared index moves the handle to next_idx, which FreshUnused  *)
(* says nobody holds; and RelocNeverMissed needs the lists inside the      *)
(* nodes, because a duplicate holds what was on the list.                  *)
Contents == \A i \in Idx : set[i].refcnt > 0 => WellFormed(set[i])
IInv == TypeOK /\ RefcntExact /\ FreshUnused /\ EmptySetIntact /\ Contents

LEMMA HoldersFinite ==
  ASSUME NEW i
  PROVE  IsFiniteSet(Holders(i)) /\ Cardinality(Holders(i)) \in Nat
<1>1. Holders(i) \in SUBSET Handle
  BY DEF Holders
<1>2. IsFiniteSet(Holders(i))
  BY <1>1, FS_Subset, SetAssumption
<1> QED BY <1>2, FS_CardinalityType

LEMMA IdxFacts == /\ EmptyIdx \in Idx /\ EmptyIdx = 0
                  /\ Idx \subseteq Nat /\ NoSet \notin Idx
BY SetAssumption DEF Idx, EmptyIdx

(* Wherever a live handle points there is a well-formed info node that     *)
(* counts it; one that is not shared has this handle only.                 *)
LEMMA LiveHandle ==
  ASSUME IInv, NEW h \in Handle, Live(h)
  PROVE  /\ handle[h] \in Idx /\ handle[h] < next_idx
         /\ set[handle[h]].refcnt \in Nat /\ set[handle[h]].refcnt > 0
         /\ WellFormed(set[handle[h]])
         /\ handle[h] = EmptyIdx => Shared(h)
         /\ \A g \in Handle \ {h} : ~Shared(h) => handle[g] # handle[h]
<1> DEFINE i == handle[h]
<1>1. i \in Idx /\ i < next_idx /\ set[i].refcnt = Owners(i)
  BY DEF IInv, TypeOK, FreshUnused, Live, RefcntExact
<1>2. h \in Holders(i) /\ IsFiniteSet(Holders(i)) /\ Cardinality(Holders(i)) \in Nat
  BY HoldersFinite DEF Holders
<1>3. Cardinality(Holders(i)) > 0
  BY <1>2, FS_EmptySet
<1>4. set[i].refcnt \in Nat /\ set[i].refcnt > 0
  BY <1>1, <1>2, <1>3 DEF Owners
<1>5. i = EmptyIdx => Shared(h)
  BY <1>1, <1>2, <1>3 DEF Owners, Shared
<1>6. ASSUME NEW g \in Handle \ {h}, handle[g] = i PROVE Shared(h)
  <2>1. g \in Holders(i)
    BY <1>6 DEF Holders
  <2>2. Cardinality(Holders(i)) # 1
    BY <1>2, <2>1, FS_Singleton
  <2> QED BY <1>1, <1>2, <1>3, <2>2 DEF Owners, Shared
<1> QED BY <1>1, <1>4, <1>5, <1>6 DEF IInv, Contents

(* What a write that starts with Prepared(h) may leave behind. *)
LEMMA PreparedOK ==
  ASSUME IInv, NEW h \in Handle, Live(h)
  PROVE  /\ WellFormed(Prepared(h))
         /\ Prepared(h).refcnt = IF Shared(h) THEN 1 ELSE set[handle[h]].refcnt
<1>1. WellFormed(set[handle[h]])
  BY LiveHandle
<1> QED BY <1>1, DuplicateOK DEF Prepared

(* Nothing that is read through a handle other than h changes. *)
Others(h) ==
  \A g \in Handle \ {h} : Live(g)' = Live(g) /\ (Live(g) => Same(g))

(* Every write keeps the invariant and is seen through one handle only.    *)
LEMMA WriteOK ==
  ASSUME IInv, NEW h \in Handle, Live(h), NEW s, WellFormed(s),
         s.refcnt = Prepared(h).refcnt, Write(h, s)
  PROVE  IInv' /\ Others(h)
<1>0. PICK i : i = handle[h]
  OBVIOUS
<1>1. /\ i \in Idx /\ i < next_idx /\ set[i].refcnt \in Nat /\ set[i].refcnt > 0
      /\ i = EmptyIdx => Shared(h)
      /\ \A g \in Handle \ {h} : ~Shared(h) => handle[g] # i
  BY <1>0, LiveHandle
<1>2. s \in SetInfo /\ s.refcnt = IF Shared(h) THEN 1 ELSE set[i].refcnt
  BY <1>0, PreparedOK DEF WellFormed
<1>3. /\ handle \in [Handle -> Idx \cup {NoSet}] /\ next_idx \in 1 .. MaxIdx + 1
      /\ set \in [Idx -> SetInfo]
  BY DEF IInv, TypeOK
<1>4. MaxIdx \in Nat /\ EmptyIdx \in Idx /\ EmptyIdx = 0 /\ NoSet \notin Idx /\ Idx = 0 .. MaxIdx
  BY SetAssumption, IdxFacts DEF Idx
<1>5. CASE Shared(h)
  <2>0. PICK n : n = next_idx
    OBVIOUS
  <2> DEFINE old == [set[i] EXCEPT !.refcnt = @ - 1]
  <2>1. /\ n \in Idx /\ n # i /\ n # EmptyIdx
        /\ handle' = [handle EXCEPT ![h] = n] /\ next_idx' = n + 1
        /\ set' = [j \in Idx |-> IF j = n THEN s ELSE IF j = i THEN old ELSE set[j]]
    BY <1>0, <1>1, <1>3, <1>4, <1>5, <2>0 DEF Write, WriteIdx
  <2>2. set[i].refcnt > 1 /\ set[i] \in SetInfo
    BY <1>0, <1>1, <1>3, <1>5 DEF Shared
  <2>3. /\ old \in SetInfo /\ old.refcnt = set[i].refcnt - 1 /\ old.node = set[i].node
        /\ old.list = set[i].list /\ old.tags = set[i].tags /\ old.size = set[i].size
        /\ old.reloc = set[i].reloc /\ old.ahash = set[i].ahash /\ old.thash = set[i].thash
    BY <1>1, <2>2 DEF SetInfo
  <2> HIDE DEF old
  <2>4. TypeOK'
    BY <1>2, <1>3, <1>4, <2>1, <2>3 DEF TypeOK
  <2>5. ASSUME NEW g \in Handle PROVE handle[g] # n
    <3>1. CASE Live(g)
      <4>1. handle[g] \in Nat /\ handle[g] < n
        BY <2>0, <3>1, <1>3, <1>4 DEF IInv, FreshUnused, Live
      <4> QED BY <4>1
    <3>2. CASE ~Live(g)
      BY <3>2, <1>4, <2>1 DEF Live
    <3> QED BY <3>1, <3>2
  <2>6. RefcntExact'
    <3>1. Holders(n)' = {h} /\ Holders(i)' = Holders(i) \ {h}
      BY <1>0, <1>1, <1>3, <2>1, <2>5 DEF Holders
    <3>2. \A j \in Idx \ {n, i} : Holders(j)' = Holders(j)
      BY <1>0, <1>3, <2>1 DEF Holders
    <3>3. Owners(n)' = 1
      <4>1. Cardinality({h}) = 1
        BY FS_Singleton
      <4>2. Owners(n)' = Cardinality(Holders(n)') + (IF n = EmptyIdx THEN 1 ELSE 0)
        BY DEF Owners
      <4> QED BY <3>1, <4>1, <4>2, <2>1
    <3>4. Owners(i)' = Owners(i) - 1
      <4>1. h \in Holders(i) /\ IsFiniteSet(Holders(i)) /\ Cardinality(Holders(i)) \in Nat
        BY <1>0, HoldersFinite DEF Holders
      <4>2. Cardinality(Holders(i) \ {h}) = Cardinality(Holders(i)) - 1
        BY <4>1, FS_RemoveElement
      <4> QED BY <3>1, <4>1, <4>2 DEF Owners
    <3>5. \A j \in Idx \ {n, i} : Owners(j)' = Owners(j)
      BY <3>2 DEF Owners
    <3>6. \A j \in Idx : set[j].refcnt = Owners(j)
      BY DEF IInv, RefcntExact
    <3>7. set'[n].refcnt = 1 /\ set'[i].refcnt = set[i].refcnt - 1
      BY <1>1, <1>2, <1>5, <2>1, <2>3
    <3> QED BY <1>1, <2>1, <3>3, <3>4, <3>5, <3>6, <3>7 DEF RefcntExact
  <2>7. FreshUnused'
    <3>1. \A j \in Idx : j >= n + 1 => set'[j] = NewInfo
      BY <1>1, <1>3, <1>4, <2>0, <2>1 DEF IInv, FreshUnused
    <3>2. \A g \in Handle : Live(g)' => handle'[g] < n + 1
      BY <1>1, <1>3, <1>4, <2>0, <2>1 DEF IInv, FreshUnused, Live
    <3> QED BY <2>1, <3>1, <3>2 DEF FreshUnused
  <2>8. EmptySetIntact'
    <3>1. CASE i = EmptyIdx
      BY <3>1, <1>4, <2>1, <2>3 DEF IInv, EmptySetIntact
    <3>2. CASE i # EmptyIdx
      BY <3>2, <1>4, <2>1 DEF IInv, EmptySetIntact
    <3> QED BY <3>1, <3>2
  <2>9. Contents'
    <3>1. WellFormed(old)
      BY <1>0, LiveHandle, <2>3 DEF WellFormed
    <3>2. \A j \in Idx : set'[j].refcnt > 0 => WellFormed(set'[j])
      BY <2>1, <3>1 DEF IInv, Contents
    <3> QED BY <3>2 DEF Contents, WellFormed
  <2>10. Others(h)
    <3> SUFFICES ASSUME NEW g \in Handle \ {h}
                 PROVE  Live(g)' = Live(g) /\ (Live(g) => Same(g))
      BY DEF Others
    <3>1. handle'[g] = handle[g]
      BY <1>3, <2>1
    <3>2. Live(g)' = Live(g)
      BY <3>1 DEF Live
    <3>3. ASSUME Live(g) PROVE Same(g)
      <4>1. handle[g] \in Idx /\ handle[g] # n
        BY <3>3, <1>3, <2>5 DEF Live
      <4>2. set'[handle[g]] = IF handle[g] = i THEN old ELSE set[handle[g]]
        BY <2>1, <4>1
      <4> QED BY <3>1, <4>2, <2>3 DEF Same, Value, Hashcode, Of
    <3> QED BY <3>2, <3>3
  <2> QED BY <2>4, <2>6, <2>7, <2>8, <2>9, <2>10 DEF IInv
<1>6. CASE ~Shared(h)
  <2>1. handle' = handle /\ next_idx' = next_idx /\ set' = [set EXCEPT ![i] = s]
    BY <1>0, <1>1, <1>3, <1>6 DEF Write, WriteIdx
  <2>2. i # EmptyIdx /\ s.refcnt = set[i].refcnt
    BY <1>1, <1>2, <1>6
  <2>3. TypeOK'
    BY <1>2, <1>3, <2>1 DEF TypeOK
  <2>4. RefcntExact'
    <3>1. \A j \in Idx : Owners(j)' = Owners(j)
      BY <2>1 DEF Owners, Holders
    <3> QED BY <1>1, <1>3, <2>1, <2>2, <3>1 DEF IInv, RefcntExact
  <2>5. FreshUnused'
    BY <1>1, <1>3, <1>4, <2>1 DEF IInv, FreshUnused, Live
  <2>6. EmptySetIntact'
    BY <1>3, <1>4, <2>1, <2>2 DEF IInv, EmptySetIntact
  <2>7. Contents'
    <3>1. \A j \in Idx : set'[j].refcnt > 0 => WellFormed(set'[j])
      BY <1>3, <2>1 DEF IInv, Contents
    <3> QED BY <3>1 DEF Contents, WellFormed
  <2>8. Others(h)
    <3> SUFFICES ASSUME NEW g \in Handle \ {h}
                 PROVE  Live(g)' = Live(g) /\ (Live(g) => Same(g))
      BY DEF Others
    <3>1. handle'[g] = handle[g] /\ handle[g] # i
      BY <1>1, <1>6, <2>1
    <3>2. Live(g)' = Live(g)
      BY <3>1 DEF Live
    <3>3. ASSUME Live(g) PROVE Same(g)
      <4>1. set'[handle[g]] = set[handle[g]]
        BY <1>3, <2>1, <3>1, <3>3 DEF Live
      <4> QED BY <3>1, <4>1 DEF Same, Value, Hashcode, Of
    <3> QED BY <3>2, <3>3
  <2> QED BY <2>3, <2>4, <2>5, <2>6, <2>7, <2>8 DEF IInv
<1> QED BY <1>5, <1>6

(* The owners of the indices when one handle h changes and was none or     *)
(* becomes none.                                                           *)
LEMMA OwnersGained ==
  ASSUME IInv, NEW h \in Handle, ~Live(h), NEW i \in Idx,
         handle' = [handle EXCEPT ![h] = i]
  PROVE  /\ Owners(i)' = Owners(i) + 1
         /\ \A j \in Idx \ {i} : Owners(j)' = Owners(j)
<1>1. handle \in [Handle -> Idx \cup {NoSet}] /\ handle[h] = NoSet /\ NoSet \notin Idx
  BY IdxFacts DEF IInv, TypeOK, Live
<1>2. h \notin Holders(i) /\ Holders(i)' = Holders(i) \cup {h}
  BY <1>1 DEF Holders
<1>3. \A j \in Idx \ {i} : Holders(j)' = Holders(j)
  BY <1>1 DEF Holders
<1>4. /\ Cardinality(Holders(i) \cup {h}) = Cardinality(Holders(i)) + 1
      /\ Cardinality(Holders(i)) \in Nat
  BY <1>2, HoldersFinite, FS_AddElement
<1>5. \A j : Owners(j)' = Cardinality(Holders(j)') + (IF j = EmptyIdx THEN 1 ELSE 0)
  BY DEF Owners
<1> QED BY <1>2, <1>3, <1>4, <1>5 DEF Owners

LEMMA OwnersLost ==
  ASSUME IInv, NEW h \in Handle, NEW i \in Idx, handle[h] = i,
         handle' = [handle EXCEPT ![h] = NoSet]
  PROVE  /\ Owners(i)' = Owners(i) - 1
         /\ \A j \in Idx \ {i} : Owners(j)' = Owners(j)
<1>1. handle \in [Handle -> Idx \cup {NoSet}] /\ NoSet \notin Idx
  BY IdxFacts DEF IInv, TypeOK
<1>2. h \in Holders(i) /\ Holders(i)' = Holders(i) \ {h}
  BY <1>1 DEF Holders
<1>3. \A j \in Idx \ {i} : Holders(j)' = Holders(j)
  BY <1>1 DEF Holders
<1>4. /\ Cardinality(Holders(i) \ {h}) = Cardinality(Holders(i)) - 1
      /\ Cardinality(Holders(i)) \in Nat
  BY <1>2, HoldersFinite, FS_RemoveElement
<1>5. \A j : Owners(j)' = Cardinality(Holders(j)') + (IF j = EmptyIdx THEN 1 ELSE 0)
  BY DEF Owners
<1> QED BY <1>2, <1>3, <1>4, <1>5 DEF Owners

(* One info node changes its reference count only, or goes away with its   *)
(* last handle, while one handle comes or goes.                            *)
LEMMA HandleChangeOK ==
  ASSUME IInv, NEW h \in Handle, NEW v \in Idx \cup {NoSet}, NEW i \in Idx, NEW s,
         handle' = [handle EXCEPT ![h] = v], next_idx' = next_idx,
         set' = [set EXCEPT ![i] = s],
         v # NoSet => v < next_idx, i < next_idx,
         s \in SetInfo, s.refcnt = Owners(i)',
         \A j \in Idx \ {i} : Owners(j)' = Owners(j),
         s.refcnt > 0 => /\ s.node = set[i].node /\ s.list = set[i].list
                         /\ s.tags = set[i].tags /\ s.size = set[i].size
                         /\ s.reloc = set[i].reloc /\ s.ahash = set[i].ahash
                         /\ s.thash = set[i].thash /\ set[i].refcnt > 0,
         s.refcnt = 0 => i # EmptyIdx /\ \A g \in Handle \ {h} : handle[g] # i
  PROVE  IInv' /\ Others(h)
<1>1. /\ handle \in [Handle -> Idx \cup {NoSet}] /\ next_idx \in 1 .. MaxIdx + 1
      /\ set \in [Idx -> SetInfo] /\ next_idx \in Nat
  BY SetAssumption DEF IInv, TypeOK
<1>2. EmptyIdx \in Idx /\ EmptyIdx = 0 /\ Idx \subseteq Nat /\ NoSet \notin Idx
  BY IdxFacts
<1>3. s.refcnt \in Nat
  BY DEF SetInfo
<1>4. TypeOK'
  BY <1>1 DEF TypeOK
<1>5. RefcntExact'
  <2>1. \A j \in Idx : set[j].refcnt = Owners(j)
    BY DEF IInv, RefcntExact
  <2> QED BY <1>1, <2>1 DEF RefcntExact
<1>6. FreshUnused'
  <2>1. \A j \in Idx : j >= next_idx => set'[j] = NewInfo
    BY <1>1, <1>2 DEF IInv, FreshUnused
  <2>2. \A g \in Handle : Live(g)' => handle'[g] < next_idx
    BY <1>1 DEF IInv, FreshUnused, Live
  <2> QED BY <2>1, <2>2 DEF FreshUnused
<1>7. EmptySetIntact'
  <2>1. CASE i = EmptyIdx
    BY <2>1, <1>1, <1>3 DEF IInv, EmptySetIntact
  <2>2. CASE i # EmptyIdx
    BY <2>2, <1>1, <1>2 DEF IInv, EmptySetIntact
  <2> QED BY <2>1, <2>2
<1>8. Contents'
  <2>1. s.refcnt > 0 => WellFormed(s)
    BY DEF IInv, Contents, WellFormed
  <2>2. \A j \in Idx : set'[j].refcnt > 0 => WellFormed(set'[j])
    BY <1>1, <2>1 DEF IInv, Contents
  <2> QED BY <2>2 DEF Contents, WellFormed
<1>9. Others(h)
  <2> SUFFICES ASSUME NEW g \in Handle \ {h}
               PROVE  Live(g)' = Live(g) /\ (Live(g) => Same(g))
    BY DEF Others
  <2>1. handle'[g] = handle[g]
    BY <1>1
  <2>2. Live(g)' = Live(g)
    BY <2>1 DEF Live
  <2>3. ASSUME Live(g) PROVE Same(g)
    <3>1. handle[g] \in Idx /\ handle[g] = i => s.refcnt > 0
      BY <1>1, <1>3, <2>3 DEF Live
    <3>2. set'[handle[g]] = IF handle[g] = i THEN s ELSE set[handle[g]]
      BY <1>1, <2>3 DEF Live
    <3> QED BY <2>1, <2>3, <3>1, <3>2 DEF Same, Value, Hashcode, Of, Live
  <2> QED BY <2>2, <2>3
<1> QED BY <1>4, <1>5, <1>6, <1>7, <1>8, <1>9 DEF IInv

LEMMA CountedOK ==
  ASSUME IInv, NEW h \in Handle, ~Live(h), NEW i \in Idx,
         i < next_idx, set[i].refcnt > 0,
         handle' = [handle EXCEPT ![h] = i], next_idx' = next_idx,
         set' = [set EXCEPT ![i].refcnt = @ + 1]
  PROVE  IInv' /\ Others(h)
<1> DEFINE s == [set[i] EXCEPT !.refcnt = @ + 1]
<1>1. set \in [Idx -> SetInfo] /\ set[i] \in SetInfo /\ set[i].refcnt \in Nat
  BY DEF IInv, TypeOK, SetInfo
<1>2. /\ s \in SetInfo /\ s.refcnt = set[i].refcnt + 1 /\ s.node = set[i].node
      /\ s.list = set[i].list /\ s.tags = set[i].tags /\ s.size = set[i].size
      /\ s.reloc = set[i].reloc /\ s.ahash = set[i].ahash /\ s.thash = set[i].thash
  <2>1. s = [set[i] EXCEPT !.refcnt = set[i].refcnt + 1] /\ set[i].refcnt + 1 \in Nat
    BY <1>1 DEF SetInfo
  <2> HIDE DEF s
  <2> QED BY <1>1, <2>1 DEF SetInfo
<1>3. set' = [set EXCEPT ![i] = s]
  BY <1>1
<1>4. set[i].refcnt = Owners(i)
  BY DEF IInv, RefcntExact
<1>5. Owners(i)' = Owners(i) + 1 /\ \A j \in Idx \ {i} : Owners(j)' = Owners(j)
  BY OwnersGained
<1> HIDE DEF s
<1>6. s.refcnt = Owners(i)' /\ s.refcnt # 0
  BY <1>1, <1>2, <1>4, <1>5
<1>7. i # NoSet
  BY IdxFacts
<1> QED BY <1>2, <1>3, <1>5, <1>6, <1>7, HandleChangeOK

LEMMA EmptySetOK ==
  ASSUME IInv, NEW h \in Handle, cesk_set_empty_set(h)
  PROVE  IInv' /\ Others(h)
<1>1. EmptyIdx \in Idx /\ EmptyIdx = 0
  BY IdxFacts
<1>2. EmptyIdx < next_idx
  BY <1>1 DEF IInv, TypeOK
<1>3. set[EmptyIdx].refcnt > 0
  BY <1>1, HoldersFinite DEF IInv, RefcntExact, Owners
<1> QED BY <1>1, <1>2, <1>3, CountedOK DEF cesk_set_empty_set

LEMMA ForkOK ==
  ASSUME IInv, NEW h \in Handle, NEW sour \in Handle, cesk_set_fork(h, sour)
  PROVE  IInv' /\ Others(h)
<1>0. PICK i : i = handle[sour]
  OBVIOUS
<1>1. i \in Idx /\ i < next_idx /\ set[i].refcnt > 0
  BY <1>0, LiveHandle DEF cesk_set_fork
<1> QED BY <1>0, <1>1, CountedOK DEF cesk_set_fork

LEMMA FreeOK ==
  ASSUME IInv, NEW h \in Handle, cesk_set_free(h)
  PROVE  IInv' /\ Others(h)
<1>0. PICK i : i = handle[h]
  OBVIOUS
<1> DEFINE s == Freed(set[i])
<1>1. /\ i \in Idx /\ i < next_idx /\ set[i].refcnt \in Nat /\ set[i].refcnt > 0
      /\ i = EmptyIdx => set[i].refcnt > 1
      /\ \A g \in Handle \ {h} : ~(set[i].refcnt > 1) => handle[g] # i
  BY <1>0, LiveHandle DEF cesk_set_free, Shared
<1>2. set \in [Idx -> SetInfo] /\ set[i] \in SetInfo
  BY <1>1 DEF IInv, TypeOK
<1>3. /\ s \in SetInfo /\ s.refcnt = set[i].refcnt - 1
      /\ s.refcnt > 0 => /\ s.node = set[i].node /\ s.list = set[i].list
                         /\ s.tags = set[i].tags /\ s.size = set[i].size
                         /\ s.reloc = set[i].reloc /\ s.ahash = set[i].ahash
                         /\ s.thash = set[i].thash
  <2>1. CASE set[i].refcnt = 1
    <3> DEFINE left == set[i].node \ Elems(set[i].list)
    <3>1. left \in SUBSET Addr
      BY <1>2 DEF SetInfo
    <3>2. s = [NewInfo EXCEPT !.node = left]
      BY <2>1 DEF Freed
    <3> HIDE DEF left, s
    <3>3. <<>> \in Seq(Addr)
      OBVIOUS
    <3>4. s \in SetInfo /\ s.refcnt = 0
      BY <3>1, <3>2, <3>3 DEF NewInfo, SetInfo
    <3> QED BY <2>1, <3>4
  <2>2. CASE set[i].refcnt # 1
    <3>1. s = [set[i] EXCEPT !.refcnt = set[i].refcnt - 1] /\ set[i].refcnt - 1 \in Nat
      BY <1>1, <1>2, <2>2 DEF Freed, SetInfo
    <3> HIDE DEF s
    <3> QED BY <1>2, <3>1 DEF SetInfo
  <2> QED BY <2>1, <2>2
<1>4. handle' = [handle EXCEPT ![h] = NoSet] /\ next_idx' = next_idx /\ set' = [set EXCEPT ![i] = s]
  BY <1>0 DEF cesk_set_free
<1>5. set[i].refcnt = Owners(i)
  BY <1>1 DEF IInv, RefcntExact
<1>6. Owners(i)' = Owners(i) - 1 /\ \A j \in Idx \ {i} : Owners(j)' = Owners(j)
  BY <1>0, <1>1, <1>4, OwnersLost
<1> HIDE DEF s
<1>7. s.refcnt = Owners(i)' /\ (s.refcnt = 0 => ~(set[i].refcnt > 1))
  BY <1>1, <1>3, <1>5, <1>6
<1>8. s.refcnt = 0 => i # EmptyIdx /\ \A g \in Handle \ {h} : handle[g] # i
  BY <1>1, <1>7
<1>9. NoSet \in Idx \cup {NoSet}
  OBVIOUS
<1> QED BY <1>1, <1>3, <1>4, <1>6, <1>7, <1>8, <1>9, HandleChangeOK

LEMMA PushOK ==
  ASSUME IInv, NEW h \in Handle, NEW a \in Addr, cesk_set_push(h, a)
  PROVE  IInv' /\ Others(h)
<1> DEFINE s == Prepared(h)
<1>1. Live(h) /\ WellFormed(s)
  BY PreparedOK DEF cesk_set_push
<1>2. CASE a \in s.node
  BY <1>1, <1>2, WriteOK DEF cesk_set_push
<1>3. CASE a \notin s.node
  <2>1. <<a>> \in Seq(Addr) /\ Elems(<<a>>) = {a} /\ Distinct(<<a>>)
    BY DEF Elems, Distinct
  <2> HIDE DEF s
  <2>2. WellFormed(Pushed(s, <<a>>)) /\ Pushed(s, <<a>>).refcnt = s.refcnt
    BY <1>1, <1>3, <2>1, PushedOK
  <2>3. Write(h, Pushed(s, <<a>>))
    BY <1>3 DEF cesk_set_push, s
  <2> QED BY <1>1, <2>2, <2>3, WriteOK DEF s
<1> QED BY <1>2, <1>3

LEMMA MergeOK ==
  ASSUME IInv, NEW h \in Handle, NEW sour \in Handle, cesk_set_merge(h, sour)
  PROVE  IInv' /\ Others(h)
<1> DEFINE src == set[handle[sour]]
           s == Prepared(h)
<1>1. Live(h) /\ Live(sour) /\ WellFormed(s) /\ WellFormed(src)
  BY PreparedOK, LiveHandle DEF cesk_set_merge
<1>2. PICK new \in Missing(s, src.list) :
        Write(h, MergeTagsInto(Pushed(s, new), src.tags))
  BY DEF cesk_set_merge
<1> HIDE DEF s, src
<1>3. src.list \in Seq(Addr) /\ Distinct(src.list) /\ src.tags \in SUBSET Tag
  BY <1>1 DEF WellFormed, SetInfo
<1>4. new \in Seq(Addr) /\ Distinct(new) /\ Elems(new) \cap s.node = {}
  BY <1>2, <1>3, MissingElems
<1>5. WellFormed(Pushed(s, new)) /\ Pushed(s, new).refcnt = s.refcnt
  BY <1>1, <1>4, PushedOK
<1> DEFINE d == MergeTagsInto(Pushed(s, new), src.tags)
<1>6. WellFormed(d) /\ d.refcnt = s.refcnt
  BY <1>3, <1>5, MergeTagsOK
<1> QED BY <1>1, <1>2, <1>6, WriteOK DEF s

LEMMA MergeTagsActionOK ==
  ASSUME IInv, NEW h \in Handle, NEW sour \in Handle, cesk_set_merge_tags(h, sour)
  PROVE  IInv' /\ Others(h)
<1> DEFINE tags == set[handle[sour]].tags
<1>1. Live(h) /\ WellFormed(Prepared(h)) /\ tags \in SUBSET Tag
  BY PreparedOK, LiveHandle DEF cesk_set_merge_tags, WellFormed, SetInfo
<1>2. Write(h, MergeTagsInto(Prepared(h), tags))
  BY DEF cesk_set_merge_tags
<1> HIDE DEF tags
<1> QED BY <1>1, <1>2, MergeTagsOK, WriteOK

LEMMA AssignTagsActionOK ==
  ASSUME IInv, NEW h \in Handle, NEW tags \in SUBSET Tag, cesk_set_assign_tags(h, tags)
  PROVE  IInv' /\ Others(h)
<1>1. Live(h) /\ WellFormed(Prepared(h))
  BY PreparedOK DEF cesk_set_assign_tags
<1> QED BY <1>1, AssignTagsOK, WriteOK DEF cesk_set_assign_tags

LEMMA ModifyOK ==
  ASSUME IInv, NEW h \in Handle, NEW from \in Addr, NEW to \in Addr,
         cesk_set_modify(h, from, to)
  PROVE  IInv' /\ Others(h)
<1> DEFINE s == Prepared(h)
<1>1. Live(h) /\ WellFormed(s) /\ from # to
  BY PreparedOK DEF cesk_set_modify
<1>2. \/ Write(h, s)
      \/ from \in s.node /\ to \notin s.node /\ Write(h, Rename(s, from, to))
      \/ /\ from \in s.node /\ to \in s.node
         /\ \E l \in ListsWithout(s, from) : Write(h, Delete(s, from, to, l))
  BY DEF cesk_set_modify
<1>3. CASE Write(h, s)
  BY <1>1, <1>3, WriteOK
<1> HIDE DEF s
<1>4. CASE from \in s.node /\ to \notin s.node /\ Write(h, Rename(s, from, to))
  BY <1>1, <1>4, RenameOK, WriteOK DEF s
<1>5. CASE /\ from \in s.node /\ to \in s.node
           /\ \E l \in ListsWithout(s, from) : Write(h, Delete(s, from, to, l))
  <2>1. PICK l \in ListsWithout(s, from) : Write(h, Delete(s, from, to, l))
    BY <1>5
  <2>2. WellFormed(Delete(s, from, to, l)) /\ Delete(s, from, to, l).refcnt = s.refcnt
    BY <1>1, <1>5, DeleteOK
  <2> QED BY <1>1, <2>1, <2>2, WriteOK DEF s
<1> QED BY <1>2, <1>3, <1>4, <1>5

-----------------------------------------------------------------------------
LEMMA InitOK == Init => IInv
<1> SUFFICES ASSUME Init PROVE IInv
  OBVIOUS
<1>1. /\ EmptyIdx \in Idx /\ EmptyIdx = 0 /\ Idx \subseteq Nat /\ NoSet \notin Idx
      /\ MaxIdx \in Nat
  BY IdxFacts, SetAssumption
<1> DEFINE one == [NewInfo EXCEPT !.refcnt = 1]
<1>2. NewInfo \in SetInfo /\ one \in SetInfo
  <2>1. <<>> \in Seq(Addr)
    OBVIOUS
  <2> QED BY <2>1 DEF NewInfo, SetInfo
<1>3. /\ NewInfo.refcnt = 0 /\ one.refcnt = 1 /\ one.node = {} /\ one.list = <<>>
      /\ one.tags = {} /\ one.size = 0 /\ one.reloc = 0
  BY DEF NewInfo
<1> HIDE DEF one
<1>4. \A i \in Idx : set[i] = IF i = EmptyIdx THEN one ELSE NewInfo
  BY DEF Init, one
<1>5. TypeOK
  BY <1>1, <1>2 DEF Init, TypeOK, one
<1>6. \A h \in Handle : ~Live(h) /\ handle[h] = NoSet
  BY DEF Init, Live
<1>7. \A i \in Idx : Owners(i) = IF i = EmptyIdx THEN 1 ELSE 0
  <2> SUFFICES ASSUME NEW i \in Idx PROVE Owners(i) = IF i = EmptyIdx THEN 1 ELSE 0
    OBVIOUS
  <2>1. Holders(i) = {}
    BY <1>1, <1>6 DEF Holders
  <2>2. Cardinality({}) = 0
    BY FS_EmptySet
  <2> QED BY <2>1, <2>2 DEF Owners
<1>8. RefcntExact
  BY <1>3, <1>4, <1>7 DEF RefcntExact
<1>9. FreshUnused
  BY <1>1, <1>4, <1>6 DEF FreshUnused, Init
<1>10. EmptySetIntact
  BY <1>1, <1>3, <1>4 DEF EmptySetIntact
<1>11. WellFormed(one)
  <2>1. Elems(one.list) = {} /\ Distinct(one.list)
    BY <1>3 DEF Elems, Distinct
  <2>2. RelocCount({}) = 0
    <3>1. {} \cap RelocAddr = {}
      OBVIOUS
    <3> QED BY <3>1, FS_EmptySet DEF RelocCount
  <2> QED BY <1>2, <1>3, <2>1, <2>2 DEF WellFormed
<1>12. Contents
  BY <1>3, <1>4, <1>11 DEF Contents
<1> QED BY <1>5, <1>8, <1>9, <1>10, <1>12 DEF IInv

LEMMA NextOK == IInv /\ [Next]_vars => IInv' /\ (OneWritten \/ UNCHANGED vars)
<1> SUFFICES ASSUME IInv, [Next]_vars PROVE IInv' /\ (OneWritten \/ UNCHANGED vars)
  OBVIOUS
<1>0. \A h \in Handle : Others(h) => OneWritten
  BY DEF Others, OneWritten
<1>1. ASSUME NEW h \in Handle, cesk_set_empty_set(h) PROVE IInv' /\ OneWritten
  BY <1>0, <1>1, EmptySetOK
<1>2. ASSUME NEW h \in Handle, cesk_set_free(h) PROVE IInv' /\ OneWritten
  BY <1>0, <1>2, FreeOK
<1>3. ASSUME NEW h \in Handle, NEW a \in Addr, cesk_set_push(h, a) PROVE IInv' /\ OneWritten
  BY <1>0, <1>3, PushOK
<1>4. ASSUME NEW h \in Handle, NEW from \in Addr, NEW to \in Addr, cesk_set_modify(h, from, to)
      PROVE  IInv' /\ OneWritten
  BY <1>0, <1>4, ModifyOK
<1>5. ASSUME NEW h \in Handle, NEW tags \in SUBSET Tag, cesk_set_assign_tags(h, tags)
      PROVE  IInv' /\ OneWritten
  BY <1>0, <1>5, AssignTagsActionOK
<1>6. ASSUME NEW h \in Handle, NEW sour \in Handle, cesk_set_fork(h, sour)
      PROVE  IInv' /\ OneWritten
  BY <1>0, <1>6, ForkOK
<1>7. ASSUME NEW h \in Handle, NEW sour \in Handle, cesk_set_merge(h, sour)
      PROVE  IInv' /\ OneWritten
  BY <1>0, <1>7, MergeOK
<1>8. ASSUME NEW h \in Handle, NEW sour \in Handle, cesk_set_merge_tags(h, sour)
      PROVE  IInv' /\ OneWritten
  BY <1>0, <1>8, MergeTagsActionOK
<1>9. CASE UNCHANGED vars
  <2>1. handle' = handle /\ next_idx' = next_idx /\ set' = set
    BY <1>9 DEF vars
  <2> QED BY <1>9, <2>1 DEF IInv, TypeOK, RefcntExact, Owners, Holders, FreshUnused, Live,
                            EmptySetIntact, Contents, WellFormed
<1> QED BY <1>1, <1>2, <1>3, <1>4, <1>5, <1>6, <1>7, <1>8, <1>9 DEF Next

THEOREM Inductive == Spec => []IInv
BY InitOK, NextOK, PTL DEF Spec

(* The table and the handles keep their types under every sequence of set  *)
(* operations; no unsigned counter of cesk_set_info_entry_t wraps below 0. *)
THEOREM TypeCorrect == Spec => []TypeOK
<1>1. IInv => TypeOK
  BY DEF IInv
<1> QED BY <1>1, Inductive, PTL

(* The reference count of every index is the number of its handles, for    *)
(* any number of handles: cesk_set_free never takes nodes from a live      *)
(* handle and never leaks them.                                            *)
THEOREM ReferenceCounts == Spec => []RefcntExact
<1>1. IInv => RefcntExact
  BY DEF IInv
<1> QED BY <1>1, Inductive, PTL

(* The singleton behind cesk_set_empty_set is never written. *)
THEOREM EmptySetStaysEmpty == Spec => []EmptySetIntact
<1>1. IInv => EmptySetIntact
  BY DEF IInv
<1> QED BY <1>1, Inductive, PTL

(* The relocation count of a set never misses a relocated address, not     *)
(* even after colliding calls of cesk_set_modify.                          *)
THEOREM NoRelocationMissed == Spec => []RelocNeverMissed
<1>1. IInv => RelocNeverMissed
  BY DEF IInv, Contents, WellFormed, RelocCount, RelocNeverMissed
<1> QED BY <1>1, Inductive, PTL

(* Copy-on-write isolation: an operation on one handle is not seen through *)
(* any other, whatever the handles share.                                  *)
THEOREM CopyOnWrite == Spec => Isolation
<1>1. IInv /\ [Next]_vars => [OneWritten]_vars
  BY NextOK
<1> QED BY <1>1, Inductive, PTL DEF Spec, Isolation

-----------------------------------------------------------------------------
(* When no cesk_set_modify collides, every view of an info node describes  *)
(* the same set.  ViewsAgree is inductive together with IInv; each lemma   *)
(* also says what the operation does to the value of the set, which the    *)
(* refinement of SetValues uses.                                           *)
Agree(s) ==
  /\ Elems(s.list) = s.node
  /\ s.size = Cardinality(s.node) /\ s.size = Len(s.list)
  /\ s.reloc = RelocCount(s.node)
  /\ s.ahash = s.node
Sound(s) == WellFormed(s) /\ Agree(s)

LEMMA DistinctCardinality ==
  ASSUME NEW l \in Seq(Addr), Distinct(l)
  PROVE  Cardinality(Elems(l)) = Len(l)
<1>1. Len(l) \in Nat /\ \A k \in 1 .. Len(l) : l[k] \in Elems(l)
  BY LenProperties DEF Elems
<1> DEFINE f == [k \in 1 .. Len(l) |-> l[k]]
<1>2. f \in Bijection(1 .. Len(l), Elems(l))
  <2>1. f \in Injection(1 .. Len(l), Elems(l))
    BY <1>1 DEF Injection, IsInjective, Distinct
  <2>2. f \in Surjection(1 .. Len(l), Elems(l))
    BY <1>1 DEF Surjection, Elems
  <2> QED BY <2>1, <2>2 DEF Bijection
<1>3. IsFiniteSet(1 .. Len(l)) /\ Cardinality(1 .. Len(l)) = Len(l)
  <2>1. 1 \in Int /\ Len(l) \in Int /\ (1 > Len(l) => Len(l) = 0) /\ Len(l) - 1 + 1 = Len(l)
    BY <1>1
  <2> QED BY <2>1, FS_Interval
<1> HIDE DEF f
<1>4. ExistsBijection(1 .. Len(l), Elems(l))
  BY <1>2 DEF ExistsBijection
<1> QED BY <1>3, <1>4, FS_Bijection

LEMMA RelocCountDisjoint ==
  ASSUME NEW A \in SUBSET Addr, NEW B \in SUBSET Addr, A \cap B = {}
  PROVE  /\ RelocCount(A \cup B) = RelocCount(A) + RelocCount(B)
         /\ Cardinality(A \cup B) = Cardinality(A) + Cardinality(B)
<1> DEFINE S == A \cap RelocAddr
           T == B \cap RelocAddr
<1>1. IsFiniteSet(S) /\ IsFiniteSet(T) /\ IsFiniteSet(A) /\ IsFiniteSet(B)
  BY RelocCountType
<1>2. (A \cup B) \cap RelocAddr = S \cup T /\ S \cap T = {}
  OBVIOUS
<1>3. Cardinality({}) = 0
  BY FS_EmptySet
<1>4. /\ Cardinality(S \cup T) = Cardinality(S) + Cardinality(T)
      /\ Cardinality(S) \in Nat /\ Cardinality(T) \in Nat
  <2> HIDE DEF S, T
  <2>1. Cardinality(S) \in Nat /\ Cardinality(T) \in Nat
    BY <1>1, FS_CardinalityType
  <2>2. Cardinality(S \cup T) = Cardinality(S) + Cardinality(T) - Cardinality(S \cap T)
    BY <1>1, FS_Union
  <2>3. Cardinality(S \cap T) = 0
    BY <1>2, <1>3, Zenon
  <2> QED BY <2>1, <2>2, <2>3
<1>5. Cardinality(A \cup B) = Cardinality(A) + Cardinality(B)
  <2>1. Cardinality(A) \in Nat /\ Cardinality(B) \in Nat
    BY <1>1, FS_CardinalityType
  <2>2. Cardinality(A \cup B) = Cardinality(A) + Cardinality(B) - Cardinality(A \cap B)
    BY <1>1, FS_Union
  <2>3. Cardinality(A \cap B) = 0
    BY <1>3, Zenon
  <2> QED BY <2>1, <2>2, <2>3
<1> QED BY <1>2, <1>4, <1>5 DEF RelocCount

LEMMA DuplicateAgrees ==
  ASSUME NEW s, Sound(s)
  PROVE  Sound(Duplicate(s)) /\ Duplicate(s).node = s.node /\ Duplicate(s).tags = s.tags
<1> DEFINE d == Duplicate(s)
<1>1. s \in SetInfo /\ s.list \in Seq(Addr)
  BY DEF Sound, WellFormed, SetInfo
<1>2. WellFormed(d)
  BY DuplicateOK DEF Sound
<1>3. Elems(Backwards(s.list)) = Elems(s.list) /\ Len(Backwards(s.list)) = Len(s.list)
  BY <1>1, BackwardsElems
<1>4. /\ d.node = Elems(s.list) /\ d.list = Backwards(s.list) /\ d.size = s.size
      /\ d.reloc = s.reloc /\ d.ahash = s.ahash /\ d.tags = s.tags
  BY <1>1 DEF Duplicate, SetInfo
<1> HIDE DEF d
<1> QED BY <1>2, <1>3, <1>4 DEF Sound, Agree, d

LEMMA PushedAgrees ==
  ASSUME NEW s, Sound(s), NEW new \in Seq(Addr),
         Distinct(new), Elems(new) \cap s.node = {}
  PROVE  /\ Sound(Pushed(s, new)) /\ Pushed(s, new).tags = s.tags
         /\ Pushed(s, new).node = s.node \cup Elems(new)
<1> DEFINE d == Pushed(s, new)
           E == Elems(new)
           l == Backwards(new) \o s.list
<1>1. /\ s \in SetInfo /\ s.list \in Seq(Addr) /\ s.node \in SUBSET Addr
      /\ s.size \in Nat
  BY DEF Sound, WellFormed, SetInfo
<1>2. WellFormed(d)
  BY PushedOK DEF Sound
<1>3. /\ Elems(l) = E \cup Elems(s.list) /\ Len(l) = Len(new) + Len(s.list)
      /\ E \in SUBSET Addr /\ Len(new) \in Nat
  <2>1. /\ Backwards(new) \in Seq(Addr) /\ Elems(Backwards(new)) = E
        /\ Len(Backwards(new)) = Len(new) /\ Len(new) \in Nat /\ E \in SUBSET Addr
    BY BackwardsElems, ElemsTyped, LenProperties
  <2> QED BY <1>1, <2>1, ConcatElems
<1>4. Cardinality(E) = Len(new)
  BY DistinctCardinality
<1>5. /\ RelocCount(s.node \cup E) = RelocCount(s.node) + RelocCount(E)
      /\ Cardinality(s.node \cup E) = Cardinality(s.node) + Cardinality(E)
  BY <1>1, <1>3, RelocCountDisjoint
<1>6. /\ d.node = s.node \cup E /\ d.list = l /\ d.ahash = Xor(s.ahash, E)
      /\ d.size = s.size + Len(new) /\ d.reloc = s.reloc + RelocCount(E)
      /\ d.tags = s.tags
  BY <1>1 DEF Pushed, SetInfo, RelocCount
<1>7. Xor(s.ahash, E) = s.node \cup E
  BY DEF Sound, Agree, Xor
<1> HIDE DEF d, E, l
<1>8. d.size = Cardinality(d.node) /\ d.size = Len(d.list)
  BY <1>1, <1>3, <1>4, <1>5, <1>6 DEF Sound, Agree
<1>9. Elems(d.list) = d.node
  BY <1>3, <1>6 DEF Sound, Agree
<1> QED BY <1>2, <1>5, <1>6, <1>7, <1>8, <1>9 DEF Sound, Agree, d, E

LEMMA MergeTagsAgrees ==
  ASSUME NEW s, Sound(s), NEW tags \in SUBSET Tag
  PROVE  /\ Sound(MergeTagsInto(s, tags)) /\ MergeTagsInto(s, tags).node = s.node
         /\ MergeTagsInto(s, tags).tags = s.tags \cup tags
<1> DEFINE d == MergeTagsInto(s, tags)
<1>1. s \in SetInfo
  BY DEF Sound, WellFormed
<1>2. WellFormed(d)
  BY MergeTagsOK DEF Sound
<1>3. /\ d.list = s.list /\ d.node = s.node /\ d.reloc = s.reloc /\ d.size = s.size
      /\ d.ahash = s.ahash /\ d.tags = s.tags \cup tags
  BY <1>1 DEF MergeTagsInto, SetInfo
<1> HIDE DEF d
<1> QED BY <1>2, <1>3 DEF Sound, Agree, d

LEMMA AssignTagsAgrees ==
  ASSUME NEW s, Sound(s), NEW tags \in SUBSET Tag
  PROVE  /\ Sound([s EXCEPT !.tags = tags])
         /\ [s EXCEPT !.tags = tags].node = s.node /\ [s EXCEPT !.tags = tags].tags = tags
<1> DEFINE d == [s EXCEPT !.tags = tags]
<1>1. s \in SetInfo
  BY DEF Sound, WellFormed
<1>2. WellFormed(d)
  BY AssignTagsOK DEF Sound
<1>3. /\ d.list = s.list /\ d.node = s.node /\ d.reloc = s.reloc /\ d.size = s.size
      /\ d.ahash = s.ahash /\ d.tags = tags
  BY <1>1 DEF SetInfo
<1> HIDE DEF d
<1> QED BY <1>2, <1>3 DEF Sound, Agree, d

LEMMA RenameAgrees ==
  ASSUME NEW s, Sound(s), NEW from \in s.node, NEW to \in Addr \ s.node
  PROVE  /\ Sound(Rename(s, from, to)) /\ Rename(s, from, to).tags = s.tags
         /\ Rename(s, from, to).node = (s.node \ {from}) \cup {to}
<1> DEFINE d == Rename(s, from, to)
           B == s.node \ {from}
<1>1. /\ s \in SetInfo /\ s.list \in Seq(Addr) /\ s.node \in SUBSET Addr
      /\ WellFormed(s) /\ Agree(s) /\ Len(s.list) \in Nat
  BY LenProperties DEF Sound, WellFormed, SetInfo
<1>2. /\ WellFormed(d) /\ d.node = B \cup {to} /\ d.tags = s.tags
      /\ Elems(d.list) = d.node
  BY <1>1, RenameOK DEF Agree
<1>3. d.size = s.size /\ d.reloc = RelocAfter(s, from, to)
      /\ d.ahash = Xor(Xor(s.ahash, {from}), {to})
  BY <1>1 DEF Rename, SetInfo
<1>4. d.ahash = B \cup {to}
  BY <1>1, <1>3 DEF Agree, Xor
<1>5. B \in SUBSET Addr /\ to \in Addr \ B
  BY <1>1
<1>6. RelocCount(B) = IF from \in RelocAddr THEN RelocCount(s.node) - 1 ELSE RelocCount(s.node)
  BY <1>1, RelocCountRemove
<1>7. RelocCount(B \cup {to}) = IF to \in RelocAddr THEN RelocCount(B) + 1 ELSE RelocCount(B)
  BY <1>5, RelocCountAdd
<1>8. RelocCount(s.node) \in Nat /\ s.reloc = RelocCount(s.node)
  BY <1>1, RelocCountType DEF Agree
<1> HIDE DEF d, B
<1>9. d.reloc = RelocCount(d.node)
  BY <1>2, <1>3, <1>6, <1>7, <1>8 DEF RelocAfter
<1>10. Cardinality(d.node) = Len(d.list)
  BY <1>2, DistinctCardinality DEF WellFormed, SetInfo
<1>11. Cardinality(d.node) = Cardinality(s.node)
  <2>1. IsFiniteSet(s.node)
    BY <1>1, RelocCountType
  <2>2. Cardinality(B) = Cardinality(s.node) - 1 /\ IsFiniteSet(B) /\ Cardinality(s.node) \in Nat
    BY <2>1, FS_RemoveElement, FS_CardinalityType DEF B
  <2>3. Cardinality(B \cup {to}) = Cardinality(B) + 1
    BY <1>5, <2>2, FS_AddElement
  <2> QED BY <1>2, <2>2, <2>3
<1> QED BY <1>1, <1>2, <1>3, <1>4, <1>9, <1>10, <1>11 DEF Sound, Agree, d, B

(* The value behind every handle, as SetValues sees it. *)
Val == [h \in Handle |-> IF Live(h) THEN Value(h) ELSE NoSet]

LEMMA ValFacts ==
  ASSUME IInv, NEW h \in Handle
  PROVE  /\ Val[h] # NoSet <=> Live(h)
         /\ Live(h) => Val[h] = Value(h)
<1>1. Live(h) => Value(h) \in [members : SUBSET Addr, tags : SUBSET Tag]
  BY LiveHandle DEF WellFormed, SetInfo, Value, Of
<1>2. NoSet \notin [members : SUBSET Addr, tags : SUBSET Tag]
  BY SetAssumption
<1> HIDE DEF Value
<1> QED BY <1>1, <1>2 DEF Val

(* A step that is seen through h only is an assignment to val[h]. *)
LEMMA ValBecomes ==
  ASSUME NEW h \in Handle, Others(h), NEW v,
         v = (IF Live(h)' THEN Value(h)' ELSE NoSet)
  PROVE  Val' = [Val EXCEPT ![h] = v]
<1> DEFINE W == [g \in Handle |-> IF Live(g)' THEN Value(g)' ELSE NoSet]
<1>1. Val' = W
  BY DEF Val
<1>2. ASSUME NEW g \in Handle PROVE W[g] = [Val EXCEPT ![h] = v][g]
  <2>1. CASE g = h
    BY <2>1 DEF Val
  <2>2. CASE g # h
    <3>1. Live(g)' = Live(g) /\ (Live(g) => Value(g)' = Value(g))
      BY <2>2 DEF Others, Same
    <3> QED BY <2>2, <3>1 DEF Val
  <2> QED BY <2>1, <2>2
<1> QED BY <1>1, <1>2 DEF Val

LEMMA LiveSound ==
  ASSUME IInv, ViewsAgree, NEW h \in Handle, Live(h)
  PROVE  /\ Sound(set[handle[h]]) /\ Sound(Prepared(h))
         /\ Prepared(h).node = set[handle[h]].node /\ Prepared(h).tags = set[handle[h]].tags
<1>1. handle[h] \in Idx /\ WellFormed(set[handle[h]])
  BY LiveHandle
<1>2. Agree(set[handle[h]])
  BY <1>1 DEF ViewsAgree, Agree, RelocCount
<1>3. Sound(set[handle[h]])
  BY <1>1, <1>2 DEF Sound
<1> QED BY <1>3, DuplicateAgrees DEF Prepared

LEMMA WriteAgrees ==
  ASSUME IInv, ViewsAgree, NEW h \in Handle, Live(h), NEW s, Sound(s),
         s.refcnt = Prepared(h).refcnt, Write(h, s)
  PROVE  ViewsAgree' /\ Val' = [Val EXCEPT ![h] = [members |-> s.node, tags |-> s.tags]]
<1>0. PICK i, j, n : i = handle[h] /\ j = WriteIdx(h) /\ n = next_idx
  OBVIOUS
<1>1. /\ i \in Idx /\ i < n
      /\ handle \in [Handle -> Idx \cup {NoSet}] /\ set \in [Idx -> SetInfo]
      /\ Idx \subseteq Nat /\ n \in Nat /\ NoSet \notin Idx
  BY <1>0, LiveHandle, IdxFacts, SetAssumption DEF IInv, TypeOK
<1>2. /\ j \in Idx /\ handle' = [handle EXCEPT ![h] = j] /\ set'[j] = s
      /\ \A k \in Idx \ {j} : set'[k] = set[k] \/ set'[k] = [set[k] EXCEPT !.refcnt = @ - 1]
  <2>1. CASE Shared(h)
    BY <1>0, <1>1, <2>1 DEF Write, WriteIdx
  <2>2. CASE ~Shared(h)
    BY <1>0, <1>1, <2>2 DEF Write, WriteIdx
  <2> QED BY <2>1, <2>2
<1>3. ASSUME NEW k \in Idx PROVE Agree(set'[k])
  <2>1. Agree(set[k]) /\ set[k] \in SetInfo
    BY <1>1 DEF ViewsAgree, Agree, RelocCount
  <2>2. Agree([set[k] EXCEPT !.refcnt = @ - 1])
    BY <2>1 DEF Agree, SetInfo
  <2> QED BY <1>2, <2>1, <2>2 DEF Sound
<1>4. ViewsAgree'
  <2>1. \A k \in Idx : Agree(set'[k])
    BY <1>3
  <2> QED BY <2>1 DEF ViewsAgree, Agree, RelocCount
<1>5. Live(h)' /\ Value(h)' = [members |-> s.node, tags |-> s.tags]
  <2>1. handle'[h] = j /\ j # NoSet
    BY <1>1, <1>2
  <2> QED BY <1>2, <2>1 DEF Live, Value, Of
<1>6. Others(h)
  BY WriteOK DEF Sound
<1> QED BY <1>4, <1>5, <1>6, ValBecomes

(* One step of the table, as a step of SetValues. *)
Refined == ViewsAgree' /\ (Values!Next \/ Val' = Val)

(* Two steps that only count handles. *)
LEMMA CountedRefines ==
  ASSUME IInv, ViewsAgree, NEW h \in Handle, ~Live(h), NEW i \in Idx,
         i < next_idx, set[i].refcnt > 0,
         handle' = [handle EXCEPT ![h] = i], next_idx' = next_idx,
         set' = [set EXCEPT ![i].refcnt = @ + 1]
  PROVE  /\ ViewsAgree'
         /\ Val' = [Val EXCEPT ![h] = [members |-> set[i].node, tags |-> set[i].tags]]
<1>1. /\ handle \in [Handle -> Idx \cup {NoSet}] /\ set \in [Idx -> SetInfo]
      /\ NoSet \notin Idx
  BY IdxFacts DEF IInv, TypeOK
<1>2. \A k \in Idx : set'[k] = set[k] \/ set'[k] = [set[k] EXCEPT !.refcnt = @ + 1]
  BY <1>1
<1>3. ASSUME NEW k \in Idx PROVE Agree(set'[k])
  <2>1. Agree(set[k]) /\ set[k] \in SetInfo
    BY <1>1 DEF ViewsAgree, Agree, RelocCount
  <2>2. Agree([set[k] EXCEPT !.refcnt = @ + 1])
    BY <2>1 DEF Agree, SetInfo
  <2> QED BY <1>2, <2>1, <2>2
<1>4. ViewsAgree'
  BY <1>3 DEF ViewsAgree, Agree, RelocCount
<1>5. Live(h)' /\ Value(h)' = [members |-> set[i].node, tags |-> set[i].tags]
  <2>1. handle'[h] = i /\ i # NoSet
    BY <1>1
  <2>2. set'[i].node = set[i].node /\ set'[i].tags = set[i].tags
    BY <1>1 DEF SetInfo
  <2> QED BY <2>1, <2>2 DEF Live, Value, Of
<1>6. Others(h)
  BY CountedOK
<1> QED BY <1>4, <1>5, <1>6, ValBecomes

LEMMA EmptySetRefines ==
  ASSUME IInv, ViewsAgree, NEW h \in Handle, cesk_set_empty_set(h)
  PROVE  Refined
<1>1. EmptyIdx \in Idx /\ EmptyIdx = 0 /\ EmptyIdx < next_idx
  BY IdxFacts DEF IInv, TypeOK
<1>2. set[EmptyIdx].refcnt > 0
  BY <1>1, HoldersFinite DEF IInv, RefcntExact, Owners
<1>3. /\ ViewsAgree'
      /\ Val' = [Val EXCEPT ![h] = [members |-> set[EmptyIdx].node, tags |-> set[EmptyIdx].tags]]
  BY <1>1, <1>2, CountedRefines DEF cesk_set_empty_set
<1>4. ~(Val[h] # NoSet) /\ set[EmptyIdx].node = {} /\ set[EmptyIdx].tags = {}
  BY ValFacts DEF cesk_set_empty_set, IInv, EmptySetIntact
<1>5. Values!Empty(h)
  BY <1>3, <1>4 DEF Val, Values!Empty, Values!Live, Values!Becomes
<1> QED BY <1>3, <1>5 DEF Refined, Values!Next

LEMMA ForkRefines ==
  ASSUME IInv, ViewsAgree, NEW h \in Handle, NEW sour \in Handle, cesk_set_fork(h, sour)
  PROVE  Refined
<1>0. PICK i : i = handle[sour]
  OBVIOUS
<1>1. i \in Idx /\ i < next_idx /\ set[i].refcnt > 0
  BY <1>0, LiveHandle DEF cesk_set_fork
<1>2. /\ ViewsAgree'
      /\ Val' = [Val EXCEPT ![h] = [members |-> set[i].node, tags |-> set[i].tags]]
  BY <1>0, <1>1, CountedRefines DEF cesk_set_fork
<1>3. ~(Val[h] # NoSet) /\ Val[sour] # NoSet /\ Val[sour] = [members |-> set[i].node, tags |-> set[i].tags]
  BY <1>0, ValFacts DEF cesk_set_fork, Value, Of
<1>4. Values!Fork(h, sour)
  BY <1>2, <1>3 DEF Val, Values!Fork, Values!Live, Values!Becomes
<1> QED BY <1>2, <1>4 DEF Refined, Values!Next

LEMMA FreeRefines ==
  ASSUME IInv, ViewsAgree, NEW h \in Handle, cesk_set_free(h)
  PROVE  Refined
<1>0. PICK i : i = handle[h]
  OBVIOUS
<1>1. /\ i \in Idx /\ set \in [Idx -> SetInfo] /\ handle \in [Handle -> Idx \cup {NoSet}]
      /\ Live(h) /\ set' = [set EXCEPT ![i] = Freed(set[i])]
      /\ handle' = [handle EXCEPT ![h] = NoSet]
  BY <1>0, LiveHandle DEF cesk_set_free, IInv, TypeOK
<1>2. \A k \in Idx : Agree(set[k]) /\ set[k] \in SetInfo
  BY <1>1 DEF ViewsAgree, Agree, RelocCount
<1>3. Agree(Freed(set[i]))
  <2>1. CASE set[i].refcnt = 1
    <3> DEFINE s == Freed(set[i])
    <3>1. s.node = {} /\ s.list = <<>> /\ s.size = 0 /\ s.reloc = 0 /\ s.ahash = {}
      BY <1>1, <1>2, <2>1 DEF Freed, NewInfo, Agree
    <3>2. Elems(<<>>) = {} /\ Len(<<>>) = 0
      BY DEF Elems
    <3>3. Cardinality({}) = 0 /\ RelocCount({}) = 0
      <4>1. {} \cap RelocAddr = {}
        OBVIOUS
      <4> QED BY <4>1, FS_EmptySet DEF RelocCount
    <3> HIDE DEF s
    <3> QED BY <3>1, <3>2, <3>3 DEF Agree, s
  <2>2. CASE set[i].refcnt # 1
    BY <1>1, <1>2, <2>2 DEF Freed, Agree, SetInfo
  <2> QED BY <2>1, <2>2
<1>4. \A k \in Idx : Agree(set'[k])
  BY <1>1, <1>2, <1>3
<1>5. ViewsAgree'
  BY <1>4 DEF ViewsAgree, Agree, RelocCount
<1>6. ~Live(h)' /\ Others(h)
  BY <1>1, FreeOK DEF Live
<1>7. Val' = [Val EXCEPT ![h] = NoSet]
  BY <1>6, ValBecomes
<1>8. Val[h] # NoSet
  BY <1>1, ValFacts
<1>9. Values!Free(h)
  BY <1>7, <1>8 DEF Val, Values!Free, Values!Live, Values!Becomes
<1> QED BY <1>5, <1>9 DEF Refined, Values!Next

LEMMA PushRefines ==
  ASSUME IInv, ViewsAgree, NEW h \in Handle, NEW a \in Addr, cesk_set_push(h, a)
  PROVE  Refined
<1>0. PICK s : s = Prepared(h)
  OBVIOUS
<1>1. /\ Live(h) /\ Sound(s) /\ s.refcnt = Prepared(h).refcnt
      /\ s.node = set[handle[h]].node /\ s.tags = set[handle[h]].tags
  BY <1>0, LiveSound DEF cesk_set_push
<1>2. PICK d : /\ d = (IF a \in s.node THEN s ELSE Pushed(s, <<a>>))
               /\ Write(h, d)
  BY <1>0 DEF cesk_set_push
<1>3. Sound(d) /\ d.refcnt = s.refcnt /\ d.node = s.node \cup {a} /\ d.tags = s.tags
  <2>1. CASE a \in s.node
    BY <1>1, <1>2, <2>1
  <2>2. CASE a \notin s.node
    <3>1. <<a>> \in Seq(Addr) /\ Elems(<<a>>) = {a} /\ Distinct(<<a>>)
      BY DEF Elems, Distinct
    <3>2. d = Pushed(s, <<a>>) /\ Elems(<<a>>) \cap s.node = {}
      BY <1>2, <2>2, <3>1
    <3>3. d.refcnt = s.refcnt
      BY <1>1, <3>1, <3>2, PushedOK DEF Sound
    <3>4. Sound(d) /\ d.tags = s.tags /\ d.node = s.node \cup Elems(<<a>>)
      BY <1>1, <3>1, <3>2, PushedAgrees
    <3> QED BY <3>1, <3>3, <3>4
  <2> QED BY <2>1, <2>2
<1>4. ViewsAgree' /\ Val' = [Val EXCEPT ![h] = [members |-> d.node, tags |-> d.tags]]
  BY <1>1, <1>2, <1>3, WriteAgrees
<1>5. Val[h] # NoSet /\ Val[h] = [members |-> s.node, tags |-> s.tags]
  BY <1>1, ValFacts DEF Value, Of
<1>6. [Val[h] EXCEPT !.members = @ \cup {a}] = [members |-> d.node, tags |-> d.tags]
  BY <1>3, <1>5
<1>7. Val' = [Val EXCEPT ![h] = [Val[h] EXCEPT !.members = @ \cup {a}]]
  BY <1>4, <1>6
<1>8. Values!Push(h, a)
  BY <1>5, <1>7 DEF Val, Values!Push, Values!Live, Values!Becomes
<1> QED BY <1>4, <1>8 DEF Refined, Values!Next

LEMMA MergeRefines ==
  ASSUME IInv, ViewsAgree, NEW h \in Handle, NEW sour \in Handle, cesk_set_merge(h, sour)
  PROVE  Refined
<1>0. PICK s, src : s = Prepared(h) /\ src = set[handle[sour]]
  OBVIOUS
<1>1. /\ Live(h) /\ Live(sour) /\ Sound(s) /\ s.refcnt = Prepared(h).refcnt /\ Sound(src)
      /\ s.node = set[handle[h]].node /\ s.tags = set[handle[h]].tags
  BY <1>0, LiveSound DEF cesk_set_merge
<1>2. PICK new \in Missing(s, src.list) :
        Write(h, MergeTagsInto(Pushed(s, new), src.tags))
  BY <1>0 DEF cesk_set_merge
<1>3. /\ src.list \in Seq(Addr) /\ Distinct(src.list) /\ src.tags \in SUBSET Tag
      /\ Elems(src.list) = src.node
  BY <1>1 DEF Sound, Agree, WellFormed, SetInfo
<1>4. new \in Seq(Addr) /\ Distinct(new) /\ Elems(new) = src.node \ s.node
  BY <1>2, <1>3, MissingElems
<1>5. PICK p : p = Pushed(s, new)
  OBVIOUS
<1>6. Sound(p) /\ p.refcnt = s.refcnt /\ p.tags = s.tags /\ p.node = s.node \cup src.node
  <2>1. Elems(new) \cap s.node = {} /\ s.node \cup Elems(new) = s.node \cup src.node
    BY <1>4
  <2> QED BY <1>1, <1>4, <1>5, <2>1, PushedAgrees, PushedOK DEF Sound
<1>7. PICK d : d = MergeTagsInto(p, src.tags)
  OBVIOUS
<1>8. /\ Sound(d) /\ d.refcnt = s.refcnt /\ d.node = s.node \cup src.node
      /\ d.tags = s.tags \cup src.tags
  BY <1>3, <1>6, <1>7, MergeTagsAgrees, MergeTagsOK DEF Sound
<1>9. ViewsAgree' /\ Val' = [Val EXCEPT ![h] = [members |-> d.node, tags |-> d.tags]]
  BY <1>1, <1>2, <1>5, <1>7, <1>8, WriteAgrees
<1>10. /\ Val[h] # NoSet /\ Val[h] = [members |-> s.node, tags |-> s.tags]
       /\ Val[sour] # NoSet /\ Val[sour] = [members |-> src.node, tags |-> src.tags]
  BY <1>0, <1>1, ValFacts DEF Value, Of
<1>11. Val' = [Val EXCEPT ![h] = [members |-> Val[h].members \cup Val[sour].members,
                                  tags    |-> Val[h].tags \cup Val[sour].tags]]
  BY <1>8, <1>9, <1>10
<1>12. Values!Merge(h, sour)
  BY <1>10, <1>11 DEF Val, Values!Merge, Values!Live, Values!Becomes
<1> QED BY <1>9, <1>12 DEF Refined, Values!Next

LEMMA MergeTagsRefines ==
  ASSUME IInv, ViewsAgree, NEW h \in Handle, NEW sour \in Handle, cesk_set_merge_tags(h, sour)
  PROVE  Refined
<1>0. PICK s, src : s = Prepared(h) /\ src = set[handle[sour]]
  OBVIOUS
<1>1. /\ Live(h) /\ Live(sour) /\ Sound(s) /\ s.refcnt = Prepared(h).refcnt /\ Sound(src)
      /\ s.node = set[handle[h]].node /\ s.tags = set[handle[h]].tags
      /\ src.tags \in SUBSET Tag
  <2>1. Live(h) /\ Live(sour) /\ Sound(s) /\ Sound(src)
    BY <1>0, LiveSound DEF cesk_set_merge_tags
  <2> QED BY <1>0, <2>1, LiveSound DEF Sound, WellFormed, SetInfo
<1>2. PICK d : d = MergeTagsInto(s, src.tags)
  OBVIOUS
<1>3. Sound(d) /\ d.refcnt = s.refcnt /\ d.node = s.node /\ d.tags = s.tags \cup src.tags
  BY <1>1, <1>2, MergeTagsAgrees, MergeTagsOK DEF Sound
<1>4. ViewsAgree' /\ Val' = [Val EXCEPT ![h] = [members |-> d.node, tags |-> d.tags]]
  BY <1>0, <1>1, <1>2, <1>3, WriteAgrees DEF cesk_set_merge_tags
<1>5. /\ Val[h] # NoSet /\ Val[h] = [members |-> s.node, tags |-> s.tags]
      /\ Val[sour] # NoSet /\ Val[sour] = [members |-> src.node, tags |-> src.tags]
  BY <1>0, <1>1, ValFacts DEF Value, Of
<1>6. [Val[h] EXCEPT !.tags = @ \cup Val[sour].tags] = [members |-> d.node, tags |-> d.tags]
  <2>1. PICK v, w : v = Val[h] /\ w = Val[sour]
    OBVIOUS
  <2>2. w.tags = src.tags /\ v = [members |-> s.node, tags |-> s.tags]
    BY <1>5, <2>1
  <2>3. PICK t : t = s.tags \cup src.tags
    OBVIOUS
  <2>4. v.tags = s.tags
    BY <2>2
  <2>5. [v EXCEPT !.tags = t] = [members |-> s.node, tags |-> t]
    BY <2>2
  <2>6. [v EXCEPT !.tags = v.tags \cup w.tags] = [v EXCEPT !.tags = t]
    BY <2>2, <2>3, <2>4, Zenon
  <2>7. d.tags = t
    BY <1>3, <2>3
  <2> QED BY <1>3, <2>1, <2>5, <2>6, <2>7, Zenon
<1>7. Val' = [Val EXCEPT ![h] = [Val[h] EXCEPT !.tags = @ \cup Val[sour].tags]]
  BY <1>4, <1>6
<1>8. Values!MergeTags(h, sour)
  BY <1>5, <1>7 DEF Val, Values!MergeTags, Values!Live, Values!Becomes
<1> QED BY <1>4, <1>8 DEF Refined, Values!Next

LEMMA AssignTagsRefines ==
  ASSUME IInv, ViewsAgree, NEW h \in Handle, NEW tags \in SUBSET Tag,
         cesk_set_assign_tags(h, tags)
  PROVE  Refined
<1>0. PICK s : s = Prepared(h)
  OBVIOUS
<1>1. /\ Live(h) /\ Sound(s) /\ s.refcnt = Prepared(h).refcnt
      /\ s.node = set[handle[h]].node /\ s.tags = set[handle[h]].tags
  BY <1>0, LiveSound DEF cesk_set_assign_tags
<1>2. PICK d : d = [s EXCEPT !.tags = tags]
  OBVIOUS
<1>3. Sound(d) /\ d.refcnt = s.refcnt /\ d.node = s.node /\ d.tags = tags
  BY <1>1, <1>2, AssignTagsAgrees, AssignTagsOK DEF Sound
<1>4. ViewsAgree' /\ Val' = [Val EXCEPT ![h] = [members |-> d.node, tags |-> d.tags]]
  <2>1. Write(h, d)
    BY <1>0, <1>2 DEF cesk_set_assign_tags
  <2> QED BY <1>1, <1>3, <2>1, WriteAgrees
<1>5. Val[h] # NoSet /\ Val[h] = [members |-> s.node, tags |-> s.tags]
  BY <1>1, ValFacts DEF Value, Of
<1>6. [Val[h] EXCEPT !.tags = tags] = [members |-> d.node, tags |-> d.tags]
  BY <1>3, <1>5
<1>7. Val' = [Val EXCEPT ![h] = [Val[h] EXCEPT !.tags = tags]]
  BY <1>4, <1>6
<1>8. Values!AssignTags(h, tags)
  BY <1>5, <1>7 DEF Val, Values!AssignTags, Values!Live, Values!Becomes
<1> QED BY <1>4, <1>8 DEF Refined, Values!Next

(* A missing `from' only unshares the set, which nobody sees. *)
LEMMA ModifyRefines ==
  ASSUME ~AllowCollision, IInv, ViewsAgree, NEW h \in Handle,
         NEW from \in Addr, NEW to \in Addr, cesk_set_modify(h, from, to)
  PROVE  Refined
<1>0. PICK s : s = Prepared(h)
  OBVIOUS
<1>1. /\ Live(h) /\ Sound(s) /\ s.refcnt = Prepared(h).refcnt
      /\ s.node = set[handle[h]].node /\ s.tags = set[handle[h]].tags
  BY <1>0, LiveSound DEF cesk_set_modify
<1>2. Val[h] # NoSet /\ Val[h] = [members |-> s.node, tags |-> s.tags]
  BY <1>1, ValFacts DEF Value, Of
<1>3. CASE Write(h, s)
  <2>1. ViewsAgree' /\ Val' = [Val EXCEPT ![h] = Val[h]]
    BY <1>1, <1>2, <1>3, WriteAgrees
  <2>2. Val' = Val
    BY <2>1 DEF Val
  <2> QED BY <2>1, <2>2 DEF Refined
<1>4. CASE from \in s.node /\ to \notin s.node /\ Write(h, Rename(s, from, to))
  <2>1. PICK d : d = Rename(s, from, to)
    OBVIOUS
  <2>2. /\ Sound(d) /\ d.refcnt = s.refcnt /\ d.tags = s.tags
        /\ d.node = (s.node \ {from}) \cup {to}
    BY <1>1, <1>4, <2>1, RenameAgrees, RenameOK DEF Sound
  <2>3. ViewsAgree' /\ Val' = [Val EXCEPT ![h] = [members |-> d.node, tags |-> d.tags]]
    BY <1>1, <1>4, <2>1, <2>2, WriteAgrees
  <2>4. [Val[h] EXCEPT !.members = (@ \ {from}) \cup {to}] = [members |-> d.node, tags |-> d.tags]
    BY <1>2, <2>2
  <2>5. /\ Val' = [Val EXCEPT ![h] = [Val[h] EXCEPT !.members = (@ \ {from}) \cup {to}]]
        /\ from \in Val[h].members
    <3>1. from \in Val[h].members
      BY <1>2, <1>4
    <3> QED BY <2>3, <2>4, <3>1, Zenon
  <2>6. Values!Modify(h, from, to)
    BY <1>2, <2>5 DEF Val, Values!Modify, Values!Live, Values!Becomes
  <2> QED BY <2>3, <2>6 DEF Refined, Values!Next
<1> QED BY <1>0, <1>3, <1>4 DEF cesk_set_modify

LEMMA StepRefines ==
  ASSUME ~AllowCollision
  PROVE  IInv /\ ViewsAgree /\ [Next]_vars => Refined
<1> SUFFICES ASSUME IInv, ViewsAgree, [Next]_vars PROVE Refined
  OBVIOUS
<1>1. CASE UNCHANGED vars
  <2>1. handle' = handle /\ set' = set
    BY <1>1 DEF vars
  <2>2. ViewsAgree' /\ Val' = Val
    BY <2>1 DEF ViewsAgree, Val, Live, Value, Of
  <2> QED BY <2>2 DEF Refined
<1>2. CASE Next
  <2>1. PICK h \in Handle :
          \/ cesk_set_empty_set(h)
          \/ cesk_set_free(h)
          \/ \E a \in Addr : cesk_set_push(h, a)
          \/ \E from, to \in Addr : cesk_set_modify(h, from, to)
          \/ \E tags \in SUBSET Tag : cesk_set_assign_tags(h, tags)
          \/ \E sour \in Handle : cesk_set_fork(h, sour)
          \/ \E sour \in Handle : cesk_set_merge(h, sour)
          \/ \E sour \in Handle : cesk_set_merge_tags(h, sour)
    BY <1>2 DEF Next
  <2> QED BY <2>1, EmptySetRefines, FreeRefines, PushRefines, ModifyRefines,
             AssignTagsRefines, ForkRefines, MergeRefines, MergeTagsRefines
<1> QED BY <1>1, <1>2

LEMMA InitAgrees == Init => ViewsAgree /\ Values!Init
<1> SUFFICES ASSUME Init PROVE ViewsAgree /\ Values!Init
  OBVIOUS
<1>1. \A h \in Handle : ~Live(h)
  BY DEF Init, Live
<1>2. Values!Init
  BY <1>1 DEF Values!Init
<1>3. \A i \in Idx : /\ set[i].node = {} /\ set[i].list = <<>> /\ set[i].size = 0
                     /\ set[i].reloc = 0 /\ set[i].ahash = {}
  BY DEF Init, NewInfo
<1>4. Elems(<<>>) = {} /\ Len(<<>>) = 0 /\ Cardinality({}) = 0 /\ {} \cap RelocAddr = {}
  BY FS_EmptySet DEF Elems
<1>5. ViewsAgree
  <2> SUFFICES ASSUME NEW i \in Idx
               PROVE  /\ Elems(set[i].list) = set[i].node
                      /\ set[i].size = Cardinality(set[i].node) /\ set[i].size = Len(set[i].list)
                      /\ set[i].reloc = Cardinality(set[i].node \cap RelocAddr)
                      /\ set[i].ahash = set[i].node
    BY DEF ViewsAgree
  <2> QED BY <1>3, <1>4
<1> QED BY <1>2, <1>5

(* As long as cesk_set_modify never turns an element into one the set      *)
(* already holds, the hash table, the list, the size, the relocation count *)
(* and the incremental hash of every set agree, for any number of handles  *)
(* and addresses and any sequence of calls.                                *)
THEOREM ViewsStayEqual ==
  ASSUME ~AllowCollision
  PROVE  Spec => []ViewsAgree
<1>1. IInv /\ ViewsAgree /\ [Next]_vars => ViewsAgree'
  BY StepRefines DEF Refined
<1> QED BY <1>1, InitAgrees, Inductive, PTL DEF Spec

(* As long as no cesk_set_modify collides, cesk_set_equal never takes two  *)
(* different sets for equal, although it looks only the elements of the    *)
(* first up in the second, and differs from the comparison of the values   *)
(* only where cesk_set_assign_tags has left an old tag hash behind.        *)
THEOREM EqualIsExact ==
  ASSUME ~AllowCollision
  PROVE  Spec => []EqualExact
<1>1. IInv /\ ViewsAgree => EqualExact
  <2> SUFFICES ASSUME IInv, ViewsAgree, NEW g \in Handle, NEW h \in Handle,
                      Live(g), Live(h)
               PROVE  /\ cesk_set_equal(g, h) => Value(g) = Value(h)
                      /\ Value(g) = Value(h) /\ Of(g).thash = Of(h).thash
                           => cesk_set_equal(g, h)
    BY DEF EqualExact
  <2>1. handle[g] \in Idx /\ handle[h] \in Idx
    BY LiveHandle
  <2>2. /\ Of(g).ahash = Of(g).node /\ Of(h).ahash = Of(h).node
        /\ Of(g).size = Cardinality(Of(g).node) /\ Of(h).size = Cardinality(Of(h).node)
        /\ Elems(Of(g).list) = Of(g).node
    BY <2>1 DEF ViewsAgree, Of
  <2>3. ASSUME cesk_set_equal(g, h) PROVE Value(g) = Value(h)
    <3>1. Of(g).ahash = Of(h).ahash /\ Of(g).tags = Of(h).tags
      BY <2>3 DEF cesk_set_equal, Hashcode
    <3> QED BY <3>1, <2>2 DEF Value
  <2>4. ASSUME Value(g) = Value(h), Of(g).thash = Of(h).thash PROVE cesk_set_equal(g, h)
    <3>1. Of(g).node = Of(h).node /\ Of(g).tags = Of(h).tags
      BY <2>4 DEF Value
    <3> QED BY <3>1, <2>4, <2>2 DEF cesk_set_equal, Hashcode
  <2> QED BY <2>3, <2>4
<1> QED BY <1>1, ViewsStayEqual, Inductive, PTL

(* The copy-on-write table implements sets with value semantics: every     *)
(* operation of cesk_set.h but a colliding cesk_set_modify changes the     *)
(* value of the handle it is called with as SetValues says, and no other   *)
(* value.                                                                  *)
THEOREM ImplementsValues ==
  ASSUME ~AllowCollision
  PROVE  Spec => ValueSemantics
<1>1. IInv /\ ViewsAgree /\ [Next]_vars => [Values!Next]_Val
  BY StepRefines DEF Refined
<1>2. Spec => [](IInv /\ ViewsAgree)
  BY Inductive, ViewsStayEqual, PTL
<1> QED BY <1>1, <1>2, InitAgrees, PTL DEF Spec, ValueSemantics, Values!Spec, Val
=============================================================================
