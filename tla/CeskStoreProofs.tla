--------------------------- MODULE CeskStoreProofs ---------------------------
(***************************************************************************)
(* Proofs about the frame stores, for any number of stores, blocks, slots, *)
(* addresses and values: the reference counts of blocks and values and the *)
(* entity counters are exact, and copy-on-write keeps a store from seeing  *)
(* what the frames of other stores write.                                  *)
(***************************************************************************)
EXTENDS CeskStore, FiniteSetTheorems, InductionLemmas

-----------------------------------------------------------------------------
(***************************************************************************)
(* Addresses and counting.                                                 *)
(***************************************************************************)
(* An address is a block number and an offset. *)
LEMMA AddrSplit ==
  ASSUME NEW a \in Addr
  PROVE  /\ BlockNo(a) \in 1 .. MaxBlocks
         /\ a % NSlots \in Ofs
         /\ a = (BlockNo(a) - 1) * NSlots + (a % NSlots)
<1>1. NSlots \in Nat \ {0} /\ MaxBlocks \in Nat \ {0}
  BY StoreAssumption
<1>2. PICK q, r : q = a \div NSlots /\ r = a % NSlots
  OBVIOUS
<1>3. a \in Nat /\ a < MaxBlocks * NSlots
  BY <1>1 DEF Addr
<1>4. q \in Nat /\ r \in 0 .. NSlots - 1 /\ a = q * NSlots + r
  BY <1>1, <1>2, <1>3
<1>5. q < MaxBlocks
  <2>1. SUFFICES ASSUME q >= MaxBlocks PROVE FALSE
    BY <1>1, <1>4
  <2>2. q * NSlots >= MaxBlocks * NSlots
    BY <2>1, <1>1, <1>4
  <2> QED
    BY <2>2, <1>1, <1>3, <1>4
<1>6. BlockNo(a) = q + 1
  BY <1>2 DEF BlockNo
<1>7. BlockNo(a) - 1 = q
  BY <1>4, <1>6
<1> QED
  BY <1>1, <1>2, <1>4, <1>5, <1>6, <1>7 DEF Ofs

(* Every block number and offset is that of an address. *)
LEMMA AddrJoin ==
  ASSUME NEW k \in 1 .. MaxBlocks, NEW o \in Ofs
  PROVE  /\ (k - 1) * NSlots + o \in Addr
         /\ BlockNo((k - 1) * NSlots + o) = k
         /\ ((k - 1) * NSlots + o) % NSlots = o
<1>1. NSlots \in Nat \ {0} /\ MaxBlocks \in Nat \ {0}
  BY StoreAssumption
<1>2. PICK q : q = k - 1 /\ q \in Nat /\ q + 1 <= MaxBlocks
  BY <1>1
<1>3. o \in 0 .. NSlots - 1
  BY DEF Ofs
<1>4. (q * NSlots + o) \div NSlots = q /\ (q * NSlots + o) % NSlots = o
  BY <1>1, <1>2, <1>3
<1>5. (q + 1) * NSlots <= MaxBlocks * NSlots
  BY <1>1, <1>2
<1>6. q * NSlots + o \in 0 .. MaxBlocks * NSlots - 1
  BY <1>1, <1>2, <1>3, <1>5
<1> QED
  BY <1>2, <1>4, <1>6 DEF Addr, BlockNo

(* The sets of the model are finite. *)
LEMMA FiniteSets ==
  /\ IsFiniteSet(Ofs) /\ Cardinality(Ofs) = NSlots /\ IsFiniteSet(Addr) /\ IsFiniteSet(Elem)
  /\ IsFiniteSet(Store) /\ IsFiniteSet(Block) /\ IsFiniteSet(Val) /\ IsFiniteSet(Block \X Ofs)
  /\ IsFiniteSet(1 .. MaxBlocks)
<1>1. NSlots \in Nat \ {0} /\ MaxBlocks \in Nat \ {0} /\ MaxBlocks * NSlots \in Nat
  BY StoreAssumption
<1>2. IsFiniteSet(Ofs) /\ Cardinality(Ofs) = NSlots
  <2>1. IsFiniteSet(0 .. NSlots - 1) /\ Cardinality(0 .. NSlots - 1) = NSlots
    BY <1>1, FS_Interval
  <2> QED
    BY <2>1 DEF Ofs
<1>3. IsFiniteSet(Addr)
  BY <1>1, FS_Interval DEF Addr
<1>4. IsFiniteSet(Elem)
  BY <1>3, StoreAssumption, FS_Union DEF Elem
<1>5. IsFiniteSet(Block \X Ofs)
  BY <1>2, StoreAssumption, FS_Product
<1>6. IsFiniteSet(1 .. MaxBlocks)
  BY <1>1, FS_Interval
<1> QED
  BY <1>2, <1>3, <1>4, <1>5, <1>6, StoreAssumption

(* A set with more members than another one has a copy of it. *)
LEMMA InjectionExists ==
  ASSUME NEW S, IsFiniteSet(S), NEW T, IsFiniteSet(T), Cardinality(S) <= Cardinality(T)
  PROVE  \E f \in [S -> T] : \A j, k \in S : f[j] = f[k] => j = k
<1>1. PICK m, n : m = Cardinality(S) /\ n = Cardinality(T)
  OBVIOUS
<1>2. m \in Nat /\ n \in Nat /\ m <= n
  BY <1>1, FS_CardinalityType
<1>3. PICK g \in Bijection(1 .. n, T) : TRUE
  BY <1>1, FS_CardinalityType DEF ExistsBijection
<1>4. PICK i \in Bijection(S, 1 .. m) : TRUE
  <2>1. IsFiniteSet(1 .. m) /\ Cardinality(1 .. m) = m
    BY <1>2, FS_Interval
  <2>2. ExistsBijection(S, 1 .. m)
    BY <2>1, <1>1, FS_SameCardinalityBij
  <2> QED
    BY <2>2 DEF ExistsBijection
<1>5. /\ g \in [1 .. n -> T] /\ \A x, y \in 1 .. n : g[x] = g[y] => x = y
      /\ i \in [S -> 1 .. m] /\ \A x, y \in S : i[x] = i[y] => x = y
  BY <1>3, <1>4 DEF Bijection, Injection, IsInjective
<1>6. \A x \in S : i[x] \in 1 .. n
  BY <1>2, <1>5
<1> DEFINE f == [x \in S |-> g[i[x]]]
<1>7. f \in [S -> T]
  BY <1>5, <1>6
<1>8. \A j, k \in S : f[j] = f[k] => j = k
  BY <1>5, <1>6
<1> QED
  BY <1>7, <1>8

(* A set and its image under a one-to-one function have the same size. *)
LEMMA ImageSize ==
  ASSUME NEW S, IsFiniteSet(S), NEW T, NEW f \in [S -> T],
         \A x, y \in S : f[x] = f[y] => x = y, \A z \in T : \E x \in S : f[x] = z
  PROVE  IsFiniteSet(T) /\ Cardinality(T) = Cardinality(S)
<1>1. f \in Bijection(S, T)
  BY DEF Bijection, Injection, Surjection, IsInjective
<1>2. ExistsBijection(S, T)
  BY <1>1 DEF ExistsBijection
<1> QED
  BY <1>2, FS_Bijection

(* The size of a set in two parts. *)
LEMMA Parts ==
  ASSUME NEW A, IsFiniteSet(A), NEW B, IsFiniteSet(B), A \cap B = {}
  PROVE  IsFiniteSet(A \cup B) /\ Cardinality(A \cup B) = Cardinality(A) + Cardinality(B)
         /\ Cardinality(A) \in Nat /\ Cardinality(B) \in Nat
<1>1. Cardinality(A) \in Nat /\ Cardinality(B) \in Nat
  BY FS_CardinalityType
<1>2. Cardinality(A \cap B) = 0
  BY FS_EmptySet
<1>3. Cardinality(A \cup B) = Cardinality(A) + Cardinality(B) - Cardinality(A \cap B) /\ IsFiniteSet(A \cup B)
  BY FS_Union
<1> QED
  BY <1>1, <1>2, <1>3

-----------------------------------------------------------------------------
(***************************************************************************)
(* The invariant of a memory m.  H is the set of records in diff buffers.  *)
(***************************************************************************)
StoreCell == [refcnt : Nat, num_ent : Int, num_reloc : Int, slots : [Ofs -> Slot]]
Memory ==
  [store : [Store -> Table \cup {NoStore}], block : [Block -> StoreCell], value : [Val -> Value]]

On(m, s) == m.store[s] # NoStore
Tab(m, s) == m.store[s].blocks
At(m, b, o) == m.block[b].slots[o]

(* The stores that have b, the slots that point to v, the slots of b and   *)
(* the addresses of s that have a value, the records that hold v           *)
Users(m, b) == {s \in Store : On(m, s) /\ b \in Range(Tab(m, s))}
Pointers(m, v) == {c \in Block \X Ofs : At(m, c[1], c[2]).value = v}
Filled(m, b) == {o \in Ofs : At(m, b, o).value # NoVal}
Living(m, s) == {a \in Addr : Alive(m, s, a)}
Records(H, v) == {r \in H : r[3] = v}

Tables(m) ==
  \A s \in Store : On(m, s) =>
    /\ Len(Tab(m, s)) <= MaxBlocks
    /\ \A j, k \in DOMAIN Tab(m, s) : Tab(m, s)[j] = Tab(m, s)[k] => j = k
BlocksCounted(m) == \A b \in Block : m.block[b].refcnt = Cardinality(Users(m, b))
FreeEmpty(m) == \A b \in Block : m.block[b].refcnt = 0 => \A o \in Ofs : At(m, b, o).value = NoVal
InUse(m) == \A b \in Block, o \in Ofs : At(m, b, o).value # NoVal => At(m, b, o).param # NoParam
ValuesCounted(m, H) ==
  \A v \in Val : m.value[v].refcnt = Cardinality(Pointers(m, v)) + Cardinality(Records(H, v))
Buffers(H) ==
  /\ H \subseteq {"inv", "diff"} \X Addr \X Val
  /\ IsFiniteSet(H) /\ Cardinality(H) <= MaxHeld

Good(m, H) ==
  /\ m \in Memory /\ Tables(m) /\ BlocksCounted(m) /\ FreeEmpty(m) /\ InUse(m)
  /\ ValuesCounted(m, H) /\ Buffers(H)

(* The entity counters are exact but for those of store s and of its block *)
(* B, which are d ahead                                                    *)
Ahead(x, y, d) == IF x = y THEN d ELSE 0
Counters(m, s, B, d) ==
  /\ \A b \in Block : m.block[b].num_ent = Cardinality(Filled(m, b)) + Ahead(b, B, d)
  /\ \A t \in Store : On(m, t) => m.store[t].num_ent = Cardinality(Living(m, t)) + Ahead(t, s, d)

(* What the frame of t sees at address a, and that no frame but that of s  *)
(* sees a difference between m and n                                       *)
Seen(m, t, a) ==
  IF Alive(m, t, a) THEN <<Content(m, t, a), SlotOf(m, t, a).reuse, SlotOf(m, t, a).refcnt>> ELSE <<>>
Same(m, n, s) ==
  \A t \in Store \ {s} :
    /\ n.store[t] = m.store[t]
    /\ On(m, t) => \A a \in Addr : Seen(n, t, a) = Seen(m, t, a)

(* b is a block that only store s has *)
Mine(m, s, b) == m.block[b].refcnt = 1 /\ \E k \in DOMAIN Tab(m, s) : Tab(m, s)[k] = b

(* The slots of the addresses D of s *)
Place(m, s, D) == {<<BlockOf(m, s, d), d % NSlots>> : d \in D}

(***************************************************************************)
(* The books of a memory: writable pointers, relocated values, hash codes. *)
(***************************************************************************)
(* The slots of b with relocated addresses in their values, and those of   *)
(* them that are not among the slots E                                     *)
Relocated(m, b) == {o \in Filled(m, b) : IsReloc(m.value[At(m, b, o).value].content)}
Outside(m, b, E) == {o \in Relocated(m, b) : <<b, o>> \notin E}

(* Only the values W have a writable pointer, one each; the counters of    *)
(* the blocks claim all relocated values but those in E; the hash code of  *)
(* s is that of its values without those at A                              *)
Idle(m, W) == \A v \in Val : m.value[v].write_count = IF v \in W THEN 1 ELSE 0
Claimed(m, E) == \A b \in Block : Cardinality(Outside(m, b, E)) <= m.block[b].num_reloc
Hashed(m, s, A) == m.store[s].hash = {EntryOf(m, s, a) : a \in Living(m, s) \ A}

(* The books while s has a writable pointer to the value at a, which takes *)
(* that value out of the hash code of s and out of the claim of its block, *)
(* and the books when nobody has one                                       *)
Books(m, s, a) ==
  /\ Claimed(m, Place(m, s, {a})) /\ Hashed(m, s, {a})
  /\ \A t \in Store \ {s} : On(m, t) => Hashed(m, t, {})
Open(m, s, a) == Idle(m, {SlotOf(m, s, a).value}) /\ Books(m, s, a)
Tidy(m) == Idle(m, {}) /\ Claimed(m, {}) /\ \A t \in Store : On(m, t) => Hashed(m, t, {})

(* If the const instructions release their writable pointers: from m to n  *)
(* the books stay in order; a writable pointer to the value of s at a is   *)
(* taken; it is put back; it stays with s                                  *)
Keeps(m, n) == ConstParam = {} /\ Tidy(m) => Tidy(n)
Opens(m, n, s, a) == ConstParam = {} /\ Tidy(m) => Open(n, s, a)
Shuts(m, n, s, a) == ConstParam = {} /\ Open(m, s, a) => Tidy(n)
Stays(m, n, s, a) == ConstParam = {} /\ Open(m, s, a) => Open(n, s, a)

(* From m to n, store s loses the values at D; the others stay as they     *)
(* are, and the blocks are those of m, copies of shared ones or empty      *)
Covered(m, n, s, b) ==
  \/ Relocated(n, b) = {} /\ n.block[b].num_reloc = 0
  \/ \E c \in Block : /\ c = b \/ ~ Mine(m, s, c)
                      /\ Relocated(n, b) \subseteq Relocated(m, c)
                      /\ n.block[b].num_reloc = m.block[c].num_reloc
Ledger(m, n, s, D) ==
  /\ n.store[s].hash = Xor(m.store[s].hash, {EntryOf(m, s, d) : d \in D})
  /\ Living(n, s) = Living(m, s) \ D
  /\ \A a \in Living(n, s) : EntryOf(n, s, a) = EntryOf(m, s, a)
  /\ \A v \in Val : n.value[v].write_count \in {m.value[v].write_count, 0}
  /\ \A b \in Block : Covered(m, n, s, b)
Plain(m, n, s) ==
  Ledger(m, n, s, {}) /\ \A v \in Val : n.value[v].write_count = m.value[v].write_count

(* The fields of a memory. *)
LEMMA StoreFields ==
  ASSUME NEW m \in Memory, NEW s \in Store, On(m, s)
  PROVE  /\ m.store[s] \in Table
         /\ Tab(m, s) \in Seq(Block) /\ Len(Tab(m, s)) \in Nat
         /\ DOMAIN Tab(m, s) = 1 .. Len(Tab(m, s))
         /\ \A k \in DOMAIN Tab(m, s) : Tab(m, s)[k] \in Block
         /\ m.store[s].num_ent \in Int
<1>1. m.store[s] \in Table
  BY DEF Memory, On
<1>2. Tab(m, s) \in Seq(Block) /\ m.store[s].num_ent \in Int
  BY <1>1 DEF Table, Tab
<1> QED
  BY <1>1, <1>2

LEMMA BlockFields ==
  ASSUME NEW m \in Memory, NEW b \in Block
  PROVE  /\ m.block[b] \in StoreCell
         /\ m.block[b].refcnt \in Nat /\ m.block[b].num_ent \in Int /\ m.block[b].num_reloc \in Int
         /\ m.block[b].slots \in [Ofs -> Slot]
         /\ \A o \in Ofs :
              /\ At(m, b, o) \in Slot
              /\ At(m, b, o).value \in Val \cup {NoVal} /\ At(m, b, o).refcnt \in Nat
              /\ At(m, b, o).reuse \in BOOLEAN /\ At(m, b, o).param \in Param \cup {NoParam}
<1>1. m.block[b] \in StoreCell
  BY DEF Memory
<1>2. m.block[b].slots \in [Ofs -> Slot]
  BY <1>1 DEF StoreCell
<1>3. ASSUME NEW o \in Ofs PROVE At(m, b, o) \in Slot
  BY <1>2 DEF At
<1> QED
  BY <1>1, <1>2, <1>3 DEF StoreCell, Slot

LEMMA ValueFields ==
  ASSUME NEW m \in Memory, NEW v \in Val
  PROVE  /\ m.value[v] \in Value /\ m.value[v].refcnt \in Nat
         /\ m.value[v].write_count \in 0 .. 15 /\ m.value[v].content \subseteq Elem
BY DEF Memory, Value

(* An address that a store has, and where it is. *)
LEMMA HasFields ==
  ASSUME NEW m \in Memory, NEW s \in Store, On(m, s), NEW a, Has(m, s, a)
  PROVE  /\ a \in Addr /\ BlockNo(a) \in DOMAIN Tab(m, s) /\ a % NSlots \in Ofs
         /\ BlockOf(m, s, a) = Tab(m, s)[BlockNo(a)] /\ BlockOf(m, s, a) \in Block
         /\ SlotOf(m, s, a) = At(m, BlockOf(m, s, a), a % NSlots)
         /\ SlotOf(m, s, a) \in Slot
<1>1. a \in Addr /\ BlockNo(a) <= Len(Tab(m, s))
  BY DEF Has, Tab
<1>2. BlockNo(a) \in DOMAIN Tab(m, s) /\ a % NSlots \in Ofs
  BY <1>1, AddrSplit, StoreFields
<1>3. BlockOf(m, s, a) = Tab(m, s)[BlockNo(a)]
  BY DEF BlockOf, Tab
<1>4. BlockOf(m, s, a) \in Block
  BY <1>2, <1>3, StoreFields
<1>5. SlotOf(m, s, a) = At(m, BlockOf(m, s, a), a % NSlots)
  BY DEF SlotOf, At
<1> QED
  BY <1>1, <1>2, <1>3, <1>4, <1>5, BlockFields

LEMMA HasPlace ==
  ASSUME NEW m \in Memory, Tables(m), NEW s \in Store, On(m, s), NEW k \in DOMAIN Tab(m, s), NEW o \in Ofs
  PROVE  \E a \in Addr : /\ Has(m, s, a) /\ BlockNo(a) = k /\ a % NSlots = o
                         /\ BlockOf(m, s, a) = Tab(m, s)[k] /\ SlotOf(m, s, a) = At(m, Tab(m, s)[k], o)
<1>1. k \in 1 .. MaxBlocks /\ k <= Len(Tab(m, s))
  BY StoreFields, StoreAssumption DEF Tables
<1>2. PICK a : a = (k - 1) * NSlots + o
  OBVIOUS
<1>3. a \in Addr /\ BlockNo(a) = k /\ a % NSlots = o
  BY <1>1, <1>2, AddrJoin
<1> QED
  BY <1>1, <1>3 DEF Has, Tab, BlockOf, SlotOf, At

LEMMA SamePlace ==
  ASSUME NEW m \in Memory, Tables(m), NEW s \in Store, On(m, s), NEW a, NEW c, Has(m, s, a), Has(m, s, c),
         BlockOf(m, s, a) = BlockOf(m, s, c), a % NSlots = c % NSlots
  PROVE  a = c
<1>1. BlockNo(a) = BlockNo(c)
  BY HasFields DEF Tables
<1>2. a \in Addr /\ c \in Addr
  BY HasFields
<1> QED
  BY <1>1, <1>2, AddrSplit

(* A block that counts one reference has one user. *)
LEMMA SoleUser ==
  ASSUME NEW m \in Memory, BlocksCounted(m), NEW s \in Store, On(m, s), NEW k \in DOMAIN Tab(m, s),
         m.block[Tab(m, s)[k]].refcnt = 1, NEW t \in Store, On(m, t), NEW j \in DOMAIN Tab(m, t),
         Tab(m, t)[j] = Tab(m, s)[k]
  PROVE  t = s
<1>1. PICK b \in Block : b = Tab(m, s)[k]
  BY StoreFields
<1>2. s \in Users(m, b) /\ t \in Users(m, b)
  BY <1>1 DEF Users, Range
<1>3. IsFiniteSet(Users(m, b))
  BY StoreAssumption, FS_Subset DEF Users
<1>4. Cardinality(Users(m, b)) = 1
  BY <1>1 DEF BlocksCounted
<1>5. \E x : Users(m, b) = {x}
  BY <1>3, <1>4, FS_Singleton
<1> QED
  BY <1>2, <1>5

(* A block that a store has counts a reference, and a block that counts    *)
(* one is in a store.                                                      *)
LEMMA UserCounts ==
  ASSUME NEW m \in Memory, BlocksCounted(m), NEW b \in Block
  PROVE  /\ IsFiniteSet(Users(m, b)) /\ Cardinality(Users(m, b)) \in Nat
         /\ m.block[b].refcnt > 0 <=> \E t \in Store : On(m, t) /\ \E j \in DOMAIN Tab(m, t) : Tab(m, t)[j] = b
         /\ m.block[b].refcnt \in Nat
<1>1. IsFiniteSet(Users(m, b))
  BY StoreAssumption, FS_Subset DEF Users
<1>2. Cardinality(Users(m, b)) \in Nat /\ (Cardinality(Users(m, b)) = 0 <=> Users(m, b) = {})
  BY <1>1, FS_CardinalityType, FS_EmptySet
<1>3. m.block[b].refcnt = Cardinality(Users(m, b))
  BY DEF BlocksCounted
<1>4. Users(m, b) # {} <=> \E t \in Store : On(m, t) /\ \E j \in DOMAIN Tab(m, t) : Tab(m, t)[j] = b
  BY DEF Users, Range
<1> QED
  BY <1>1, <1>2, <1>3, <1>4

(* The blocks in use and the free ones *)
InTable(m) == {b \in Block : m.block[b].refcnt > 0}
Free(m) == {b \in Block : m.block[b].refcnt = 0}

(* If every block in use is in a table at a place outside Q, there are as  *)
(* many free blocks as places in Q.                                        *)
LEMMA RoomForBlocks ==
  ASSUME NEW m \in Memory, Tables(m), BlocksCounted(m), NEW Q \in SUBSET (Store \X (1 .. MaxBlocks)),
         \A b \in InTable(m) : \E c \in (Store \X (1 .. MaxBlocks)) \ Q :
            On(m, c[1]) /\ c[2] \in DOMAIN Tab(m, c[1]) /\ Tab(m, c[1])[c[2]] = b
  PROVE  /\ IsFiniteSet(Q) /\ Cardinality(Q) <= Cardinality(Free(m)) /\ IsFiniteSet(Free(m))
         /\ Cardinality(InTable(m)) <= Cardinality(Store) * MaxBlocks
         /\ IsFiniteSet(InTable(m))
<1> DEFINE P == Store \X (1 .. MaxBlocks)
           place(b) == CHOOSE c \in P \ Q :
             On(m, c[1]) /\ c[2] \in DOMAIN Tab(m, c[1]) /\ Tab(m, c[1])[c[2]] = b
           f == [b \in InTable(m) |-> place(b)]
<1>1. MaxBlocks \in Nat /\ IsFiniteSet(Store) /\ IsFiniteSet(Block)
  BY StoreAssumption
<1>2. IsFiniteSet(1 .. MaxBlocks) /\ Cardinality(1 .. MaxBlocks) = MaxBlocks
  BY <1>1, FS_Interval
<1>3. IsFiniteSet(P) /\ Cardinality(P) = Cardinality(Store) * MaxBlocks
  BY <1>1, <1>2, FS_Product
<1>4. ASSUME NEW b \in InTable(m) PROVE place(b) \in P \ Q /\ Tab(m, place(b)[1])[place(b)[2]] = b
  OBVIOUS
<1>5. f \in [InTable(m) -> P \ Q]
  BY <1>4
<1>6. \A b, c \in InTable(m) : f[b] = f[c] => b = c
  BY <1>4
<1> HIDE DEF P, f, place
<1>7. f \in Injection(InTable(m), P \ Q)
  BY <1>5, <1>6 DEF Injection, IsInjective
<1>8. IsFiniteSet(P \ Q) /\ Cardinality(P \ Q) = Cardinality(P) - Cardinality(P \cap Q)
  BY <1>3, FS_Difference
<1>9. P \cap Q = Q /\ IsFiniteSet(Q)
  BY <1>3, FS_Subset DEF P
<1>10. IsFiniteSet(InTable(m)) /\ Cardinality(InTable(m)) <= Cardinality(P \ Q)
  BY <1>7, <1>8, FS_Injection
<1>11. IsFiniteSet(Free(m)) /\ Cardinality(Free(m)) = Cardinality(Block) - Cardinality(InTable(m))
  <2>1. \A b \in Block : m.block[b].refcnt = 0 \/ m.block[b].refcnt > 0
    BY BlockFields
  <2>2. Free(m) = Block \ InTable(m) /\ Block \cap InTable(m) = InTable(m)
    BY <2>1, BlockFields DEF Free, InTable
  <2>3. /\ IsFiniteSet(Block \ InTable(m))
        /\ Cardinality(Block \ InTable(m)) = Cardinality(Block) - Cardinality(Block \cap InTable(m))
    BY <1>1, FS_Difference
  <2> QED
    BY <2>2, <2>3
<1>12. /\ Cardinality(P) \in Nat /\ Cardinality(Q) \in Nat /\ Cardinality(InTable(m)) \in Nat
       /\ Cardinality(Block) \in Nat /\ Cardinality(Free(m)) \in Nat
  BY <1>1, <1>3, <1>9, <1>10, <1>11, FS_CardinalityType
<1>13. Cardinality(Block) >= Cardinality(P)
  BY <1>3, RoomAssumption
<1>14. Cardinality(P \ Q) = Cardinality(P) - Cardinality(Q)
  BY <1>8, <1>9
<1>15. Cardinality(InTable(m)) <= Cardinality(P)
  BY <1>10, <1>12, <1>14
<1>16. Cardinality(Q) <= Cardinality(Free(m))
  BY <1>10, <1>11, <1>12, <1>13, <1>14
<1> QED
  BY <1>3, <1>9, <1>10, <1>11, <1>15, <1>16

(* Every block in use is in a table. *)
LEMMA InTablePlace ==
  ASSUME NEW m \in Memory, Tables(m), BlocksCounted(m), NEW b \in InTable(m)
  PROVE  \E c \in Store \X (1 .. MaxBlocks) :
            On(m, c[1]) /\ c[2] \in DOMAIN Tab(m, c[1]) /\ Tab(m, c[1])[c[2]] = b
<1>0. PICK t \in Store : On(m, t) /\ \E i \in DOMAIN Tab(m, t) : Tab(m, t)[i] = b
  BY UserCounts DEF InTable
<1>1. PICK j \in DOMAIN Tab(m, t) : On(m, t) /\ Tab(m, t)[j] = b
  BY <1>0
<1>2. j \in 1 .. MaxBlocks
  BY <1>1, StoreFields, StoreAssumption DEF Tables
<1>3. <<t, j>> \in Store \X (1 .. MaxBlocks) /\ <<t, j>>[1] = t /\ <<t, j>>[2] = j
  BY <1>2
<1> QED
  BY <1>1, <1>3

(* A store with a table that is not full can get another block. *)
LEMMA FreeBlock ==
  ASSUME NEW m \in Memory, Tables(m), BlocksCounted(m), NEW s \in Store, On(m, s),
         Len(Tab(m, s)) < MaxBlocks
  PROVE  \E b \in Block : m.block[b].refcnt = 0
<1> DEFINE c == <<s, Len(Tab(m, s)) + 1>>
           Q == {c}
<1>1. Q \in SUBSET (Store \X (1 .. MaxBlocks)) /\ c[1] = s /\ c[2] = Len(Tab(m, s)) + 1
  BY StoreFields, StoreAssumption
<1>2. c[2] \notin DOMAIN Tab(m, s)
  BY <1>1, StoreFields
<1>3. ASSUME NEW b \in InTable(m)
      PROVE \E e \in (Store \X (1 .. MaxBlocks)) \ Q :
              On(m, e[1]) /\ e[2] \in DOMAIN Tab(m, e[1]) /\ Tab(m, e[1])[e[2]] = b
  <2>1. PICK e \in Store \X (1 .. MaxBlocks) :
              On(m, e[1]) /\ e[2] \in DOMAIN Tab(m, e[1]) /\ Tab(m, e[1])[e[2]] = b
    BY <1>3, InTablePlace
  <2>2. e # c
    BY <2>1, <1>1, <1>2
  <2> QED
    BY <2>1, <2>2
<1> HIDE DEF c, Q
<1>4. IsFiniteSet(Q) /\ Cardinality(Q) <= Cardinality(Free(m)) /\ IsFiniteSet(Free(m))
  BY <1>1, <1>3, RoomForBlocks
<1>5. Cardinality(Q) = 1
  BY FS_Singleton DEF Q
<1>6. Free(m) # {}
  <2>1. SUFFICES ASSUME Free(m) = {} PROVE FALSE
    OBVIOUS
  <2>2. Cardinality(Free(m)) = 0
    BY <2>1, FS_EmptySet
  <2> QED
    BY <2>2, <1>4, <1>5
<1> QED
  BY <1>6 DEF Free

(* The shared blocks of a store can all be copied. *)
LEMMA FreeCopies ==
  ASSUME NEW m \in Memory, Tables(m), BlocksCounted(m), NEW s \in Store, On(m, s),
         NEW S \in SUBSET {k \in DOMAIN Tab(m, s) : m.block[Tab(m, s)[k]].refcnt > 1}
  PROVE  \E f \in [S -> Free(m)] : \A j, k \in S : f[j] = f[k] => j = k
<1> DEFINE Q == {<<s, k>> : k \in S}
           f == [k \in S |-> <<s, k>>]
<1>1. S \subseteq 1 .. MaxBlocks
  BY StoreFields, StoreAssumption DEF Tables
<1>2. Q \in SUBSET (Store \X (1 .. MaxBlocks))
  BY <1>1
<1>3. ASSUME NEW b \in InTable(m)
      PROVE \E e \in (Store \X (1 .. MaxBlocks)) \ Q :
              On(m, e[1]) /\ e[2] \in DOMAIN Tab(m, e[1]) /\ Tab(m, e[1])[e[2]] = b
  <2>1. PICK e \in Store \X (1 .. MaxBlocks) :
              On(m, e[1]) /\ e[2] \in DOMAIN Tab(m, e[1]) /\ Tab(m, e[1])[e[2]] = b
    BY <1>3, InTablePlace
  <2>2. CASE e \notin Q
    BY <2>1, <2>2
  <2>3. CASE e \in Q
    <3>1. PICK k \in S : e = <<s, k>>
      BY <2>3
    <3>2. b \in Block /\ m.block[b].refcnt > 1 /\ b = Tab(m, s)[k] /\ k \in DOMAIN Tab(m, s)
      BY <2>1, <3>1 DEF InTable
    <3>3. Cardinality(Users(m, b)) > 1 /\ IsFiniteSet(Users(m, b))
      BY <3>2, UserCounts DEF BlocksCounted
    <3>4. \E t \in Users(m, b) : t # s
      <4>1. SUFFICES ASSUME Users(m, b) \subseteq {s} PROVE FALSE
        OBVIOUS
      <4>2. Users(m, b) \in SUBSET {s} /\ IsFiniteSet({s}) /\ Cardinality({s}) = 1
        BY <4>1, FS_Singleton
      <4>3. Cardinality(Users(m, b)) <= 1
        BY <4>2, FS_Subset
      <4> QED
        BY <4>3, <3>3, FS_CardinalityType
    <3>9. PICK t \in Store : t # s /\ On(m, t) /\ \E i \in DOMAIN Tab(m, t) : Tab(m, t)[i] = b
      BY <3>4 DEF Users, Range
    <3>5. PICK j \in DOMAIN Tab(m, t) : t # s /\ On(m, t) /\ Tab(m, t)[j] = b
      BY <3>9
    <3>6. j \in 1 .. MaxBlocks
      BY <3>5, StoreFields, StoreAssumption DEF Tables
    <3>7. <<t, j>> \in Store \X (1 .. MaxBlocks) /\ <<t, j>>[1] = t /\ <<t, j>>[2] = j /\ <<t, j>> \notin Q
      BY <3>5, <3>6
    <3> QED
      BY <3>5, <3>7
  <2> QED
    BY <2>2, <2>3
<1>4. IsFiniteSet(S)
  <2>1. IsFiniteSet(1 .. MaxBlocks)
    BY StoreAssumption, FS_Interval
  <2> QED
    BY <1>1, <2>1, FS_Subset
<1>5. f \in [S -> Q] /\ (\A x, y \in S : f[x] = f[y] => x = y) /\ \A z \in Q : \E x \in S : f[x] = z
  OBVIOUS
<1> HIDE DEF Q, f
<1>6. Cardinality(Q) <= Cardinality(Free(m)) /\ IsFiniteSet(Free(m))
  BY <1>2, <1>3, RoomForBlocks
<1>7. Cardinality(Q) = Cardinality(S)
  BY <1>4, <1>5, ImageSize
<1> QED
  BY <1>4, <1>6, <1>7, InjectionExists

(* There is a value that nothing refers to. *)
LEMMA FreshOK ==
  ASSUME NEW m, NEW H, Good(m, H)
  PROVE  FreshVal(m) \in Val /\ m.value[FreshVal(m)].refcnt = 0
<1> DEFINE U == {v \in Val : m.value[v].refcnt > 0}
           L == InTable(m) \X Ofs
           W == L \cup H
           holds(w, v) == (w \in L /\ At(m, w[1], w[2]).value = v) \/ (w \in H /\ w \notin L /\ w[3] = v)
           f == [v \in U |-> CHOOSE w \in W : holds(w, v)]
<1>1. m \in Memory /\ Tables(m) /\ BlocksCounted(m) /\ FreeEmpty(m) /\ ValuesCounted(m, H) /\ Buffers(H)
  BY DEF Good
<1>2. H \cap L = {}
  <2>1. ASSUME NEW w \in H, w \in L PROVE FALSE
    <3>1. w \in {"inv", "diff"} \X Addr \X Val
      BY <1>1, <2>1 DEF Buffers
    <3>2. PICK b \in InTable(m), o \in Ofs : w = <<b, o>>
      BY <2>1
    <3> QED
      BY <3>1, <3>2
  <2> QED
    BY <2>1
<1>3. ASSUME NEW v \in U PROVE \E w \in W : holds(w, v)
  <2>1. v \in Val /\ m.value[v].refcnt = Cardinality(Pointers(m, v)) + Cardinality(Records(H, v))
    BY <1>1 DEF ValuesCounted
  <2>2. IsFiniteSet(Pointers(m, v)) /\ IsFiniteSet(Records(H, v))
    <3>1. Pointers(m, v) \in SUBSET (Block \X Ofs) /\ Records(H, v) \in SUBSET H
      BY DEF Pointers, Records
    <3> QED
      BY <3>1, <1>1, FiniteSets, FS_Subset DEF Buffers
  <2>3. Pointers(m, v) # {} \/ Records(H, v) # {}
    <3>1. SUFFICES ASSUME Pointers(m, v) = {}, Records(H, v) = {} PROVE FALSE
      OBVIOUS
    <3>2. Cardinality(Pointers(m, v)) = 0 /\ Cardinality(Records(H, v)) = 0
      BY <3>1, FS_EmptySet
    <3> QED
      BY <3>2, <2>1
  <2>4. CASE Pointers(m, v) # {}
    <3>1. PICK c \in Block \X Ofs : At(m, c[1], c[2]).value = v
      BY <2>4 DEF Pointers
    <3>2. c[1] \in Block /\ c[2] \in Ofs /\ c = <<c[1], c[2]>>
      BY <3>1
    <3>3. v # NoVal
      BY <2>1, StoreAssumption
    <3>4. m.block[c[1]].refcnt # 0
      BY <1>1, <3>1, <3>2, <3>3 DEF FreeEmpty
    <3>5. c[1] \in InTable(m)
      BY <1>1, <3>2, <3>4, BlockFields DEF InTable
    <3> QED
      BY <3>1, <3>2, <3>5
  <2>5. CASE Records(H, v) # {}
    BY <2>5, <1>2 DEF Records
  <2> QED
    BY <2>3, <2>4, <2>5
<1>4. f \in [U -> W] /\ \A v \in U : holds(f[v], v)
  BY <1>3
<1>5. \A u, v \in U : f[u] = f[v] => u = v
  BY <1>2, <1>4, SMTT(30)
<1>6. Cardinality(InTable(m)) <= Cardinality(Store) * MaxBlocks /\ IsFiniteSet(InTable(m))
  <2>1. {} \in SUBSET (Store \X (1 .. MaxBlocks))
    OBVIOUS
  <2>2. \A b \in InTable(m) : \E c \in (Store \X (1 .. MaxBlocks)) \ {} :
            On(m, c[1]) /\ c[2] \in DOMAIN Tab(m, c[1]) /\ Tab(m, c[1])[c[2]] = b
    BY <1>1, InTablePlace
  <2> QED
    BY <1>1, <2>1, <2>2, RoomForBlocks
<1>7. IsFiniteSet(L) /\ Cardinality(L) = Cardinality(InTable(m)) * NSlots
  BY <1>6, FiniteSets, FS_Product
<1>8. IsFiniteSet(H) /\ Cardinality(H) <= MaxHeld
  BY <1>1 DEF Buffers
<1> HIDE DEF U, L, W, f
<1>9. IsFiniteSet(W) /\ Cardinality(W) = Cardinality(L) + Cardinality(H)
  BY <1>2, <1>7, <1>8, Parts DEF W
<1>10. f \in Injection(U, W)
  BY <1>4, <1>5 DEF Injection, IsInjective
<1>11. IsFiniteSet(U) /\ Cardinality(U) <= Cardinality(W)
  BY <1>9, <1>10, FS_Injection
<1>12. Cardinality(W) <= Cardinality(Store) * MaxBlocks * NSlots + MaxHeld
  <2>1. /\ Cardinality(InTable(m)) \in Nat /\ Cardinality(Store) * MaxBlocks \in Nat /\ NSlots \in Nat
        /\ MaxHeld \in Nat /\ Cardinality(H) \in Nat /\ Cardinality(L) \in Nat
    BY <1>6, <1>7, <1>8, StoreAssumption, FS_CardinalityType
  <2>2. PICK x, y : x = Cardinality(InTable(m)) /\ y = Cardinality(Store) * MaxBlocks
    OBVIOUS
  <2>3. x * NSlots <= y * NSlots
    BY <1>6, <2>1, <2>2
  <2> QED
    BY <2>1, <2>2, <2>3, <1>7, <1>8, <1>9
<1>13. Cardinality(U) < Cardinality(Val)
  <2>1. Cardinality(U) \in Nat /\ Cardinality(W) \in Nat /\ Cardinality(Val) \in Nat
    BY <1>9, <1>11, FiniteSets, FS_CardinalityType
  <2>2. PICK z : z = Cardinality(Store) * MaxBlocks * NSlots + MaxHeld /\ z \in Nat
    <3>1. Cardinality(Store) \in Nat
      BY FiniteSets, FS_CardinalityType
    <3> QED
      BY <3>1, StoreAssumption
  <2>3. Cardinality(W) <= z /\ z < Cardinality(Val)
    BY <2>2, <1>12, RoomAssumption
  <2> QED
    BY <2>1, <2>2, <2>3, <1>11
<1>14. U # Val
  <2>1. SUFFICES ASSUME U = Val PROVE FALSE
    OBVIOUS
  <2>2. Cardinality(Val) \in Nat
    BY FiniteSets, FS_CardinalityType
  <2> QED
    BY <2>1, <2>2, <1>13
<1>15. \E v \in Val : m.value[v].refcnt = 0
  <2>1. \A v \in Val : m.value[v].refcnt = 0 \/ m.value[v].refcnt > 0
    BY <1>1, ValueFields
  <2>2. PICK v \in Val : v \notin U
    BY <1>14 DEF U
  <2> QED
    BY <2>1, <2>2 DEF U
<1> QED
  BY <1>15 DEF FreshVal

-----------------------------------------------------------------------------
(***************************************************************************)
(* _cesk_store_getblock_rw.                                                *)
(***************************************************************************)
(* n is m with the blocks S of store s copied to the free blocks f *)
Copies(m, n, s, S, f) ==
  /\ S \subseteq {k \in DOMAIN Tab(m, s) : m.block[Tab(m, s)[k]].refcnt > 1}
  /\ f \in [S -> Free(m)] /\ \A j, k \in S : f[j] = f[k] => j = k
  /\ n \in Memory
  /\ \A t \in Store \ {s} : n.store[t] = m.store[t]
  /\ n.store[s] = [m.store[s] EXCEPT !.blocks = Tab(n, s)] /\ On(n, s)
  /\ DOMAIN Tab(n, s) = DOMAIN Tab(m, s)
  /\ \A k \in DOMAIN Tab(m, s) : Tab(n, s)[k] = IF k \in S THEN f[k] ELSE Tab(m, s)[k]
  /\ \A k \in S : /\ n.block[f[k]] = [m.block[Tab(m, s)[k]] EXCEPT !.refcnt = 1]
                  /\ n.block[Tab(m, s)[k]] = [m.block[Tab(m, s)[k]] EXCEPT !.refcnt = @ - 1]
  /\ \A b \in Block : (\A k \in S : b # f[k] /\ b # Tab(m, s)[k]) => n.block[b] = m.block[b]
  /\ \A v \in Val : n.value[v] =
       [m.value[v] EXCEPT !.refcnt = @ + Cardinality({c \in S \X Ofs : At(m, Tab(m, s)[c[1]], c[2]).value = v})]

(* What Private computes. *)
LEMMA PrivateCopies ==
  ASSUME NEW m \in Memory, Tables(m), BlocksCounted(m), NEW s \in Store, On(m, s),
         NEW K \in SUBSET DOMAIN Tab(m, s)
  PROVE  \E f : Copies(m, Private(m, s, K), s, {k \in K : m.block[Tab(m, s)[k]].refcnt > 1}, f)
<1> DEFINE S == {k \in K : m.block[Tab(m, s)[k]].refcnt > 1}
           n == Private(m, s, K)
           cp(v) == Cardinality({c \in S \X Ofs : At(m, Tab(m, s)[c[1]], c[2]).value = v})
<1>1. S \in SUBSET {k \in DOMAIN Tab(m, s) : m.block[Tab(m, s)[k]].refcnt > 1}
  OBVIOUS
<1>2. \E f \in [S -> Free(m)] : \A j, k \in S : f[j] = f[k] => j = k
  BY <1>1, FreeCopies, Zenon
<1>3. CASE S = {}
  <2>1. n = m
    BY <1>3, Zenon DEF Private, Tab
  <2>2. PICK f : f \in [S -> Free(m)]
    BY <1>2
  <2>3. \A v \in Val : cp(v) = 0
    <3>1. ASSUME NEW v \in Val PROVE {c \in S \X Ofs : At(m, Tab(m, s)[c[1]], c[2]).value = v} = {}
      BY <1>3
    <3> QED
      BY <3>1, FS_EmptySet
  <2>4. \A v \in Val : n.value[v] = [m.value[v] EXCEPT !.refcnt = @ + cp(v)]
    BY <2>1, <2>3, ValueFields DEF Value
  <2>5. n.store[s] = [m.store[s] EXCEPT !.blocks = Tab(n, s)]
    BY <2>1, StoreFields DEF Tab, Table
  <2>6. \A k \in DOMAIN Tab(m, s) : Tab(n, s)[k] = IF k \in S THEN f[k] ELSE Tab(m, s)[k]
    BY <2>1, <1>3
  <2> QED
    BY <1>1, <1>3, <2>1, <2>2, <2>4, <2>5, <2>6, Zenon DEF Copies
<1>4. CASE S # {}
  <2> DEFINE f == CHOOSE f \in [S -> Free(m)] : \A j, k \in S : f[j] = f[k] => j = k
             T == [k \in DOMAIN Tab(m, s) |-> IF k \in S THEN f[k] ELSE Tab(m, s)[k]]
             shared == {Tab(m, s)[k] : k \in S}
             from(b) == CHOOSE k \in S : f[k] = b
             B == [b \in Block |->
                     IF b \in Range(f) THEN [m.block[Tab(m, s)[from(b)]] EXCEPT !.refcnt = 1]
                     ELSE IF b \in shared THEN [m.block[b] EXCEPT !.refcnt = @ - 1] ELSE m.block[b]]
             V == [v \in Val |-> [m.value[v] EXCEPT !.refcnt = @ + cp(v)]]
  <2>1. f \in [S -> Free(m)] /\ \A j, k \in S : f[j] = f[k] => j = k
    BY <1>2
  <2>2. n = [m EXCEPT !.store[s].blocks = T, !.block = B, !.value = V]
    BY <1>4, Zenon DEF Private, Tab, Free, At
  <2> HIDE DEF f, n
  <2>22. DOMAIN B = Block /\ \A b \in Block :
           B[b] = IF b \in Range(f) THEN [m.block[Tab(m, s)[from(b)]] EXCEPT !.refcnt = 1]
                  ELSE IF b \in shared THEN [m.block[b] EXCEPT !.refcnt = @ - 1] ELSE m.block[b]
    BY Zenon
  <2>7. \A k \in S : f[k] \in Range(f) /\ from(f[k]) = k
    BY <2>1 DEF Range
  <2> HIDE DEF B, V, T, from
  <2>3. Free(m) \subseteq Block /\ \A k \in S : k \in DOMAIN Tab(m, s) /\ Tab(m, s)[k] \in Block
    BY StoreFields DEF Free
  <2>4. T \in Seq(Block) /\ DOMAIN T = DOMAIN Tab(m, s)
    <3>1. T \in [1 .. Len(Tab(m, s)) -> Block] /\ Len(Tab(m, s)) \in Nat
      BY <2>1, <2>3, StoreFields DEF T
    <3> QED
      BY <3>1, StoreFields
  <2>5. \A v \in Val : cp(v) \in Nat
    <3>1. S \subseteq 1 .. MaxBlocks
      BY StoreFields, StoreAssumption DEF Tables
    <3>2. IsFiniteSet(1 .. MaxBlocks)
      BY FiniteSets
    <3>3. IsFiniteSet(S)
      BY <3>1, <3>2, FS_Subset
    <3>4. IsFiniteSet(S \X Ofs)
      BY <3>3, FiniteSets, FS_Product
    <3> HIDE DEF S
    <3>5. ASSUME NEW v \in Val PROVE {c \in S \X Ofs : At(m, Tab(m, s)[c[1]], c[2]).value = v} \in SUBSET (S \X Ofs)
      OBVIOUS
    <3> QED
      BY <3>4, <3>5, FS_Subset, FS_CardinalityType
  <2>6. V \in [Val -> Value]
    BY <2>5, ValueFields DEF Value, V
  <2>8. \A b \in Range(f) : \E k \in S : f[k] = b
    BY <2>1 DEF Range
  <2>9. \A k \in S : m.block[Tab(m, s)[k]] \in StoreCell /\ m.block[Tab(m, s)[k]].refcnt > 1
    BY <2>3, BlockFields
  <2>10. B \in [Block -> StoreCell]
    <3>1. ASSUME NEW b \in Block PROVE B[b] \in StoreCell
      <4>1. CASE b \in Range(f)
        <5>1. PICK k \in S : f[k] = b
          BY <2>8, <4>1
        <5>2. B[b] = [m.block[Tab(m, s)[k]] EXCEPT !.refcnt = 1]
          BY <4>1, <5>1, <2>7, <2>22
        <5> QED
          BY <5>2, <2>9 DEF StoreCell
      <4>2. CASE b \notin Range(f) /\ b \in shared
        <5>1. B[b] = [m.block[b] EXCEPT !.refcnt = @ - 1]
          BY <4>2, <2>22
        <5>2. m.block[b] \in StoreCell /\ m.block[b].refcnt > 1
          BY <4>2, <2>9
        <5> QED
          BY <5>1, <5>2 DEF StoreCell
      <4>3. CASE b \notin Range(f) /\ b \notin shared
        BY <4>3, <2>22, BlockFields
      <4> QED
        BY <4>1, <4>2, <4>3
    <3> HIDE DEF shared
    <3> QED
      BY <3>1 DEF B
  <2>11. m.store \in [Store -> Table \cup {NoStore}] /\ m.store[s] \in Table
    BY StoreFields DEF Memory
  <2>12. /\ n.store = [m.store EXCEPT ![s] = [m.store[s] EXCEPT !.blocks = T]]
         /\ n.block = B /\ n.value = V
    BY <2>2 DEF Memory
  <2>13. [m.store[s] EXCEPT !.blocks = T] \in Table
    BY <2>4, <2>11 DEF Table
  <2>14. n \in Memory
    <3>1. n.store \in [Store -> Table \cup {NoStore}]
      BY <2>11, <2>12, <2>13
    <3>2. n = [store |-> n.store, block |-> n.block, value |-> n.value]
      BY <2>2 DEF Memory
    <3> QED
      BY <3>1, <3>2, <2>12, <2>6, <2>10 DEF Memory
  <2>15. n.store[s] = [m.store[s] EXCEPT !.blocks = T] /\ \A t \in Store \ {s} : n.store[t] = m.store[t]
    BY <2>11, <2>12
  <2>16. Tab(n, s) = T /\ On(n, s)
    BY <2>11, <2>13, <2>15, RoomAssumption DEF Tab, On, Table
  <2>17. ASSUME NEW k \in S
         PROVE  /\ n.block[f[k]] = [m.block[Tab(m, s)[k]] EXCEPT !.refcnt = 1]
                /\ n.block[Tab(m, s)[k]] = [m.block[Tab(m, s)[k]] EXCEPT !.refcnt = @ - 1]
    <3>1. f[k] \in Block /\ f[k] \in Range(f)
      BY <2>1, <2>3, <2>7
    <3>2. Tab(m, s)[k] \notin Range(f)
      <4>1. \A b \in Range(f) : m.block[b].refcnt = 0
        BY <2>1, <2>8 DEF Free
      <4> QED
        BY <4>1, <2>9
    <3> QED
      BY <3>1, <3>2, <2>3, <2>7, <2>12, <2>22
  <2>18. \A b \in Block : (\A k \in S : b # f[k] /\ b # Tab(m, s)[k]) => n.block[b] = m.block[b]
    BY <2>8, <2>12, <2>22
  <2>19. \A v \in Val : n.value[v] = [m.value[v] EXCEPT !.refcnt = @ + cp(v)]
    BY <2>12 DEF V
  <2>20. \A k \in DOMAIN Tab(m, s) : Tab(n, s)[k] = IF k \in S THEN f[k] ELSE Tab(m, s)[k]
    BY <2>16 DEF T
  <2>21. Copies(m, n, s, S, f)
    BY <1>1, <2>1, <2>4, <2>14, <2>15, <2>16, <2>17, <2>18, <2>19, <2>20, Zenon DEF Copies
  <2> QED
    BY <2>21 DEF n
<1> QED
  BY <1>3, <1>4

(* A copy of blocks keeps the memory consistent: what the copied slots     *)
(* point to is counted once more.                                          *)
LEMMA CopiesGood ==
  ASSUME NEW m, NEW H, Good(m, H), NEW s \in Store, On(m, s), NEW n, NEW S, NEW f, Copies(m, n, s, S, f)
  PROVE  Good(n, H)
<1> DEFINE T == Tab(m, s)
<1>1. m \in Memory /\ Tables(m) /\ BlocksCounted(m) /\ FreeEmpty(m) /\ InUse(m)
      /\ ValuesCounted(m, H) /\ Buffers(H)
  BY DEF Good
<1>2. /\ n \in Memory /\ S \subseteq DOMAIN T /\ \A k \in S : m.block[T[k]].refcnt > 1
      /\ \A k \in S : f[k] \in Block /\ m.block[f[k]].refcnt = 0
      /\ \A j, k \in S : f[j] = f[k] => j = k
      /\ DOMAIN Tab(n, s) = DOMAIN T
      /\ \A k \in DOMAIN T : Tab(n, s)[k] = IF k \in S THEN f[k] ELSE T[k]
      /\ \A b \in Block : (\A k \in S : b # f[k] /\ b # T[k]) => n.block[b] = m.block[b]
  BY SMTT(30) DEF Copies, Free
<1>3. /\ On(n, s) /\ \A t \in Store \ {s} : On(n, t) = On(m, t) /\ Tab(n, t) = Tab(m, t)
  <2>1. On(n, s) /\ \A t \in Store \ {s} : n.store[t] = m.store[t]
    BY Zenon DEF Copies
  <2> QED
    BY <2>1, Zenon DEF On, Tab
<1>4. \A k \in DOMAIN T : T[k] \in Block /\ m.block[T[k]].refcnt > 0 /\ m.block[T[k]].refcnt \in Nat
  BY <1>1, StoreFields, UserCounts
<1>5. \A k \in S : /\ n.block[f[k]].refcnt = 1 /\ n.block[T[k]].refcnt = m.block[T[k]].refcnt - 1
                   /\ \A o \in Ofs : At(n, f[k], o) = At(m, T[k], o) /\ At(n, T[k], o) = At(m, T[k], o)
  <2> SUFFICES ASSUME NEW k \in S
               PROVE  /\ n.block[f[k]].refcnt = 1 /\ n.block[T[k]].refcnt = m.block[T[k]].refcnt - 1
                      /\ \A o \in Ofs : At(n, f[k], o) = At(m, T[k], o) /\ At(n, T[k], o) = At(m, T[k], o)
    OBVIOUS
  <2>1. m.block[T[k]] \in StoreCell
    BY <1>1, <1>2, <1>4, BlockFields
  <2>2. /\ n.block[f[k]] = [m.block[T[k]] EXCEPT !.refcnt = 1]
        /\ n.block[T[k]] = [m.block[T[k]] EXCEPT !.refcnt = @ - 1]
    BY DEF Copies
  <2> QED
    BY <2>1, <2>2 DEF StoreCell, At
<1>6. \A j, k \in DOMAIN T : T[j] = T[k] => j = k
  BY <1>1 DEF Tables
<1>7. Tables(n)
  <2>1. ASSUME NEW j \in DOMAIN T, NEW k \in DOMAIN T, Tab(n, s)[j] = Tab(n, s)[k] PROVE j = k
    <3>1. CASE j \in S /\ k \in S
      BY <3>1, <2>1, <1>2
    <3>2. CASE j \notin S /\ k \notin S
      BY <3>2, <2>1, <1>2, <1>6
    <3>3. CASE j \in S /\ k \notin S
      BY <3>3, <2>1, <1>2, <1>4
    <3>4. CASE j \notin S /\ k \in S
      BY <3>4, <2>1, <1>2, <1>4
    <3> QED
      BY <3>1, <3>2, <3>3, <3>4
  <2>2. Len(Tab(n, s)) = Len(T)
    <3>1. /\ Len(T) \in Nat /\ DOMAIN T = 1 .. Len(T)
          /\ Len(Tab(n, s)) \in Nat /\ DOMAIN Tab(n, s) = 1 .. Len(Tab(n, s))
      BY <1>1, <1>2, <1>3, StoreFields, SMTT(30)
    <3>2. PICK x \in Nat, y \in Nat : x = Len(T) /\ y = Len(Tab(n, s))
      BY <3>1, ZenonT(40)
    <3>3. 1 .. x = 1 .. y
      BY <3>1, <3>2, <1>2, Zenon
    <3>4. ~ (x < y) /\ ~ (y < x)
      <4>1. (x < y => y \in 1 .. y /\ y \notin 1 .. x) /\ (y < x => x \in 1 .. x /\ x \notin 1 .. y)
        OBVIOUS
      <4> QED
        BY <3>3, <4>1
    <3> QED
      BY <3>2, <3>4
  <2> QED
    BY <1>1, <1>2, <1>3, <2>1, <2>2 DEF Tables
<1>8. BlocksCounted(n)
  <2> SUFFICES ASSUME NEW b \in Block PROVE n.block[b].refcnt = Cardinality(Users(n, b))
    BY DEF BlocksCounted
  <2>1. m.block[b].refcnt = Cardinality(Users(m, b)) /\ IsFiniteSet(Users(m, b))
    BY <1>1, UserCounts DEF BlocksCounted
  <2>2. \A t \in Store \ {s} : t \in Users(n, b) <=> t \in Users(m, b)
    BY <1>3 DEF Users
  <2>3. s \in Users(n, b) <=> \E k \in DOMAIN T : Tab(n, s)[k] = b
    BY <1>2, <1>3 DEF Users, Range
  <2>4. s \in Users(m, b) <=> \E k \in DOMAIN T : T[k] = b
    BY DEF Users, Range
  <2>5. Users(n, b) \subseteq Store /\ Users(m, b) \subseteq Store
    BY DEF Users
  <2>6. CASE \E k \in S : b = f[k]
    <3>1. PICK k \in S : b = f[k]
      BY <2>6
    <3>2. Users(m, b) = {}
      BY <3>1, <2>1, <1>2, FS_EmptySet
    <3>3. Users(n, b) = {s}
      BY <3>1, <3>2, <2>2, <2>3, <2>5, <1>2
    <3> QED
      BY <3>1, <3>3, <1>5, FS_Singleton
  <2>7. CASE \E k \in S : b = T[k]
    <3>1. PICK k \in S : b = T[k]
      BY <2>7
    <3>2. s \notin Users(n, b)
      <4>1. ASSUME NEW j \in DOMAIN T PROVE Tab(n, s)[j] # b
        <5>1. CASE j \in S
          BY <5>1, <3>1, <1>2
        <5>2. CASE j \notin S
          BY <5>2, <3>1, <1>2, <1>6
        <5> QED
          BY <5>1, <5>2
      <4> QED
        BY <4>1, <2>3
    <3>3. s \in Users(m, b)
      BY <3>1, <2>4, <1>2
    <3>4. Users(n, b) = Users(m, b) \ {s}
      BY <3>2, <3>3, <2>2, <2>5
    <3>5. Cardinality(Users(m, b) \ {s}) = Cardinality(Users(m, b)) - 1
      BY <2>1, <3>3, FS_RemoveElement
    <3> QED
      BY <3>1, <3>4, <3>5, <2>1, <1>5
  <2>8. CASE \A k \in S : b # f[k] /\ b # T[k]
    <3>1. n.block[b] = m.block[b]
      BY <2>8, <1>2
    <3>2. s \in Users(n, b) <=> s \in Users(m, b)
      BY <2>3, <2>4, <2>8, <1>2
    <3>3. Users(n, b) = Users(m, b)
      BY <3>2, <2>2, <2>5
    <3> QED
      BY <3>1, <3>3, <2>1
  <2> QED
    BY <2>6, <2>7, <2>8
<1>9. FreeEmpty(n)
  <2> SUFFICES ASSUME NEW b \in Block, n.block[b].refcnt = 0 PROVE \A o \in Ofs : At(n, b, o).value = NoVal
    BY DEF FreeEmpty
  <2>1. \A k \in S : b # f[k] /\ b # T[k]
    BY <1>2, <1>4, <1>5
  <2>2. n.block[b] = m.block[b]
    BY <2>1, <1>2
  <2> QED
    BY <2>2, <1>1 DEF FreeEmpty, At
<1>10. InUse(n)
  <2> SUFFICES ASSUME NEW b \in Block, NEW o \in Ofs, At(n, b, o).value # NoVal
               PROVE  At(n, b, o).param # NoParam
    BY DEF InUse
  <2>1. \E c \in Block : At(n, b, o) = At(m, c, o)
    <3>1. CASE \E k \in S : b = f[k] \/ b = T[k]
      BY <3>1, <1>2, <1>4, <1>5
    <3>2. CASE \A k \in S : b # f[k] /\ b # T[k]
      BY <3>2, <1>2 DEF At
    <3> QED
      BY <3>1, <3>2
  <2> QED
    BY <2>1, <1>1 DEF InUse
<1>11. ValuesCounted(n, H)
  <2> SUFFICES ASSUME NEW v \in Val
               PROVE  n.value[v].refcnt = Cardinality(Pointers(n, v)) + Cardinality(Records(H, v))
    BY DEF ValuesCounted
  <2> DEFINE C == {c \in S \X Ofs : At(m, T[c[1]], c[2]).value = v}
             P == {c \in Block \X Ofs : At(n, c[1], c[2]).value = v /\ \E k \in S : c[1] = f[k]}
             g == [c \in C |-> <<f[c[1]], c[2]>>]
  <2>1. n.value[v].refcnt = m.value[v].refcnt + Cardinality(C)
    <3>1. n.value[v] = [m.value[v] EXCEPT !.refcnt = @ + Cardinality(C)]
      BY DEF Copies
    <3> HIDE DEF C
    <3> QED
      BY <3>1, <1>1, ValueFields DEF Value
  <2>2. m.value[v].refcnt = Cardinality(Pointers(m, v)) + Cardinality(Records(H, v))
    BY <1>1 DEF ValuesCounted
  <2>3. v # NoVal
    BY StoreAssumption
  <2>4. Pointers(n, v) = Pointers(m, v) \cup P
    <3>1. ASSUME NEW c \in Block \X Ofs, ~ \E k \in S : c[1] = f[k]
          PROVE  At(n, c[1], c[2]) = At(m, c[1], c[2])
      <4>1. c[1] \in Block /\ c[2] \in Ofs
        OBVIOUS
      <4>2. CASE \E k \in S : c[1] = T[k]
        BY <4>1, <4>2, <1>5
      <4>3. CASE ~ \E k \in S : c[1] = T[k]
        <5>1. n.block[c[1]] = m.block[c[1]]
          BY <3>1, <4>1, <4>3, <1>2
        <5> QED
          BY <5>1 DEF At
      <4> QED
        BY <4>2, <4>3
    <3>2. ASSUME NEW c \in Block \X Ofs, \E k \in S : c[1] = f[k]
          PROVE  c \notin Pointers(m, v)
      <4>1. c[1] \in Block /\ c[2] \in Ofs /\ m.block[c[1]].refcnt = 0
        BY <3>2, <1>2
      <4> QED
        BY <4>1, <1>1, <2>3 DEF FreeEmpty, Pointers
    <3> QED
      BY <3>1, <3>2 DEF Pointers
  <2>5. Pointers(m, v) \cap P = {}
    <3>1. ASSUME NEW c \in P PROVE c \notin Pointers(m, v)
      <4>1. c[1] \in Block /\ c[2] \in Ofs /\ m.block[c[1]].refcnt = 0
        BY <1>2
      <4> QED
        BY <4>1, <1>1, <2>3 DEF FreeEmpty, Pointers
    <3> QED
      BY <3>1
  <2>6. IsFiniteSet(C)
    <3>1. S \subseteq 1 .. MaxBlocks
      BY <1>1, <1>2, StoreFields, StoreAssumption DEF Tables
    <3>2. IsFiniteSet(S)
      BY <3>1, FiniteSets, FS_Subset
    <3>3. IsFiniteSet(S \X Ofs)
      BY <3>2, FiniteSets, FS_Product
    <3>4. C \in SUBSET (S \X Ofs)
      OBVIOUS
    <3> QED
      BY <3>3, <3>4, FS_Subset
  <2>7. g \in [C -> P]
    <3>1. ASSUME NEW c \in C PROVE <<f[c[1]], c[2]>> \in P
      <4>1. c[1] \in S /\ c[2] \in Ofs /\ At(m, T[c[1]], c[2]).value = v
        OBVIOUS
      <4>2. f[c[1]] \in Block /\ At(n, f[c[1]], c[2]).value = v
        BY <4>1, <1>2, <1>5
      <4> QED
        BY <4>1, <4>2
    <3> QED
      BY <3>1
  <2>8. \A x, y \in C : g[x] = g[y] => x = y
    <3>1. ASSUME NEW x \in C, NEW y \in C, g[x] = g[y] PROVE x = y
      <4>1. x[1] \in S /\ y[1] \in S /\ x = <<x[1], x[2]>> /\ y = <<y[1], y[2]>>
        OBVIOUS
      <4>2. f[x[1]] = f[y[1]] /\ x[2] = y[2]
        BY <3>1
      <4> QED
        BY <4>1, <4>2, <1>2
    <3> QED
      BY <3>1
  <2>9. \A z \in P : \E x \in C : g[x] = z
    <3>1. ASSUME NEW z \in P PROVE \E x \in C : g[x] = z
      <4>1. z \in Block \X Ofs /\ z = <<z[1], z[2]>> /\ z[2] \in Ofs /\ At(n, z[1], z[2]).value = v
        OBVIOUS
      <4>2. PICK k \in S : z[1] = f[k]
        OBVIOUS
      <4>3. At(m, T[k], z[2]).value = v
        BY <4>1, <4>2, <1>5
      <4>4. <<k, z[2]>> \in C
        BY <4>1, <4>3
      <4>5. g[<<k, z[2]>>] = <<f[k], z[2]>>
        BY <4>4
      <4> QED
        BY <4>1, <4>2, <4>4, <4>5
    <3> QED
      BY <3>1
  <2> HIDE DEF C, P, g
  <2>10. IsFiniteSet(P) /\ Cardinality(P) = Cardinality(C)
    BY <2>6, <2>7, <2>8, <2>9, ImageSize
  <2>11. IsFiniteSet(Pointers(m, v))
    <3>1. Pointers(m, v) \in SUBSET (Block \X Ofs)
      BY DEF Pointers
    <3> QED
      BY <3>1, FiniteSets, FS_Subset
  <2>12. IsFiniteSet(Records(H, v))
    <3>1. Records(H, v) \in SUBSET H /\ IsFiniteSet(H)
      BY <1>1 DEF Records, Buffers
    <3> QED
      BY <3>1, FS_Subset
  <2>13. /\ Cardinality(Pointers(n, v)) = Cardinality(Pointers(m, v)) + Cardinality(P)
         /\ Cardinality(Pointers(m, v)) \in Nat /\ Cardinality(P) \in Nat
    BY <2>4, <2>5, <2>10, <2>11, Parts
  <2>14. Cardinality(Records(H, v)) \in Nat
    BY <2>12, FS_CardinalityType
  <2> QED
    BY <2>1, <2>2, <2>10, <2>13, <2>14
<1> QED
  BY <1>1, <1>2, <1>7, <1>8, <1>9, <1>10, <1>11 DEF Good

(* A step that leaves the slots and values of the other stores alone is    *)
(* not seen there; slots without a value do not matter.                    *)
LEMMA SameIntro ==
  ASSUME NEW m \in Memory, NEW n \in Memory, NEW s \in Store,
         \A t \in Store \ {s} : n.store[t] = m.store[t],
         \A t \in Store \ {s} : On(m, t) => \A k \in DOMAIN Tab(m, t), o \in Ofs :
           LET b == Tab(m, t)[k]
               v == At(m, b, o).value
           IN  /\ At(n, b, o).value = v
               /\ v # NoVal => /\ At(n, b, o).refcnt = At(m, b, o).refcnt
                               /\ At(n, b, o).reuse = At(m, b, o).reuse
                               /\ n.value[v].content = m.value[v].content
  PROVE  Same(m, n, s)
<1> SUFFICES ASSUME NEW t \in Store \ {s}, On(m, t), NEW a \in Addr PROVE Seen(n, t, a) = Seen(m, t, a)
  BY DEF Same
<1>1. n.store[t] = m.store[t] /\ On(n, t)
  BY DEF On
<1>2. Has(n, t, a) <=> Has(m, t, a)
  BY <1>1 DEF Has
<1>3. CASE ~ Has(m, t, a)
  BY <1>2, <1>3 DEF Seen, Alive
<1>4. CASE Has(m, t, a)
  <2>1. PICK k, o : k = BlockNo(a) /\ o = a % NSlots
    OBVIOUS
  <2>2. k \in DOMAIN Tab(m, t) /\ o \in Ofs
    BY <1>4, <2>1, HasFields
  <2>3. PICK b : b = Tab(m, t)[k]
    BY Zenon
  <2>4. SlotOf(m, t, a) = At(m, b, o) /\ SlotOf(n, t, a) = At(n, b, o)
    BY <1>1, <2>1, <2>3, Zenon DEF SlotOf, BlockOf, At, Tab
  <2>5. /\ At(n, b, o).value = At(m, b, o).value
        /\ At(m, b, o).value # NoVal =>
             /\ At(n, b, o).refcnt = At(m, b, o).refcnt
             /\ At(n, b, o).reuse = At(m, b, o).reuse
             /\ n.value[At(m, b, o).value].content = m.value[At(m, b, o).value].content
    BY <2>2, <2>3
  <2> QED
    BY <1>2, <1>4, <2>4, <2>5 DEF Seen, Alive, Content
<1> QED
  BY <1>3, <1>4

LEMMA SameTrans ==
  ASSUME NEW m, NEW n, NEW p, NEW s, Same(m, n, s), Same(n, p, s)
  PROVE  Same(m, p, s)
BY DEF Same, On

LEMMA SameLiving ==
  ASSUME NEW m, NEW n, NEW s, Same(m, n, s), NEW t \in Store \ {s}, On(m, t)
  PROVE  On(n, t) /\ Living(n, t) = Living(m, t)
<1>1. On(n, t)
  BY DEF Same, On
<1>2. ASSUME NEW a \in Addr PROVE Alive(n, t, a) <=> Alive(m, t, a)
  <2>1. Seen(n, t, a) = Seen(m, t, a)
    BY DEF Same
  <2>2. \A x, y, z : <<x, y, z>> # <<>>
    OBVIOUS
  <2> QED
    BY <2>1, <2>2 DEF Seen
<1> QED
  BY <1>1, <1>2 DEF Living

-----------------------------------------------------------------------------
(***************************************************************************)
(* The books.                                                              *)
(***************************************************************************)
(* Entries of different addresses differ. *)
LEMMA EntriesDiffer ==
  ASSUME NEW m, NEW s, NEW a, NEW c, EntryOf(m, s, a) = EntryOf(m, s, c)
  PROVE  a = c
BY DEF EntryOf

(* A step that a frame does not see leaves its hash code right. *)
LEMMA SameHashed ==
  ASSUME NEW m, NEW n, NEW s, Same(m, n, s), NEW t \in Store \ {s}, On(m, t), Hashed(m, t, {})
  PROVE  Hashed(n, t, {})
<1>1. On(n, t) /\ Living(n, t) = Living(m, t) /\ n.store[t] = m.store[t]
  <2>1. On(n, t) /\ Living(n, t) = Living(m, t)
    BY SameLiving
  <2> QED
    BY <2>1 DEF Same
<1>2. ASSUME NEW a \in Living(m, t) PROVE EntryOf(n, t, a) = EntryOf(m, t, a)
  <2>1. Alive(m, t, a) /\ Alive(n, t, a) /\ a \in Addr
    BY <1>1, <1>2 DEF Living
  <2>2. Seen(n, t, a) = Seen(m, t, a)
    BY <2>1 DEF Same
  <2>3. Content(n, t, a) = Content(m, t, a) /\ SlotOf(n, t, a).reuse = SlotOf(m, t, a).reuse
    BY <2>1, <2>2 DEF Seen
  <2> QED
    BY <2>3 DEF EntryOf
<1>3. {EntryOf(n, t, a) : a \in Living(n, t) \ {}} = {EntryOf(m, t, a) : a \in Living(m, t) \ {}}
  BY <1>1, <1>2
<1> QED
  BY <1>1, <1>3 DEF Hashed

(* The relocated slots of a block are finitely many. *)
LEMMA RelocatedSizes ==
  ASSUME NEW m, NEW b, NEW E
  PROVE  /\ Relocated(m, b) \subseteq Ofs /\ Outside(m, b, E) \subseteq Relocated(m, b)
         /\ IsFiniteSet(Relocated(m, b)) /\ IsFiniteSet(Outside(m, b, E))
         /\ Cardinality(Relocated(m, b)) \in Nat /\ Cardinality(Outside(m, b, E)) \in Nat
         /\ Cardinality(Outside(m, b, E)) <= Cardinality(Relocated(m, b))
         /\ Outside(m, b, {}) = Relocated(m, b)
<1>1. Relocated(m, b) \subseteq Ofs /\ Outside(m, b, E) \subseteq Relocated(m, b)
  BY DEF Relocated, Filled, Outside
<1>2. IsFiniteSet(Relocated(m, b)) /\ IsFiniteSet(Outside(m, b, E))
  BY <1>1, FiniteSets, FS_Subset
<1>3. Outside(m, b, {}) = Relocated(m, b)
  BY DEF Outside
<1> QED
  BY <1>1, <1>2, <1>3, FS_CardinalityType, FS_Subset

(* What a block claims covers the blocks that are like it. *)
LEMMA CoveredClaimed ==
  ASSUME NEW m \in Memory, NEW n \in Memory, NEW s, NEW b \in Block, Covered(m, n, s, b),
         NEW E, NEW F, Claimed(m, E),
         \A c \in Block : ~ Mine(m, s, c) => \A o \in Ofs : <<c, o>> \notin E,
         \A o \in Ofs : <<b, o>> \in E => <<b, o>> \in F
  PROVE  Cardinality(Outside(n, b, F)) <= n.block[b].num_reloc
<1>1. CASE Relocated(n, b) = {} /\ n.block[b].num_reloc = 0
  <2>1. Outside(n, b, F) = {}
    BY <1>1, RelocatedSizes
  <2>2. Cardinality(Outside(n, b, F)) = 0
    BY <2>1, FS_EmptySet
  <2> QED
    BY <2>2, <1>1
<1>2. ASSUME NEW c \in Block, c = b \/ ~ Mine(m, s, c),
             Relocated(n, b) \subseteq Relocated(m, c), n.block[b].num_reloc = m.block[c].num_reloc
      PROVE  Cardinality(Outside(n, b, F)) <= n.block[b].num_reloc
  <2>1. Outside(n, b, F) \subseteq Outside(m, c, E)
    <3> SUFFICES ASSUME NEW o \in Outside(n, b, F) PROVE o \in Outside(m, c, E)
      OBVIOUS
    <3>1. o \in Relocated(n, b) /\ <<b, o>> \notin F /\ o \in Ofs
      BY RelocatedSizes DEF Outside
    <3>2. <<c, o>> \notin E
      BY <3>1, <1>2
    <3> QED
      BY <3>1, <3>2, <1>2 DEF Outside
  <2>2. Cardinality(Outside(n, b, F)) <= Cardinality(Outside(m, c, E))
    BY <2>1, RelocatedSizes, FS_Subset
  <2>3. Cardinality(Outside(m, c, E)) <= m.block[c].num_reloc
    BY DEF Claimed
  <2>4. /\ Cardinality(Outside(n, b, F)) \in Nat /\ Cardinality(Outside(m, c, E)) \in Nat
        /\ m.block[c].num_reloc \in Int
    BY RelocatedSizes, BlockFields
  <2> QED
    BY <2>2, <2>3, <2>4, <1>2
<1> QED
  BY <1>1, <1>2 DEF Covered

(* The entries of what is left. *)
LEMMA EntriesLeft ==
  ASSUME NEW m, NEW n, NEW s, NEW D, NEW A, D \subseteq Living(m, s) \ A, Ledger(m, n, s, D), Hashed(m, s, A)
  PROVE  Hashed(n, s, A)
<1>1. m.store[s].hash = {EntryOf(m, s, a) : a \in Living(m, s) \ A}
  BY DEF Hashed
<1>2. n.store[s].hash = Xor(m.store[s].hash, {EntryOf(m, s, d) : d \in D})
  BY DEF Ledger
<1>3. \A a, d : EntryOf(m, s, a) = EntryOf(m, s, d) => a = d
  BY EntriesDiffer
<1>4. n.store[s].hash = {EntryOf(m, s, a) : a \in (Living(m, s) \ A) \ D}
  BY <1>1, <1>2, <1>3 DEF Xor
<1>5. Living(n, s) \ A = (Living(m, s) \ A) \ D
  BY DEF Ledger
<1>6. \A a \in Living(n, s) : EntryOf(n, s, a) = EntryOf(m, s, a)
  BY DEF Ledger
<1>7. \A a \in Living(n, s) \ A : EntryOf(n, s, a) = EntryOf(m, s, a)
  BY <1>6
<1>8. {EntryOf(n, s, a) : a \in Living(n, s) \ A} = {EntryOf(m, s, a) : a \in Living(n, s) \ A}
  BY <1>7
<1> QED
  BY <1>4, <1>5, <1>8 DEF Hashed

(* Steps that only lose values keep tidy books. *)
LEMMA TidyKept ==
  ASSUME NEW m \in Memory, NEW n \in Memory, NEW s \in Store, On(m, s), Same(m, n, s),
         NEW D \in SUBSET Living(m, s), Ledger(m, n, s, D), Tidy(m)
  PROVE  Tidy(n)
<1>1. Idle(n, {})
  BY DEF Tidy, Ledger, Idle
<1>2. Claimed(n, {})
  <2>1. \A b \in Block : Cardinality(Outside(n, b, {})) <= n.block[b].num_reloc
    BY CoveredClaimed DEF Tidy, Ledger
  <2> QED
    BY <2>1 DEF Claimed
<1>3. ASSUME NEW t \in Store, On(n, t) PROVE Hashed(n, t, {})
  <2>1. CASE t = s
    BY <2>1, EntriesLeft DEF Tidy
  <2>2. CASE t # s
    <3>1. On(m, t)
      BY <2>2, <1>3 DEF Same, On
    <3> QED
      BY <2>2, <3>1, SameHashed DEF Tidy
  <2> QED
    BY <2>1, <2>2
<1> QED
  BY <1>1, <1>2, <1>3 DEF Tidy

(* Steps that leave all values alone keep the books with an open value. *)
LEMMA OpenKept ==
  ASSUME NEW m \in Memory, NEW n \in Memory, NEW s \in Store, On(m, s), Same(m, n, s), Plain(m, n, s),
         NEW a, BlockOf(n, s, a) = BlockOf(m, s, a), SlotOf(n, s, a).value = SlotOf(m, s, a).value,
         Mine(m, s, BlockOf(m, s, a)), Open(m, s, a)
  PROVE  Open(n, s, a)
<1>0. Ledger(m, n, s, {}) /\ \A v \in Val : n.value[v].write_count = m.value[v].write_count
  BY DEF Plain
<1>1. Idle(n, {SlotOf(n, s, a).value})
  BY <1>0 DEF Open, Idle
<1>2. Place(n, s, {a}) = Place(m, s, {a}) /\ \A c \in Block, o \in Ofs :
        <<c, o>> \in Place(m, s, {a}) => c = BlockOf(m, s, a)
  BY DEF Place
<1>3. Claimed(n, Place(n, s, {a}))
  <2>1. PICK E : E = Place(m, s, {a})
    OBVIOUS
  <2>2. \A c \in Block : ~ Mine(m, s, c) => \A o \in Ofs : <<c, o>> \notin E
    BY <1>2, <2>1
  <2>3. Claimed(m, E)
    BY <2>1 DEF Open, Books
  <2>4. \A b \in Block : Covered(m, n, s, b)
    BY <1>0 DEF Ledger
  <2>5. \A b \in Block : Cardinality(Outside(n, b, E)) <= n.block[b].num_reloc
    BY <2>2, <2>3, <2>4, CoveredClaimed
  <2> QED
    BY <1>2, <2>1, <2>5 DEF Claimed
<1>4. Hashed(n, s, {a})
  <2>1. {} \subseteq Living(m, s) \ {a}
    OBVIOUS
  <2> QED
    BY <2>1, <1>0, EntriesLeft DEF Open, Books
<1>5. \A t \in Store \ {s} : On(n, t) => Hashed(n, t, {})
  <2> SUFFICES ASSUME NEW t \in Store \ {s}, On(n, t) PROVE Hashed(n, t, {})
    OBVIOUS
  <2>1. On(m, t)
    BY DEF Same, On
  <2> QED
    BY <2>1, SameHashed DEF Open, Books
<1> QED
  BY <1>1, <1>3, <1>4, <1>5 DEF Open, Books

(* From m to n, nothing happens to the slots of the blocks but to that of  *)
(* the address a of s, nor to the values in them.                          *)
Elsewhere(m, n, s, a) ==
  /\ Tab(n, s) = Tab(m, s)
  /\ \A b \in Block, o \in Ofs : <<b, o>> \notin Place(m, s, {a}) =>
       /\ At(n, b, o).value = At(m, b, o).value
       /\ At(m, b, o).value # NoVal =>
            /\ At(n, b, o).reuse = At(m, b, o).reuse
            /\ n.value[At(m, b, o).value].content = m.value[At(m, b, o).value].content

Unmoved(m, n, s, a) ==
  /\ Has(n, s, a) /\ Place(n, s, {a}) = Place(m, s, {a})
  /\ Living(n, s) \ {a} = Living(m, s) \ {a}
  /\ \A x \in Living(m, s) \ {a} : EntryOf(n, s, x) = EntryOf(m, s, x)
  /\ \A b \in Block : Outside(n, b, Place(m, s, {a})) = Outside(m, b, Place(m, s, {a}))

LEMMA ElsewhereIs ==
  ASSUME NEW m \in Memory, Tables(m), NEW n \in Memory, NEW s \in Store, On(m, s), On(n, s), NEW a, Has(m, s, a),
         Elsewhere(m, n, s, a)
  PROVE  Unmoved(m, n, s, a)
<1>1. \A x : (Has(n, s, x) <=> Has(m, s, x)) /\ BlockOf(n, s, x) = BlockOf(m, s, x)
  BY DEF Elsewhere, Has, BlockOf, Tab
<1>2. Place(n, s, {a}) = Place(m, s, {a})
  BY <1>1 DEF Place
<1>3. PICK E : E = Place(m, s, {a})
  OBVIOUS
<1>4. ASSUME NEW x \in Addr, x # a, Has(m, s, x)
      PROVE  /\ SlotOf(n, s, x).value = SlotOf(m, s, x).value
             /\ SlotOf(m, s, x).value # NoVal => EntryOf(n, s, x) = EntryOf(m, s, x)
  <2>1. PICK b \in Block, o \in Ofs : b = BlockOf(m, s, x) /\ o = x % NSlots /\ SlotOf(m, s, x) = At(m, b, o)
    BY <1>4, HasFields
  <2>2. SlotOf(n, s, x) = At(n, b, o)
    BY <2>1, <1>1 DEF SlotOf, At
  <2>3. <<b, o>> \notin Place(m, s, {a})
    <3>1. ~ (BlockOf(m, s, a) = BlockOf(m, s, x) /\ a % NSlots = x % NSlots)
      BY <1>4, SamePlace
    <3> QED
      BY <3>1, <2>1 DEF Place
  <2>4. /\ At(n, b, o).value = At(m, b, o).value
        /\ At(m, b, o).value # NoVal =>
             /\ At(n, b, o).reuse = At(m, b, o).reuse
             /\ n.value[At(m, b, o).value].content = m.value[At(m, b, o).value].content
    BY <2>3 DEF Elsewhere
  <2> QED
    BY <2>1, <2>2, <2>4 DEF EntryOf, Content
<1>5. ASSUME NEW x \in Addr, x # a PROVE Alive(n, s, x) <=> Alive(m, s, x)
  BY <1>1, <1>4, <1>5 DEF Alive
<1>6. Living(n, s) \ {a} = Living(m, s) \ {a}
  BY <1>5 DEF Living
<1>7. ASSUME NEW x \in Living(m, s) \ {a} PROVE EntryOf(n, s, x) = EntryOf(m, s, x)
  BY <1>4 DEF Living, Alive
<1>8. ASSUME NEW b \in Block PROVE Outside(n, b, E) = Outside(m, b, E)
  <2>1. ASSUME NEW o \in Ofs, <<b, o>> \notin E PROVE o \in Relocated(n, b) <=> o \in Relocated(m, b)
    <3>1. /\ At(n, b, o).value = At(m, b, o).value
          /\ At(m, b, o).value # NoVal =>
               n.value[At(m, b, o).value].content = m.value[At(m, b, o).value].content
      BY <2>1, <1>3 DEF Elsewhere
    <3> QED
      BY <3>1 DEF Relocated, Filled
  <2>2. Relocated(n, b) \subseteq Ofs /\ Relocated(m, b) \subseteq Ofs
    BY DEF Relocated, Filled
  <2> QED
    BY <2>1, <2>2 DEF Outside
<1> QED
  BY <1>1, <1>2, <1>3, <1>6, <1>7, <1>8 DEF Unmoved

(* The hash code of s with or without the value at a. *)
LEMMA HashParts ==
  ASSUME NEW m, NEW s, NEW a \in Living(m, s)
  PROVE  /\ Xor({EntryOf(m, s, x) : x \in Living(m, s)}, {EntryOf(m, s, a)}) = {EntryOf(m, s, x) : x \in Living(m, s) \ {a}}
         /\ Xor({EntryOf(m, s, x) : x \in Living(m, s) \ {a}}, {EntryOf(m, s, a)}) = {EntryOf(m, s, x) : x \in Living(m, s)}
<1>1. \A x, y : EntryOf(m, s, x) = EntryOf(m, s, y) => x = y
  BY EntriesDiffer
<1> QED
  BY <1>1 DEF Xor

(* The relocated values of a block with or without the value at a. *)
LEMMA ClaimParts ==
  ASSUME NEW m \in Memory, NEW s \in Store, On(m, s), NEW a, Alive(m, s, a), NEW b \in Block
  PROVE  /\ Taken(Content(m, s, a)) \in {0, 1} /\ PutBack(Content(m, s, a)) = Taken(Content(m, s, a))
         /\ Cardinality(Relocated(m, b)) =
              Cardinality(Outside(m, b, Place(m, s, {a}))) + Ahead(b, BlockOf(m, s, a), Taken(Content(m, s, a)))
<1>1. PICK B, o : B = BlockOf(m, s, a) /\ o = a % NSlots
  OBVIOUS
<1>2. B \in Block /\ o \in Ofs /\ SlotOf(m, s, a) = At(m, B, o) /\ At(m, B, o).value # NoVal
  BY <1>1, HasFields DEF Alive
<1>3. Place(m, s, {a}) = {<<B, o>>}
  BY <1>1 DEF Place
<1>4. o \in Relocated(m, B) <=> IsReloc(Content(m, s, a))
  BY <1>2 DEF Relocated, Filled, Content
<1>5. /\ IsFiniteSet(Relocated(m, b)) /\ Cardinality(Relocated(m, b)) \in Nat
      /\ Cardinality(Outside(m, b, Place(m, s, {a}))) \in Nat
  BY RelocatedSizes
<1>6. CASE b = B /\ IsReloc(Content(m, s, a))
  <2>1. Outside(m, b, Place(m, s, {a})) = Relocated(m, b) \ {o} /\ o \in Relocated(m, b)
    BY <1>3, <1>4, <1>6 DEF Outside
  <2>2. Cardinality(Outside(m, b, Place(m, s, {a}))) = Cardinality(Relocated(m, b)) - 1
    BY <2>1, <1>5, FS_RemoveElement
  <2> QED
    BY <2>2, <1>1, <1>5, <1>6 DEF Taken, PutBack, Ahead
<1>7. CASE ~ (b = B /\ IsReloc(Content(m, s, a)))
  <2>1. Outside(m, b, Place(m, s, {a})) = Relocated(m, b)
    BY <1>3, <1>4, <1>7 DEF Outside
  <2> QED
    BY <2>1, <1>1, <1>5, <1>7 DEF Taken, PutBack, Ahead
<1> QED
  BY <1>6, <1>7

(* The books but for the value at a stay as they are, *)
LEMMA BooksKept ==
  ASSUME NEW m \in Memory, Tables(m), NEW n \in Memory, NEW s \in Store, On(m, s), On(n, s), NEW a, Has(m, s, a),
         Elsewhere(m, n, s, a), Same(m, n, s), n.store[s].hash = m.store[s].hash,
         \A b \in Block : n.block[b].num_reloc = m.block[b].num_reloc, Books(m, s, a)
  PROVE  Books(n, s, a)
<1>1. /\ Place(n, s, {a}) = Place(m, s, {a})
      /\ Living(n, s) \ {a} = Living(m, s) \ {a}
      /\ \A x \in Living(m, s) \ {a} : EntryOf(n, s, x) = EntryOf(m, s, x)
      /\ \A b \in Block : Outside(n, b, Place(m, s, {a})) = Outside(m, b, Place(m, s, {a}))
  <2>1. Unmoved(m, n, s, a)
    BY ElsewhereIs
  <2> QED
    BY <2>1 DEF Unmoved
<1>2. Claimed(n, Place(n, s, {a}))
  BY <1>1 DEF Books, Claimed
<1>3. Hashed(n, s, {a})
  BY <1>1 DEF Books, Hashed
<1>4. ASSUME NEW t \in Store \ {s}, On(n, t) PROVE Hashed(n, t, {})
  <2>1. On(m, t)
    BY <1>4 DEF Same, On
  <2> QED
    BY <2>1, SameHashed DEF Books
<1> QED
  BY <1>2, <1>3, <1>4 DEF Books

(* the value at a leaves them, *)
LEMMA BooksOpened ==
  ASSUME NEW m \in Memory, Tables(m), NEW n \in Memory, NEW s \in Store, On(m, s), On(n, s), NEW a, Alive(m, s, a),
         Elsewhere(m, n, s, a), Same(m, n, s), n.store[s].hash = Xor(m.store[s].hash, {EntryOf(m, s, a)}),
         \A b \in Block : n.block[b].num_reloc =
           m.block[b].num_reloc - Ahead(b, BlockOf(m, s, a), Taken(Content(m, s, a))),
         Tidy(m)
  PROVE  Books(n, s, a)
<1>0. Has(m, s, a) /\ a \in Living(m, s)
  BY DEF Alive, Living, Has
<1>1. /\ Place(n, s, {a}) = Place(m, s, {a})
      /\ Living(n, s) \ {a} = Living(m, s) \ {a}
      /\ \A x \in Living(m, s) \ {a} : EntryOf(n, s, x) = EntryOf(m, s, x)
      /\ \A b \in Block : Outside(n, b, Place(m, s, {a})) = Outside(m, b, Place(m, s, {a}))
  <2>1. Unmoved(m, n, s, a)
    BY <1>0, ElsewhereIs
  <2> QED
    BY <2>1 DEF Unmoved
<1>2. ASSUME NEW b \in Block PROVE Cardinality(Outside(n, b, Place(n, s, {a}))) <= n.block[b].num_reloc
  <2>1. PICK k, c : k = Ahead(b, BlockOf(m, s, a), Taken(Content(m, s, a)))
                    /\ c = Cardinality(Outside(m, b, Place(m, s, {a})))
    OBVIOUS
  <2>2. Cardinality(Relocated(m, b)) = c + k /\ k \in {0, 1} /\ c \in Nat
    BY <2>1, ClaimParts, RelocatedSizes DEF Ahead
  <2>3. Cardinality(Relocated(m, b)) <= m.block[b].num_reloc /\ m.block[b].num_reloc \in Int
    BY RelocatedSizes, BlockFields DEF Tidy, Claimed
  <2>4. n.block[b].num_reloc = m.block[b].num_reloc - k
    BY <2>1
  <2>5. c <= n.block[b].num_reloc
    BY <2>2, <2>3, <2>4
  <2> QED
    BY <2>1, <2>5, <1>1
<1>3. Hashed(n, s, {a})
  <2>1. m.store[s].hash = {EntryOf(m, s, x) : x \in Living(m, s)}
    BY DEF Tidy, Hashed
  <2>2. n.store[s].hash = {EntryOf(m, s, x) : x \in Living(m, s) \ {a}}
    BY <2>1, <1>0, HashParts
  <2> QED
    BY <2>2, <1>1 DEF Hashed
<1>4. ASSUME NEW t \in Store \ {s}, On(n, t) PROVE Hashed(n, t, {})
  <2>1. On(m, t)
    BY <1>4 DEF Same, On
  <2> QED
    BY <2>1, SameHashed DEF Tidy
<1> QED
  BY <1>2, <1>3, <1>4 DEF Books, Claimed

(* and gets back to them. *)
LEMMA BooksClosed ==
  ASSUME NEW m \in Memory, Tables(m), NEW n \in Memory, NEW s \in Store, On(m, s), On(n, s), NEW a, Has(m, s, a),
         Elsewhere(m, n, s, a), Same(m, n, s), Alive(n, s, a),
         n.store[s].hash = Xor(m.store[s].hash, {EntryOf(n, s, a)}),
         \A b \in Block : n.block[b].num_reloc =
           m.block[b].num_reloc + Ahead(b, BlockOf(n, s, a), PutBack(Content(n, s, a))),
         Books(m, s, a), Idle(n, {})
  PROVE  Tidy(n)
<1>0. a \in Living(n, s)
  BY DEF Alive, Living, Has
<1>1. /\ Place(n, s, {a}) = Place(m, s, {a})
      /\ Living(n, s) \ {a} = Living(m, s) \ {a}
      /\ \A x \in Living(m, s) \ {a} : EntryOf(n, s, x) = EntryOf(m, s, x)
      /\ \A b \in Block : Outside(n, b, Place(m, s, {a})) = Outside(m, b, Place(m, s, {a}))
  <2>1. Unmoved(m, n, s, a)
    BY ElsewhereIs
  <2> QED
    BY <2>1 DEF Unmoved
<1>2. ASSUME NEW b \in Block PROVE Cardinality(Outside(n, b, {})) <= n.block[b].num_reloc
  <2>1. PICK k, c : k = Ahead(b, BlockOf(n, s, a), PutBack(Content(n, s, a)))
                    /\ c = Cardinality(Outside(n, b, Place(n, s, {a})))
    OBVIOUS
  <2>2. Cardinality(Relocated(n, b)) = c + k /\ k \in {0, 1} /\ c \in Nat
    BY <2>1, ClaimParts, RelocatedSizes DEF Ahead
  <2>3. c <= m.block[b].num_reloc /\ m.block[b].num_reloc \in Int
    BY <2>1, <1>1, BlockFields DEF Books, Claimed
  <2>4. n.block[b].num_reloc = m.block[b].num_reloc + k
    BY <2>1
  <2>5. c + k <= n.block[b].num_reloc
    BY <2>2, <2>3, <2>4
  <2> QED
    BY <2>2, <2>5, RelocatedSizes
<1>3. Hashed(n, s, {})
  <2>1. m.store[s].hash = {EntryOf(n, s, x) : x \in Living(n, s) \ {a}}
    BY <1>1 DEF Books, Hashed
  <2>2. n.store[s].hash = {EntryOf(n, s, x) : x \in Living(n, s)}
    BY <2>1, <1>0, HashParts
  <2> QED
    BY <2>2 DEF Hashed
<1>4. ASSUME NEW t \in Store, On(n, t) PROVE Hashed(n, t, {})
  <2>1. CASE t # s
    <3>1. On(m, t)
      BY <1>4, <2>1 DEF Same, On
    <3> QED
      BY <2>1, <3>1, SameHashed DEF Books
  <2> QED
    BY <2>1, <1>3
<1> QED
  BY <1>2, <1>4 DEF Tidy, Claimed

(* The books with an entry of the hash code replaced. *)
LEMMA BooksRehashed ==
  ASSUME NEW m \in Memory, Tables(m), NEW n \in Memory, NEW s \in Store, On(m, s), On(n, s), NEW a, Alive(m, s, a),
         Elsewhere(m, n, s, a), Same(m, n, s), Alive(n, s, a), Content(n, s, a) = Content(m, s, a),
         n.store[s].hash = Xor(m.store[s].hash, Xor({EntryOf(m, s, a)}, {EntryOf(n, s, a)})),
         \A b \in Block : n.block[b].num_reloc = m.block[b].num_reloc, Tidy(m), Idle(n, {})
  PROVE  Tidy(n)
<1>0. Has(m, s, a) /\ a \in Living(m, s) /\ a \in Living(n, s)
  BY DEF Alive, Living, Has
<1>1. /\ Place(n, s, {a}) = Place(m, s, {a})
      /\ Living(n, s) \ {a} = Living(m, s) \ {a}
      /\ \A x \in Living(m, s) \ {a} : EntryOf(n, s, x) = EntryOf(m, s, x)
      /\ \A b \in Block : Outside(n, b, Place(m, s, {a})) = Outside(m, b, Place(m, s, {a}))
  <2>1. Unmoved(m, n, s, a)
    BY <1>0, ElsewhereIs
  <2> QED
    BY <2>1 DEF Unmoved
<1>2. ASSUME NEW b \in Block PROVE Cardinality(Outside(n, b, {})) <= n.block[b].num_reloc
  <2>1. BlockOf(n, s, a) = BlockOf(m, s, a)
    BY DEF Elsewhere, BlockOf, Tab
  <2>2. Cardinality(Relocated(n, b)) = Cardinality(Relocated(m, b))
    BY <2>1, <1>1, ClaimParts
  <2> QED
    BY <2>2, RelocatedSizes DEF Tidy, Claimed
<1>3. Hashed(n, s, {})
  <2>1. m.store[s].hash = {EntryOf(m, s, x) : x \in Living(m, s)}
    BY DEF Tidy, Hashed
  <2>2. PICK h : h = {EntryOf(m, s, x) : x \in Living(m, s) \ {a}}
    OBVIOUS
  <2>3. h = {EntryOf(n, s, x) : x \in Living(n, s) \ {a}}
    BY <2>2, <1>1
  <2>4. Xor(m.store[s].hash, {EntryOf(m, s, a)}) = h
    BY <2>1, <2>2, <1>0, HashParts
  <2>5. Xor(h, {EntryOf(n, s, a)}) = {EntryOf(n, s, x) : x \in Living(n, s)}
    BY <2>3, <1>0, HashParts
  <2>6. \A A, B, C : Xor(A, Xor(B, C)) = Xor(Xor(A, B), C)
    BY DEF Xor
  <2>8. n.store[s].hash = Xor(Xor(m.store[s].hash, {EntryOf(m, s, a)}), {EntryOf(n, s, a)})
    BY <2>6
  <2>7. n.store[s].hash = {EntryOf(n, s, x) : x \in Living(n, s)}
    BY <2>4, <2>5, <2>8, Zenon
  <2> QED
    BY <2>7 DEF Hashed
<1>4. ASSUME NEW t \in Store, On(n, t) PROVE Hashed(n, t, {})
  <2>1. CASE t # s
    <3>1. On(m, t)
      BY <1>4, <2>1 DEF Same, On
    <3> QED
      BY <2>1, <3>1, SameHashed DEF Tidy
  <2> QED
    BY <2>1, <1>3
<1> QED
  BY <1>2, <1>4 DEF Tidy, Claimed

(* An empty slot is not in the books. *)
LEMMA BooksEmpty ==
  ASSUME NEW m \in Memory, NEW s \in Store, On(m, s), NEW a, ~ Alive(m, s, a), Tidy(m)
  PROVE  Books(m, s, a)
<1>1. Hashed(m, s, {a})
  <2>1. Living(m, s) \ {a} = Living(m, s) \ {}
    BY DEF Living
  <2> QED
    BY <2>1 DEF Tidy, Hashed
<1>2. ASSUME NEW b \in Block PROVE Cardinality(Outside(m, b, Place(m, s, {a}))) <= m.block[b].num_reloc
  <2>1. PICK c, d : c = Cardinality(Outside(m, b, Place(m, s, {a}))) /\ d = Cardinality(Relocated(m, b))
    OBVIOUS
  <2>2. c <= d /\ c \in Nat /\ d \in Nat
    BY <2>1, RelocatedSizes
  <2>3. d <= m.block[b].num_reloc /\ m.block[b].num_reloc \in Int
    BY <2>1, RelocatedSizes, BlockFields DEF Tidy, Claimed
  <2>4. c <= m.block[b].num_reloc
    BY <2>2, <2>3
  <2> QED
    BY <2>1, <2>4
<1> QED
  BY <1>1, <1>2 DEF Books, Claimed, Tidy

(* n has the blocks of store s in m, some of them as copies *)
Kept(m, n, s) ==
  /\ n \in Memory /\ On(n, s)
  /\ n.store[s] = [m.store[s] EXCEPT !.blocks = Tab(n, s)]
  /\ DOMAIN Tab(n, s) = DOMAIN Tab(m, s) /\ Len(Tab(n, s)) = Len(Tab(m, s))
  /\ \A k \in DOMAIN Tab(m, s) :
       /\ n.block[Tab(n, s)[k]].slots = m.block[Tab(m, s)[k]].slots
       /\ n.block[Tab(n, s)[k]].num_ent = m.block[Tab(m, s)[k]].num_ent
       /\ n.block[Tab(n, s)[k]].num_reloc = m.block[Tab(m, s)[k]].num_reloc
       /\ m.block[Tab(m, s)[k]].refcnt = 1 =>
            Tab(n, s)[k] = Tab(m, s)[k] /\ n.block[Tab(n, s)[k]].refcnt = 1
  /\ \A v \in Val : /\ n.value[v].content = m.value[v].content
                    /\ n.value[v].write_count = m.value[v].write_count
  /\ \A a : /\ Has(n, s, a) <=> Has(m, s, a)
            /\ Has(m, s, a) => SlotOf(n, s, a) = SlotOf(m, s, a)
  /\ \A c \in Block \X Ofs :
       \/ At(n, c[1], c[2]).value = At(m, c[1], c[2]).value
       \/ \E k \in DOMAIN Tab(m, s) : /\ m.block[Tab(m, s)[k]].refcnt > 1
                                      /\ At(n, c[1], c[2]).value = At(m, Tab(m, s)[k], c[2]).value

(* Where a copied block ends up, and what it looks like there. *)
LEMMA CopiesKept ==
  ASSUME NEW m, NEW H, Good(m, H), NEW s \in Store, On(m, s), NEW n, NEW S, NEW f, Copies(m, n, s, S, f)
  PROVE  /\ Kept(m, n, s) /\ Same(m, n, s)
         /\ \A b \in Block :
              \/ /\ n.block[b].slots = m.block[b].slots /\ n.block[b].num_ent = m.block[b].num_ent
                 /\ n.block[b].num_reloc = m.block[b].num_reloc
              \/ \E k \in DOMAIN Tab(m, s) :
                   /\ m.block[Tab(m, s)[k]].refcnt > 1 /\ m.block[b].refcnt = 0
                   /\ n.block[b].slots = m.block[Tab(m, s)[k]].slots
                   /\ n.block[b].num_ent = m.block[Tab(m, s)[k]].num_ent
                   /\ n.block[b].num_reloc = m.block[Tab(m, s)[k]].num_reloc
<1> DEFINE T == Tab(m, s)
           U == Tab(n, s)
<1>1. m \in Memory /\ Tables(m) /\ BlocksCounted(m) /\ FreeEmpty(m)
  BY DEF Good
<1>2. /\ n \in Memory /\ S \subseteq DOMAIN T /\ \A k \in S : m.block[T[k]].refcnt > 1
      /\ \A k \in S : f[k] \in Block /\ m.block[f[k]].refcnt = 0
      /\ DOMAIN U = DOMAIN T
      /\ \A k \in DOMAIN T : U[k] = IF k \in S THEN f[k] ELSE T[k]
      /\ \A b \in Block : (\A k \in S : b # f[k] /\ b # T[k]) => n.block[b] = m.block[b]
  BY DEF Copies, Free
<1>3. /\ On(n, s) /\ n.store[s] = [m.store[s] EXCEPT !.blocks = U]
      /\ \A t \in Store \ {s} : n.store[t] = m.store[t]
  BY DEF Copies
<1>4. \A k \in DOMAIN T : T[k] \in Block /\ m.block[T[k]].refcnt > 0
  BY <1>1, StoreFields, UserCounts
<1>5. ASSUME NEW k \in S
      PROVE  /\ n.block[f[k]].slots = m.block[T[k]].slots /\ n.block[T[k]].slots = m.block[T[k]].slots
             /\ n.block[f[k]].num_ent = m.block[T[k]].num_ent /\ n.block[T[k]].num_ent = m.block[T[k]].num_ent
             /\ n.block[f[k]].num_reloc = m.block[T[k]].num_reloc
             /\ n.block[T[k]].num_reloc = m.block[T[k]].num_reloc
  <2>1. m.block[T[k]] \in StoreCell
    BY <1>1, <1>2, <1>4, BlockFields
  <2>2. /\ n.block[f[k]] = [m.block[T[k]] EXCEPT !.refcnt = 1]
        /\ n.block[T[k]] = [m.block[T[k]] EXCEPT !.refcnt = @ - 1]
    BY DEF Copies
  <2> QED
    BY <2>1, <2>2 DEF StoreCell
<1>6. ASSUME NEW b \in Block, m.block[b].refcnt > 0
      PROVE  n.block[b].slots = m.block[b].slots /\ n.block[b].num_ent = m.block[b].num_ent
  <2>1. \A k \in S : b # f[k]
    BY <1>2, <1>6
  <2>2. CASE \E k \in S : b = T[k]
    BY <2>2, <1>5
  <2>3. CASE \A k \in S : b # T[k]
    BY <2>1, <2>3, <1>2
  <2> QED
    BY <2>2, <2>3
<1>7. ASSUME NEW k \in DOMAIN T
      PROVE  /\ n.block[U[k]].slots = m.block[T[k]].slots
             /\ n.block[U[k]].num_ent = m.block[T[k]].num_ent
             /\ n.block[U[k]].num_reloc = m.block[T[k]].num_reloc
             /\ m.block[T[k]].refcnt = 1 => U[k] = T[k] /\ n.block[U[k]].refcnt = 1
  <2>1. CASE k \in S
    BY <2>1, <1>2, <1>5
  <2>2. CASE k \notin S
    <3>1. U[k] = T[k] /\ \A j \in S : T[k] # f[j]
      BY <2>2, <1>2, <1>4
    <3>2. \A j \in S : T[k] # T[j]
      BY <2>2, <1>1, <1>2 DEF Tables
    <3>3. n.block[T[k]] = m.block[T[k]]
      BY <3>1, <3>2, <1>2, <1>4
    <3> QED
      BY <3>1, <3>3
  <2> QED
    BY <2>1, <2>2
<1>8. ASSUME NEW v \in Val
      PROVE  n.value[v].content = m.value[v].content /\ n.value[v].write_count = m.value[v].write_count
  <2>1. m.value[v] \in Value
    BY <1>1, ValueFields
  <2>2. PICK x : x = Cardinality({c \in S \X Ofs : At(m, Tab(m, s)[c[1]], c[2]).value = v})
    OBVIOUS
  <2>3. n.value[v] = [m.value[v] EXCEPT !.refcnt = @ + x]
    BY <2>2, Zenon DEF Copies
  <2> QED
    BY <2>1, <2>3 DEF Value
<1>9. Len(U) = Len(T)
  <2>1. /\ Len(T) \in Nat /\ DOMAIN T = 1 .. Len(T) /\ Len(U) \in Nat /\ DOMAIN U = 1 .. Len(U)
    BY <1>1, <1>2, <1>3, StoreFields, SMTT(30)
  <2>2. PICK x \in Nat, y \in Nat : x = Len(T) /\ y = Len(U)
    BY <2>1, ZenonT(40)
  <2>3. 1 .. x = 1 .. y
    BY <2>1, <2>2, <1>2, Zenon
  <2>4. ~ (x < y) /\ ~ (y < x)
    <3>1. (x < y => y \in 1 .. y /\ y \notin 1 .. x) /\ (y < x => x \in 1 .. x /\ x \notin 1 .. y)
      OBVIOUS
    <3> QED
      BY <2>3, <3>1
  <2> QED
    BY <2>2, <2>4
<1>10. ASSUME NEW a PROVE (Has(n, s, a) <=> Has(m, s, a)) /\ (Has(m, s, a) => SlotOf(n, s, a) = SlotOf(m, s, a))
  <2>1. Has(n, s, a) <=> Has(m, s, a)
    BY <1>9, SMTT(30) DEF Has, Tab
  <2>2. ASSUME Has(m, s, a) PROVE SlotOf(n, s, a) = SlotOf(m, s, a)
    <3>1. BlockNo(a) \in DOMAIN T
      BY <1>1, <2>2, HasFields
    <3> QED
      BY <3>1, <1>7 DEF SlotOf, BlockOf, Tab
  <2> QED
    BY <2>1, <2>2
<1>11. ASSUME NEW c \in Block \X Ofs
       PROVE  \/ At(n, c[1], c[2]).value = At(m, c[1], c[2]).value
              \/ \E k \in DOMAIN T : /\ m.block[T[k]].refcnt > 1
                                     /\ At(n, c[1], c[2]).value = At(m, T[k], c[2]).value
  <2>1. CASE \E k \in S : c[1] = f[k]
    BY <2>1, <1>2, <1>5 DEF At
  <2>2. CASE \E k \in S : c[1] = T[k]
    BY <2>2, <1>5 DEF At
  <2>3. CASE \A k \in S : c[1] # f[k] /\ c[1] # T[k]
    BY <2>3, <1>2 DEF At
  <2> QED
    BY <2>1, <2>2, <2>3
<1>12. Kept(m, n, s)
  BY <1>2, <1>3, <1>7, <1>8, <1>9, <1>10, <1>11, Zenon DEF Kept
<1>13. Same(m, n, s)
  <2>1. ASSUME NEW t \in Store \ {s}, On(m, t), NEW k \in DOMAIN Tab(m, t), NEW o \in Ofs
        PROVE  LET b == Tab(m, t)[k]
                   v == At(m, b, o).value
               IN  /\ At(n, b, o).value = v
                   /\ v # NoVal => /\ At(n, b, o).refcnt = At(m, b, o).refcnt
                                   /\ At(n, b, o).reuse = At(m, b, o).reuse
                                   /\ n.value[v].content = m.value[v].content
    <3>1. PICK b \in Block : b = Tab(m, t)[k]
      BY <1>1, <2>1, StoreFields
    <3>2. m.block[b].refcnt > 0
      BY <1>1, <2>1, <3>1, UserCounts
    <3>3. At(n, b, o) = At(m, b, o)
      BY <3>2, <1>6 DEF At
    <3>4. At(m, b, o).value \in Val \cup {NoVal}
      BY <1>1, BlockFields
    <3> QED
      BY <3>1, <3>3, <3>4, <1>8
  <2> QED
    BY <1>1, <1>2, <1>3, <2>1, SameIntro
<1>14. ASSUME NEW b \in Block
       PROVE  \/ /\ n.block[b].slots = m.block[b].slots /\ n.block[b].num_ent = m.block[b].num_ent
                 /\ n.block[b].num_reloc = m.block[b].num_reloc
              \/ \E k \in DOMAIN T : /\ m.block[T[k]].refcnt > 1 /\ m.block[b].refcnt = 0
                                     /\ n.block[b].slots = m.block[T[k]].slots
                                     /\ n.block[b].num_ent = m.block[T[k]].num_ent
                                     /\ n.block[b].num_reloc = m.block[T[k]].num_reloc
  <2>1. CASE \E k \in S : b = f[k]
    BY <2>1, <1>2, <1>5
  <2>2. CASE \E k \in S : b = T[k]
    BY <2>2, <1>5
  <2>3. CASE \A k \in S : b # f[k] /\ b # T[k]
    BY <2>3, <1>2
  <2> QED
    BY <2>1, <2>2, <2>3
<1> QED
  BY <1>12, <1>13, <1>14

-----------------------------------------------------------------------------
(***************************************************************************)
(* Steps of one frame.                                                     *)
(***************************************************************************)
(* The slot of a is in a block of s alone, and nothing else points to its  *)
(* value v                                                                 *)
Sole(m, s, a, v) ==
  /\ Has(m, s, a) /\ SlotOf(m, s, a).value = v /\ v \in Val /\ Mine(m, s, BlockOf(m, s, a))
  /\ \A c \in Pointers(m, v) : c = <<BlockOf(m, s, a), a % NSlots>>

(* A step from m to n that no other frame sees and that leaves the values  *)
(* in the slots of s where they are                                        *)
Calm(m, n, s, H) ==
  /\ Good(n, H) /\ On(n, s) /\ Same(m, n, s)
  /\ DOMAIN Tab(n, s) = DOMAIN Tab(m, s) /\ Len(Tab(n, s)) = Len(Tab(m, s))
  /\ \A a : /\ Has(n, s, a) <=> Has(m, s, a)
            /\ Has(m, s, a) => /\ SlotOf(n, s, a).value = SlotOf(m, s, a).value
                               /\ SlotOf(n, s, a).param = SlotOf(m, s, a).param
  /\ \A k \in DOMAIN Tab(m, s) : Mine(m, s, Tab(m, s)[k]) =>
       Tab(n, s)[k] = Tab(m, s)[k] /\ Mine(n, s, Tab(m, s)[k])
  /\ \A a, v : Sole(m, s, a, v) => Sole(n, s, a, v)
  /\ \A B, d : d \in Int /\ (d = 0 \/ Mine(m, s, B)) /\ Counters(m, s, B, d) => Counters(n, s, B, d)

LEMMA CalmTrans ==
  ASSUME NEW m, NEW n, NEW p, NEW s, NEW H, Calm(m, n, s, H), Calm(n, p, s, H)
  PROVE  Calm(m, p, s, H)
<1>1. /\ Good(p, H) /\ On(p, s)
      /\ DOMAIN Tab(p, s) = DOMAIN Tab(m, s) /\ Len(Tab(p, s)) = Len(Tab(m, s))
  BY Zenon DEF Calm
<1>2. Same(m, p, s)
  BY SameTrans, Zenon DEF Calm
<1>3. \A a : /\ Has(p, s, a) <=> Has(m, s, a)
             /\ Has(m, s, a) => /\ SlotOf(p, s, a).value = SlotOf(m, s, a).value
                                /\ SlotOf(p, s, a).param = SlotOf(m, s, a).param
  BY DEF Calm
<1>4. \A k \in DOMAIN Tab(m, s) : Mine(m, s, Tab(m, s)[k]) =>
        Tab(p, s)[k] = Tab(m, s)[k] /\ Mine(p, s, Tab(m, s)[k])
  <2> TAKE k \in DOMAIN Tab(m, s)
  <2> HAVE Mine(m, s, Tab(m, s)[k])
  <2>1. Tab(n, s)[k] = Tab(m, s)[k] /\ Mine(n, s, Tab(m, s)[k]) /\ k \in DOMAIN Tab(n, s)
    BY DEF Calm
  <2> QED
    BY <2>1 DEF Calm
<1>5. \A a, v : Sole(m, s, a, v) => Sole(p, s, a, v)
  BY Zenon DEF Calm
<1>6. ASSUME NEW B, NEW d, d \in Int, d = 0 \/ Mine(m, s, B), Counters(m, s, B, d)
      PROVE  Counters(p, s, B, d)
  <2>1. Counters(n, s, B, d)
    BY <1>6, Zenon DEF Calm
  <2>2. d = 0 \/ Mine(n, s, B)
    <3>1. CASE Mine(m, s, B)
      <4>1. PICK k \in DOMAIN Tab(m, s) : Tab(m, s)[k] = B
        BY <3>1 DEF Mine
      <4> QED
        BY <3>1, <4>1 DEF Calm
    <3> QED
      BY <1>6, <3>1
  <2> QED
    BY <1>6, <2>1, <2>2, Zenon DEF Calm
<1> QED
  BY <1>1, <1>2, <1>3, <1>4, <1>5, <1>6, Zenon DEF Calm

(* The finite sets of the invariant. *)
LEMMA Sizes ==
  ASSUME NEW m, NEW b, NEW s, NEW v, NEW H, Buffers(H)
  PROVE  /\ IsFiniteSet(Filled(m, b)) /\ Cardinality(Filled(m, b)) \in Nat
         /\ IsFiniteSet(Living(m, s)) /\ Cardinality(Living(m, s)) \in Nat
         /\ IsFiniteSet(Pointers(m, v)) /\ Cardinality(Pointers(m, v)) \in Nat
         /\ IsFiniteSet(Records(H, v)) /\ Cardinality(Records(H, v)) \in Nat
<1>1. /\ Filled(m, b) \in SUBSET Ofs /\ Living(m, s) \in SUBSET Addr
      /\ Pointers(m, v) \in SUBSET (Block \X Ofs) /\ Records(H, v) \in SUBSET H
  BY DEF Filled, Living, Pointers, Records
<1>2. IsFiniteSet(H)
  BY DEF Buffers
<1> QED
  BY <1>1, <1>2, FiniteSets, FS_Subset, FS_CardinalityType

(* A private block is a block. *)
LEMMA MineBlock ==
  ASSUME NEW m \in Memory, NEW s \in Store, On(m, s), NEW b, Mine(m, s, b)
  PROVE  b \in Block /\ m.block[b].refcnt = 1 /\ \E k \in DOMAIN Tab(m, s) : Tab(m, s)[k] = b
BY StoreFields DEF Mine

(* No other store has a private block of s. *)
LEMMA MineAlone ==
  ASSUME NEW m \in Memory, BlocksCounted(m), NEW s \in Store, On(m, s), NEW b, Mine(m, s, b),
         NEW t \in Store, On(m, t), NEW j \in DOMAIN Tab(m, t), Tab(m, t)[j] = b
  PROVE  t = s
BY SoleUser DEF Mine

(* Copying shared blocks is such a step, and afterwards they are private. *)
LEMMA PrivateCalm ==
  ASSUME NEW m, NEW H, Good(m, H), NEW s \in Store, On(m, s), NEW K \in SUBSET DOMAIN Tab(m, s)
  PROVE  /\ Calm(m, Private(m, s, K), s, H) /\ Kept(m, Private(m, s, K), s) /\ Plain(m, Private(m, s, K), s)
         /\ \A k \in K : Mine(Private(m, s, K), s, Tab(Private(m, s, K), s)[k])
<1>1. m \in Memory /\ Tables(m) /\ BlocksCounted(m) /\ Buffers(H)
  BY DEF Good
<1>2. PICK n, S : n = Private(m, s, K) /\ S = {k \in K : m.block[Tab(m, s)[k]].refcnt > 1}
  OBVIOUS
<1>3. PICK f : Copies(m, n, s, S, f)
  BY <1>1, <1>2, PrivateCopies
<1>4. Good(n, H)
  BY <1>3, CopiesGood
<1>5. /\ Kept(m, n, s) /\ Same(m, n, s)
      /\ \A b \in Block :
           \/ /\ n.block[b].slots = m.block[b].slots /\ n.block[b].num_ent = m.block[b].num_ent
              /\ n.block[b].num_reloc = m.block[b].num_reloc
           \/ \E k \in DOMAIN Tab(m, s) :
                /\ m.block[Tab(m, s)[k]].refcnt > 1 /\ m.block[b].refcnt = 0
                /\ n.block[b].slots = m.block[Tab(m, s)[k]].slots
                /\ n.block[b].num_ent = m.block[Tab(m, s)[k]].num_ent
                /\ n.block[b].num_reloc = m.block[Tab(m, s)[k]].num_reloc
  BY <1>3, CopiesKept
<1>6. /\ n \in Memory /\ On(n, s) /\ n.store[s] = [m.store[s] EXCEPT !.blocks = Tab(n, s)]
      /\ DOMAIN Tab(n, s) = DOMAIN Tab(m, s) /\ Len(Tab(n, s)) = Len(Tab(m, s))
      /\ \A a : /\ Has(n, s, a) <=> Has(m, s, a)
                /\ Has(m, s, a) => SlotOf(n, s, a) = SlotOf(m, s, a)
  BY <1>5, Zenon DEF Kept
<1>7. \A k \in DOMAIN Tab(m, s) : m.block[Tab(m, s)[k]].refcnt = 1 =>
        Tab(n, s)[k] = Tab(m, s)[k] /\ n.block[Tab(n, s)[k]].refcnt = 1
  BY <1>5 DEF Kept
<1>8. ASSUME NEW k \in DOMAIN Tab(m, s), Mine(m, s, Tab(m, s)[k])
      PROVE  Tab(n, s)[k] = Tab(m, s)[k] /\ Mine(n, s, Tab(m, s)[k])
  BY <1>6, <1>7, <1>8 DEF Mine
<1>9. ASSUME NEW a, NEW v, Sole(m, s, a, v) PROVE Sole(n, s, a, v)
  <2>1. Has(m, s, a) /\ SlotOf(m, s, a).value = v /\ v \in Val /\ Mine(m, s, BlockOf(m, s, a))
    BY <1>9 DEF Sole
  <2>2. BlockNo(a) \in DOMAIN Tab(m, s) /\ BlockOf(m, s, a) = Tab(m, s)[BlockNo(a)]
    BY <1>1, <2>1, HasFields
  <2>3. BlockOf(n, s, a) = BlockOf(m, s, a) /\ Mine(n, s, BlockOf(n, s, a))
    BY <2>1, <2>2, <1>8 DEF BlockOf, Tab
  <2>4. ASSUME NEW c \in Pointers(n, v) PROVE c = <<BlockOf(n, s, a), a % NSlots>>
    <3>1. c \in Block \X Ofs /\ c[1] \in Block /\ c[2] \in Ofs /\ At(n, c[1], c[2]).value = v
      BY DEF Pointers
    <3>2. CASE At(n, c[1], c[2]).value = At(m, c[1], c[2]).value
      <4>1. c \in Pointers(m, v)
        BY <3>1, <3>2 DEF Pointers
      <4> QED
        BY <4>1, <2>3, <1>9 DEF Sole
    <3>3. ASSUME NEW k \in DOMAIN Tab(m, s), m.block[Tab(m, s)[k]].refcnt > 1,
                 At(n, c[1], c[2]).value = At(m, Tab(m, s)[k], c[2]).value
          PROVE  FALSE
      <4>1. Tab(m, s)[k] \in Block
        BY <1>1, StoreFields
      <4>2. <<Tab(m, s)[k], c[2]>> \in Pointers(m, v)
        BY <4>1, <3>1, <3>3 DEF Pointers
      <4>3. <<Tab(m, s)[k], c[2]>> = <<BlockOf(m, s, a), a % NSlots>>
        BY <4>2, <1>9 DEF Sole
      <4>4. m.block[Tab(m, s)[k]].refcnt = 1
        BY <4>3, <2>1 DEF Mine
      <4> QED
        BY <4>4, <3>3
    <3> QED
      BY <1>5, <3>1, <3>2, <3>3 DEF Kept
  <2>5. Has(n, s, a) /\ SlotOf(n, s, a).value = v
    BY <2>1, <1>6
  <2> QED
    BY <2>1, <2>3, <2>4, <2>5 DEF Sole
<1>10. ASSUME NEW B, NEW d, d \in Int, d = 0 \/ Mine(m, s, B), Counters(m, s, B, d)
       PROVE  Counters(n, s, B, d)
  <2>1. ASSUME NEW b \in Block PROVE n.block[b].num_ent = Cardinality(Filled(n, b)) + Ahead(b, B, d)
    <3>1. CASE n.block[b].slots = m.block[b].slots /\ n.block[b].num_ent = m.block[b].num_ent
      <4>1. Filled(n, b) = Filled(m, b)
        BY <3>1 DEF Filled, At
      <4> QED
        BY <3>1, <4>1, <1>10 DEF Counters
    <3>2. ASSUME NEW k \in DOMAIN Tab(m, s), m.block[Tab(m, s)[k]].refcnt > 1, m.block[b].refcnt = 0,
                 n.block[b].slots = m.block[Tab(m, s)[k]].slots,
                 n.block[b].num_ent = m.block[Tab(m, s)[k]].num_ent
          PROVE  n.block[b].num_ent = Cardinality(Filled(n, b)) + Ahead(b, B, d)
      <4>1. Tab(m, s)[k] \in Block
        BY <1>1, StoreFields
      <4>2. Filled(n, b) = Filled(m, Tab(m, s)[k])
        BY <3>2 DEF Filled, At
      <4>3. Ahead(b, B, d) = 0 /\ Ahead(Tab(m, s)[k], B, d) = 0
        BY <3>2, <1>10 DEF Ahead, Mine
      <4>4. m.block[Tab(m, s)[k]].num_ent = Cardinality(Filled(m, Tab(m, s)[k])) + Ahead(Tab(m, s)[k], B, d)
        BY <4>1, <1>10 DEF Counters
      <4> QED
        BY <3>2, <4>2, <4>3, <4>4
    <3> QED
      BY <3>1, <3>2, <1>5
  <2>2. ASSUME NEW t \in Store, On(n, t)
        PROVE  n.store[t].num_ent = Cardinality(Living(n, t)) + Ahead(t, s, d)
    <3>1. CASE t = s
      <4>1. Living(n, s) = Living(m, s)
        BY <1>6 DEF Living, Alive
      <4>2. n.store[s].num_ent = m.store[s].num_ent
        BY <1>1, <1>6, StoreFields DEF Table
      <4> QED
        BY <3>1, <4>1, <4>2, <1>10 DEF Counters
    <3>2. CASE t # s
      <4>1. On(m, t) /\ n.store[t] = m.store[t]
        BY <3>2, <2>2, <1>5 DEF Same, On
      <4>2. Living(n, t) = Living(m, t)
        BY <4>1, <3>2, <1>5, SameLiving
      <4> QED
        BY <4>1, <4>2, <1>10 DEF Counters
    <3> QED
      BY <3>1, <3>2
  <2> QED
    BY <2>1, <2>2 DEF Counters
<1>11. ASSUME NEW k \in K PROVE Mine(n, s, Tab(n, s)[k])
  <2>1. k \in DOMAIN Tab(m, s) /\ Tab(m, s)[k] \in Block
    BY <1>1, StoreFields
  <2>2. m.block[Tab(m, s)[k]].refcnt \in Nat /\ m.block[Tab(m, s)[k]].refcnt > 0
    BY <1>1, <2>1, UserCounts
  <2>3. n.block[Tab(n, s)[k]].refcnt = 1
    <3>1. CASE k \in S
      <4>1. /\ Tab(n, s)[k] = f[k] /\ n.block[f[k]] = [m.block[Tab(m, s)[k]] EXCEPT !.refcnt = 1]
        BY <2>1, <3>1, <1>3 DEF Copies
      <4>2. m.block[Tab(m, s)[k]] \in StoreCell
        BY <1>1, <2>1, BlockFields
      <4> QED
        BY <4>1, <4>2 DEF StoreCell
    <3>2. CASE k \notin S
      BY <2>1, <2>2, <3>2, <1>2, <1>7
    <3> QED
      BY <3>1, <3>2
  <2> QED
    BY <2>1, <2>3, <1>6 DEF Mine
<1>12. Calm(m, n, s, H)
  <2>1. \A a : /\ Has(n, s, a) <=> Has(m, s, a)
               /\ Has(m, s, a) => /\ SlotOf(n, s, a).value = SlotOf(m, s, a).value
                                  /\ SlotOf(n, s, a).param = SlotOf(m, s, a).param
    BY <1>6
  <2> QED
    BY <1>4, <1>5, <1>6, <1>8, <1>9, <1>10, <2>1, Zenon DEF Calm
<1>13. Plain(m, n, s)
  <2>1. \A v \in Val : n.value[v].content = m.value[v].content /\ n.value[v].write_count = m.value[v].write_count
    BY <1>5 DEF Kept
  <2>2. ASSUME NEW b \in Block, NEW c \in Block, n.block[b].slots = m.block[c].slots
        PROVE  Relocated(n, b) \subseteq Relocated(m, c)
    <3>1. \A o \in Ofs : At(n, b, o) = At(m, c, o) /\ At(m, c, o).value \in Val \cup {NoVal}
      BY <1>1, <2>2, BlockFields DEF At
    <3> QED
      BY <3>1, <2>1 DEF Relocated, Filled
  <2>3. ASSUME NEW b \in Block PROVE Covered(m, n, s, b)
    <3>1. CASE n.block[b].slots = m.block[b].slots /\ n.block[b].num_reloc = m.block[b].num_reloc
      BY <3>1, <2>2 DEF Covered
    <3>2. ASSUME NEW k \in DOMAIN Tab(m, s), m.block[Tab(m, s)[k]].refcnt > 1,
                 n.block[b].slots = m.block[Tab(m, s)[k]].slots,
                 n.block[b].num_reloc = m.block[Tab(m, s)[k]].num_reloc
          PROVE  Covered(m, n, s, b)
      <4>1. PICK c \in Block : c = Tab(m, s)[k]
        BY <1>1, StoreFields
      <4>2. ~ Mine(m, s, c)
        BY <4>1, <3>2 DEF Mine
      <4> QED
        BY <4>1, <4>2, <3>2, <2>2 DEF Covered
    <3> QED
      BY <3>1, <3>2, <1>5
  <2>4. Living(n, s) = Living(m, s)
    BY <1>6 DEF Living, Alive
  <2>5. ASSUME NEW a \in Living(n, s) PROVE EntryOf(n, s, a) = EntryOf(m, s, a)
    <3>1. Has(m, s, a) /\ SlotOf(n, s, a) = SlotOf(m, s, a) /\ SlotOf(m, s, a).value # NoVal
      BY <2>4, <1>6 DEF Living, Alive
    <3>2. SlotOf(m, s, a).value \in Val
      BY <1>1, <3>1, HasFields DEF Slot
    <3> QED
      BY <3>1, <3>2, <2>1 DEF EntryOf, Content
  <2>6. n.store[s].hash = m.store[s].hash
    BY <1>1, <1>6, StoreFields DEF Table
  <2>7. Xor(m.store[s].hash, {EntryOf(m, s, d) : d \in {}}) = m.store[s].hash /\ Living(m, s) = Living(m, s) \ {}
    BY DEF Xor
  <2>8. \A v \in Val : n.value[v].write_count \in {m.value[v].write_count, 0}
    BY <2>1
  <2> QED
    BY <2>1, <2>3, <2>4, <2>5, <2>6, <2>7, <2>8, Zenon DEF Plain, Ledger
<1> QED
  BY <1>2, <1>5, <1>11, <1>12, <1>13

(* Steps that follow a step that left all values alone. *)
LEMMA LedgerAfter ==
  ASSUME NEW m, NEW p, NEW n, NEW s, NEW H, Calm(m, p, s, H), Plain(m, p, s),
         NEW D \in SUBSET Living(m, s), Ledger(p, n, s, D)
  PROVE  Ledger(m, n, s, D) /\ (Plain(p, n, s) => Plain(m, n, s))
<1>1. /\ p.store[s].hash = Xor(m.store[s].hash, {}) /\ Living(p, s) = Living(m, s)
      /\ \A a \in Living(p, s) : EntryOf(p, s, a) = EntryOf(m, s, a)
      /\ \A v \in Val : p.value[v].write_count = m.value[v].write_count
      /\ \A b \in Block : Covered(m, p, s, b)
  <2>1. {EntryOf(m, s, d) : d \in {}} = {} /\ Living(m, s) \ {} = Living(m, s)
    OBVIOUS
  <2> QED
    BY <2>1, Zenon DEF Plain, Ledger
<1>2. /\ n.store[s].hash = Xor(p.store[s].hash, {EntryOf(p, s, d) : d \in D})
      /\ Living(n, s) = Living(p, s) \ D
      /\ \A a \in Living(n, s) : EntryOf(n, s, a) = EntryOf(p, s, a)
      /\ \A v \in Val : n.value[v].write_count \in {p.value[v].write_count, 0}
      /\ \A b \in Block : Covered(p, n, s, b)
  BY DEF Ledger
<1>3. n.store[s].hash = Xor(m.store[s].hash, {EntryOf(m, s, d) : d \in D})
  <2>1. {EntryOf(p, s, d) : d \in D} = {EntryOf(m, s, d) : d \in D}
    BY <1>1
  <2>2. \A A, B : Xor(Xor(A, {}), B) = Xor(A, B)
    BY DEF Xor
  <2> QED
    BY <2>1, <2>2, <1>1, <1>2
<1>4. ASSUME NEW c, Mine(m, s, c) PROVE Mine(p, s, c)
  BY <1>4 DEF Calm, Mine
<1>5. ASSUME NEW b \in Block PROVE Covered(m, n, s, b)
  <2>1. CASE Relocated(n, b) = {} /\ n.block[b].num_reloc = 0
    BY <2>1 DEF Covered
  <2>2. ASSUME NEW c \in Block, c = b \/ ~ Mine(p, s, c), Relocated(n, b) \subseteq Relocated(p, c),
               n.block[b].num_reloc = p.block[c].num_reloc
        PROVE  Covered(m, n, s, b)
    <3>1. CASE Relocated(p, c) = {} /\ p.block[c].num_reloc = 0
      BY <3>1, <2>2 DEF Covered
    <3>2. ASSUME NEW e \in Block, e = c \/ ~ Mine(m, s, e), Relocated(p, c) \subseteq Relocated(m, e),
                 p.block[c].num_reloc = m.block[e].num_reloc
          PROVE  Covered(m, n, s, b)
      <4>1. e = b \/ ~ Mine(m, s, e)
        BY <2>2, <3>2, <1>4
      <4>2. Relocated(n, b) \subseteq Relocated(m, e) /\ n.block[b].num_reloc = m.block[e].num_reloc
        BY <2>2, <3>2
      <4> QED
        BY <4>1, <4>2 DEF Covered
    <3>3. Covered(m, p, s, c)
      BY <1>1
    <3> QED
      BY <3>1, <3>2, <3>3 DEF Covered
  <2>3. Covered(p, n, s, b)
    BY <1>2
  <2> QED
    BY <2>1, <2>2, <2>3 DEF Covered
<1>6. \A a \in Living(n, s) : EntryOf(n, s, a) = EntryOf(m, s, a)
  BY <1>1, <1>2
<1>7. Ledger(m, n, s, D)
  BY <1>1, <1>2, <1>3, <1>5, <1>6 DEF Ledger
<1>8. ASSUME Plain(p, n, s) PROVE Plain(m, n, s)
  <2>1. D = {}
    <3>1. Living(n, s) = Living(p, s) \ {} /\ Living(n, s) = Living(p, s) \ D
      BY <1>8, <1>2 DEF Plain, Ledger
    <3> QED
      BY <3>1, <1>1
  <2>2. \A v \in Val : n.value[v].write_count = m.value[v].write_count
    BY <1>1, <1>8 DEF Plain
  <2> QED
    BY <2>1, <2>2, <1>7 DEF Plain
<1> QED
  BY <1>7, <1>8

(* n is m with writes to private blocks of s, to values that no other      *)
(* block points to and to the counters and the hash code of s              *)
Writes(m, n, s) ==
  /\ n \in Memory /\ On(n, s) /\ Tab(n, s) = Tab(m, s)
  /\ \A t \in Store \ {s} : n.store[t] = m.store[t]
  /\ \A b \in Block : n.block[b].refcnt = m.block[b].refcnt
  /\ \A b \in Block : ~ Mine(m, s, b) =>
       n.block[b].slots = m.block[b].slots /\ n.block[b].num_ent = m.block[b].num_ent
  /\ \A v \in Val : (\E c \in Pointers(m, v) : ~ Mine(m, s, c[1])) => n.value[v].content = m.value[v].content

LEMMA WritesFrame ==
  ASSUME NEW m, NEW H, Good(m, H), NEW s \in Store, On(m, s), NEW n, Writes(m, n, s)
  PROVE  /\ Tables(n) /\ BlocksCounted(n) /\ FreeEmpty(n) /\ Same(m, n, s)
         /\ \A b : Mine(n, s, b) <=> Mine(m, s, b)
         /\ \A a : (Has(n, s, a) <=> Has(m, s, a)) /\ BlockOf(n, s, a) = BlockOf(m, s, a)
<1>1. m \in Memory /\ Tables(m) /\ BlocksCounted(m) /\ FreeEmpty(m)
  BY DEF Good
<1>2. \A t \in Store : On(n, t) = On(m, t) /\ Tab(n, t) = Tab(m, t)
  BY DEF Writes, On, Tab
<1>3. \A b \in Block : n.block[b].refcnt = m.block[b].refcnt
  BY DEF Writes
<1>4. Tables(n)
  BY <1>1, <1>2 DEF Tables
<1>5. BlocksCounted(n)
  <2>1. \A b \in Block : Users(n, b) = Users(m, b)
    BY <1>2 DEF Users
  <2> QED
    BY <2>1, <1>1, <1>3 DEF BlocksCounted
<1>6. \A b : Mine(n, s, b) <=> Mine(m, s, b)
  <2>1. \A k \in DOMAIN Tab(m, s) : Tab(m, s)[k] \in Block
    BY <1>1, StoreFields
  <2> QED
    BY <2>1, <1>2, <1>3 DEF Mine
<1>7. FreeEmpty(n)
  <2> SUFFICES ASSUME NEW b \in Block, n.block[b].refcnt = 0 PROVE \A o \in Ofs : At(n, b, o).value = NoVal
    BY DEF FreeEmpty
  <2>1. m.block[b].refcnt = 0 /\ ~ Mine(m, s, b)
    BY <1>3 DEF Mine
  <2>2. n.block[b].slots = m.block[b].slots
    BY <2>1 DEF Writes
  <2> QED
    BY <2>1, <2>2, <1>1 DEF FreeEmpty, At
<1>8. Same(m, n, s)
  <2>1. ASSUME NEW t \in Store \ {s}, On(m, t), NEW k \in DOMAIN Tab(m, t), NEW o \in Ofs
        PROVE  LET b == Tab(m, t)[k]
                   v == At(m, b, o).value
               IN  /\ At(n, b, o).value = v
                   /\ v # NoVal => /\ At(n, b, o).refcnt = At(m, b, o).refcnt
                                   /\ At(n, b, o).reuse = At(m, b, o).reuse
                                   /\ n.value[v].content = m.value[v].content
    <3>1. PICK b \in Block : b = Tab(m, t)[k]
      BY <1>1, <2>1, StoreFields
    <3>2. ~ Mine(m, s, b)
      BY <1>1, <2>1, <3>1, MineAlone
    <3>3. At(n, b, o) = At(m, b, o)
      BY <3>2 DEF At, Writes
    <3>4. ASSUME NEW v \in Val, At(m, b, o).value = v PROVE n.value[v].content = m.value[v].content
      <4>1. <<b, o>> \in Pointers(m, v) /\ <<b, o>>[1] = b
        BY <3>4 DEF Pointers
      <4> QED
        BY <4>1, <3>2 DEF Writes
    <3>5. At(m, b, o).value \in Val \cup {NoVal}
      BY <1>1, BlockFields
    <3> QED
      BY <3>1, <3>3, <3>4, <3>5
  <2>2. n \in Memory /\ \A t \in Store \ {s} : n.store[t] = m.store[t]
    BY DEF Writes
  <2> QED
    BY <1>1, <2>1, <2>2, SameIntro
<1>9. ASSUME NEW a PROVE (Has(n, s, a) <=> Has(m, s, a)) /\ BlockOf(n, s, a) = BlockOf(m, s, a)
  BY <1>2 DEF Has, BlockOf, Tab
<1> QED
  BY <1>4, <1>5, <1>6, <1>7, <1>8, <1>9

(* Writes that leave the values in the slots and all counters of values    *)
(* and entities alone.                                                     *)
Quiet(m, n, s) ==
  /\ \A b \in Block, o \in Ofs : At(n, b, o).value = At(m, b, o).value /\ At(n, b, o).param = At(m, b, o).param
  /\ \A b \in Block : n.block[b].num_ent = m.block[b].num_ent
  /\ n.store[s].num_ent = m.store[s].num_ent
  /\ \A v \in Val : n.value[v].refcnt = m.value[v].refcnt

LEMMA QuietCalm ==
  ASSUME NEW m, NEW H, Good(m, H), NEW s \in Store, On(m, s), NEW n, Writes(m, n, s), Quiet(m, n, s)
  PROVE  Calm(m, n, s, H)
<1>1. /\ m \in Memory /\ Tables(m) /\ InUse(m) /\ ValuesCounted(m, H) /\ Buffers(H)
      /\ n \in Memory /\ On(n, s) /\ Tab(n, s) = Tab(m, s) /\ \A t \in Store \ {s} : n.store[t] = m.store[t]
  BY DEF Good, Writes
<1>2. /\ Tables(n) /\ BlocksCounted(n) /\ FreeEmpty(n) /\ Same(m, n, s)
      /\ \A b : Mine(n, s, b) <=> Mine(m, s, b)
      /\ \A a : (Has(n, s, a) <=> Has(m, s, a)) /\ BlockOf(n, s, a) = BlockOf(m, s, a)
  BY WritesFrame
<1>3. InUse(n)
  BY <1>1 DEF InUse, Quiet
<1>4. \A v : Pointers(n, v) = Pointers(m, v)
  BY DEF Pointers, Quiet
<1>5. ValuesCounted(n, H)
  BY <1>1, <1>4 DEF ValuesCounted, Quiet
<1>6. Good(n, H)
  BY <1>1, <1>2, <1>3, <1>5 DEF Good
<1>7. ASSUME NEW a, Has(m, s, a)
      PROVE  SlotOf(n, s, a).value = SlotOf(m, s, a).value /\ SlotOf(n, s, a).param = SlotOf(m, s, a).param
  <2>1. BlockOf(m, s, a) \in Block /\ a % NSlots \in Ofs
    BY <1>1, <1>7, HasFields
  <2>2. /\ SlotOf(m, s, a) = At(m, BlockOf(m, s, a), a % NSlots)
        /\ SlotOf(n, s, a) = At(n, BlockOf(m, s, a), a % NSlots)
    BY <1>2 DEF SlotOf, At
  <2> QED
    BY <2>1, <2>2 DEF Quiet
<1>8. ASSUME NEW a, NEW v, Sole(m, s, a, v) PROVE Sole(n, s, a, v)
  <2>1. Has(m, s, a)
    BY <1>8 DEF Sole
  <2> QED
    BY <2>1, <1>2, <1>4, <1>7, <1>8 DEF Sole
<1>9. ASSUME NEW B, NEW d, Counters(m, s, B, d) PROVE Counters(n, s, B, d)
  <2>1. \A b \in Block : Filled(n, b) = Filled(m, b)
    BY DEF Filled, Quiet
  <2>2. Living(n, s) = Living(m, s)
    BY <1>2, <1>7 DEF Living, Alive
  <2>3. ASSUME NEW t \in Store, t # s, On(n, t) PROVE On(m, t) /\ n.store[t] = m.store[t] /\ Living(n, t) = Living(m, t)
    <3>1. On(m, t) /\ n.store[t] = m.store[t]
      BY <2>3, <1>1 DEF On
    <3> QED
      BY <3>1, <2>3, <1>2, SameLiving
  <2>4. \A b \in Block : n.block[b].num_ent = Cardinality(Filled(n, b)) + Ahead(b, B, d)
    BY <2>1, <1>9 DEF Counters, Quiet
  <2>5. \A t \in Store : On(n, t) => n.store[t].num_ent = Cardinality(Living(n, t)) + Ahead(t, s, d)
    <3> SUFFICES ASSUME NEW t \in Store, On(n, t)
                 PROVE  n.store[t].num_ent = Cardinality(Living(n, t)) + Ahead(t, s, d)
      OBVIOUS
    <3>1. CASE t = s
      BY <3>1, <2>2, <1>9 DEF Counters, Quiet
    <3>2. CASE t # s
      BY <3>2, <2>3, <1>9 DEF Counters
    <3> QED
      BY <3>1, <3>2
  <2> QED
    BY <2>4, <2>5 DEF Counters
<1>10. DOMAIN Tab(n, s) = DOMAIN Tab(m, s) /\ Len(Tab(n, s)) = Len(Tab(m, s))
  BY <1>1
<1>11. \A k \in DOMAIN Tab(m, s) : Mine(m, s, Tab(m, s)[k]) =>
         Tab(n, s)[k] = Tab(m, s)[k] /\ Mine(n, s, Tab(m, s)[k])
  BY <1>1, <1>2
<1>12. \A a : /\ Has(n, s, a) <=> Has(m, s, a)
              /\ Has(m, s, a) => /\ SlotOf(n, s, a).value = SlotOf(m, s, a).value
                                 /\ SlotOf(n, s, a).param = SlotOf(m, s, a).param
  BY <1>2, <1>7
<1> QED
  BY <1>1, <1>2, <1>6, <1>8, <1>9, <1>10, <1>11, <1>12, Zenon DEF Calm

(* A step that changes no value that is still in a slot, and clears D. *)
Settles(p, n, s, D) ==
  /\ Tab(n, s) = Tab(p, s)
  /\ n.store[s].hash = Xor(p.store[s].hash, {EntryOf(p, s, d) : d \in D})
  /\ \A b \in Block, o \in Ofs :
       /\ At(n, b, o).value = IF <<b, o>> \in Place(p, s, D) THEN NoVal ELSE At(p, b, o).value
       /\ At(n, b, o).value # NoVal => At(n, b, o).reuse = At(p, b, o).reuse
  /\ \A b \in Block : n.block[b].num_reloc = p.block[b].num_reloc
  /\ \A v \in Val : (\E c \in Pointers(p, v) : c \notin Place(p, s, D)) => n.value[v].content = p.value[v].content
  /\ \A v \in Val : n.value[v].write_count \in {p.value[v].write_count, 0}

LEMMA SettlesLedger ==
  ASSUME NEW p \in Memory, Tables(p), NEW n \in Memory, NEW s \in Store, On(p, s), On(n, s),
         NEW D \in SUBSET Living(p, s), Settles(p, n, s, D)
  PROVE  Ledger(p, n, s, D)
<1>1. ASSUME NEW b \in Block, NEW o \in Ofs, At(n, b, o).value # NoVal
      PROVE  /\ At(n, b, o).value = At(p, b, o).value /\ At(p, b, o).value \in Val
             /\ At(n, b, o).reuse = At(p, b, o).reuse /\ <<b, o>> \notin Place(p, s, D)
             /\ n.value[At(p, b, o).value].content = p.value[At(p, b, o).value].content
  <2>1. /\ At(n, b, o).value = At(p, b, o).value /\ At(n, b, o).reuse = At(p, b, o).reuse
        /\ <<b, o>> \notin Place(p, s, D)
    BY <1>1 DEF Settles
  <2>2. PICK v \in Val : v = At(p, b, o).value
    BY <1>1, <2>1, BlockFields
  <2>3. <<b, o>> \in Pointers(p, v)
    BY <2>2 DEF Pointers
  <2>4. n.value[v].content = p.value[v].content
    BY <2>1, <2>3 DEF Settles
  <2> QED
    BY <2>1, <2>2, <2>4
<1>2. \A a : (Has(n, s, a) <=> Has(p, s, a)) /\ BlockOf(n, s, a) = BlockOf(p, s, a)
  BY DEF Settles, Has, BlockOf, Tab
<1>3. ASSUME NEW a \in Addr, Has(p, s, a)
      PROVE  /\ BlockOf(p, s, a) \in Block /\ a % NSlots \in Ofs
             /\ SlotOf(p, s, a) = At(p, BlockOf(p, s, a), a % NSlots)
             /\ SlotOf(n, s, a) = At(n, BlockOf(p, s, a), a % NSlots)
             /\ <<BlockOf(p, s, a), a % NSlots>> \in Place(p, s, D) <=> a \in D
  <2>1. BlockOf(p, s, a) \in Block /\ a % NSlots \in Ofs /\ SlotOf(p, s, a) = At(p, BlockOf(p, s, a), a % NSlots)
    BY <1>3, HasFields
  <2>2. SlotOf(n, s, a) = At(n, BlockOf(p, s, a), a % NSlots)
    BY <1>2 DEF SlotOf, At
  <2>3. ASSUME NEW d \in D, <<BlockOf(p, s, a), a % NSlots>> = <<BlockOf(p, s, d), d % NSlots>> PROVE a = d
    <3>1. Has(p, s, d) /\ BlockOf(p, s, a) = BlockOf(p, s, d) /\ a % NSlots = d % NSlots
      BY <2>3 DEF Living, Alive
    <3> QED
      BY <3>1, <1>3, SamePlace
  <2> QED
    BY <2>1, <2>2, <2>3 DEF Place
<1>4. ASSUME NEW a \in Addr PROVE Alive(n, s, a) <=> Alive(p, s, a) /\ a \notin D
  <2>1. CASE ~ Has(p, s, a)
    BY <2>1, <1>2 DEF Alive
  <2>2. CASE Has(p, s, a)
    <3>1. SlotOf(n, s, a).value = IF a \in D THEN NoVal ELSE SlotOf(p, s, a).value
      BY <2>2, <1>3 DEF Settles
    <3> QED
      BY <2>2, <3>1, <1>2 DEF Alive
  <2> QED
    BY <2>1, <2>2
<1>5. Living(n, s) = Living(p, s) \ D
  BY <1>4 DEF Living
<1>6. ASSUME NEW a \in Living(n, s) PROVE EntryOf(n, s, a) = EntryOf(p, s, a)
  <2>1. a \in Addr /\ Has(p, s, a) /\ SlotOf(n, s, a).value # NoVal
    BY <1>2 DEF Living, Alive
  <2>2. PICK b \in Block, o \in Ofs : SlotOf(p, s, a) = At(p, b, o) /\ SlotOf(n, s, a) = At(n, b, o)
    BY <2>1, <1>3
  <2>3. At(n, b, o).value # NoVal
    BY <2>1, <2>2
  <2>4. /\ SlotOf(n, s, a).value = SlotOf(p, s, a).value /\ SlotOf(n, s, a).reuse = SlotOf(p, s, a).reuse
        /\ n.value[SlotOf(p, s, a).value].content = p.value[SlotOf(p, s, a).value].content
    BY <2>2, <2>3, <1>1
  <2> QED
    BY <2>4 DEF EntryOf, Content
<1>7. ASSUME NEW b \in Block PROVE Covered(p, n, s, b)
  <2>1. Relocated(n, b) \subseteq Relocated(p, b)
    BY <1>1 DEF Relocated, Filled
  <2>2. n.block[b].num_reloc = p.block[b].num_reloc
    BY DEF Settles
  <2> QED
    BY <2>1, <2>2 DEF Covered
<1>8. /\ n.store[s].hash = Xor(p.store[s].hash, {EntryOf(p, s, d) : d \in D})
      /\ \A v \in Val : n.value[v].write_count \in {p.value[v].write_count, 0}
  BY DEF Settles
<1> QED
  BY <1>5, <1>6, <1>7, <1>8 DEF Ledger

(* A step that changes no value that is in a slot. *)
Rests(p, n, s) ==
  /\ Tab(n, s) = Tab(p, s) /\ n.store[s].hash = p.store[s].hash
  /\ \A b \in Block, o \in Ofs :
       /\ At(n, b, o).value = At(p, b, o).value
       /\ At(n, b, o).value # NoVal => At(n, b, o).reuse = At(p, b, o).reuse
  /\ \A b \in Block : n.block[b].num_reloc = p.block[b].num_reloc
  /\ \A v \in Val : Pointers(p, v) # {} => n.value[v].content = p.value[v].content
  /\ \A v \in Val : n.value[v].write_count \in {p.value[v].write_count, 0}

LEMMA RestsLedger ==
  ASSUME NEW p \in Memory, Tables(p), NEW n \in Memory, NEW s \in Store, On(p, s), On(n, s), Rests(p, n, s)
  PROVE  /\ Ledger(p, n, s, {})
         /\ (\A v \in Val : n.value[v].write_count = p.value[v].write_count) => Plain(p, n, s)
<1>1. Place(p, s, {}) = {} /\ {EntryOf(p, s, d) : d \in {}} = {} /\ \A A : Xor(A, {}) = A
  BY DEF Place, Xor
<1>2. Settles(p, n, s, {})
  BY <1>1 DEF Rests, Settles
<1>3. Ledger(p, n, s, {})
  BY <1>2, SettlesLedger
<1> QED
  BY <1>3 DEF Plain

LEMMA RestsKeeps ==
  ASSUME NEW p \in Memory, Tables(p), NEW n \in Memory, NEW s \in Store, On(p, s), On(n, s), Rests(p, n, s), Same(p, n, s)
  PROVE  Keeps(p, n)
<1>1. Ledger(p, n, s, {})
  BY RestsLedger
<1>2. {} \in SUBSET Living(p, s)
  OBVIOUS
<1> QED
  BY <1>1, <1>2, TidyKept DEF Keeps

LEMMA PlainKeeps ==
  ASSUME NEW p \in Memory, NEW n \in Memory, NEW s \in Store, On(p, s), Plain(p, n, s), Same(p, n, s)
  PROVE  Keeps(p, n)
<1>1. Ledger(p, n, s, {})
  BY DEF Plain
<1>2. {} \in SUBSET Living(p, s)
  OBVIOUS
<1> QED
  BY <1>1, <1>2, TidyKept DEF Keeps

(* An open value stays open. *)
LEMMA OpenCalm ==
  ASSUME NEW m \in Memory, NEW H, NEW n, NEW s \in Store, On(m, s), Calm(m, n, s, H), Plain(m, n, s), NEW a,
         Has(m, s, a), Mine(m, s, BlockOf(m, s, a))
  PROVE  /\ Open(m, s, a) => Open(n, s, a)
         /\ BlockOf(n, s, a) = BlockOf(m, s, a) /\ Mine(n, s, BlockOf(n, s, a))
<1>1. n \in Memory /\ Same(m, n, s) /\ SlotOf(n, s, a).value = SlotOf(m, s, a).value
  BY DEF Calm, Good
<1>2. BlockNo(a) \in DOMAIN Tab(m, s) /\ BlockOf(m, s, a) = Tab(m, s)[BlockNo(a)]
  BY HasFields
<1>3. Tab(n, s)[BlockNo(a)] = Tab(m, s)[BlockNo(a)] /\ Mine(n, s, Tab(m, s)[BlockNo(a)])
  BY <1>2 DEF Calm
<1>4. BlockOf(n, s, a) = BlockOf(m, s, a) /\ Mine(n, s, BlockOf(n, s, a))
  BY <1>2, <1>3 DEF BlockOf, Tab
<1> QED
  BY <1>1, <1>4, OpenKept

-----------------------------------------------------------------------------
(***************************************************************************)
(* References.                                                             *)
(***************************************************************************)
(* A memory with other blocks. *)
LEMMA BlocksChanged ==
  ASSUME NEW p \in Memory, NEW B \in [Block -> StoreCell], NEW n, n = [p EXCEPT !.block = B]
  PROVE  n \in Memory /\ n.store = p.store /\ n.value = p.value /\ n.block = B
BY DEF Memory

LEMMA RefsNat ==
  ASSUME NEW m, NEW s, NEW X \in SUBSET Elem
  PROVE  \A b : Refs(m, s, X, b) \in Nat
<1> TAKE b
<1>1. {x \in X : ObjectAddress(m, s, x) = b} \in SUBSET Elem
  OBVIOUS
<1>2. IsFiniteSet({x \in X : ObjectAddress(m, s, x) = b})
  BY <1>1, FiniteSets, FS_Subset
<1> QED
  BY <1>2, FS_CardinalityType DEF Refs

(* Counting references to slots. *)
LEMMA IncrefCalm ==
  ASSUME NEW m, NEW H, Good(m, H), NEW s \in Store, On(m, s), NEW X \in SUBSET Elem
  PROVE  Calm(m, IncrefAll(m, s, X), s, H) /\ Plain(m, IncrefAll(m, s, X), s)
<1> DEFINE K == {BlockNo(a) : a \in {b \in Addr : Has(m, s, b) /\ Refs(m, s, X, b) > 0}}
           p == Private(m, s, K)
           rf(a) == Refs(m, s, X, a)
           no(b) == CHOOSE k \in K : p.store[s].blocks[k] = b
           slot(l, a) == IF l.value = NoVal THEN l ELSE [l EXCEPT !.refcnt = @ + rf(a)]
           slots(b) == [o \in Ofs |-> slot(p.block[b].slots[o], (no(b) - 1) * NSlots + o)]
           B == [b \in Block |-> IF \E k \in K : p.store[s].blocks[k] = b
                                 THEN [p.block[b] EXCEPT !.slots = slots(b)] ELSE p.block[b]]
           n == IncrefAll(m, s, X)
<1>1. m \in Memory
  BY DEF Good
<1>2. K \in SUBSET DOMAIN Tab(m, s)
  BY <1>1, HasFields
<1>3. n = [p EXCEPT !.block = B]
  BY Zenon DEF IncrefAll, WithSlots
<1>4. \A a : rf(a) \in Nat
  BY RefsNat
<1>5. DOMAIN B = Block /\ \A b \in Block :
        B[b] = IF \E k \in K : Tab(p, s)[k] = b THEN [p.block[b] EXCEPT !.slots = slots(b)] ELSE p.block[b]
  BY Zenon DEF Tab
<1>6. \A b : DOMAIN slots(b) = Ofs /\ \A o \in Ofs : \E i \in Nat :
        slots(b)[o] = IF At(p, b, o).value = NoVal THEN At(p, b, o) ELSE [At(p, b, o) EXCEPT !.refcnt = @ + i]
  <2> TAKE b
  <2>1. DOMAIN slots(b) = Ofs
    BY Zenon
  <2>2. ASSUME NEW o \in Ofs
        PROVE  \E i \in Nat : slots(b)[o] =
                 IF At(p, b, o).value = NoVal THEN At(p, b, o) ELSE [At(p, b, o) EXCEPT !.refcnt = @ + i]
    <3>1. slots(b)[o] = slot(p.block[b].slots[o], (no(b) - 1) * NSlots + o)
      BY Zenon
    <3>2. PICK i \in Nat : i = rf((no(b) - 1) * NSlots + o)
      BY <1>4
    <3>4. slots(b)[o] = slot(At(p, b, o), (no(b) - 1) * NSlots + o)
      BY <3>1 DEF At
    <3> HIDE DEF p, K, no, rf, slots
    <3>3. slots(b)[o] = IF At(p, b, o).value = NoVal THEN At(p, b, o) ELSE [At(p, b, o) EXCEPT !.refcnt = @ + i]
      BY <3>4, <3>2
    <3> QED
      BY <3>3
  <2> QED
    BY <2>1, <2>2
<1> HIDE DEF K, p, rf, no, slot, slots, B, n
<1>7. /\ Calm(m, p, s, H) /\ Plain(m, p, s) /\ \A k \in K : Mine(p, s, Tab(p, s)[k])
  BY <1>2, PrivateCalm DEF p
<1>8. Good(p, H) /\ p \in Memory /\ On(p, s)
  BY <1>7 DEF Calm, Good
<1>9. ASSUME NEW b \in Block, NEW o \in Ofs
      PROVE  /\ slots(b)[o] \in Slot
             /\ slots(b)[o].value = At(p, b, o).value /\ slots(b)[o].param = At(p, b, o).param
             /\ slots(b)[o].reuse = At(p, b, o).reuse
  <2>1. PICK i \in Nat : slots(b)[o] = IF At(p, b, o).value = NoVal THEN At(p, b, o)
                                       ELSE [At(p, b, o) EXCEPT !.refcnt = @ + i]
    BY <1>6
  <2>2. At(p, b, o) \in Slot
    BY <1>8, BlockFields
  <2> QED
    BY <2>1, <2>2 DEF Slot
<1>10. ASSUME NEW b \in Block
       PROVE  /\ B[b] \in StoreCell
              /\ B[b].refcnt = p.block[b].refcnt /\ B[b].num_ent = p.block[b].num_ent
              /\ ~ Mine(p, s, b) => B[b] = p.block[b]
              /\ \A o \in Ofs : /\ B[b].slots[o].value = At(p, b, o).value
                                /\ B[b].slots[o].param = At(p, b, o).param
                                /\ B[b].slots[o].reuse = At(p, b, o).reuse
              /\ B[b].num_reloc = p.block[b].num_reloc
  <2>1. p.block[b] \in StoreCell
    BY <1>8, BlockFields
  <2>2. CASE \E k \in K : Tab(p, s)[k] = b
    <3>1. B[b] = [p.block[b] EXCEPT !.slots = slots(b)]
      BY <2>2, <1>5
    <3>2. slots(b) \in [Ofs -> Slot]
      <4>1. slots(b) = [o \in Ofs |-> slots(b)[o]]
        BY DEF slots
      <4> QED
        BY <4>1, <1>9
    <3>3. Mine(p, s, b)
      BY <2>2, <1>7
    <3> QED
      BY <2>1, <3>1, <3>2, <3>3, <1>9 DEF StoreCell
  <2>3. CASE ~ \E k \in K : Tab(p, s)[k] = b
    <3>1. B[b] = p.block[b]
      BY <2>3, <1>5
    <3> QED
      BY <2>1, <3>1 DEF At
  <2> QED
    BY <2>2, <2>3
<1>11. B \in [Block -> StoreCell]
  <2>1. B = [b \in Block |-> B[b]]
    BY DEF B
  <2> QED
    BY <2>1, <1>10
<1>12. n \in Memory /\ n.store = p.store /\ n.value = p.value /\ n.block = B
  BY <1>3, <1>8, <1>11, BlocksChanged
<1>13. Writes(p, n, s)
  <2>1. On(n, s) /\ Tab(n, s) = Tab(p, s)
    BY <1>8, <1>12 DEF On, Tab
  <2> QED
    BY <2>1, <1>10, <1>12 DEF Writes
<1>14. Quiet(p, n, s)
  BY <1>10, <1>12 DEF Quiet, At
<1>15. Calm(p, n, s, H)
  BY <1>8, <1>13, <1>14, QuietCalm
<1>16. Calm(m, n, s, H)
  BY <1>7, <1>15, CalmTrans
<1>17. Rests(p, n, s)
  BY <1>10, <1>12 DEF Rests, Tab, At
<1>18. Ledger(p, n, s, {}) /\ Plain(p, n, s)
  <2>1. Tables(p) /\ On(n, s)
    BY <1>8, <1>13 DEF Good, Writes
  <2> QED
    BY <2>1, <1>8, <1>12, <1>17, RestsLedger
<1>19. Plain(m, n, s)
  BY <1>7, <1>18, LedgerAfter
<1> QED
  BY <1>16, <1>19 DEF n

-----------------------------------------------------------------------------
(***************************************************************************)
(* Values leave slots.                                                     *)
(***************************************************************************)
(* The slots of the addresses D, as block and offset *)
Cleared(m, s, D, v) == {d \in D : SlotOf(m, s, d).value = v}
InBlock(m, s, D, b) == {d \in D : BlockOf(m, s, d) = b}

(* Addresses and places can be counted in place of each other. *)
LEMMA PlacesCounted ==
  ASSUME NEW m \in Memory, Tables(m), NEW s \in Store, On(m, s), NEW D, \A d \in D : Has(m, s, d)
  PROVE  /\ IsFiniteSet(D)
         /\ \A c \in Place(m, s, D) : c \in Block \X Ofs
         /\ \A v : /\ IsFiniteSet(Cleared(m, s, D, v))
                   /\ Cardinality(Cleared(m, s, D, v)) =
                        Cardinality({c \in Place(m, s, D) : At(m, c[1], c[2]).value = v})
         /\ \A b : /\ IsFiniteSet(InBlock(m, s, D, b))
                   /\ Cardinality(InBlock(m, s, D, b)) = Cardinality({o \in Ofs : <<b, o>> \in Place(m, s, D)})
<1>1. IsFiniteSet(D)
  <2>1. D \in SUBSET Addr
    BY HasFields
  <2> QED
    BY <2>1, FiniteSets, FS_Subset
<1>2. \A d \in D : /\ BlockOf(m, s, d) \in Block /\ d % NSlots \in Ofs
                   /\ SlotOf(m, s, d) = At(m, BlockOf(m, s, d), d % NSlots)
  BY HasFields
<1>3. \A c \in Place(m, s, D) : c \in Block \X Ofs
  BY <1>2 DEF Place
<1>4. \A d, e \in D : BlockOf(m, s, d) = BlockOf(m, s, e) /\ d % NSlots = e % NSlots => d = e
  BY SamePlace
<1>5. ASSUME NEW v
      PROVE  /\ IsFiniteSet(Cleared(m, s, D, v))
             /\ Cardinality(Cleared(m, s, D, v)) =
                  Cardinality({c \in Place(m, s, D) : At(m, c[1], c[2]).value = v})
  <2> DEFINE C == Cleared(m, s, D, v)
             P == {c \in Place(m, s, D) : At(m, c[1], c[2]).value = v}
             f == [d \in C |-> <<BlockOf(m, s, d), d % NSlots>>]
  <2>1. C \in SUBSET D
    BY DEF Cleared
  <2>2. IsFiniteSet(C)
    BY <2>1, <1>1, FS_Subset
  <2>3. f \in [C -> P]
    <3>1. ASSUME NEW d \in C PROVE <<BlockOf(m, s, d), d % NSlots>> \in P
      BY <2>1, <1>2 DEF Cleared, Place
    <3> HIDE DEF P, C
    <3> QED
      BY <3>1
  <2>4. \A x, y \in C : f[x] = f[y] => x = y
    <3>1. ASSUME NEW x \in C, NEW y \in C, f[x] = f[y] PROVE x = y
      <4>1. <<BlockOf(m, s, x), x % NSlots>> = <<BlockOf(m, s, y), y % NSlots>>
        BY <3>1
      <4>2. BlockOf(m, s, x) = BlockOf(m, s, y) /\ x % NSlots = y % NSlots
        BY <4>1
      <4> QED
        BY <4>2, <2>1, <1>4
    <3> QED
      BY <3>1
  <2>5. \A z \in P : \E x \in C : f[x] = z
    <3>1. ASSUME NEW z \in P PROVE \E x \in C : f[x] = z
      <4>1. PICK d \in D : z = <<BlockOf(m, s, d), d % NSlots>>
        BY DEF Place
      <4>2. z[1] = BlockOf(m, s, d) /\ z[2] = d % NSlots /\ At(m, z[1], z[2]).value = v
        BY <4>1
      <4>3. d \in C
        BY <4>2, <1>2 DEF Cleared
      <4> QED
        BY <4>1, <4>3
    <3> QED
      BY <3>1
  <2> HIDE DEF C, P, f
  <2>6. Cardinality(P) = Cardinality(C)
    BY <2>2, <2>3, <2>4, <2>5, ImageSize
  <2> QED
    BY <2>2, <2>6 DEF C, P
<1>6. ASSUME NEW b
      PROVE  /\ IsFiniteSet(InBlock(m, s, D, b))
             /\ Cardinality(InBlock(m, s, D, b)) = Cardinality({o \in Ofs : <<b, o>> \in Place(m, s, D)})
  <2> DEFINE C == InBlock(m, s, D, b)
             P == {o \in Ofs : <<b, o>> \in Place(m, s, D)}
             f == [d \in C |-> d % NSlots]
  <2>1. C \in SUBSET D
    BY DEF InBlock
  <2>2. IsFiniteSet(C)
    BY <2>1, <1>1, FS_Subset
  <2>3. f \in [C -> P]
    <3>1. ASSUME NEW d \in C PROVE d % NSlots \in P
      <4>1. d \in D /\ BlockOf(m, s, d) = b
        BY DEF InBlock
      <4>2. <<b, d % NSlots>> \in Place(m, s, D)
        BY <4>1 DEF Place
      <4> QED
        BY <4>1, <4>2, <1>2
    <3> HIDE DEF P, C
    <3> QED
      BY <3>1
  <2>4. \A x, y \in C : f[x] = f[y] => x = y
    <3>1. ASSUME NEW x \in C, NEW y \in C, f[x] = f[y] PROVE x = y
      <4>1. x % NSlots = y % NSlots
        BY <3>1
      <4>2. x \in D /\ y \in D /\ BlockOf(m, s, x) = BlockOf(m, s, y)
        BY DEF InBlock
      <4> QED
        BY <4>1, <4>2, <1>4
    <3> QED
      BY <3>1
  <2>5. \A z \in P : \E x \in C : f[x] = z
    <3>1. ASSUME NEW z \in P PROVE \E x \in C : f[x] = z
      <4>1. PICK d \in D : <<b, z>> = <<BlockOf(m, s, d), d % NSlots>>
        BY DEF Place
      <4>2. b = BlockOf(m, s, d) /\ z = d % NSlots
        BY <4>1
      <4>3. d \in C
        BY <4>2 DEF InBlock
      <4> QED
        BY <4>2, <4>3
    <3> QED
      BY <3>1
  <2> HIDE DEF C, P, f
  <2>6. Cardinality(P) = Cardinality(C)
    BY <2>2, <2>3, <2>4, <2>5, ImageSize
  <2> QED
    BY <2>2, <2>6 DEF C, P
<1> QED
  BY <1>1, <1>3, <1>5, <1>6

(* n is m without the values in the slots of D *)
Clears(m, n, s, D) ==
  /\ \A b \in Block, o \in Ofs :
       /\ At(n, b, o).value # NoVal => At(n, b, o).param = At(m, b, o).param
       /\ At(n, b, o).value = IF <<b, o>> \in Place(m, s, D) THEN NoVal ELSE At(m, b, o).value
  /\ \A v \in Val : n.value[v].refcnt = m.value[v].refcnt - Cardinality(Cleared(m, s, D, v))

(* The pointers to a value, with and without those of D. *)
LEMMA PointersCleared ==
  ASSUME NEW m \in Memory, Tables(m), NEW s \in Store, On(m, s), NEW D \in SUBSET Living(m, s), NEW v \in Val
  PROVE  /\ Cardinality(Cleared(m, s, D, v)) \in Nat
         /\ Cardinality(Pointers(m, v)) =
              Cardinality(Pointers(m, v) \ Place(m, s, D)) + Cardinality(Cleared(m, s, D, v))
         /\ IsFiniteSet(Pointers(m, v) \ Place(m, s, D))
         /\ Cardinality(Pointers(m, v) \ Place(m, s, D)) \in Nat
<1> DEFINE P == {c \in Place(m, s, D) : At(m, c[1], c[2]).value = v}
           Q == Pointers(m, v) \ Place(m, s, D)
<1>1. \A d \in D : Has(m, s, d)
  BY DEF Living, Alive
<1>2. /\ \A c \in Place(m, s, D) : c \in Block \X Ofs
      /\ Cardinality(Cleared(m, s, D, v)) = Cardinality(P)
  BY <1>1, PlacesCounted
<1>3. Pointers(m, v) = Q \cup P /\ Q \cap P = {}
  BY <1>2 DEF Pointers
<1>4. P \in SUBSET (Block \X Ofs) /\ Q \in SUBSET (Block \X Ofs)
  BY <1>2 DEF Pointers
<1> HIDE DEF P, Q
<1>5. IsFiniteSet(P) /\ IsFiniteSet(Q)
  BY <1>4, FiniteSets, FS_Subset
<1>6. Cardinality(Pointers(m, v)) = Cardinality(Q) + Cardinality(P) /\ Cardinality(P) \in Nat
      /\ Cardinality(Q) \in Nat
  BY <1>3, <1>5, Parts
<1> QED
  BY <1>2, <1>5, <1>6 DEF Q

LEMMA ClearsGood ==
  ASSUME NEW m, NEW H, Good(m, H), NEW s \in Store, On(m, s), NEW n, Writes(m, n, s),
         NEW D \in SUBSET Living(m, s), Clears(m, n, s, D)
  PROVE  Good(n, H) /\ Living(n, s) = Living(m, s) \ D
<1>1. /\ m \in Memory /\ Tables(m) /\ InUse(m) /\ ValuesCounted(m, H) /\ Buffers(H) /\ n \in Memory
  BY DEF Good, Writes
<1>2. /\ Tables(n) /\ BlocksCounted(n) /\ FreeEmpty(n)
      /\ \A a : (Has(n, s, a) <=> Has(m, s, a)) /\ BlockOf(n, s, a) = BlockOf(m, s, a)
  BY WritesFrame
<1>3. InUse(n)
  BY <1>1 DEF InUse, Clears
<1>4. ValuesCounted(n, H)
  <2> SUFFICES ASSUME NEW v \in Val
               PROVE  n.value[v].refcnt = Cardinality(Pointers(n, v)) + Cardinality(Records(H, v))
    BY DEF ValuesCounted
  <2>1. Pointers(n, v) = Pointers(m, v) \ Place(m, s, D)
    <3>1. ASSUME NEW c \in Block \X Ofs PROVE c \in Pointers(n, v) <=> c \in Pointers(m, v) \ Place(m, s, D)
      <4>1. c[1] \in Block /\ c[2] \in Ofs /\ c = <<c[1], c[2]>>
        OBVIOUS
      <4>2. At(n, c[1], c[2]).value = IF c \in Place(m, s, D) THEN NoVal ELSE At(m, c[1], c[2]).value
        BY <4>1 DEF Clears
      <4>3. v # NoVal
        BY StoreAssumption
      <4> QED
        BY <4>1, <4>2, <4>3 DEF Pointers
    <3>2. Pointers(n, v) \subseteq Block \X Ofs /\ Pointers(m, v) \subseteq Block \X Ofs
      BY DEF Pointers
    <3> QED
      BY <3>1, <3>2
  <2>2. /\ Cardinality(Cleared(m, s, D, v)) \in Nat
        /\ Cardinality(Pointers(m, v)) =
             Cardinality(Pointers(m, v) \ Place(m, s, D)) + Cardinality(Cleared(m, s, D, v))
        /\ Cardinality(Pointers(m, v) \ Place(m, s, D)) \in Nat
    BY <1>1, PointersCleared
  <2>3. Cardinality(Records(H, v)) \in Nat
    BY <1>1, Sizes
  <2>4. m.value[v].refcnt = Cardinality(Pointers(m, v)) + Cardinality(Records(H, v))
    BY <1>1 DEF ValuesCounted
  <2>5. n.value[v].refcnt = m.value[v].refcnt - Cardinality(Cleared(m, s, D, v))
    BY DEF Clears
  <2> QED
    BY <2>1, <2>2, <2>3, <2>4, <2>5
<1>5. ASSUME NEW a \in Addr PROVE a \in Living(n, s) <=> a \in Living(m, s) \ D
  <2>1. CASE ~ Has(m, s, a)
    BY <2>1, <1>2 DEF Living, Alive
  <2>2. CASE Has(m, s, a)
    <3>1. BlockOf(m, s, a) \in Block /\ a % NSlots \in Ofs
      BY <1>1, <2>2, HasFields
    <3>2. /\ SlotOf(m, s, a) = At(m, BlockOf(m, s, a), a % NSlots)
          /\ SlotOf(n, s, a) = At(n, BlockOf(m, s, a), a % NSlots)
      BY <1>2 DEF SlotOf, At
    <3>3. <<BlockOf(m, s, a), a % NSlots>> \in Place(m, s, D) <=> a \in D
      <4>1. ASSUME NEW d \in D, <<BlockOf(m, s, a), a % NSlots>> = <<BlockOf(m, s, d), d % NSlots>> PROVE a = d
        <5>1. BlockOf(m, s, a) = BlockOf(m, s, d) /\ a % NSlots = d % NSlots
          BY <4>1
        <5>2. Has(m, s, d)
          BY DEF Living, Alive
        <5> QED
          BY <5>1, <5>2, <2>2, <1>1, SamePlace
      <4> QED
        BY <4>1 DEF Place
    <3>4. SlotOf(n, s, a).value = IF a \in D THEN NoVal ELSE SlotOf(m, s, a).value
      BY <3>1, <3>2, <3>3 DEF Clears
    <3> QED
      BY <3>4, <2>2, <1>2 DEF Living, Alive
  <2> QED
    BY <2>1, <2>2
<1>6. Living(n, s) \subseteq Addr /\ Living(m, s) \subseteq Addr
  BY DEF Living
<1> QED
  BY <1>1, <1>2, <1>3, <1>4, <1>5, <1>6 DEF Good

(* The counters of s and B, when e of the values that leave are not        *)
(* counted.                                                                *)
LEMMA ClearsCounters ==
  ASSUME NEW m, NEW H, Good(m, H), NEW s \in Store, On(m, s), NEW n, Writes(m, n, s),
         NEW D \in SUBSET Living(m, s), Clears(m, n, s, D), NEW B, NEW d \in Int, NEW e \in Int,
         \A b \in Block : n.block[b].num_ent = m.block[b].num_ent - Cardinality(InBlock(m, s, D, b)) + Ahead(b, B, e),
         n.store[s].num_ent = m.store[s].num_ent - Cardinality(D) + e,
         Counters(m, s, B, d)
  PROVE  Counters(n, s, B, d + e)
<1>1. /\ m \in Memory /\ Tables(m) /\ Buffers(H) /\ n \in Memory /\ On(n, s)
      /\ \A t \in Store \ {s} : n.store[t] = m.store[t]
  BY DEF Good, Writes
<1>2. Same(m, n, s) /\ Living(n, s) = Living(m, s) \ D
  BY WritesFrame, ClearsGood
<1>3. \A x \in D : Has(m, s, x) /\ SlotOf(m, s, x).value # NoVal
  BY DEF Living, Alive
<1>4. \A b : /\ IsFiniteSet(InBlock(m, s, D, b))
             /\ Cardinality(InBlock(m, s, D, b)) = Cardinality({o \in Ofs : <<b, o>> \in Place(m, s, D)})
  BY <1>1, <1>3, PlacesCounted, SMTT(30)
<1>5. IsFiniteSet(D)
  BY <1>1, <1>3, PlacesCounted
<1>6. ASSUME NEW b \in Block PROVE n.block[b].num_ent = Cardinality(Filled(n, b)) + Ahead(b, B, d + e)
  <2> DEFINE P == {o \in Ofs : <<b, o>> \in Place(m, s, D)}
  <2>1. Filled(n, b) = Filled(m, b) \ P /\ P \subseteq Filled(m, b)
    <3>1. ASSUME NEW o \in Ofs, <<b, o>> \in Place(m, s, D) PROVE At(m, b, o).value # NoVal
      <4>1. PICK x \in D : <<b, o>> = <<BlockOf(m, s, x), x % NSlots>>
        BY <3>1 DEF Place
      <4>2. b = BlockOf(m, s, x) /\ o = x % NSlots
        BY <4>1
      <4> QED
        BY <4>2, <1>3 DEF SlotOf, At
    <3> QED
      BY <3>1 DEF Filled, Clears
  <2>2. IsFiniteSet(Filled(m, b)) /\ Cardinality(Filled(m, b)) \in Nat
    BY <1>1, Sizes
  <2>3. Cardinality(InBlock(m, s, D, b)) = Cardinality(P) /\ IsFiniteSet(P) /\ Cardinality(P) \in Nat
    <3>1. P \in SUBSET Ofs
      OBVIOUS
    <3> QED
      BY <3>1, <1>4, FiniteSets, FS_Subset, FS_CardinalityType
  <2> HIDE DEF P
  <2>4. Filled(m, b) \cap P = P
    BY <2>1
  <2>5. Cardinality(Filled(n, b)) = Cardinality(Filled(m, b)) - Cardinality(P)
    <3>1. PICK F : F = Filled(m, b)
      OBVIOUS
    <3>2. IsFiniteSet(F)
      BY <3>1, <2>2, Zenon
    <3>3. Cardinality(F \ P) = Cardinality(F) - Cardinality(F \cap P)
      BY <3>2, FS_Difference, Zenon
    <3> QED
      BY <3>1, <3>3, <2>1, <2>4, Zenon
  <2>6. m.block[b].num_ent = Cardinality(Filled(m, b)) + Ahead(b, B, d)
    BY DEF Counters
  <2>7. Ahead(b, B, d) \in Int /\ Ahead(b, B, e) \in Int /\ Ahead(b, B, d + e) = Ahead(b, B, d) + Ahead(b, B, e)
    BY DEF Ahead
  <2>8. Cardinality(Filled(m, b)) \in Int /\ Cardinality(P) \in Int
    BY <2>2, <2>3
  <2>9. n.block[b].num_ent = m.block[b].num_ent - Cardinality(P) + Ahead(b, B, e)
    BY <2>3
  <2> QED
    BY <2>5, <2>6, <2>7, <2>8, <2>9
<1>7. ASSUME NEW t \in Store, On(n, t) PROVE n.store[t].num_ent = Cardinality(Living(n, t)) + Ahead(t, s, d + e)
  <2>1. CASE t = s
    <3>1. IsFiniteSet(Living(m, s)) /\ Cardinality(Living(m, s)) \in Nat /\ Cardinality(D) \in Nat
      BY <1>1, <1>5, Sizes, FS_CardinalityType
    <3>2. Living(m, s) \cap D = D
      OBVIOUS
    <3>3. Cardinality(Living(n, s)) = Cardinality(Living(m, s)) - Cardinality(D)
      BY <1>2, <3>1, <3>2, FS_Difference
    <3>4. m.store[s].num_ent = Cardinality(Living(m, s)) + d
      BY DEF Counters, Ahead
    <3>5. Ahead(t, s, d + e) = d + e
      BY <2>1 DEF Ahead
    <3> QED
      BY <2>1, <3>1, <3>3, <3>4, <3>5
  <2>2. CASE t # s
    <3>1. On(m, t) /\ n.store[t] = m.store[t]
      BY <2>2, <1>1, <1>7 DEF On
    <3>2. Living(n, t) = Living(m, t)
      BY <3>1, <2>2, <1>2, SameLiving
    <3> QED
      BY <3>1, <3>2, <2>2 DEF Counters, Ahead
  <2> QED
    BY <2>1, <2>2
<1> QED
  BY <1>6, <1>7 DEF Counters

(***************************************************************************)
(* cesk_store_decref.                                                      *)
(***************************************************************************)
(* More dead slots release more references. *)
LEMMA ReleasedMonotone ==
  ASSUME NEW m, NEW s, NEW n \in [Addr -> Nat], NEW D \in SUBSET Addr, NEW E \in SUBSET Addr, D \subseteq E,
         NEW b \in Addr
  PROVE  /\ Released(m, s, n, D, b) \in Nat /\ Released(m, s, n, E, b) \in Nat
         /\ Released(m, s, n, D, b) <= Released(m, s, n, E, b)
<1> DEFINE R(F) == {c \in F \X Elem : c[2] \in Content(m, s, c[1]) /\ ObjectAddress(m, s, c[2]) = b}
<1>1. ASSUME NEW F \in SUBSET Addr PROVE IsFiniteSet(R(F)) /\ Cardinality(R(F)) \in Nat
  <2>1. IsFiniteSet(F)
    BY FiniteSets, FS_Subset
  <2>2. IsFiniteSet(F \X Elem)
    BY <2>1, FiniteSets, FS_Product
  <2>3. R(F) \in SUBSET (F \X Elem)
    OBVIOUS
  <2> QED
    BY <2>2, <2>3, FS_Subset, FS_CardinalityType
<1>2. R(D) \in SUBSET R(E)
  OBVIOUS
<1>3. Released(m, s, n, D, b) = n[b] + Cardinality(R(D)) /\ Released(m, s, n, E, b) = n[b] + Cardinality(R(E))
  BY DEF Released
<1>4. IsFiniteSet(R(D)) /\ IsFiniteSet(R(E)) /\ Cardinality(R(D)) \in Nat /\ Cardinality(R(E)) \in Nat
  BY <1>1
<1>5. n[b] \in Nat
  OBVIOUS
<1> HIDE DEF R
<1>6. Cardinality(R(D)) <= Cardinality(R(E))
  BY <1>2, <1>4, FS_Subset
<1> QED
  BY <1>3, <1>4, <1>5, <1>6

LEMMA DyingMonotone ==
  ASSUME NEW m \in Memory, NEW s \in Store, On(m, s), NEW n \in [Addr -> Nat],
         NEW D \in SUBSET Addr, NEW E \in SUBSET Addr, D \subseteq E
  PROVE  Dying(m, s, n, D) \subseteq Dying(m, s, n, E)
<1> SUFFICES ASSUME NEW b \in Dying(m, s, n, D) PROVE b \in Dying(m, s, n, E)
  OBVIOUS
<1>1. b \in Addr /\ Alive(m, s, b) /\ Released(m, s, n, D, b) > 0 /\ SlotOf(m, s, b).refcnt <= Released(m, s, n, D, b)
  BY DEF Dying
<1>2. /\ Released(m, s, n, D, b) \in Nat /\ Released(m, s, n, E, b) \in Nat
      /\ Released(m, s, n, D, b) <= Released(m, s, n, E, b)
  BY <1>1, ReleasedMonotone
<1>3. SlotOf(m, s, b) \in Slot
  BY <1>1, HasFields DEF Alive
<1>4. SlotOf(m, s, b).refcnt \in Nat
  BY <1>3 DEF Slot
<1>5. Released(m, s, n, E, b) > 0 /\ SlotOf(m, s, b).refcnt <= Released(m, s, n, E, b)
  BY <1>1, <1>2, <1>4
<1> QED
  BY <1>1, <1>5 DEF Dying

(* The slots that die are living ones that lose their last reference: the  *)
(* least fixed point of Dying exists.                                      *)
LEMMA DeadIs ==
  ASSUME NEW m \in Memory, NEW s \in Store, On(m, s), NEW n \in [Addr -> Nat]
  PROVE  Dead(m, s, n) \in SUBSET Living(m, s) /\ Dying(m, s, n, Dead(m, s, n)) = Dead(m, s, n)
<1> DEFINE P == {D \in SUBSET Living(m, s) : Dying(m, s, n, D) \subseteq D}
           L == {a \in Living(m, s) : \A D \in P : a \in D}
           fixed == {D \in SUBSET Living(m, s) : Dying(m, s, n, D) = D}
<1>1. Living(m, s) \subseteq Addr /\ \A D : Dying(m, s, n, D) \subseteq Living(m, s)
  BY DEF Living, Dying
<1>2. \A D \in P : Dying(m, s, n, L) \subseteq D
  <2>1. ASSUME NEW D \in P PROVE Dying(m, s, n, L) \subseteq D
    <3>1. L \in SUBSET Addr /\ D \in SUBSET Addr /\ L \subseteq D
      BY <1>1
    <3>2. Dying(m, s, n, L) \subseteq Dying(m, s, n, D)
      BY <3>1, DyingMonotone
    <3> QED
      BY <3>2
  <2> QED
    BY <2>1
<1>3. Dying(m, s, n, L) \subseteq L
  BY <1>1, <1>2
<1>4. L \subseteq Dying(m, s, n, L)
  <2>1. L \in SUBSET Addr /\ Dying(m, s, n, L) \in SUBSET Addr
    BY <1>1
  <2>2. Dying(m, s, n, Dying(m, s, n, L)) \subseteq Dying(m, s, n, L)
    BY <2>1, <1>3, DyingMonotone
  <2>3. Dying(m, s, n, L) \in P
    BY <2>2, <1>1
  <2> QED
    BY <2>3
<1>5. L \in fixed /\ \A E \in fixed : L \subseteq E
  BY <1>3, <1>4
<1>6. Dead(m, s, n) = CHOOSE D \in fixed : \A E \in fixed : D \subseteq E
  BY Zenon DEF Dead, Living
<1> HIDE DEF L
<1>7. Dead(m, s, n) \in fixed
  BY <1>5, <1>6
<1> QED
  BY <1>7

(* A step that no other frame sees and that at most takes values out of s *)
Fades(m, n, s, H) ==
  /\ Good(n, H) /\ On(n, s) /\ Same(m, n, s)
  /\ DOMAIN Tab(n, s) = DOMAIN Tab(m, s) /\ Len(Tab(n, s)) = Len(Tab(m, s))
  /\ \A a : /\ Has(n, s, a) <=> Has(m, s, a)
            /\ Has(m, s, a) => /\ SlotOf(n, s, a).value \in {SlotOf(m, s, a).value, NoVal}
                               /\ SlotOf(n, s, a).param = SlotOf(m, s, a).param
  /\ \A k \in DOMAIN Tab(m, s) : Mine(m, s, Tab(m, s)[k]) =>
       Tab(n, s)[k] = Tab(m, s)[k] /\ Mine(n, s, Tab(m, s)[k])
  /\ \A B, d : d \in Int /\ (d = 0 \/ Mine(m, s, B)) /\ Counters(m, s, B, d) => Counters(n, s, B, d)

LEMMA CalmFades ==
  ASSUME NEW m, NEW n, NEW s, NEW H, Calm(m, n, s, H)
  PROVE  Fades(m, n, s, H)
<1>1. \A a : Has(m, s, a) => SlotOf(n, s, a).value \in {SlotOf(m, s, a).value, NoVal}
  BY DEF Calm
<1> QED
  BY <1>1, Zenon DEF Calm, Fades

LEMMA FadesTrans ==
  ASSUME NEW m, NEW n, NEW p, NEW s, NEW H, Fades(m, n, s, H), Fades(n, p, s, H)
  PROVE  Fades(m, p, s, H)
<1>1. /\ Good(p, H) /\ On(p, s)
      /\ DOMAIN Tab(p, s) = DOMAIN Tab(m, s) /\ Len(Tab(p, s)) = Len(Tab(m, s))
  BY Zenon DEF Fades
<1>2. Same(m, p, s)
  BY SameTrans, Zenon DEF Fades
<1>3. \A a : /\ Has(p, s, a) <=> Has(m, s, a)
             /\ Has(m, s, a) => /\ SlotOf(p, s, a).value \in {SlotOf(m, s, a).value, NoVal}
                                /\ SlotOf(p, s, a).param = SlotOf(m, s, a).param
  BY DEF Fades
<1>4. \A k \in DOMAIN Tab(m, s) : Mine(m, s, Tab(m, s)[k]) =>
        Tab(p, s)[k] = Tab(m, s)[k] /\ Mine(p, s, Tab(m, s)[k])
  <2> TAKE k \in DOMAIN Tab(m, s)
  <2> HAVE Mine(m, s, Tab(m, s)[k])
  <2>1. Tab(n, s)[k] = Tab(m, s)[k] /\ Mine(n, s, Tab(m, s)[k]) /\ k \in DOMAIN Tab(n, s)
    BY DEF Fades
  <2> QED
    BY <2>1 DEF Fades
<1>6. ASSUME NEW B, NEW d, d \in Int, d = 0 \/ Mine(m, s, B), Counters(m, s, B, d)
      PROVE  Counters(p, s, B, d)
  <2>1. Counters(n, s, B, d)
    BY <1>6, Zenon DEF Fades
  <2>2. d = 0 \/ Mine(n, s, B)
    <3>1. CASE Mine(m, s, B)
      <4>1. PICK k \in DOMAIN Tab(m, s) : Tab(m, s)[k] = B
        BY <3>1 DEF Mine
      <4> QED
        BY <3>1, <4>1 DEF Fades
    <3> QED
      BY <1>6, <3>1
  <2> QED
    BY <1>6, <2>1, <2>2, Zenon DEF Fades
<1> QED
  BY <1>1, <1>2, <1>3, <1>4, <1>6, Zenon DEF Fades

(* cesk_value_decref, when the value counts n references and more. *)
LEMMA UnrefIs ==
  ASSUME NEW val \in Value, NEW n \in Nat, n <= val.refcnt
  PROVE  /\ Unref(val, n) \in Value /\ Unref(val, n).refcnt = val.refcnt - n
         /\ n < val.refcnt => Unref(val, n).content = val.content
         /\ Unref(val, n).write_count \in {val.write_count, 0}
<1>1. val.refcnt \in Nat
  BY DEF Value
<1>2. CASE val.refcnt > n
  <2>1. Unref(val, n) = [val EXCEPT !.refcnt = @ - n]
    BY <1>2 DEF Unref
  <2> QED
    BY <1>1, <1>2, <2>1 DEF Value
<1>3. CASE val.refcnt = n /\ n > 0
  <2>1. Unref(val, n) = NewValue
    BY <1>3 DEF Unref
  <2> QED
    BY <1>1, <1>3, <2>1 DEF Value, NewValue
<1>4. CASE val.refcnt = n /\ n = 0
  <2>1. Unref(val, n) = val
    BY <1>4 DEF Unref
  <2> QED
    BY <1>1, <1>4, <2>1
<1> QED
  BY <1>1, <1>2, <1>3, <1>4

LEMMA ClearsFades ==
  ASSUME NEW m, NEW H, Good(m, H), NEW s \in Store, On(m, s), NEW n, Writes(m, n, s),
         NEW D \in SUBSET Living(m, s), Clears(m, n, s, D),
         \A b \in Block, o \in Ofs : At(n, b, o).param = At(m, b, o).param,
         \A b \in Block : n.block[b].num_ent = m.block[b].num_ent - Cardinality(InBlock(m, s, D, b)),
         n.store[s].num_ent = m.store[s].num_ent - Cardinality(D)
  PROVE  Fades(m, n, s, H)
<1>1. m \in Memory /\ Tables(m) /\ n \in Memory /\ On(n, s) /\ Tab(n, s) = Tab(m, s)
  BY DEF Good, Writes
<1>2. /\ Same(m, n, s) /\ \A b : Mine(n, s, b) <=> Mine(m, s, b)
      /\ \A a : (Has(n, s, a) <=> Has(m, s, a)) /\ BlockOf(n, s, a) = BlockOf(m, s, a)
  BY WritesFrame
<1>3. Good(n, H)
  BY ClearsGood
<1>4. ASSUME NEW a, Has(m, s, a)
      PROVE  /\ SlotOf(n, s, a).value \in {SlotOf(m, s, a).value, NoVal}
             /\ SlotOf(n, s, a).param = SlotOf(m, s, a).param
  <2>1. BlockOf(m, s, a) \in Block /\ a % NSlots \in Ofs
    BY <1>1, <1>4, HasFields
  <2>2. /\ SlotOf(m, s, a) = At(m, BlockOf(m, s, a), a % NSlots)
        /\ SlotOf(n, s, a) = At(n, BlockOf(m, s, a), a % NSlots)
    BY <1>2 DEF SlotOf, At
  <2> QED
    BY <2>1, <2>2 DEF Clears
<1>5. ASSUME NEW B, NEW d, d \in Int, Counters(m, s, B, d) PROVE Counters(n, s, B, d)
  <2>1. \A x, y : Ahead(x, y, 0) = 0
    BY DEF Ahead
  <2>2. ASSUME NEW b \in Block
        PROVE  n.block[b].num_ent = m.block[b].num_ent - Cardinality(InBlock(m, s, D, b)) + Ahead(b, B, 0)
    <3>1. n.block[b].num_ent \in Int /\ n.block[b].num_ent = m.block[b].num_ent - Cardinality(InBlock(m, s, D, b))
      BY <1>1, BlockFields
    <3> QED
      BY <3>1, <2>1
  <2>3. n.store[s].num_ent = m.store[s].num_ent - Cardinality(D) + 0
    <3>1. n.store[s].num_ent \in Int /\ n.store[s].num_ent = m.store[s].num_ent - Cardinality(D)
      BY <1>1, StoreFields
    <3> QED
      BY <3>1
  <2>4. Counters(n, s, B, d + 0)
    BY <2>2, <2>3, <1>5, ClearsCounters
  <2>5. d + 0 = d
    BY <1>5
  <2> QED
    BY <2>4, <2>5
<1>6. \A k \in DOMAIN Tab(m, s) : Mine(m, s, Tab(m, s)[k]) =>
        Tab(n, s)[k] = Tab(m, s)[k] /\ Mine(n, s, Tab(m, s)[k])
  BY <1>1, <1>2
<1>7. DOMAIN Tab(n, s) = DOMAIN Tab(m, s) /\ Len(Tab(n, s)) = Len(Tab(m, s))
  BY <1>1
<1>8. \A a : /\ Has(n, s, a) <=> Has(m, s, a)
             /\ Has(m, s, a) => /\ SlotOf(n, s, a).value \in {SlotOf(m, s, a).value, NoVal}
                                /\ SlotOf(n, s, a).param = SlotOf(m, s, a).param
  BY <1>2, <1>4
<1> QED
  BY <1>1, <1>2, <1>3, <1>5, <1>6, <1>7, <1>8, Zenon DEF Fades

(* The entries of the hash code. *)
LEMMA EntryType ==
  ASSUME NEW m \in Memory, NEW s \in Store, On(m, s), NEW a, Alive(m, s, a)
  PROVE  EntryOf(m, s, a) \in Entry
<1>1. a \in Addr /\ SlotOf(m, s, a) \in Slot
  BY HasFields DEF Alive
<1>2. SlotOf(m, s, a).value \in Val /\ SlotOf(m, s, a).reuse \in BOOLEAN
  BY <1>1 DEF Alive, Slot
<1>3. Content(m, s, a) \in SUBSET Elem
  BY <1>2, ValueFields DEF Content
<1> QED
  BY <1>1, <1>2, <1>3 DEF EntryOf, Entry

(* The counters and the values after slots were cleared: Settled. *)
IsSettled(n, q, m, s, D) ==
  /\ n \in Memory /\ On(n, s) /\ Tab(n, s) = Tab(q, s)
  /\ \A t \in Store \ {s} : n.store[t] = q.store[t]
  /\ n.store[s].num_ent = q.store[s].num_ent - Cardinality(D)
  /\ n.store[s].hash = Xor(q.store[s].hash, {EntryOf(m, s, d) : d \in D})
  /\ \A b \in Block : /\ n.block[b].refcnt = q.block[b].refcnt /\ n.block[b].slots = q.block[b].slots
                      /\ n.block[b].num_ent = q.block[b].num_ent - Cardinality(InBlock(q, s, D, b))
                      /\ n.block[b].num_reloc = q.block[b].num_reloc
  /\ \A v \in Val : n.value[v] = Unref(q.value[v], Cardinality(Cleared(m, s, D, v)))
LEMMA SettledIs ==
  ASSUME NEW q \in Memory, NEW m \in Memory, NEW s \in Store, On(q, s), On(m, s), NEW D \in SUBSET Living(m, s),
         \A v \in Val : Unref(q.value[v], Cardinality(Cleared(m, s, D, v))) \in Value,
         NEW n, n = Settled(q, m, s, D)
  PROVE  IsSettled(n, q, m, s, D)
<1> DEFINE E == {EntryOf(m, s, d) : d \in D}
           B == [b \in Block |-> [q.block[b] EXCEPT !.num_ent = @ - Cardinality(InBlock(q, s, D, b))]]
           V == [v \in Val |-> Unref(q.value[v], Cardinality(Cleared(m, s, D, v)))]
           st == [q.store[s] EXCEPT !.num_ent = @ - Cardinality(D), !.hash = Xor(@, E)]
<1>1. n = [q EXCEPT !.store[s].num_ent = @ - Cardinality(D), !.store[s].hash = Xor(@, E), !.block = B, !.value = V]
  BY Zenon DEF Settled, InBlock, Cleared
<1>2. E \subseteq Entry
  BY EntryType DEF Living
<1>3. IsFiniteSet(D) /\ Cardinality(D) \in Nat
  <2>1. D \in SUBSET Addr
    BY DEF Living
  <2> QED
    BY <2>1, FiniteSets, FS_Subset, FS_CardinalityType
<1>4. \A b : Cardinality(InBlock(q, s, D, b)) \in Nat
  <2> TAKE b
  <2>1. InBlock(q, s, D, b) \in SUBSET D
    BY DEF InBlock
  <2> QED
    BY <2>1, <1>3, FS_Subset, FS_CardinalityType
<1>5. V \in [Val -> Value]
  OBVIOUS
<1>6. ASSUME NEW b \in Block
      PROVE  /\ B[b] \in StoreCell /\ B[b].refcnt = q.block[b].refcnt /\ B[b].slots = q.block[b].slots
             /\ B[b].num_ent = q.block[b].num_ent - Cardinality(InBlock(q, s, D, b))
             /\ B[b].num_reloc = q.block[b].num_reloc
  <2>1. q.block[b] \in StoreCell
    BY BlockFields
  <2>2. B[b] = [q.block[b] EXCEPT !.num_ent = @ - Cardinality(InBlock(q, s, D, b))]
    OBVIOUS
  <2> HIDE DEF B
  <2> QED
    BY <2>1, <2>2, <1>4 DEF StoreCell
<1>7. B \in [Block -> StoreCell]
  BY <1>6
<1> HIDE DEF E, B, V
<1>8. q.store \in [Store -> Table \cup {NoStore}] /\ q.store[s] \in Table
  BY StoreFields DEF Memory
<1>14. PICK h, x : h = Xor(q.store[s].hash, E) /\ x = q.store[s].num_ent - Cardinality(D)
  OBVIOUS
<1>15. h \in SUBSET Entry /\ x \in Int
  BY <1>2, <1>3, <1>8, <1>14 DEF Table, Xor
<1>16. st = [q.store[s] EXCEPT !.num_ent = x, !.hash = h]
  BY <1>8, <1>14 DEF Table
<1>9. /\ st \in Table /\ st.num_ent = q.store[s].num_ent - Cardinality(D) /\ st.blocks = q.store[s].blocks
      /\ st.hash = Xor(q.store[s].hash, E)
  <2> HIDE DEF st
  <2> QED
    BY <1>8, <1>14, <1>15, <1>16 DEF Table
<1>10. n.store = [q.store EXCEPT ![s] = st] /\ n.block = B /\ n.value = V
       /\ n = [store |-> n.store, block |-> n.block, value |-> n.value]
  <2>1. q = [store |-> q.store, block |-> q.block, value |-> q.value]
    BY DEF Memory
  <2>2. PICK c, f : c = Cardinality(D) /\ f = [q.store EXCEPT ![s].num_ent = @ - c, ![s].hash = Xor(@, E)]
    OBVIOUS
  <2>3. n = [store |-> f, block |-> B, value |-> V]
    BY <2>1, <2>2, <1>1
  <2>4. f = [q.store EXCEPT ![s] = st]
    BY <2>2, <1>8 DEF Table
  <2> QED
    BY <2>3, <2>4
<1> HIDE DEF st
<1>11. n.store \in [Store -> Table \cup {NoStore}] /\ n.store[s] = st /\ \A t \in Store \ {s} : n.store[t] = q.store[t]
  BY <1>8, <1>9, <1>10
<1>12. n \in Memory
  BY <1>5, <1>7, <1>10, <1>11 DEF Memory
<1>13. On(n, s) /\ Tab(n, s) = Tab(q, s)
  BY <1>9, <1>11, RoomAssumption DEF On, Tab
<1> QED
  BY <1>6, <1>9, <1>10, <1>11, <1>12, <1>13 DEF V, E, IsSettled

(* The values lose the pointers of the cleared slots, and their content    *)
(* only with the last one.                                                 *)
LEMMA UnrefCleared ==
  ASSUME NEW p, NEW H, Good(p, H), NEW s \in Store, On(p, s), NEW D \in SUBSET Living(p, s),
         \A d \in D : Mine(p, s, BlockOf(p, s, d)), NEW v \in Val
  PROVE  LET x == Cardinality(Cleared(p, s, D, v))
         IN  /\ Unref(p.value[v], x) \in Value /\ Unref(p.value[v], x).refcnt = p.value[v].refcnt - x
             /\ (\E c \in Pointers(p, v) : ~ Mine(p, s, c[1])) =>
                  Unref(p.value[v], x).content = p.value[v].content
             /\ (\E c \in Pointers(p, v) : c \notin Place(p, s, D)) =>
                  Unref(p.value[v], x).content = p.value[v].content
             /\ Unref(p.value[v], x).write_count \in {p.value[v].write_count, 0}
<1>1. PICK x : x = Cardinality(Cleared(p, s, D, v))
  OBVIOUS
<1>2. p \in Memory /\ Tables(p) /\ Buffers(H)
  BY DEF Good
<1>3. /\ x \in Nat
      /\ Cardinality(Pointers(p, v)) = Cardinality(Pointers(p, v) \ Place(p, s, D)) + x
      /\ IsFiniteSet(Pointers(p, v) \ Place(p, s, D))
      /\ Cardinality(Pointers(p, v) \ Place(p, s, D)) \in Nat
  BY <1>1, <1>2, PointersCleared
<1>4. /\ p.value[v].refcnt = Cardinality(Pointers(p, v)) + Cardinality(Records(H, v))
      /\ Cardinality(Records(H, v)) \in Nat
  BY <1>2, Sizes DEF Good, ValuesCounted
<1>5. x <= p.value[v].refcnt /\ p.value[v] \in Value /\ p.value[v].refcnt \in Nat
  BY <1>2, <1>3, <1>4, ValueFields
<1>6. /\ Unref(p.value[v], x) \in Value /\ Unref(p.value[v], x).refcnt = p.value[v].refcnt - x
      /\ x < p.value[v].refcnt => Unref(p.value[v], x).content = p.value[v].content
      /\ Unref(p.value[v], x).write_count \in {p.value[v].write_count, 0}
  BY <1>3, <1>5, UnrefIs
<1>8. \A c : ~ Mine(p, s, c[1]) => c \notin Place(p, s, D)
  BY DEF Place
<1>7. ASSUME NEW c \in Pointers(p, v), c \notin Place(p, s, D) PROVE x < p.value[v].refcnt
  <2>2. Pointers(p, v) \ Place(p, s, D) # {}
    BY <1>7
  <2>3. Cardinality(Pointers(p, v) \ Place(p, s, D)) # 0
    BY <2>2, <1>3, FS_EmptySet
  <2> QED
    BY <2>3, <1>3, <1>4
<1> QED
  BY <1>1, <1>6, <1>7, <1>8

(* Releasing references: the slots that die are cleared. *)
LEMMA SwipedFades ==
  ASSUME NEW m, NEW H, Good(m, H), NEW s \in Store, On(m, s), NEW n \in [Addr -> Nat],
         NEW D \in SUBSET Living(m, s), Dying(m, s, n, D) = D
  PROVE  Fades(m, Swiped(m, s, n, D), s, H) /\ Ledger(m, Swiped(m, s, n, D), s, D)
<1> DEFINE less(b) == Released(m, s, n, D, b)
           K == {BlockNo(a) : a \in {b \in Addr : Has(m, s, b) /\ less(b) > 0}}
           p == Private(m, s, K)
           no(b) == CHOOSE k \in K : p.store[s].blocks[k] = b
           slot(l, a) == IF a \in D THEN [l EXCEPT !.value = NoVal, !.refcnt = 0]
                         ELSE IF l.value = NoVal THEN l
                         ELSE [l EXCEPT !.refcnt = @ - less(a)]
           slots(b) == [o \in Ofs |-> slot(p.block[b].slots[o], (no(b) - 1) * NSlots + o)]
           B == [b \in Block |-> IF \E k \in K : p.store[s].blocks[k] = b
                                 THEN [p.block[b] EXCEPT !.slots = slots(b)] ELSE p.block[b]]
           w == [p EXCEPT !.block = B]
           r == Swiped(m, s, n, D)
<1>1. m \in Memory /\ Tables(m)
  BY DEF Good
<1>2. K \in SUBSET DOMAIN Tab(m, s)
  BY <1>1, HasFields
<1>3. r = Settled(w, m, s, D)
  BY Zenon DEF Swiped, WithSlots
<1>4. \A a \in Addr : less(a) \in Nat
  <2>1. D \in SUBSET Addr /\ D \subseteq D
    BY DEF Living
  <2> QED
    BY <2>1, ReleasedMonotone
<1>5. DOMAIN B = Block /\ \A b \in Block :
        B[b] = IF \E k \in K : Tab(p, s)[k] = b THEN [p.block[b] EXCEPT !.slots = slots(b)] ELSE p.block[b]
  BY Zenon DEF Tab
<1>6. \A b : DOMAIN slots(b) = Ofs /\ \A o \in Ofs : slots(b)[o] = slot(At(p, b, o), (no(b) - 1) * NSlots + o)
  BY Zenon DEF At
<1>18. \A k \in K : \E j \in K : Tab(p, s)[j] = Tab(p, s)[k] /\ no(Tab(p, s)[k]) = j
  BY DEF Tab
<1>19. \A a \in D : less(a) > 0 /\ Has(m, s, a) /\ a \in Addr
  BY DEF Dying, Alive
<1>20. \A a \in Addr : Alive(m, s, a) /\ a \notin D => less(a) = 0 \/ SlotOf(m, s, a).refcnt > less(a)
  <2> SUFFICES ASSUME NEW a \in Addr, Alive(m, s, a), a \notin D, less(a) # 0
               PROVE  SlotOf(m, s, a).refcnt > less(a)
    OBVIOUS
  <2>1. less(a) > 0
    BY <1>4
  <2>2. ~ (SlotOf(m, s, a).refcnt <= less(a))
    BY <2>1 DEF Dying
  <2>3. SlotOf(m, s, a).refcnt \in Nat
    BY <1>1, HasFields DEF Alive, Slot
  <2> QED
    BY <2>2, <2>3, <1>4
<1>21. \A a \in D : BlockNo(a) \in K
  BY <1>19
<1> HIDE DEF less, K, p, no, slot, slots, B, w, r
<1>7. /\ Calm(m, p, s, H) /\ Kept(m, p, s) /\ Plain(m, p, s) /\ \A k \in K : Mine(p, s, Tab(p, s)[k])
  BY <1>2, PrivateCalm DEF p
<1>8. Good(p, H) /\ p \in Memory /\ On(p, s) /\ Tables(p) /\ DOMAIN Tab(p, s) = DOMAIN Tab(m, s)
  BY <1>7 DEF Calm, Good
<1>9. \A a : /\ Has(p, s, a) <=> Has(m, s, a)
             /\ Has(m, s, a) => SlotOf(p, s, a) = SlotOf(m, s, a)
  BY <1>7 DEF Kept
<1>10. ASSUME NEW k \in K, NEW o \in Ofs, NEW b, b = Tab(p, s)[k]
       PROVE  \E a \in Addr : /\ Has(m, s, a) /\ BlockOf(p, s, a) = b /\ a % NSlots = o
                              /\ At(p, b, o) = SlotOf(m, s, a) /\ slots(b)[o] = slot(SlotOf(m, s, a), a)
  <2>1. PICK j \in K : Tab(p, s)[j] = Tab(p, s)[k] /\ no(b) = j
    BY <1>10, <1>18
  <2>2. j \in 1 .. MaxBlocks /\ j \in DOMAIN Tab(p, s)
    BY <1>2, <1>8, StoreFields, StoreAssumption DEF Tables
  <2>3. PICK a : a = (j - 1) * NSlots + o
    OBVIOUS
  <2>4. a \in Addr /\ BlockNo(a) = j /\ a % NSlots = o
    BY <2>2, <2>3, AddrJoin
  <2>5. Has(p, s, a) /\ BlockOf(p, s, a) = b
    BY <2>1, <2>2, <2>4, <1>8, <1>10, StoreFields DEF Has, BlockOf, Tab
  <2>6. At(p, b, o) = SlotOf(m, s, a)
    BY <2>4, <2>5, <1>9 DEF SlotOf, At
  <2>7. slots(b)[o] = slot(SlotOf(m, s, a), a)
    BY <2>1, <2>3, <2>6, <1>6
  <2> QED
    BY <2>4, <2>5, <2>6, <2>7, <1>9
<1>11. ASSUME NEW a \in Addr, Has(m, s, a)
       PROVE  /\ slot(SlotOf(m, s, a), a) \in Slot
              /\ slot(SlotOf(m, s, a), a).value = (IF a \in D THEN NoVal ELSE SlotOf(m, s, a).value)
              /\ slot(SlotOf(m, s, a), a).param = SlotOf(m, s, a).param
              /\ a \notin D => slot(SlotOf(m, s, a), a).reuse = SlotOf(m, s, a).reuse
  <2>1. SlotOf(m, s, a) \in Slot
    BY <1>1, <1>11, HasFields
  <2>2. CASE a \in D
    <3>1. slot(SlotOf(m, s, a), a) = [SlotOf(m, s, a) EXCEPT !.value = NoVal, !.refcnt = 0]
      BY <2>2 DEF slot
    <3>2. PICK l : l = slot(SlotOf(m, s, a), a)
      OBVIOUS
    <3>4. PICK h \in Slot : h = [SlotOf(m, s, a) EXCEPT !.value = NoVal]
      BY <2>1 DEF Slot
    <3>5. h.value = NoVal /\ h.param = SlotOf(m, s, a).param
      BY <2>1, <3>4 DEF Slot
    <3>6. l = [h EXCEPT !.refcnt = 0]
      BY <2>1, <3>1, <3>2, <3>4 DEF Slot
    <3>3. l \in Slot /\ l.value = NoVal /\ l.param = SlotOf(m, s, a).param
      BY <3>5, <3>6 DEF Slot
    <3> QED
      BY <2>2, <3>2, <3>3
  <2>3. CASE a \notin D /\ SlotOf(m, s, a).value = NoVal
    BY <2>1, <2>3 DEF slot
  <2>4. CASE a \notin D /\ SlotOf(m, s, a).value # NoVal
    <3>1. slot(SlotOf(m, s, a), a) = [SlotOf(m, s, a) EXCEPT !.refcnt = @ - less(a)]
      BY <2>4 DEF slot
    <3>2. less(a) = 0 \/ SlotOf(m, s, a).refcnt > less(a)
      BY <2>4, <1>11, <1>20 DEF Alive
    <3>3. SlotOf(m, s, a).refcnt \in Nat /\ less(a) \in Nat
      BY <2>1, <1>4 DEF Slot
    <3>4. SlotOf(m, s, a).refcnt - less(a) \in Nat
      BY <3>2, <3>3
    <3> QED
      BY <2>1, <2>4, <3>1, <3>4 DEF Slot
  <2> QED
    BY <2>2, <2>3, <2>4
<1>12. ASSUME NEW b \in Block, NEW o \in Ofs, NEW k \in K, b = Tab(p, s)[k]
       PROVE  /\ slots(b)[o] \in Slot /\ slots(b)[o].param = At(p, b, o).param
              /\ slots(b)[o].value = IF <<b, o>> \in Place(p, s, D) THEN NoVal ELSE At(p, b, o).value
              /\ <<b, o>> \notin Place(p, s, D) => slots(b)[o].reuse = At(p, b, o).reuse
  <2>1. PICK a \in Addr : /\ Has(m, s, a) /\ BlockOf(p, s, a) = b /\ a % NSlots = o
                          /\ At(p, b, o) = SlotOf(m, s, a) /\ slots(b)[o] = slot(SlotOf(m, s, a), a)
    BY <1>10, <1>12
  <2>2. <<b, o>> \in Place(p, s, D) <=> a \in D
    <3>1. ASSUME NEW d \in D, <<b, o>> = <<BlockOf(p, s, d), d % NSlots>> PROVE a = d
      <4>1. BlockOf(p, s, a) = BlockOf(p, s, d) /\ a % NSlots = d % NSlots
        BY <2>1, <3>1
      <4>2. Has(p, s, d) /\ Has(p, s, a)
        BY <2>1, <1>9, <1>19
      <4> QED
        BY <4>1, <4>2, <1>8, SamePlace
    <3> QED
      BY <3>1, <2>1 DEF Place
  <2> QED
    BY <2>1, <2>2, <1>11
<1>13. ASSUME NEW b \in Block
       PROVE  /\ B[b] \in StoreCell
              /\ B[b].refcnt = p.block[b].refcnt /\ B[b].num_ent = p.block[b].num_ent
              /\ ~ Mine(p, s, b) => B[b] = p.block[b]
              /\ \A o \in Ofs :
                   /\ B[b].slots[o].param = At(p, b, o).param
                   /\ B[b].slots[o].value = IF <<b, o>> \in Place(p, s, D) THEN NoVal ELSE At(p, b, o).value
                   /\ <<b, o>> \notin Place(p, s, D) => B[b].slots[o].reuse = At(p, b, o).reuse
              /\ B[b].num_reloc = p.block[b].num_reloc
  <2>1. p.block[b] \in StoreCell
    BY <1>8, BlockFields
  <2>2. CASE \E k \in K : Tab(p, s)[k] = b
    <3>1. B[b] = [p.block[b] EXCEPT !.slots = slots(b)]
      BY <2>2, <1>5
    <3>2. slots(b) \in [Ofs -> Slot]
      <4>1. slots(b) = [o \in Ofs |-> slots(b)[o]]
        BY DEF slots
      <4> QED
        BY <4>1, <1>12, <2>2
    <3>3. Mine(p, s, b)
      BY <2>2, <1>7
    <3>4. B[b].slots = slots(b) /\ B[b] \in StoreCell /\ B[b].refcnt = p.block[b].refcnt
          /\ B[b].num_ent = p.block[b].num_ent /\ B[b].num_reloc = p.block[b].num_reloc
      BY <2>1, <3>1, <3>2 DEF StoreCell
    <3> QED
      BY <2>2, <3>3, <3>4, <1>12
  <2>3. CASE ~ \E k \in K : Tab(p, s)[k] = b
    <3>1. B[b] = p.block[b]
      BY <2>3, <1>5
    <3>2. \A o \in Ofs : <<b, o>> \notin Place(p, s, D)
      <4>1. ASSUME NEW o \in Ofs, NEW d \in D, <<b, o>> = <<BlockOf(p, s, d), d % NSlots>> PROVE FALSE
        <5>1. b = Tab(p, s)[BlockNo(d)]
          BY <4>1 DEF BlockOf, Tab
        <5> QED
          BY <5>1, <2>3, <1>21
      <4> QED
        BY <4>1 DEF Place
    <3> QED
      BY <2>1, <3>1, <3>2 DEF At
  <2> QED
    BY <2>2, <2>3
<1>14. B \in [Block -> StoreCell]
  <2>1. B = [b \in Block |-> B[b]]
    BY DEF B
  <2> QED
    BY <2>1, <1>13
<1>15. w \in Memory /\ w.store = p.store /\ w.value = p.value /\ w.block = B
  BY <1>8, <1>14, BlocksChanged DEF w
<1>16. D \in SUBSET Living(p, s) /\ \A v : Cleared(p, s, D, v) = Cleared(m, s, D, v)
  <2>1. \A d \in D : SlotOf(p, s, d) = SlotOf(m, s, d) /\ Has(p, s, d) /\ SlotOf(m, s, d).value # NoVal /\ d \in Addr
    BY <1>9, <1>19 DEF Living, Alive
  <2> QED
    BY <2>1 DEF Living, Alive, Cleared
<1>17. On(w, s) /\ Tab(w, s) = Tab(p, s) /\ \A b : InBlock(w, s, D, b) = InBlock(p, s, D, b)
  BY <1>8, <1>15 DEF On, Tab, InBlock, BlockOf
<1>30. \A d \in D : Mine(p, s, BlockOf(p, s, d))
  BY <1>7, <1>21 DEF BlockOf, Tab
<1>22. ASSUME NEW v \in Val
       PROVE  /\ Unref(p.value[v], Cardinality(Cleared(m, s, D, v))) \in Value
              /\ Unref(p.value[v], Cardinality(Cleared(m, s, D, v))).refcnt =
                   p.value[v].refcnt - Cardinality(Cleared(p, s, D, v))
              /\ (\E c \in Pointers(p, v) : ~ Mine(p, s, c[1])) =>
                   Unref(p.value[v], Cardinality(Cleared(m, s, D, v))).content = p.value[v].content
              /\ (\E c \in Pointers(p, v) : c \notin Place(p, s, D)) =>
                   Unref(p.value[v], Cardinality(Cleared(m, s, D, v))).content = p.value[v].content
              /\ Unref(p.value[v], Cardinality(Cleared(m, s, D, v))).write_count \in {p.value[v].write_count, 0}
  BY <1>8, <1>16, <1>30, UnrefCleared
<1>23. /\ r \in Memory /\ On(r, s) /\ Tab(r, s) = Tab(w, s)
       /\ \A t \in Store \ {s} : r.store[t] = w.store[t]
       /\ r.store[s].num_ent = w.store[s].num_ent - Cardinality(D)
       /\ r.store[s].hash = Xor(w.store[s].hash, {EntryOf(m, s, d) : d \in D})
       /\ \A b \in Block : /\ r.block[b].refcnt = w.block[b].refcnt /\ r.block[b].slots = w.block[b].slots
                           /\ r.block[b].num_ent = w.block[b].num_ent - Cardinality(InBlock(w, s, D, b))
                           /\ r.block[b].num_reloc = w.block[b].num_reloc
       /\ \A v \in Val : r.value[v] = Unref(w.value[v], Cardinality(Cleared(m, s, D, v)))
  <2>1. \A v \in Val : Unref(w.value[v], Cardinality(Cleared(m, s, D, v))) \in Value
    BY <1>15, <1>22
  <2> QED
    <3>1. m \in Memory /\ w \in Memory /\ On(w, s) /\ r = Settled(w, m, s, D)
      BY <1>1, <1>3, <1>15, <1>17
    <3>2. IsSettled(r, w, m, s, D)
      BY <2>1, <3>1, SettledIs
    <3> QED
      BY <3>2 DEF IsSettled
<1>24. Writes(p, r, s)
  <2>1. \A b \in Block : r.block[b].refcnt = p.block[b].refcnt
    BY <1>13, <1>15, <1>23
  <2>2. ASSUME NEW b \in Block, ~ Mine(p, s, b)
        PROVE  r.block[b].slots = p.block[b].slots /\ r.block[b].num_ent = p.block[b].num_ent
    <3>1. InBlock(p, s, D, b) = {}
      <4>1. ASSUME NEW d \in D, BlockOf(p, s, d) = b PROVE FALSE
        BY <4>1, <2>2, <1>7, <1>21 DEF BlockOf, Tab
      <4> QED
        BY <4>1 DEF InBlock
    <3>2. Cardinality(InBlock(p, s, D, b)) = 0
      BY <3>1, FS_EmptySet
    <3>3. p.block[b].num_ent \in Int
      BY <1>8, BlockFields
    <3>4. w.block[b] = p.block[b]
      BY <2>2, <1>13, <1>15
    <3>5. r.block[b].num_ent = p.block[b].num_ent - Cardinality(InBlock(p, s, D, b))
      BY <3>4, <1>17, <1>23
    <3> QED
      BY <3>2, <3>3, <3>4, <3>5, <1>23
  <2>3. \A v \in Val : (\E c \in Pointers(p, v) : ~ Mine(p, s, c[1])) => r.value[v].content = p.value[v].content
    BY <1>15, <1>22, <1>23
  <2>4. r \in Memory /\ On(r, s) /\ Tab(r, s) = Tab(p, s) /\ \A t \in Store \ {s} : r.store[t] = p.store[t]
    BY <1>15, <1>17, <1>23
  <2> QED
    BY <2>1, <2>2, <2>3, <2>4 DEF Writes
<1>25. Clears(p, r, s, D)
  <2>1. \A b \in Block, o \in Ofs :
          /\ At(r, b, o).param = At(p, b, o).param
          /\ At(r, b, o).value = IF <<b, o>> \in Place(p, s, D) THEN NoVal ELSE At(p, b, o).value
    <3>1. \A b \in Block, o \in Ofs : At(r, b, o) = B[b].slots[o]
      BY <1>15, <1>23 DEF At
    <3>2. ASSUME NEW b \in Block, NEW o \in Ofs
          PROVE  /\ B[b].slots[o].param = At(p, b, o).param
                 /\ B[b].slots[o].value = IF <<b, o>> \in Place(p, s, D) THEN NoVal ELSE At(p, b, o).value
      BY <1>13
    <3> HIDE DEF r, B
    <3> QED
      BY <3>1, <3>2, Zenon
  <2>2. \A v \in Val : r.value[v].refcnt = p.value[v].refcnt - Cardinality(Cleared(p, s, D, v))
    BY <1>15, <1>22, <1>23
  <2> QED
    BY <2>1, <2>2 DEF Clears
<1>26. /\ \A b \in Block : r.block[b].num_ent = p.block[b].num_ent - Cardinality(InBlock(p, s, D, b))
       /\ r.store[s].num_ent = p.store[s].num_ent - Cardinality(D)
  BY <1>13, <1>15, <1>17, <1>23
<1>29. \A b \in Block, o \in Ofs : At(r, b, o).param = At(p, b, o).param
  <2>1. \A b \in Block, o \in Ofs : At(r, b, o) = B[b].slots[o]
    BY <1>15, <1>23 DEF At
  <2> QED
    <3>1. ASSUME NEW b \in Block, NEW o \in Ofs PROVE B[b].slots[o].param = At(p, b, o).param
      BY <1>13
    <3> QED
      BY <2>1, <3>1
<1>27. Fades(p, r, s, H)
  BY <1>8, <1>16, <1>24, <1>25, <1>26, <1>29, ClearsFades
<1>28. Fades(m, r, s, H)
  BY <1>7, <1>27, CalmFades, FadesTrans
<1>31. Settles(p, r, s, D)
  <2>1. {EntryOf(m, s, d) : d \in D} = {EntryOf(p, s, d) : d \in D}
    <3>1. \A d \in D : EntryOf(p, s, d) = EntryOf(m, s, d)
      BY <1>7, <1>16 DEF Plain, Ledger
    <3> QED
      BY <3>1
  <2>2. r.store[s].hash = Xor(p.store[s].hash, {EntryOf(p, s, d) : d \in D})
    BY <2>1, <1>15, <1>23, Zenon
  <2>3. \A b \in Block, o \in Ofs : At(r, b, o) = B[b].slots[o]
    BY <1>15, <1>23 DEF At
  <2>4. \A b \in Block, o \in Ofs :
          /\ At(r, b, o).value = IF <<b, o>> \in Place(p, s, D) THEN NoVal ELSE At(p, b, o).value
          /\ At(r, b, o).value # NoVal => At(r, b, o).reuse = At(p, b, o).reuse
    <3>1. ASSUME NEW b \in Block, NEW o \in Ofs
          PROVE  /\ B[b].slots[o].value = IF <<b, o>> \in Place(p, s, D) THEN NoVal ELSE At(p, b, o).value
                 /\ <<b, o>> \notin Place(p, s, D) => B[b].slots[o].reuse = At(p, b, o).reuse
      BY <1>13
    <3>2. ASSUME NEW b \in Block, NEW o \in Ofs
          PROVE  /\ At(r, b, o).value = IF <<b, o>> \in Place(p, s, D) THEN NoVal ELSE At(p, b, o).value
                 /\ At(r, b, o).value # NoVal => At(r, b, o).reuse = At(p, b, o).reuse
      BY <3>1, <2>3
    <3> QED
      BY <3>2, Zenon
  <2>5. \A b \in Block : r.block[b].num_reloc = p.block[b].num_reloc
    BY <1>13, <1>15, <1>23
  <2>6. \A v \in Val :
          /\ (\E c \in Pointers(p, v) : c \notin Place(p, s, D)) => r.value[v].content = p.value[v].content
          /\ r.value[v].write_count \in {p.value[v].write_count, 0}
    BY <1>15, <1>22, <1>23
  <2>7. Tab(r, s) = Tab(p, s)
    BY <1>17, <1>23
  <2> QED
    BY <2>2, <2>4, <2>5, <2>6, <2>7, Zenon DEF Settles
<1>32. Ledger(p, r, s, D)
  BY <1>8, <1>16, <1>23, <1>31, SettlesLedger
<1>33. Ledger(m, r, s, D)
  BY <1>7, <1>32, LedgerAfter
<1> QED
  BY <1>28, <1>33 DEF r

LEMMA DecrefFades ==
  ASSUME NEW m, NEW H, Good(m, H), NEW s \in Store, On(m, s), NEW n \in [Addr -> Nat]
  PROVE  Fades(m, DecrefAll(m, s, n), s, H) /\ Keeps(m, DecrefAll(m, s, n))
<1>1. m \in Memory
  BY DEF Good
<1>2. PICK D : D = Dead(m, s, n)
  OBVIOUS
<1>3. D \in SUBSET Living(m, s) /\ Dying(m, s, n, D) = D
  BY <1>1, <1>2, DeadIs
<1>4. PICK r : r = Swiped(m, s, n, D)
  OBVIOUS
<1>5. Fades(m, r, s, H) /\ Ledger(m, r, s, D)
  BY <1>3, <1>4, SwipedFades
<1>6. r \in Memory /\ Same(m, r, s)
  BY <1>5 DEF Fades, Good
<1>7. Keeps(m, r)
  BY <1>1, <1>3, <1>5, <1>6, TidyKept DEF Keeps
<1> QED
  BY <1>2, <1>4, <1>5, <1>7, Zenon DEF DecrefAll

-----------------------------------------------------------------------------
(***************************************************************************)
(* Attaching a value.                                                      *)
(***************************************************************************)
(* The counters are exact *)
Exact(m) == \A s, B : Counters(m, s, B, 0)

LEMMA ExactIs ==
  ASSUME NEW m, NEW s, NEW B, Counters(m, s, B, 0)
  PROVE  Exact(m)
<1>1. \A x, y : Ahead(x, y, 0) = 0
  BY DEF Ahead
<1> QED
  BY <1>1 DEF Exact, Counters

(* A step of the frame of s *)
Step(m, n, s, H) ==
  /\ Good(n, H) /\ Exact(n) /\ On(n, s) /\ Same(m, n, s)
  /\ Len(Tab(n, s)) = Len(Tab(m, s)) /\ \A a : Has(n, s, a) <=> Has(m, s, a)

LEMMA StepTrans ==
  ASSUME NEW m, NEW n, NEW p, NEW s, NEW H, NEW J, Step(m, n, s, H), Step(n, p, s, J)
  PROVE  Step(m, p, s, J)
<1>1. Same(m, p, s)
  BY SameTrans DEF Step
<1> QED
  BY <1>1 DEF Step

LEMMA FadesStep ==
  ASSUME NEW m, NEW n, NEW s, NEW H, Fades(m, n, s, H), Exact(m)
  PROVE  Step(m, n, s, H)
<1>1. Counters(m, s, s, 0)
  BY DEF Exact
<1>2. Counters(n, s, s, 0)
  <2>1. 0 \in Int
    OBVIOUS
  <2> QED
    BY <1>1, <2>1, Zenon DEF Fades
<1>3. Exact(n)
  BY <1>2, ExactIs
<1> QED
  BY <1>3, Zenon DEF Fades, Step

LEMMA CalmStep ==
  ASSUME NEW m, NEW n, NEW s, NEW H, Calm(m, n, s, H), Exact(m)
  PROVE  Step(m, n, s, H)
BY CalmFades, FadesStep

(* Writing one slot, value or hash code *)
LEMMA WithSlotIs ==
  ASSUME NEW m \in Memory, NEW s \in Store, On(m, s), NEW a, Has(m, s, a), NEW l \in Slot,
         NEW n, n = WithSlot(m, s, a, l)
  PROVE  /\ n \in Memory /\ n.store = m.store /\ n.value = m.value
         /\ \A b \in Block : /\ n.block[b].refcnt = m.block[b].refcnt
                             /\ n.block[b].num_ent = m.block[b].num_ent
                             /\ n.block[b].num_reloc = m.block[b].num_reloc
                             /\ b # BlockOf(m, s, a) => n.block[b] = m.block[b]
         /\ \A b \in Block, o \in Ofs :
              At(n, b, o) = IF b = BlockOf(m, s, a) /\ o = a % NSlots THEN l ELSE At(m, b, o)
<1>1. PICK x \in Block, i \in Ofs : x = BlockOf(m, s, a) /\ i = a % NSlots
  BY HasFields
<1>2. n = [m EXCEPT !.block[x].slots[i] = l]
  BY <1>1 DEF WithSlot
<1>3. m.block \in [Block -> StoreCell] /\ m.block[x] \in StoreCell /\ m.block[x].slots \in [Ofs -> Slot]
  BY BlockFields DEF Memory
<1>4. PICK S : S = [m.block[x].slots EXCEPT ![i] = l]
  OBVIOUS
<1>5. S \in [Ofs -> Slot] /\ \A o \in Ofs : S[o] = IF o = i THEN l ELSE m.block[x].slots[o]
  BY <1>3, <1>4
<1>6. PICK y : y = [m.block[x] EXCEPT !.slots = S]
  OBVIOUS
<1>7. /\ y \in StoreCell /\ y.slots = S /\ y.refcnt = m.block[x].refcnt /\ y.num_ent = m.block[x].num_ent
      /\ y.num_reloc = m.block[x].num_reloc
  BY <1>3, <1>5, <1>6 DEF StoreCell
<1>8. PICK B : B = [m.block EXCEPT ![x] = y]
  OBVIOUS
<1>9. B \in [Block -> StoreCell] /\ B[x] = y /\ \A b \in Block : b # x => B[b] = m.block[b]
  BY <1>3, <1>7, <1>8
<1>10. n = [m EXCEPT !.block = B]
  BY <1>2, <1>4, <1>6, <1>8
<1>11. n \in Memory /\ n.store = m.store /\ n.value = m.value /\ n.block = B
  BY <1>9, <1>10, BlocksChanged
<1> QED
  BY <1>1, <1>5, <1>7, <1>9, <1>11 DEF At

WithValue(m, v, x) == [m EXCEPT !.value[v] = x]
LEMMA ValueChanged ==
  ASSUME NEW m \in Memory, NEW v \in Val, NEW x \in Value, NEW n, n = WithValue(m, v, x)
  PROVE  /\ n \in Memory /\ n.store = m.store /\ n.block = m.block
         /\ \A u \in Val : n.value[u] = IF u = v THEN x ELSE m.value[u]
BY DEF Memory, WithValue

WithStore(m, s, x) == [m EXCEPT !.store[s] = x]
LEMMA StoreChanged ==
  ASSUME NEW m \in Memory, NEW s \in Store, NEW x \in Table, NEW n, n = WithStore(m, s, x)
  PROVE  /\ n \in Memory /\ n.value = m.value /\ n.block = m.block /\ On(n, s)
         /\ n.store[s] = x /\ \A t \in Store \ {s} : n.store[t] = m.store[t]
BY RoomAssumption DEF Memory, On, WithStore

LEMMA RehashIs ==
  ASSUME NEW m \in Memory, NEW s \in Store, On(m, s), NEW E \in SUBSET Entry, NEW n, n = Rehash(m, s, E)
  PROVE  /\ n \in Memory /\ n.value = m.value /\ n.block = m.block /\ On(n, s)
         /\ Tab(n, s) = Tab(m, s) /\ n.store[s].num_ent = m.store[s].num_ent
         /\ n.store[s].hash = Xor(m.store[s].hash, E)
         /\ \A t \in Store \ {s} : n.store[t] = m.store[t]
<1>1. m.store \in [Store -> Table \cup {NoStore}] /\ m.store[s] \in Table
  BY StoreFields DEF Memory
<1>2. PICK h : h = Xor(m.store[s].hash, E)
  OBVIOUS
<1>3. h \in SUBSET Entry
  BY <1>1, <1>2 DEF Table, Xor
<1>4. PICK x : x = [m.store[s] EXCEPT !.hash = h]
  OBVIOUS
<1>5. x \in Table /\ x.blocks = m.store[s].blocks /\ x.num_ent = m.store[s].num_ent /\ x.hash = h
  BY <1>1, <1>3, <1>4 DEF Table
<1>6. n = WithStore(m, s, x)
  BY <1>1, <1>2, <1>4 DEF Rehash, WithStore
<1> QED
  BY <1>2, <1>5, <1>6, StoreChanged DEF Tab

(* The entity counters of s and of a block moved by e. *)
Moved(p, s, B, e) == [p EXCEPT !.store[s].num_ent = @ + e, !.block[B].num_ent = @ + e]
LEMMA CountersMoved ==
  ASSUME NEW p \in Memory, NEW s \in Store, On(p, s), NEW B \in Block, NEW e \in Int,
         NEW q, q = Moved(p, s, B, e)
  PROVE  /\ q \in Memory /\ q.value = p.value /\ On(q, s) /\ Tab(q, s) = Tab(p, s)
         /\ q.store[s].num_ent = p.store[s].num_ent + e /\ q.store[s].hash = p.store[s].hash
         /\ \A t \in Store \ {s} : q.store[t] = p.store[t]
         /\ \A b \in Block : /\ q.block[b].refcnt = p.block[b].refcnt /\ q.block[b].slots = p.block[b].slots
                             /\ q.block[b].num_ent = p.block[b].num_ent + Ahead(b, B, e)
                             /\ q.block[b].num_reloc = p.block[b].num_reloc
<1>1. p.store \in [Store -> Table \cup {NoStore}] /\ p.store[s] \in Table /\ p.store[s].num_ent \in Int
  BY StoreFields DEF Memory
<1>2. p.block \in [Block -> StoreCell] /\ p.block[B] \in StoreCell /\ p.block[B].num_ent \in Int
  BY BlockFields DEF Memory
<1>3. PICK x, y : x = p.store[s].num_ent + e /\ y = p.block[B].num_ent + e
  OBVIOUS
<1>4. PICK st, c : st = [p.store[s] EXCEPT !.num_ent = x] /\ c = [p.block[B] EXCEPT !.num_ent = y]
  OBVIOUS
<1>5. st \in Table /\ st.num_ent = x /\ st.blocks = p.store[s].blocks /\ st.hash = p.store[s].hash
  BY <1>1, <1>3, <1>4 DEF Table
<1>6. /\ c \in StoreCell /\ c.num_ent = y /\ c.refcnt = p.block[B].refcnt /\ c.slots = p.block[B].slots
      /\ c.num_reloc = p.block[B].num_reloc
  BY <1>2, <1>3, <1>4 DEF StoreCell
<1>7. PICK C : C = [p.block EXCEPT ![B] = c]
  OBVIOUS
<1>8. C \in [Block -> StoreCell] /\ C[B] = c /\ \A b \in Block : b # B => C[b] = p.block[b]
  BY <1>2, <1>6, <1>7
<1>9. PICK r : r = [p EXCEPT !.block = C]
  OBVIOUS
<1>10. r \in Memory /\ r.store = p.store /\ r.value = p.value /\ r.block = C
  BY <1>8, <1>9, BlocksChanged
<1>11. q = [r EXCEPT !.store[s] = st]
  <2>1. p = [store |-> p.store, block |-> p.block, value |-> p.value]
    BY DEF Memory
  <2> QED
    BY <2>1, <1>1, <1>2, <1>3, <1>4, <1>7, <1>9 DEF Moved
<1>12. /\ q \in Memory /\ q.value = r.value /\ q.block = r.block /\ On(q, s)
       /\ q.store[s] = st /\ \A t \in Store \ {s} : q.store[t] = r.store[t]
  <2>1. /\ r.store \in [Store -> Table \cup {NoStore}] /\ r.block \in [Block -> StoreCell]
        /\ r.value \in [Val -> Value] /\ r = [store |-> r.store, block |-> r.block, value |-> r.value]
    BY <1>10 DEF Memory
  <2>2. PICK S : S = [r.store EXCEPT ![s] = st]
    OBVIOUS
  <2>3. S \in [Store -> Table \cup {NoStore}] /\ S[s] = st /\ \A t \in Store \ {s} : S[t] = r.store[t]
    BY <2>1, <2>2, <1>5
  <2>4. q = [store |-> S, block |-> r.block, value |-> r.value]
    BY <2>1, <2>2, <1>11
  <2>8. PICK z : z = [store |-> S, block |-> r.block, value |-> r.value]
    OBVIOUS
  <2>9. z.store = S /\ z.block = r.block /\ z.value = r.value
    BY <2>8
  <2>5. q.store = S /\ q.block = r.block /\ q.value = r.value
    BY <2>4, <2>8, <2>9, Zenon
  <2>6. q \in Memory
    BY <2>1, <2>3, <2>4 DEF Memory
  <2>7. On(q, s)
    BY <2>3, <2>5, <1>5, RoomAssumption DEF On
  <2> QED
    BY <2>3, <2>5, <2>6, <2>7
<1>13. ASSUME NEW b \in Block
       PROVE  /\ q.block[b].refcnt = p.block[b].refcnt /\ q.block[b].slots = p.block[b].slots
              /\ q.block[b].num_ent = p.block[b].num_ent + Ahead(b, B, e)
              /\ q.block[b].num_reloc = p.block[b].num_reloc
  <2>1. CASE b = B
    BY <2>1, <1>3, <1>6, <1>8, <1>10, <1>12 DEF Ahead
  <2>2. CASE b # B
    <3>1. p.block[b].num_ent \in Int
      BY BlockFields
    <3>2. q.block[b] = p.block[b] /\ Ahead(b, B, e) = 0
      BY <2>2, <1>8, <1>10, <1>12 DEF Ahead
    <3>3. p.block[b].num_ent = p.block[b].num_ent + 0
      BY <3>1
    <3> QED
      BY <3>2, <3>3, Zenon
  <2> QED
    BY <2>1, <2>2
<1> QED
  BY <1>3, <1>5, <1>10, <1>12, <1>13 DEF Tab

(* What Detached does before it releases the references of the old value *)
Emptied(p, s, a, ent) ==
  LET l == SlotOf(p, s, a)
      q == [p EXCEPT !.store[s].num_ent = @ + ent, !.block[BlockOf(p, s, a)].num_ent = @ + ent]
  IN  IF l.value = NoVal THEN q
      ELSE [Rehash(WithSlot(q, s, a, [l EXCEPT !.value = NoVal]), s, {EntryOf(p, s, a)})
              EXCEPT !.value[l.value] = Unref(@, 1)]
One(v) == IF v = NoVal THEN 0 ELSE 1

LEMMA EmptiedIs ==
  ASSUME NEW p, NEW H, Good(p, H), NEW s \in Store, On(p, s), NEW a, Has(p, s, a),
         Mine(p, s, BlockOf(p, s, a)), NEW e \in Int, Exact(p), NEW x, x = Emptied(p, s, a, e)
  PROVE  /\ Good(x, H) /\ On(x, s) /\ Same(p, x, s) /\ Tab(x, s) = Tab(p, s)
         /\ \A b : Mine(x, s, b) <=> Mine(p, s, b)
         /\ \A c : (Has(x, s, c) <=> Has(p, s, c)) /\ BlockOf(x, s, c) = BlockOf(p, s, c)
         /\ SlotOf(x, s, a).value = NoVal /\ SlotOf(x, s, a).param = SlotOf(p, s, a).param
         /\ Counters(x, s, BlockOf(p, s, a), e + One(SlotOf(p, s, a).value))
         /\ Keeps(p, x)
<1> DEFINE D == IF SlotOf(p, s, a).value = NoVal THEN {} ELSE {a}
           B == BlockOf(p, s, a)
           f == e + One(SlotOf(p, s, a).value)
<1>1. p \in Memory /\ Tables(p) /\ B \in Block /\ a % NSlots \in Ofs /\ a \in Addr
      /\ SlotOf(p, s, a) = At(p, B, a % NSlots) /\ SlotOf(p, s, a) \in Slot
  BY HasFields DEF Good
<1>2. PICK q : q = Moved(p, s, B, e)
  OBVIOUS
<1>3. /\ q \in Memory /\ q.value = p.value /\ On(q, s) /\ Tab(q, s) = Tab(p, s)
      /\ q.store[s].num_ent = p.store[s].num_ent + e /\ q.store[s].hash = p.store[s].hash
      /\ \A t \in Store \ {s} : q.store[t] = p.store[t]
      /\ \A b \in Block : /\ q.block[b].refcnt = p.block[b].refcnt /\ q.block[b].slots = p.block[b].slots
                          /\ q.block[b].num_ent = p.block[b].num_ent + Ahead(b, B, e)
                          /\ q.block[b].num_reloc = p.block[b].num_reloc
  BY <1>1, <1>2, CountersMoved
<1>4. D \in SUBSET Living(p, s) /\ \A d \in D : Mine(p, s, BlockOf(p, s, d))
  BY <1>1 DEF Living, Alive
<1>5. f \in Int /\ Counters(p, s, B, 0) /\ p.store[s].num_ent \in Int /\ \A b \in Block : p.block[b].num_ent \in Int
  BY <1>1, StoreFields, BlockFields DEF One, Exact
<1>9. /\ Cardinality({}) = 0 /\ Cardinality({a}) = 1
      /\ Place(p, s, {}) = {} /\ Place(p, s, {a}) = {<<B, a % NSlots>>}
      /\ \A b : Cardinality(InBlock(p, s, {}, b)) = 0
      /\ \A b : Cardinality(InBlock(p, s, {a}, b)) = Ahead(b, B, 1)
      /\ \A v : Cardinality(Cleared(p, s, {}, v)) = 0
      /\ \A v : Cardinality(Cleared(p, s, {a}, v)) = Ahead(v, SlotOf(p, s, a).value, 1)
  <2> HIDE DEF D, f
  <2>1. Cardinality({}) = 0 /\ Cardinality({a}) = 1
    BY FS_EmptySet, FS_Singleton
  <2>2. \A b : InBlock(p, s, {}, b) = {} /\ InBlock(p, s, {a}, b) = IF b = BlockOf(p, s, a) THEN {a} ELSE {}
    BY DEF InBlock
  <2>3. \A v : Cleared(p, s, {}, v) = {} /\ Cleared(p, s, {a}, v) = IF v = SlotOf(p, s, a).value THEN {a} ELSE {}
    BY DEF Cleared
  <2>4. Place(p, s, {}) = {} /\ Place(p, s, {a}) = {<<BlockOf(p, s, a), a % NSlots>>}
    BY DEF Place
  <2> QED
    BY <2>1, <2>2, <2>3, <2>4 DEF Ahead
<1> HIDE DEF B
<1>6. ASSUME Writes(p, x, s), Clears(p, x, s, D), \A o \in Ofs : At(x, B, o).param = At(p, B, o).param,
             \A b \in Block : x.block[b].num_ent = q.block[b].num_ent,
             x.store[s].num_ent = q.store[s].num_ent, SlotOf(x, s, a).value = NoVal, Settles(p, x, s, D)
      PROVE  /\ Good(x, H) /\ On(x, s) /\ Same(p, x, s) /\ Tab(x, s) = Tab(p, s)
             /\ \A b : Mine(x, s, b) <=> Mine(p, s, b)
             /\ \A c : (Has(x, s, c) <=> Has(p, s, c)) /\ BlockOf(x, s, c) = BlockOf(p, s, c)
             /\ SlotOf(x, s, a).value = NoVal /\ SlotOf(x, s, a).param = SlotOf(p, s, a).param
             /\ Counters(x, s, B, f)
             /\ Keeps(p, x)
  <2>1. /\ Same(p, x, s) /\ \A b : Mine(x, s, b) <=> Mine(p, s, b)
        /\ \A c : (Has(x, s, c) <=> Has(p, s, c)) /\ BlockOf(x, s, c) = BlockOf(p, s, c)
    BY <1>6, WritesFrame
  <2>2. Good(x, H)
    BY <1>4, <1>6, ClearsGood, SMTT(30)
  <2>3. SlotOf(x, s, a).param = SlotOf(p, s, a).param
    <3>1. SlotOf(x, s, a) = At(x, B, a % NSlots)
      BY <2>1 DEF SlotOf, At, B
    <3>2. At(x, B, a % NSlots).param = At(p, B, a % NSlots).param
      BY <1>1, <1>6
    <3> QED
      BY <3>1, <3>2, <1>1 DEF B
  <2>4. Counters(x, s, B, 0 + f)
    <3>1. ASSUME NEW b \in Block
          PROVE  x.block[b].num_ent = p.block[b].num_ent - Cardinality(InBlock(p, s, D, b)) + Ahead(b, B, f)
      <4>1. x.block[b].num_ent = p.block[b].num_ent + Ahead(b, B, e)
        BY <1>3, <1>6
      <4>2. Cardinality(InBlock(p, s, D, b)) = Ahead(b, B, One(SlotOf(p, s, a).value))
        <5>1. CASE SlotOf(p, s, a).value = NoVal
          BY <5>1, <1>9 DEF One, Ahead
        <5>2. CASE SlotOf(p, s, a).value # NoVal
          BY <5>2, <1>9 DEF One
        <5> QED
          BY <5>1, <5>2
      <4>3. Ahead(b, B, f) = Ahead(b, B, e) + Ahead(b, B, One(SlotOf(p, s, a).value))
            /\ Ahead(b, B, e) \in Int /\ Ahead(b, B, One(SlotOf(p, s, a).value)) \in Int
        BY DEF Ahead, One
      <4>4. p.block[b].num_ent \in Int
        BY <1>5
      <4> QED
        BY <4>1, <4>2, <4>3, <4>4
    <3>2. x.store[s].num_ent = p.store[s].num_ent - Cardinality(D) + f
      <4>1. Cardinality(D) = One(SlotOf(p, s, a).value) /\ One(SlotOf(p, s, a).value) \in Int
        BY <1>9 DEF One
      <4>2. x.store[s].num_ent = p.store[s].num_ent + e /\ p.store[s].num_ent \in Int
        BY <1>3, <1>5, <1>6
      <4> QED
        BY <4>1, <4>2
    <3> HIDE DEF D, f
    <3>3. 0 \in Int
      OBVIOUS
    <3> QED
      BY <3>1, <3>2, <3>3, <1>4, <1>5, <1>6, ClearsCounters
  <2>5. 0 + f = f
    BY <1>5
  <2>6. On(x, s) /\ Tab(x, s) = Tab(p, s)
    BY <1>6 DEF Writes
  <2>7. x \in Memory
    BY <2>2 DEF Good
  <2>8. Keeps(p, x)
    <3> HIDE DEF D, f
    <3>1. Ledger(p, x, s, D)
      BY <2>6, <2>7, <1>1, <1>4, <1>6, SettlesLedger
    <3> QED
      BY <3>1, <2>1, <2>7, <1>1, <1>4, TidyKept DEF Keeps
  <2> QED
    BY <2>1, <2>2, <2>3, <2>4, <2>5, <2>6, <2>8, <1>6
<1>7. CASE SlotOf(p, s, a).value = NoVal
  <2>1. x = q
    BY <1>2, <1>7 DEF Emptied, B, Moved
  <2>2. D = {}
    BY <1>7
  <2>3. \A b \in Block, o \in Ofs : At(x, b, o) = At(p, b, o)
    BY <2>1, <1>3 DEF At
  <2>4. Writes(p, x, s)
    <3>1. \A b \in Block : ~ Mine(p, s, b) => x.block[b].num_ent = p.block[b].num_ent
      BY <2>1, <1>3, <1>5 DEF Ahead, B
    <3> QED
      BY <2>1, <3>1, <1>3 DEF Writes
  <2>5. Clears(p, x, s, D)
    <3>1. \A v \in Val : x.value[v].refcnt = p.value[v].refcnt - 0
      BY <2>1, <1>1, <1>3, ValueFields
    <3> QED
      BY <2>2, <2>3, <3>1, <1>9 DEF Clears
  <2>6. SlotOf(x, s, a).value = NoVal
    <3>1. BlockOf(x, s, a) = B
      BY <2>1, <1>3 DEF BlockOf, B, Tab
    <3> QED
      BY <3>1, <2>3, <1>1, <1>7 DEF SlotOf, At
  <2>7. Settles(p, x, s, {})
    <3>1. Place(p, s, {}) = {} /\ {EntryOf(p, s, d) : d \in {}} = {} /\ \A A : Xor(A, {}) = A
      BY DEF Place, Xor
    <3> QED
      BY <3>1, <2>1, <2>3, <1>3 DEF Settles
  <2> QED
    BY <2>1, <2>2, <2>3, <2>4, <2>5, <2>6, <2>7, <1>1, <1>6 DEF B
<1>8. CASE SlotOf(p, s, a).value # NoVal
  <2>1. PICK l, v : l = SlotOf(p, s, a) /\ v = l.value
    OBVIOUS
  <2>2. PICK l0 : l0 = [l EXCEPT !.value = NoVal]
    OBVIOUS
  <2>3. l0 \in Slot /\ l0.value = NoVal /\ l0.param = l.param /\ v \in Val
    BY <2>1, <2>2, <1>1, <1>8 DEF Slot
  <2>4. Alive(p, s, a) /\ Has(q, s, a) /\ BlockOf(q, s, a) = B
    BY <1>3, <1>8 DEF Alive, Has, BlockOf, Tab, B
  <2>5. PICK y : y = WithSlot(q, s, a, l0)
    OBVIOUS
  <2>6. /\ y \in Memory /\ y.store = q.store /\ y.value = q.value
        /\ \A b \in Block : /\ y.block[b].refcnt = q.block[b].refcnt
                            /\ y.block[b].num_ent = q.block[b].num_ent
                            /\ y.block[b].num_reloc = q.block[b].num_reloc
                            /\ b # B => y.block[b] = q.block[b]
        /\ \A b \in Block, o \in Ofs : At(y, b, o) = IF b = B /\ o = a % NSlots THEN l0 ELSE At(q, b, o)
    BY <2>3, <2>4, <2>5, <1>3, WithSlotIs
  <2>7. On(y, s) /\ Tab(y, s) = Tab(p, s)
    BY <2>6, <1>3 DEF On, Tab
  <2>8. PICK z : z = Rehash(y, s, {EntryOf(p, s, a)})
    OBVIOUS
  <2>9. /\ z \in Memory /\ z.value = y.value /\ z.block = y.block /\ On(z, s)
        /\ Tab(z, s) = Tab(y, s) /\ z.store[s].num_ent = y.store[s].num_ent
        /\ z.store[s].hash = Xor(y.store[s].hash, {EntryOf(p, s, a)})
        /\ \A t \in Store \ {s} : z.store[t] = y.store[t]
    <3>1. {EntryOf(p, s, a)} \in SUBSET Entry
      BY <2>4, <1>1, EntryType
    <3> QED
      BY <2>6, <2>7, <2>8, <3>1, RehashIs
  <2>10. PICK u : u = Unref(p.value[v], 1)
    OBVIOUS
  <2>11. \A w \in Val : LET c == Cardinality(Cleared(p, s, D, w))
                        IN  /\ Unref(p.value[w], c) \in Value /\ Unref(p.value[w], c).refcnt = p.value[w].refcnt - c
                            /\ (\E i \in Pointers(p, w) : ~ Mine(p, s, i[1])) =>
                                 Unref(p.value[w], c).content = p.value[w].content
                            /\ (\E i \in Pointers(p, w) : i \notin Place(p, s, D)) =>
                                 Unref(p.value[w], c).content = p.value[w].content
                            /\ Unref(p.value[w], c).write_count \in {p.value[w].write_count, 0}
    <3> HIDE DEF D
    <3> QED
      BY <1>4, UnrefCleared
  <2>12. D = {a} /\ \A w : Cardinality(Cleared(p, s, D, w)) = IF w = v THEN 1 ELSE 0
    BY <2>1, <1>8, <1>9 DEF Ahead
  <2>13. /\ u \in Value /\ u.refcnt = p.value[v].refcnt - 1
         /\ (\E i \in Pointers(p, v) : ~ Mine(p, s, i[1])) => u.content = p.value[v].content
         /\ (\E i \in Pointers(p, v) : i \notin Place(p, s, D)) => u.content = p.value[v].content
         /\ u.write_count \in {p.value[v].write_count, 0}
    <3> HIDE DEF D
    <3>1. Cardinality(Cleared(p, s, D, v)) = 1
      BY <2>12
    <3> QED
      BY <2>3, <2>10, <2>11, <3>1
  <2>14. x = WithValue(z, v, u)
    <3>1. x = [z EXCEPT !.value[v] = Unref(@, 1)]
      BY <2>1, <2>2, <2>5, <2>8, <1>2, <1>8, Zenon DEF Emptied, B, Moved
    <3>2. z.value[v] = p.value[v]
      BY <2>6, <2>9, <1>3
    <3> QED
      BY <3>1, <3>2, <2>10 DEF WithValue
  <2>15. /\ x \in Memory /\ x.store = z.store /\ x.block = z.block
         /\ \A w \in Val : x.value[w] = IF w = v THEN u ELSE z.value[w]
    BY <2>3, <2>9, <2>13, <2>14, ValueChanged
  <2>16. /\ On(x, s) /\ Tab(x, s) = Tab(p, s) /\ \A t \in Store \ {s} : x.store[t] = p.store[t]
         /\ x.store[s].num_ent = q.store[s].num_ent
    BY <2>6, <2>7, <2>9, <2>15, <1>3 DEF On, Tab
  <2>17. \A b \in Block : /\ x.block[b].refcnt = p.block[b].refcnt /\ x.block[b].num_ent = q.block[b].num_ent
                          /\ b # B => x.block[b].slots = p.block[b].slots
    BY <2>6, <2>9, <2>15, <1>3
  <2>18. \A b \in Block, o \in Ofs : At(x, b, o) = IF b = B /\ o = a % NSlots THEN l0 ELSE At(p, b, o)
    BY <2>6, <2>9, <2>15, <1>3 DEF At
  <2>19. Writes(p, x, s)
    <3>1. ASSUME NEW b \in Block, ~ Mine(p, s, b)
          PROVE  x.block[b].slots = p.block[b].slots /\ x.block[b].num_ent = p.block[b].num_ent
      <4>1. b # B
        BY <3>1 DEF B
      <4>2. x.block[b].num_ent = p.block[b].num_ent + 0
        BY <4>1, <2>17, <1>3 DEF Ahead
      <4> QED
        BY <4>1, <4>2, <2>17, <1>5
    <3>2. ASSUME NEW w \in Val, \E i \in Pointers(p, w) : ~ Mine(p, s, i[1])
          PROVE  x.value[w].content = p.value[w].content
      BY <3>2, <2>6, <2>9, <2>13, <2>15, <1>3
    <3> QED
      BY <3>1, <3>2, <2>15, <2>16, <2>17 DEF Writes
  <2>20. Clears(p, x, s, D)
    <3>1. ASSUME NEW b \in Block, NEW o \in Ofs
          PROVE  /\ At(x, b, o).value # NoVal => At(x, b, o).param = At(p, b, o).param
                 /\ At(x, b, o).value = IF <<b, o>> \in Place(p, s, D) THEN NoVal ELSE At(p, b, o).value
      <4>1. <<b, o>> \in Place(p, s, D) <=> b = B /\ o = a % NSlots
        <5>1. Place(p, s, D) = {<<B, a % NSlots>>}
          BY <2>12, <1>9
        <5> HIDE DEF D
        <5> QED
          BY <5>1
      <4> QED
        BY <4>1, <2>3, <2>18
    <3>2. ASSUME NEW w \in Val PROVE x.value[w].refcnt = p.value[w].refcnt - Cardinality(Cleared(p, s, D, w))
      <4>1. x.value[w] = IF w = v THEN u ELSE p.value[w]
        BY <2>6, <2>9, <2>15, <1>3
      <4>2. p.value[w].refcnt \in Int
        BY <1>1, ValueFields
      <4>3. CASE w = v
        BY <4>1, <4>3, <2>12, <2>13
      <4>4. CASE w # v
        <5>1. Cardinality(Cleared(p, s, D, w)) = 0
          BY <4>4, <2>12
        <5> HIDE DEF D
        <5> QED
          BY <4>1, <4>2, <4>4, <5>1
      <4> QED
        BY <4>3, <4>4
    <3> QED
      BY <3>1, <3>2 DEF Clears
  <2>21. \A o \in Ofs : At(x, B, o).param = At(p, B, o).param
    BY <2>1, <2>3, <2>18, <1>1 DEF B
  <2>22. SlotOf(x, s, a).value = NoVal
    <3>1. BlockOf(x, s, a) = B
      BY <2>16 DEF BlockOf, B, Tab
    <3>2. At(x, B, a % NSlots) = l0
      BY <2>18, <1>1 DEF B
    <3> QED
      BY <3>1, <3>2, <2>3 DEF SlotOf, At
  <2>23. Settles(p, x, s, D)
    <3>1. x.store[s].hash = Xor(p.store[s].hash, {EntryOf(p, s, d) : d \in D})
      <4>1. {EntryOf(p, s, d) : d \in D} = {EntryOf(p, s, a)}
        BY <2>12
      <4> HIDE DEF D
      <4> QED
        BY <4>1, <2>6, <2>9, <2>15, <1>3
    <3>2. ASSUME NEW b \in Block, NEW o \in Ofs
          PROVE  /\ At(x, b, o).value = IF <<b, o>> \in Place(p, s, D) THEN NoVal ELSE At(p, b, o).value
                 /\ At(x, b, o).value # NoVal => At(x, b, o).reuse = At(p, b, o).reuse
      <4>1. At(x, b, o).value = IF <<b, o>> \in Place(p, s, D) THEN NoVal ELSE At(p, b, o).value
        BY <2>20 DEF Clears
      <4> HIDE DEF D
      <4> QED
        BY <4>1, <2>3, <2>18
    <3>3. \A b \in Block : x.block[b].num_reloc = p.block[b].num_reloc
      BY <2>6, <2>9, <2>15, <1>3
    <3>4. ASSUME NEW w \in Val
          PROVE  /\ (\E c \in Pointers(p, w) : c \notin Place(p, s, D)) => x.value[w].content = p.value[w].content
                 /\ x.value[w].write_count \in {p.value[w].write_count, 0}
      <4> HIDE DEF D
      <4> QED
        BY <2>6, <2>9, <2>13, <2>15, <1>3
    <3> HIDE DEF D
    <3> QED
      BY <3>1, <3>2, <3>3, <3>4, <2>16 DEF Settles
  <2> HIDE DEF D, f
  <2> QED
    BY <2>16, <2>17, <2>19, <2>20, <2>21, <2>22, <2>23, <1>6 DEF B, f
<1> QED
  BY <1>7, <1>8

(* The slot of a without its value, and without what only it referred to. *)
LEMMA DetachedIs ==
  ASSUME NEW p, NEW H, Good(p, H), NEW s \in Store, On(p, s), NEW a, Has(p, s, a),
         Mine(p, s, BlockOf(p, s, a)), NEW e \in Int, Exact(p), NEW r, r = Detached(p, s, a, e)
  PROVE  /\ Good(r, H) /\ On(r, s) /\ Same(p, r, s) /\ Len(Tab(r, s)) = Len(Tab(p, s))
         /\ \A c : Has(r, s, c) <=> Has(p, s, c)
         /\ BlockOf(r, s, a) = BlockOf(p, s, a) /\ Mine(r, s, BlockOf(p, s, a))
         /\ SlotOf(r, s, a).value = NoVal /\ SlotOf(r, s, a).param = SlotOf(p, s, a).param
         /\ Counters(r, s, BlockOf(p, s, a), e + One(SlotOf(p, s, a).value))
         /\ Keeps(p, r)
<1>1. PICK x : x = Emptied(p, s, a, e)
  OBVIOUS
<1>2. /\ Good(x, H) /\ On(x, s) /\ Same(p, x, s) /\ Tab(x, s) = Tab(p, s)
      /\ \A b : Mine(x, s, b) <=> Mine(p, s, b)
      /\ \A c : (Has(x, s, c) <=> Has(p, s, c)) /\ BlockOf(x, s, c) = BlockOf(p, s, c)
      /\ SlotOf(x, s, a).value = NoVal /\ SlotOf(x, s, a).param = SlotOf(p, s, a).param
      /\ Counters(x, s, BlockOf(p, s, a), e + One(SlotOf(p, s, a).value))
      /\ Keeps(p, x)
  BY <1>1, EmptiedIs
<1>3. CASE SlotOf(p, s, a).value = NoVal
  <2>1. r = x
    BY <1>1, <1>3 DEF Detached, Emptied
  <2> QED
    BY <2>1, <1>2
<1>4. CASE SlotOf(p, s, a).value # NoVal
  <2>1. PICK n : n = [c \in Addr |-> Refs(p, s, Content(p, s, a), c)]
    OBVIOUS
  <2>2. r = DecrefAll(x, s, n)
    <3> DEFINE l == SlotOf(p, s, a)
               q == [p EXCEPT !.store[s].num_ent = @ + e, !.block[BlockOf(p, s, a)].num_ent = @ + e]
               z == [Rehash(WithSlot(q, s, a, [l EXCEPT !.value = NoVal]), s, {EntryOf(p, s, a)})
                       EXCEPT !.value[l.value] = Unref(@, 1)]
               rf == [c \in Addr |-> Refs(p, s, Content(p, s, a), c)]
    <3>1. Emptied(p, s, a, e) = IF l.value = NoVal THEN q ELSE z
      BY Zenon DEF Emptied
    <3>2. Detached(p, s, a, e) = IF l.value = NoVal THEN q ELSE DecrefAll(z, s, rf)
      BY Zenon DEF Detached
    <3> HIDE DEF q, z, rf
    <3> QED
      BY <3>1, <3>2, <1>1, <1>4, <2>1 DEF rf
  <2>3. n \in [Addr -> Nat]
    <3>1. p \in Memory
      BY DEF Good
    <3>2. SlotOf(p, s, a).value \in Val
      BY <3>1, <1>4, HasFields DEF Slot
    <3>3. Content(p, s, a) \in SUBSET Elem
      BY <3>1, <3>2, ValueFields DEF Content
    <3>4. \A c : Refs(p, s, Content(p, s, a), c) \in Nat
      BY <3>3, RefsNat
    <3> QED
      BY <3>4, <2>1
  <2>4. Fades(x, r, s, H) /\ Keeps(x, r)
    BY <2>2, <2>3, <1>2, DecrefFades
  <2>5. Good(r, H) /\ On(r, s) /\ Same(x, r, s) /\ Len(Tab(r, s)) = Len(Tab(x, s))
        /\ \A c : /\ Has(r, s, c) <=> Has(x, s, c)
                  /\ Has(x, s, c) => /\ SlotOf(r, s, c).value \in {SlotOf(x, s, c).value, NoVal}
                                     /\ SlotOf(r, s, c).param = SlotOf(x, s, c).param
    BY <2>4, Zenon DEF Fades
  <2>6. SlotOf(r, s, a).value = NoVal /\ SlotOf(r, s, a).param = SlotOf(p, s, a).param
    BY <2>5, <1>2
  <2>7. BlockOf(r, s, a) = BlockOf(p, s, a) /\ Mine(r, s, BlockOf(p, s, a))
    <3>1. BlockNo(a) \in DOMAIN Tab(x, s) /\ BlockOf(x, s, a) = Tab(x, s)[BlockNo(a)]
      BY <1>2, HasFields DEF Good
    <3>2. Tab(r, s)[BlockNo(a)] = Tab(x, s)[BlockNo(a)] /\ Mine(r, s, Tab(x, s)[BlockNo(a)])
      BY <3>1, <2>4, <1>2 DEF Fades
    <3> QED
      BY <3>1, <3>2, <1>2 DEF BlockOf, Tab
  <2>8. Counters(r, s, BlockOf(p, s, a), e + One(SlotOf(p, s, a).value))
    <3>1. e + One(SlotOf(p, s, a).value) \in Int
      BY DEF One
    <3>2. Mine(x, s, BlockOf(p, s, a))
      BY <1>2
    <3> QED
      BY <3>1, <3>2, <2>4, <1>2, Zenon DEF Fades
  <2>9. Same(p, r, s)
    BY <2>5, <1>2, SameTrans
  <2>10. Keeps(p, r)
    BY <2>4, <1>2 DEF Keeps
  <2> QED
    BY <2>5, <2>6, <2>7, <2>8, <2>9, <2>10, <1>2
<1> QED
  BY <1>3, <1>4

(* The value v in the empty slot of a. *)
LEMMA SlotGetsIs ==
  ASSUME NEW r, NEW H, Good(r, H), NEW s \in Store, On(r, s), NEW a, Has(r, s, a), NEW v \in Val \cup {NoVal},
         Mine(r, s, BlockOf(r, s, a)), SlotOf(r, s, a).value = NoVal,
         v # NoVal => SlotOf(r, s, a).param # NoParam,
         Counters(r, s, BlockOf(r, s, a), One(v)), NEW old, NEW n, n = SlotGets(r, s, a, v, old)
  PROVE  /\ Step(r, n, s, H) /\ SlotOf(n, s, a).value = v /\ Mine(n, s, BlockOf(n, s, a))
         /\ IF v = NoVal THEN Keeps(r, n) ELSE Opens(r, n, s, a)
<1> DEFINE B == BlockOf(r, s, a)
           i == a % NSlots
<1>1. /\ r \in Memory /\ Tables(r) /\ InUse(r) /\ ValuesCounted(r, H) /\ Buffers(H)
      /\ B \in Block /\ i \in Ofs /\ a \in Addr /\ SlotOf(r, s, a) = At(r, B, i) /\ SlotOf(r, s, a) \in Slot
  BY HasFields DEF Good
<1>2. PICK l : l = [SlotOf(r, s, a) EXCEPT !.value = v, !.reuse = FALSE,
                      !.param = IF v = NoVal /\ old # NoVal THEN NoParam ELSE @]
  OBVIOUS
<1>3. l \in Slot /\ l.value = v /\ (v # NoVal => l.param = SlotOf(r, s, a).param)
  <2>1. PICK y \in Param \cup {NoParam} : y = IF v = NoVal /\ old # NoVal THEN NoParam ELSE SlotOf(r, s, a).param
    BY <1>1 DEF Slot
  <2>2. l = [SlotOf(r, s, a) EXCEPT !.value = v, !.reuse = FALSE, !.param = y]
    BY <1>1, <1>2, <2>1 DEF Slot
  <2>3. l = [value |-> v, refcnt |-> SlotOf(r, s, a).refcnt, reuse |-> FALSE, param |-> y]
    BY <1>1, <2>2 DEF Slot
  <2>4. SlotOf(r, s, a).refcnt \in Nat
    BY <1>1 DEF Slot
  <2> QED
    BY <2>1, <2>3, <2>4 DEF Slot
<1>4. PICK u : u = WithSlot(r, s, a, l)
  OBVIOUS
<1>5. /\ u \in Memory /\ u.store = r.store /\ u.value = r.value
      /\ \A b \in Block : /\ u.block[b].refcnt = r.block[b].refcnt
                          /\ u.block[b].num_ent = r.block[b].num_ent
                          /\ u.block[b].num_reloc = r.block[b].num_reloc
                          /\ b # B => u.block[b] = r.block[b]
      /\ \A b \in Block, o \in Ofs : At(u, b, o) = IF b = B /\ o = i THEN l ELSE At(r, b, o)
  BY <1>1, <1>3, <1>4, WithSlotIs
<1> HIDE DEF B, i
<1>6. ASSUME n \in Memory, n.store = r.store, n.block = u.block,
             \A w \in Val : n.value[w].content = r.value[w].content
      PROVE  /\ Writes(r, n, s) /\ SlotOf(n, s, a).value = v /\ Mine(n, s, BlockOf(n, s, a))
             /\ Tab(n, s) = Tab(r, s) /\ Same(r, n, s) /\ On(n, s)
             /\ \A c : (Has(n, s, c) <=> Has(r, s, c)) /\ BlockOf(n, s, c) = BlockOf(r, s, c)
             /\ Tables(n) /\ BlocksCounted(n) /\ FreeEmpty(n)
             /\ \A b \in Block, o \in Ofs : At(n, b, o) = IF b = B /\ o = i THEN l ELSE At(r, b, o)
             /\ \A b \in Block : n.block[b].num_ent = r.block[b].num_ent
  <2>1. \A b \in Block, o \in Ofs : At(n, b, o) = IF b = B /\ o = i THEN l ELSE At(r, b, o)
    BY <1>5, <1>6 DEF At
  <2>2. On(n, s) /\ Tab(n, s) = Tab(r, s)
    BY <1>6 DEF On, Tab
  <2>3. \A b \in Block : /\ n.block[b].refcnt = r.block[b].refcnt
                         /\ n.block[b].num_ent = r.block[b].num_ent
                         /\ b # B => n.block[b] = r.block[b]
    BY <1>5, <1>6
  <2>4. Writes(r, n, s)
    <3>1. \A b \in Block : ~ Mine(r, s, b) => b # B
      BY DEF B
    <3> QED
      BY <2>2, <2>3, <3>1, <1>6 DEF Writes
  <2>5. /\ Tables(n) /\ BlocksCounted(n) /\ FreeEmpty(n) /\ Same(r, n, s)
        /\ \A b : Mine(n, s, b) <=> Mine(r, s, b)
        /\ \A c : (Has(n, s, c) <=> Has(r, s, c)) /\ BlockOf(n, s, c) = BlockOf(r, s, c)
    BY <2>4, WritesFrame
  <2>6. SlotOf(n, s, a) = At(n, B, i) /\ BlockOf(n, s, a) = B
    BY <2>5 DEF SlotOf, At, B, i
  <2>7. Mine(n, s, B)
    BY <2>5 DEF B
  <2>8. SlotOf(n, s, a).value = v
    BY <2>1, <2>6, <1>1, <1>3
  <2> QED
    BY <2>1, <2>2, <2>3, <2>4, <2>5, <2>6, <2>7, <2>8
<1>7. CASE v = NoVal
  <2>1. n = u
    BY <1>2, <1>4, <1>7 DEF SlotGets
  <2>2. /\ Writes(r, n, s) /\ SlotOf(n, s, a).value = v /\ Mine(n, s, BlockOf(n, s, a))
        /\ Tab(n, s) = Tab(r, s) /\ Same(r, n, s) /\ On(n, s)
        /\ \A c : (Has(n, s, c) <=> Has(r, s, c))
        /\ \A b \in Block, o \in Ofs : At(n, b, o) = IF b = B /\ o = i THEN l ELSE At(r, b, o)
        /\ \A b \in Block : n.block[b].num_ent = r.block[b].num_ent
    BY <2>1, <1>5, <1>6
  <2>3. /\ Cardinality({}) = 0 /\ Place(r, s, {}) = {}
        /\ \A b : InBlock(r, s, {}, b) = {}
        /\ \A w : Cleared(r, s, {}, w) = {}
    BY FS_EmptySet DEF Place, InBlock, Cleared
  <2>4. \A w \in Val : r.value[w].refcnt = r.value[w].refcnt - 0
    BY <1>1, ValueFields
  <2>5. Clears(r, n, s, {})
    <3>1. \A w \in Val : n.value[w].refcnt = r.value[w].refcnt - Cardinality(Cleared(r, s, {}, w))
      <4>1. n.value = r.value
        BY <2>1, <1>5
      <4>2. \A w : Cardinality(Cleared(r, s, {}, w)) = 0
        BY <2>3
      <4> QED
        BY <4>1, <4>2, <2>4
    <3>2. \A b \in Block, o \in Ofs : At(n, b, o).value = At(r, b, o).value
      BY <2>2, <1>1, <1>3, <1>7
    <3>3. \A b \in Block, o \in Ofs : At(n, b, o).value # NoVal => At(n, b, o).param = At(r, b, o).param
      BY <2>2, <1>3, <1>7
    <3>4. \A b, o : <<b, o>> \notin Place(r, s, {})
      BY <2>3
    <3> QED
      BY <3>1, <3>2, <3>3, <3>4 DEF Clears
  <2>6. {} \in SUBSET Living(r, s)
    OBVIOUS
  <2>7. Good(n, H)
    BY <2>2, <2>5, <2>6, ClearsGood
  <2>8. Counters(r, s, B, 0)
    BY <1>7 DEF One, B
  <2>9. Counters(n, s, B, 0 + 0)
    <3>1. ASSUME NEW b \in Block
          PROVE  n.block[b].num_ent = r.block[b].num_ent - Cardinality(InBlock(r, s, {}, b)) + Ahead(b, B, 0)
      <4>1. r.block[b].num_ent \in Int
        BY <1>1, BlockFields
      <4>2. Cardinality(InBlock(r, s, {}, b)) = 0 /\ Ahead(b, B, 0) = 0
        BY <2>3 DEF Ahead
      <4> QED
        BY <4>1, <4>2, <2>2
    <3>2. n.store[s].num_ent = r.store[s].num_ent - Cardinality({}) + 0
      <4>1. r.store[s].num_ent \in Int
        BY <1>1, StoreFields
      <4> QED
        BY <4>1, <2>1, <2>3, <1>5
    <3>3. 0 \in Int
      OBVIOUS
    <3> QED
      BY <3>1, <3>2, <3>3, <2>2, <2>5, <2>6, <2>8, ClearsCounters
  <2>10. 0 + 0 = 0
    OBVIOUS
  <2>11. Exact(n)
    BY <2>9, <2>10, ExactIs
  <2>12. Rests(r, n, s)
    <3>1. /\ n.store[s].hash = r.store[s].hash /\ n.value = r.value
          /\ \A b \in Block : n.block[b].num_reloc = r.block[b].num_reloc
      BY <2>1, <1>5
    <3>2. \A b \in Block, o \in Ofs :
            /\ At(n, b, o).value = At(r, b, o).value
            /\ At(n, b, o).value # NoVal => At(n, b, o).reuse = At(r, b, o).reuse
      BY <2>2, <1>1, <1>3, <1>7
    <3> QED
      BY <3>1, <3>2, <2>2 DEF Rests
  <2>13. Keeps(r, n)
    <3>1. n \in Memory
      BY <2>7 DEF Good
    <3> QED
      BY <3>1, <2>2, <2>12, <1>1, RestsKeeps
  <2> QED
    BY <2>2, <2>7, <2>11, <2>13, <1>7 DEF Step
<1>8. CASE v # NoVal
  <2>1. v \in Val
    BY <1>8
  <2>2. r.value[v] \in Value /\ r.value[v].refcnt \in Nat
    BY <2>1, <1>1, ValueFields
  <2>3. PICK k : k = r.value[v].refcnt + 1
    OBVIOUS
  <2>4. PICK x : x = [r.value[v] EXCEPT !.refcnt = k, !.write_count = 1]
    OBVIOUS
  <2>5. x \in Value /\ x.refcnt = r.value[v].refcnt + 1 /\ x.content = r.value[v].content
    <3>1. x = [refcnt |-> k, write_count |-> 1, content |-> r.value[v].content]
      BY <2>2, <2>4 DEF Value
    <3>2. k \in Nat /\ r.value[v].content \in SUBSET Elem /\ 1 \in 0 .. 15
      BY <2>2, <2>3 DEF Value
    <3> QED
      BY <3>1, <3>2, <2>3 DEF Value
  <2>6. n = WithValue(u, v, x)
    <3>1. n = [u EXCEPT !.value[v].refcnt = @ + 1, !.value[v].write_count = 1]
      BY <1>2, <1>4, <1>8 DEF SlotGets
    <3>2. u.value \in [Val -> Value] /\ u.value[v] = r.value[v]
      BY <1>5 DEF Memory
    <3> QED
      BY <3>1, <3>2, <2>1, <2>2, <2>3, <2>4 DEF WithValue, Value
  <2>7. /\ n \in Memory /\ n.store = u.store /\ n.block = u.block
        /\ \A w \in Val : n.value[w] = IF w = v THEN x ELSE u.value[w]
    BY <2>1, <2>5, <2>6, <1>5, ValueChanged
  <2>8. \A w \in Val : n.value[w].content = r.value[w].content
    BY <2>5, <2>7, <1>5
  <2>9. /\ Writes(r, n, s) /\ SlotOf(n, s, a).value = v /\ Mine(n, s, BlockOf(n, s, a))
        /\ Tab(n, s) = Tab(r, s) /\ Same(r, n, s) /\ On(n, s)
        /\ \A c : (Has(n, s, c) <=> Has(r, s, c)) /\ BlockOf(n, s, c) = BlockOf(r, s, c)
        /\ Tables(n) /\ BlocksCounted(n) /\ FreeEmpty(n)
        /\ \A b \in Block, o \in Ofs : At(n, b, o) = IF b = B /\ o = i THEN l ELSE At(r, b, o)
        /\ \A b \in Block : n.block[b].num_ent = r.block[b].num_ent
    BY <2>7, <2>8, <1>5, <1>6
  <2>10. At(r, B, i).value = NoVal /\ At(n, B, i).value = v /\ \A b \in Block, o \in Ofs :
           ~ (b = B /\ o = i) => At(n, b, o).value = At(r, b, o).value
    BY <2>9, <1>1, <1>3
  <2>11. InUse(n)
    <3>1. ASSUME NEW b \in Block, NEW o \in Ofs, At(n, b, o).value # NoVal PROVE At(n, b, o).param # NoParam
      <4>1. CASE b = B /\ o = i
        BY <4>1, <2>9, <1>1, <1>3, <1>8
      <4>2. CASE ~ (b = B /\ o = i)
        BY <4>2, <3>1, <2>9, <1>1 DEF InUse
      <4> QED
        BY <4>1, <4>2
    <3> QED
      BY <3>1 DEF InUse
  <2>12. ValuesCounted(n, H)
    <3> SUFFICES ASSUME NEW w \in Val
                 PROVE  n.value[w].refcnt = Cardinality(Pointers(n, w)) + Cardinality(Records(H, w))
      BY DEF ValuesCounted
    <3>1. r.value[w].refcnt = Cardinality(Pointers(r, w)) + Cardinality(Records(H, w))
      BY <1>1 DEF ValuesCounted
    <3>2. w # NoVal
      BY StoreAssumption
    <3>3. CASE w # v
      <4>1. Pointers(n, w) = Pointers(r, w)
        <5>1. ASSUME NEW c \in Block \X Ofs PROVE At(n, c[1], c[2]).value = w <=> At(r, c[1], c[2]).value = w
          BY <3>2, <3>3, <2>10
        <5> QED
          BY <5>1 DEF Pointers
      <4> QED
        BY <4>1, <3>1, <3>3, <2>7, <1>5
    <3>4. CASE w = v
      <4>1. Pointers(n, v) = Pointers(r, v) \cup {<<B, i>>} /\ <<B, i>> \notin Pointers(r, v)
        <5>1. ASSUME NEW c \in Block \X Ofs
              PROVE  At(n, c[1], c[2]).value = v <=> At(r, c[1], c[2]).value = v \/ c = <<B, i>>
          BY <2>10
        <5>2. <<B, i>> \in Block \X Ofs
          BY <1>1
        <5> QED
          BY <5>1, <5>2, <2>10, <1>8 DEF Pointers
      <4>2. IsFiniteSet(Pointers(r, v)) /\ Cardinality(Pointers(r, v)) \in Nat /\ Cardinality(Records(H, v)) \in Nat
        BY <1>1, Sizes
      <4>3. Cardinality(Pointers(n, v)) = Cardinality(Pointers(r, v)) + 1
        BY <4>1, <4>2, FS_AddElement
      <4>4. n.value[v].refcnt = r.value[v].refcnt + 1
        BY <2>1, <2>5, <2>7
      <4> QED
        BY <4>2, <4>3, <4>4, <3>1, <3>4
    <3> QED
      BY <3>3, <3>4
  <2>13. Good(n, H)
    BY <2>7, <2>9, <2>11, <2>12, <1>1 DEF Good
  <2>14. Counters(r, s, B, 1)
    BY <1>8 DEF One, B
  <2>15. ASSUME NEW b \in Block PROVE n.block[b].num_ent = Cardinality(Filled(n, b)) + Ahead(b, B, 0)
    <3>1. IsFiniteSet(Filled(r, b)) /\ Cardinality(Filled(r, b)) \in Nat
      BY <1>1, Sizes
    <3>2. r.block[b].num_ent = Cardinality(Filled(r, b)) + Ahead(b, B, 1)
      BY <2>14 DEF Counters
    <3>3. CASE b = B
      <4>1. Filled(n, B) = Filled(r, B) \cup {i} /\ i \notin Filled(r, B)
        BY <2>10, <1>1, <1>8 DEF Filled
      <4>2. Cardinality(Filled(n, B)) = Cardinality(Filled(r, B)) + 1
        BY <3>1, <3>3, <4>1, FS_AddElement
      <4> QED
        BY <3>1, <3>2, <3>3, <4>2, <2>9 DEF Ahead
    <3>4. CASE b # B
      <4>1. Filled(n, b) = Filled(r, b)
        BY <3>4, <2>10 DEF Filled
      <4> QED
        BY <3>2, <3>4, <4>1, <2>9 DEF Ahead
    <3> QED
      BY <3>3, <3>4
  <2>16. ASSUME NEW t \in Store, On(n, t) PROVE n.store[t].num_ent = Cardinality(Living(n, t)) + Ahead(t, s, 0)
    <3>1. n.store[t] = r.store[t] /\ On(r, t)
      BY <2>7, <2>16, <1>5 DEF On
    <3>2. r.store[t].num_ent = Cardinality(Living(r, t)) + Ahead(t, s, 1)
      BY <3>1, <2>14 DEF Counters
    <3>3. CASE t = s
      <4>1. Living(n, s) = Living(r, s) \cup {a} /\ a \notin Living(r, s)
        <5>1. ASSUME NEW c \in Addr, c # a PROVE Alive(n, s, c) <=> Alive(r, s, c)
          <6>1. CASE ~ Has(r, s, c)
            BY <6>1, <2>9 DEF Alive
          <6>2. CASE Has(r, s, c)
            <7>1. /\ BlockOf(r, s, c) \in Block /\ c % NSlots \in Ofs
                  /\ SlotOf(r, s, c) = At(r, BlockOf(r, s, c), c % NSlots)
              BY <6>2, <1>1, HasFields
            <7>2. SlotOf(n, s, c) = At(n, BlockOf(r, s, c), c % NSlots)
              BY <2>9 DEF SlotOf, At
            <7>3. ~ (BlockOf(r, s, c) = B /\ c % NSlots = i)
              BY <5>1, <6>2, <1>1, SamePlace DEF B, i
            <7>4. SlotOf(n, s, c).value = SlotOf(r, s, c).value
              BY <7>1, <7>2, <7>3, <2>10
            <7> QED
              BY <7>4, <6>2, <2>9 DEF Alive
          <6> QED
            BY <6>1, <6>2
        <5>2. Alive(n, s, a) /\ ~ Alive(r, s, a)
          BY <2>9, <1>8 DEF Alive
        <5> QED
          BY <5>1, <5>2, <1>1 DEF Living
      <4>2. IsFiniteSet(Living(r, s)) /\ Cardinality(Living(r, s)) \in Nat
        BY <1>1, Sizes
      <4>3. Cardinality(Living(n, s)) = Cardinality(Living(r, s)) + 1
        BY <4>1, <4>2, FS_AddElement
      <4> QED
        BY <3>1, <3>2, <3>3, <4>2, <4>3 DEF Ahead
    <3>4. CASE t # s
      <4>1. Living(n, t) = Living(r, t)
        BY <3>1, <3>4, <2>9, SameLiving
      <4> QED
        BY <3>1, <3>2, <3>4, <4>1 DEF Ahead
    <3> QED
      BY <3>3, <3>4
  <2>17. Exact(n)
    <3>1. Counters(n, s, B, 0)
      BY <2>15, <2>16 DEF Counters
    <3> QED
      BY <3>1, ExactIs
  <2>18. ASSUME Tidy(r) PROVE Open(n, s, a)
    <3>1. Idle(n, {v})
      <4>1. x.write_count = 1
        BY <2>2, <2>4 DEF Value
      <4>2. \A w \in Val : n.value[w] = IF w = v THEN x ELSE r.value[w]
        BY <2>7, <1>5
      <4> QED
        BY <4>1, <4>2, <2>18 DEF Tidy, Idle
    <3>2. Books(r, s, a)
      BY <2>18, <1>1, BooksEmpty DEF Alive
    <3>3. Elsewhere(r, n, s, a)
      <4>1. Place(r, s, {a}) = {<<B, i>>}
        BY DEF Place, B, i
      <4>2. \A b \in Block, o \in Ofs : <<b, o>> \notin Place(r, s, {a}) => At(n, b, o) = At(r, b, o)
        BY <4>1, <2>9
      <4>3. \A b \in Block, o \in Ofs : At(r, b, o).value # NoVal => At(r, b, o).value \in Val
        BY <1>1, BlockFields
      <4> QED
        BY <4>2, <4>3, <2>8, <2>9 DEF Elsewhere
    <3>4. n.store[s].hash = r.store[s].hash /\ \A b \in Block : n.block[b].num_reloc = r.block[b].num_reloc
      BY <2>7, <1>5
    <3>5. Books(n, s, a)
      BY <3>2, <3>3, <3>4, <2>7, <2>9, <1>1, BooksKept
    <3> QED
      BY <3>1, <3>5, <2>9 DEF Open
  <2> QED
    BY <2>9, <2>13, <2>17, <2>18, <1>8 DEF Step, Opens
<1> QED
  BY <1>7, <1>8

(* cesk_store_attach *)
LEMMA AttachedStep ==
  ASSUME NEW m, NEW H, Good(m, H), Exact(m), NEW s \in Store, On(m, s), NEW a, Has(m, s, a),
         NEW v \in Val \cup {NoVal}, v # NoVal => SlotOf(m, s, a).param # NoParam,
         NEW n, n = Attached(m, s, a, v)
  PROVE  /\ Step(m, n, s, H) /\ SlotOf(n, s, a).value = v /\ Mine(n, s, BlockOf(n, s, a))
         /\ IF v = NoVal THEN Keeps(m, n) ELSE Opens(m, n, s, a)
<1>1. m \in Memory
  BY DEF Good
<1>2. BlockNo(a) \in DOMAIN Tab(m, s)
  BY <1>1, HasFields
<1>3. PICK p, old : p = Private(m, s, {BlockNo(a)}) /\ old = SlotOf(m, s, a).value
  OBVIOUS
<1>4. PICK e : e = Entities(v, old)
  OBVIOUS
<1>5. PICK r : r = Detached(p, s, a, e)
  OBVIOUS
<1>6. n = SlotGets(r, s, a, v, old)
  BY <1>3, <1>4, <1>5 DEF Attached
<1>7. {BlockNo(a)} \in SUBSET DOMAIN Tab(m, s) /\ BlockNo(a) \in {BlockNo(a)}
  BY <1>2
<1>8. Calm(m, p, s, H) /\ Plain(m, p, s) /\ Mine(p, s, Tab(p, s)[BlockNo(a)])
  BY <1>3, <1>7, PrivateCalm
<1>9. /\ Step(m, p, s, H) /\ SlotOf(p, s, a).value = old /\ SlotOf(p, s, a).param = SlotOf(m, s, a).param
      /\ Has(p, s, a)
  <2>1. Step(m, p, s, H)
    BY <1>8, CalmStep
  <2> QED
    BY <2>1, <1>3, <1>8 DEF Calm
<1>10. Good(p, H) /\ Exact(p) /\ On(p, s) /\ Mine(p, s, BlockOf(p, s, a))
  BY <1>8, <1>9 DEF Step, BlockOf, Tab
<1>11. e \in Int /\ e + One(old) = One(v)
  BY <1>4 DEF Entities, One
<1>12. /\ Good(r, H) /\ On(r, s) /\ Same(p, r, s) /\ Len(Tab(r, s)) = Len(Tab(p, s))
       /\ \A c : Has(r, s, c) <=> Has(p, s, c)
       /\ BlockOf(r, s, a) = BlockOf(p, s, a) /\ Mine(r, s, BlockOf(p, s, a))
       /\ SlotOf(r, s, a).value = NoVal /\ SlotOf(r, s, a).param = SlotOf(p, s, a).param
       /\ Counters(r, s, BlockOf(p, s, a), e + One(SlotOf(p, s, a).value))
       /\ Keeps(p, r)
  BY <1>5, <1>9, <1>10, <1>11, DetachedIs
<1>13. Counters(r, s, BlockOf(r, s, a), One(v))
  BY <1>9, <1>11, <1>12
<1>14. /\ Step(r, n, s, H) /\ SlotOf(n, s, a).value = v /\ Mine(n, s, BlockOf(n, s, a))
       /\ IF v = NoVal THEN Keeps(r, n) ELSE Opens(r, n, s, a)
  <2>1. Has(r, s, a) /\ Mine(r, s, BlockOf(r, s, a)) /\ (v # NoVal => SlotOf(r, s, a).param # NoParam)
    BY <1>9, <1>12
  <2> QED
    BY <2>1, <1>6, <1>12, <1>13, SlotGetsIs
<1>15. Step(m, n, s, H)
  <2>1. Same(m, n, s)
    BY <1>9, <1>12, <1>14, SameTrans DEF Step
  <2> QED
    BY <2>1, <1>9, <1>12, <1>14 DEF Step
<1>16. Keeps(m, p)
  <2>1. p \in Memory /\ Same(m, p, s)
    BY <1>8 DEF Calm, Good
  <2> QED
    BY <2>1, <1>1, <1>8, PlainKeeps
<1>17. IF v = NoVal THEN Keeps(m, n) ELSE Opens(m, n, s, a)
  BY <1>12, <1>14, <1>16 DEF Keeps, Opens
<1> QED
  BY <1>14, <1>15, <1>17

(***************************************************************************)
(* Writable pointers.                                                      *)
(***************************************************************************)
(* One slot, value, relocation counter or hash code is written, the value  *)
(* and the counters stay.                                                  *)
LEMMA SlotCalm ==
  ASSUME NEW m, NEW H, Good(m, H), NEW s \in Store, On(m, s), NEW a, Has(m, s, a),
         Mine(m, s, BlockOf(m, s, a)), NEW l \in Slot,
         l.value = SlotOf(m, s, a).value, l.param = SlotOf(m, s, a).param, NEW n, n = WithSlot(m, s, a, l)
  PROVE  Calm(m, n, s, H)
<1>1. m \in Memory
  BY DEF Good
<1>2. PICK B, i : B = BlockOf(m, s, a) /\ i = a % NSlots
  OBVIOUS
<1>3. B \in Block /\ i \in Ofs /\ SlotOf(m, s, a) = At(m, B, i)
  BY <1>1, <1>2, HasFields
<1>4. /\ n \in Memory /\ n.store = m.store /\ n.value = m.value
      /\ \A b \in Block : /\ n.block[b].refcnt = m.block[b].refcnt
                          /\ n.block[b].num_ent = m.block[b].num_ent
                          /\ b # B => n.block[b] = m.block[b]
      /\ \A b \in Block, o \in Ofs : At(n, b, o) = IF b = B /\ o = i THEN l ELSE At(m, b, o)
  BY <1>1, <1>2, WithSlotIs
<1>5. Writes(m, n, s)
  <2>1. On(n, s) /\ Tab(n, s) = Tab(m, s)
    BY <1>4 DEF On, Tab
  <2>2. \A b \in Block : ~ Mine(m, s, b) => b # B
    BY <1>2
  <2> QED
    BY <2>1, <2>2, <1>4 DEF Writes
<1>6. Quiet(m, n, s)
  <2>1. \A b \in Block, o \in Ofs : At(n, b, o).value = At(m, b, o).value /\ At(n, b, o).param = At(m, b, o).param
    BY <1>3, <1>4
  <2> QED
    BY <2>1, <1>4 DEF Quiet
<1> QED
  BY <1>5, <1>6, QuietCalm

LEMMA ValueCalm ==
  ASSUME NEW m, NEW H, Good(m, H), NEW s \in Store, On(m, s), NEW v \in Val, NEW x \in Value,
         x.refcnt = m.value[v].refcnt,
         x.content = m.value[v].content \/ (\E a : Sole(m, s, a, v)) \/ Pointers(m, v) = {},
         NEW n, n = WithValue(m, v, x)
  PROVE  Calm(m, n, s, H)
<1>1. m \in Memory
  BY DEF Good
<1>2. /\ n \in Memory /\ n.store = m.store /\ n.block = m.block
      /\ \A u \in Val : n.value[u] = IF u = v THEN x ELSE m.value[u]
  BY <1>1, ValueChanged
<1>3. Writes(m, n, s)
  <2>1. On(n, s) /\ Tab(n, s) = Tab(m, s)
    BY <1>2 DEF On, Tab
  <2>2. ASSUME NEW u \in Val, NEW c \in Pointers(m, u), ~ Mine(m, s, c[1])
        PROVE  n.value[u].content = m.value[u].content
    <3>1. CASE u # v
      BY <3>1, <1>2
    <3>2. CASE u = v /\ x.content = m.value[v].content
      BY <3>2, <1>2
    <3>3. CASE u = v /\ \E a : Sole(m, s, a, v)
      <4>1. PICK a : Sole(m, s, a, v)
        BY <3>3
      <4>2. c = <<BlockOf(m, s, a), a % NSlots>> /\ Mine(m, s, BlockOf(m, s, a))
        BY <3>3, <4>1 DEF Sole
      <4> QED
        BY <4>2, <2>2
    <3>4. CASE u = v /\ Pointers(m, v) = {}
      BY <3>4
    <3> QED
      BY <3>1, <3>2, <3>3, <3>4
  <2> QED
    BY <2>1, <2>2, <1>2 DEF Writes
<1>4. Quiet(m, n, s)
  BY <1>2 DEF Quiet, At
<1> QED
  BY <1>3, <1>4, QuietCalm

WithReloc(m, b, x) == [m EXCEPT !.block[b].num_reloc = x]
LEMMA RelocCalm ==
  ASSUME NEW m, NEW H, Good(m, H), NEW s \in Store, On(m, s), NEW b \in Block, NEW x \in Int,
         NEW n, n = WithReloc(m, b, x)
  PROVE  /\ Calm(m, n, s, H) /\ n.store = m.store /\ n.value = m.value
         /\ \A c \in Block : /\ n.block[c].slots = m.block[c].slots
                             /\ n.block[c].num_reloc = IF c = b THEN x ELSE m.block[c].num_reloc
<1>1. m \in Memory /\ m.block[b] \in StoreCell
  BY BlockFields DEF Good
<1>2. PICK y : y = [m.block[b] EXCEPT !.num_reloc = x]
  OBVIOUS
<1>3. /\ y \in StoreCell /\ y.refcnt = m.block[b].refcnt /\ y.num_ent = m.block[b].num_ent
      /\ y.slots = m.block[b].slots /\ y.num_reloc = x
  BY <1>1, <1>2 DEF StoreCell
<1>4. PICK F : F = [m.block EXCEPT ![b] = y]
  OBVIOUS
<1>5. F \in [Block -> StoreCell] /\ \A c \in Block : F[c] = IF c = b THEN y ELSE m.block[c]
  BY <1>1, <1>3, <1>4 DEF Memory
<1>6. n = [m EXCEPT !.block = F]
  BY <1>1, <1>2, <1>4 DEF WithReloc, Memory
<1>7. n \in Memory /\ n.store = m.store /\ n.value = m.value /\ n.block = F
  BY <1>1, <1>5, <1>6, BlocksChanged
<1>8. \A c \in Block : /\ n.block[c].refcnt = m.block[c].refcnt /\ n.block[c].num_ent = m.block[c].num_ent
                       /\ n.block[c].slots = m.block[c].slots
                       /\ n.block[c].num_reloc = IF c = b THEN x ELSE m.block[c].num_reloc
  BY <1>3, <1>5, <1>7
<1>9. On(n, s) /\ Tab(n, s) = Tab(m, s)
  BY <1>7 DEF On, Tab
<1>10. Writes(m, n, s) /\ Quiet(m, n, s)
  BY <1>7, <1>8, <1>9 DEF Writes, Quiet, At
<1> QED
  BY <1>7, <1>8, <1>10, QuietCalm

LEMMA RehashCalm ==
  ASSUME NEW m, NEW H, Good(m, H), NEW s \in Store, On(m, s), NEW E \in SUBSET Entry, NEW n, n = Rehash(m, s, E)
  PROVE  /\ Calm(m, n, s, H) /\ n.value = m.value /\ n.block = m.block /\ Tab(n, s) = Tab(m, s)
         /\ n.store[s].hash = Xor(m.store[s].hash, E)
<1>1. m \in Memory
  BY DEF Good
<1>2. /\ n \in Memory /\ n.value = m.value /\ n.block = m.block /\ On(n, s)
      /\ Tab(n, s) = Tab(m, s) /\ n.store[s].num_ent = m.store[s].num_ent
      /\ n.store[s].hash = Xor(m.store[s].hash, E)
      /\ \A t \in Store \ {s} : n.store[t] = m.store[t]
  BY <1>1, RehashIs
<1>3. Writes(m, n, s) /\ Quiet(m, n, s)
  BY <1>2 DEF Writes, Quiet, At
<1> QED
  BY <1>2, <1>3, QuietCalm

LEMMA OpenedCalm ==
  ASSUME NEW q, NEW H, Good(q, H), NEW s \in Store, On(q, s), NEW a, Alive(q, s, a)
  PROVE  /\ Calm(q, Opened(q, s, a), s, H)
         /\ \A u \in Val : Opened(q, s, a).value[u].refcnt = q.value[u].refcnt
         /\ Opens(q, Opened(q, s, a), s, a)
<1>1. q \in Memory /\ Has(q, s, a) /\ Tables(q)
  BY DEF Good, Alive
<1>2. PICK B, v, E : B = BlockOf(q, s, a) /\ v = SlotOf(q, s, a).value /\ E = {EntryOf(q, s, a)}
  OBVIOUS
<1>3. B \in Block /\ SlotOf(q, s, a) \in Slot
  BY <1>1, <1>2, HasFields
<1>4. v \in Val
  BY <1>2, <1>3 DEF Alive, Slot
<1>5. E \in SUBSET Entry
  BY <1>1, <1>2, EntryType
<1>6. PICK r : r = Rehash(q, s, E)
  OBVIOUS
<1>7. /\ Calm(q, r, s, H) /\ r.value = q.value /\ r.block = q.block
      /\ Tab(r, s) = Tab(q, s) /\ r.store[s].hash = Xor(q.store[s].hash, E)
  BY <1>5, <1>6, RehashCalm
<1>8. Good(r, H) /\ On(r, s) /\ r \in Memory
  BY <1>7 DEF Calm, Good
<1>9. PICK x : x = r.block[B].num_reloc - Taken(Content(q, s, a))
  OBVIOUS
<1>10. x \in Int
  <2>1. r.block[B].num_reloc \in Int
    BY <1>3, <1>8, BlockFields
  <2>2. Taken(Content(q, s, a)) \in Int
    BY DEF Taken
  <2> QED
    BY <2>1, <2>2, <1>9
<1>11. PICK g : g = WithReloc(r, B, x)
  OBVIOUS
<1>12. /\ Calm(r, g, s, H) /\ g.store = r.store /\ g.value = r.value
       /\ \A b \in Block : /\ g.block[b].slots = r.block[b].slots
                           /\ g.block[b].num_reloc = IF b = B THEN x ELSE r.block[b].num_reloc
  BY <1>3, <1>8, <1>10, <1>11, RelocCalm
<1>13. Good(g, H) /\ On(g, s) /\ g \in Memory
  BY <1>12 DEF Calm, Good
<1>14. g.value[v] \in Value /\ g.value[v].write_count \in 0 .. 15 /\ g.value = q.value
  BY <1>4, <1>7, <1>12, <1>13, ValueFields
<1>15. PICK w : w = (g.value[v].write_count + 1) % 16
  OBVIOUS
<1>16. w \in 0 .. 15
  BY <1>14, <1>15
<1>17. PICK y : y = [g.value[v] EXCEPT !.write_count = w]
  OBVIOUS
<1>18. y \in Value /\ y.refcnt = g.value[v].refcnt /\ y.content = g.value[v].content
  BY <1>14, <1>16, <1>17 DEF Value
<1>19. Opened(q, s, a) = WithValue(g, v, y)
  <2>1. Opened(q, s, a) = [r EXCEPT !.block[B].num_reloc = @ - Taken(Content(q, s, a)),
                                    !.value[v].write_count = (@ + 1) % 16]
    BY <1>2, <1>6 DEF Opened
  <2>2. [r EXCEPT !.block[B].num_reloc = @ - Taken(Content(q, s, a)), !.value[v].write_count = (@ + 1) % 16]
          = [g EXCEPT !.value[v].write_count = (@ + 1) % 16]
    BY <1>8, <1>9, <1>11, <1>3 DEF WithReloc, Memory, StoreCell
  <2>3. [g EXCEPT !.value[v].write_count = (@ + 1) % 16] = WithValue(g, v, y)
    BY <1>4, <1>13, <1>14, <1>15, <1>17 DEF WithValue, Memory, Value
  <2> QED
    BY <2>1, <2>2, <2>3
<1>20. Calm(g, Opened(q, s, a), s, H)
  BY <1>4, <1>13, <1>18, <1>19, ValueCalm
<1>21. \A u \in Val : Opened(q, s, a).value[u].refcnt = q.value[u].refcnt
  BY <1>4, <1>13, <1>14, <1>18, <1>19, ValueChanged, SMTT(30)
<1>22. Calm(q, Opened(q, s, a), s, H)
  BY <1>7, <1>12, <1>20, CalmTrans
<1>23. PICK n : n = Opened(q, s, a)
  OBVIOUS
<1>24. /\ n \in Memory /\ n.store = g.store /\ n.block = g.block
       /\ \A u \in Val : n.value[u] = IF u = v THEN y ELSE g.value[u]
  BY <1>4, <1>13, <1>18, <1>19, <1>23, ValueChanged
<1>25. ASSUME Tidy(q) PROVE Open(n, s, a)
  <2>1. On(n, s) /\ Same(q, n, s) /\ SlotOf(n, s, a).value = v
    BY <1>1, <1>2, <1>22, <1>23 DEF Calm
  <2>2. Idle(n, {v})
    <3>1. \A u \in Val : q.value[u].write_count = 0
      BY <1>25 DEF Tidy, Idle
    <3>2. w = 1 /\ y.write_count = w
      BY <3>1, <1>4, <1>14, <1>15, <1>16, <1>17 DEF Value
    <3> QED
      BY <3>1, <3>2, <1>14, <1>24 DEF Idle
  <2>3. Elsewhere(q, n, s, a)
    <3>1. Tab(n, s) = Tab(q, s)
      BY <1>7, <1>12, <1>24 DEF Tab
    <3>2. \A b \in Block, o \in Ofs : At(n, b, o) = At(q, b, o)
      BY <1>7, <1>12, <1>24 DEF At
    <3>3. \A u \in Val : n.value[u].content = q.value[u].content
      BY <1>4, <1>14, <1>18, <1>24
    <3>4. \A b \in Block, o \in Ofs : At(q, b, o).value # NoVal => At(q, b, o).value \in Val
      BY <1>1, BlockFields
    <3> QED
      BY <3>1, <3>2, <3>3, <3>4 DEF Elsewhere
  <2>4. n.store[s].hash = Xor(q.store[s].hash, {EntryOf(q, s, a)})
    BY <1>2, <1>7, <1>12, <1>24
  <2>5. ASSUME NEW b \in Block
        PROVE  n.block[b].num_reloc = q.block[b].num_reloc - Ahead(b, BlockOf(q, s, a), Taken(Content(q, s, a)))
    <3>1. n.block[b].num_reloc = IF b = B THEN x ELSE q.block[b].num_reloc
      BY <1>7, <1>12, <1>24
    <3>2. q.block[b].num_reloc \in Int
      BY <1>1, BlockFields
    <3>3. x = q.block[B].num_reloc - Taken(Content(q, s, a))
      BY <1>7, <1>9
    <3> QED
      BY <3>1, <3>2, <3>3, <1>2 DEF Ahead
  <2>6. Books(n, s, a)
    BY <2>1, <2>3, <2>4, <2>5, <1>1, <1>24, <1>25, BooksOpened
  <2> QED
    BY <2>1, <2>2, <2>6 DEF Open
<1> QED
  BY <1>21, <1>22, <1>23, <1>25 DEF Opens

LEMMA ClosedCalm ==
  ASSUME NEW p, NEW H, Good(p, H), NEW s \in Store, On(p, s), NEW a, Alive(p, s, a)
  PROVE  Calm(p, Closed(p, s, a), s, H) /\ Shuts(p, Closed(p, s, a), s, a)
<1>1. p \in Memory /\ Has(p, s, a) /\ Tables(p)
  BY DEF Good, Alive
<1>2. PICK v : v = SlotOf(p, s, a).value
  OBVIOUS
<1>3. BlockOf(p, s, a) \in Block /\ SlotOf(p, s, a) \in Slot
  BY <1>1, HasFields
<1>4. v \in Val
  BY <1>2, <1>3 DEF Alive, Slot
<1>5. PICK q : q = [p EXCEPT !.value[v].write_count = @ - 1]
  OBVIOUS
<1>6. p.value[v] \in Value /\ p.value[v].write_count \in 0 .. 15
  BY <1>1, <1>4, ValueFields
<1>7. Calm(p, p, s, H)
  <2>1. Writes(p, p, s) /\ Quiet(p, p, s)
    BY <1>1 DEF Writes, Quiet
  <2> QED
    BY <2>1, QuietCalm
<1>8. Closed(p, s, a) =
         IF p.value[v].write_count = 0 THEN p
         ELSE IF p.value[v].write_count > 1 THEN q
         ELSE [Rehash(q, s, {EntryOf(q, s, a)}) EXCEPT
                 !.block[BlockOf(q, s, a)].num_reloc = @ + PutBack(Content(q, s, a))]
  BY <1>2, <1>5, Zenon DEF Closed
<1>11. Open(p, s, a) => p.value[v].write_count = 1
  BY <1>2, <1>4 DEF Open, Idle
<1>9. CASE p.value[v].write_count = 0
  BY <1>7, <1>9, <1>8, <1>11 DEF Shuts
<1>10. CASE p.value[v].write_count # 0
  <2>1. PICK w : w = p.value[v].write_count - 1
    OBVIOUS
  <2>2. w \in 0 .. 15
    BY <2>1, <1>6, <1>10
  <2>3. PICK y : y = [p.value[v] EXCEPT !.write_count = w]
    OBVIOUS
  <2>4. y \in Value /\ y.refcnt = p.value[v].refcnt /\ y.content = p.value[v].content
    BY <2>2, <2>3, <1>6 DEF Value
  <2>5. q = WithValue(p, v, y)
    BY <2>1, <2>3, <1>1, <1>4, <1>5, <1>6 DEF WithValue, Memory, Value
  <2>6. Calm(p, q, s, H)
    BY <2>4, <2>5, <1>4, ValueCalm
  <2>7. CASE p.value[v].write_count > 1
    <3>1. Closed(p, s, a) = q
      BY <2>7, <1>10, <1>8
    <3>2. ~ Open(p, s, a)
      BY <2>7, <1>11
    <3> QED
      BY <3>1, <3>2, <2>6 DEF Shuts
  <2>8. CASE ~ p.value[v].write_count > 1
    <3>1. Good(q, H) /\ On(q, s) /\ q \in Memory /\ Alive(q, s, a) /\ Has(q, s, a)
      BY <2>6, <1>1 DEF Calm, Good, Alive
    <3>2. PICK B, E : B = BlockOf(q, s, a) /\ E = {EntryOf(q, s, a)}
      OBVIOUS
    <3>3. E \in SUBSET Entry /\ B \in Block
      BY <3>1, <3>2, EntryType, HasFields
    <3>4. PICK r : r = Rehash(q, s, E)
      OBVIOUS
    <3>5. /\ Calm(q, r, s, H) /\ r.value = q.value /\ r.block = q.block
          /\ Tab(r, s) = Tab(q, s) /\ r.store[s].hash = Xor(q.store[s].hash, E)
      BY <3>1, <3>3, <3>4, RehashCalm
    <3>6. Good(r, H) /\ On(r, s) /\ r \in Memory
      BY <3>5 DEF Calm, Good
    <3>7. PICK x : x = r.block[B].num_reloc + PutBack(Content(q, s, a))
      OBVIOUS
    <3>8. x \in Int
      <4>1. r.block[B].num_reloc \in Int
        BY <3>3, <3>6, BlockFields
      <4>2. PutBack(Content(q, s, a)) \in Int
        BY DEF PutBack
      <4> QED
        BY <4>1, <4>2, <3>7
    <3>9. Closed(p, s, a) = WithReloc(r, B, x)
      <4>1. Closed(p, s, a) = [r EXCEPT !.block[B].num_reloc = @ + PutBack(Content(q, s, a))]
        BY <2>8, <3>2, <3>4, <1>10, <1>8
      <4>2. [r EXCEPT !.block[B].num_reloc = @ + PutBack(Content(q, s, a))] = WithReloc(r, B, x)
        BY <3>3, <3>6, <3>7 DEF WithReloc, Memory, StoreCell
      <4> QED
        BY <4>1, <4>2
    <3>11. PICK n : n = Closed(p, s, a)
      OBVIOUS
    <3>10. /\ Calm(r, n, s, H) /\ n.store = r.store /\ n.value = r.value
           /\ \A b \in Block : /\ n.block[b].slots = r.block[b].slots
                               /\ n.block[b].num_reloc = IF b = B THEN x ELSE r.block[b].num_reloc
      BY <3>3, <3>6, <3>8, <3>9, <3>11, RelocCalm
    <3>12. Calm(p, n, s, H)
      BY <2>6, <3>5, <3>10, CalmTrans
    <3>13. /\ q.store = p.store /\ q.block = p.block
           /\ \A u \in Val : q.value[u] = IF u = v THEN y ELSE p.value[u]
      BY <2>4, <2>5, <1>1, <1>4, ValueChanged
    <3>14. ASSUME Open(p, s, a) PROVE Tidy(n)
      <4>1. /\ n \in Memory /\ On(n, s) /\ Same(p, n, s) /\ SlotOf(n, s, a).value = v
            /\ Alive(n, s, a)
        BY <3>12, <1>1, <1>2 DEF Calm, Good, Alive
      <4>2. \A u \in Val : n.value[u] = IF u = v THEN y ELSE p.value[u]
        BY <3>5, <3>10, <3>13
      <4>3. Idle(n, {})
        <5>1. y.write_count = 0
          BY <3>14, <2>1, <2>2, <2>3, <1>6, <1>11 DEF Value
        <5>2. \A u \in Val : u # v => p.value[u].write_count = 0
          BY <3>14, <1>2 DEF Open, Idle
        <5> QED
          BY <5>1, <5>2, <4>2 DEF Idle
      <4>4. \A b \in Block, o \in Ofs : At(n, b, o) = At(p, b, o)
        BY <3>5, <3>10, <3>13 DEF At
      <4>5. \A u \in Val : n.value[u].content = p.value[u].content
        BY <2>4, <4>2
      <4>6. Elsewhere(p, n, s, a)
        <5>1. Tab(n, s) = Tab(p, s)
          BY <3>5, <3>10, <3>13 DEF Tab
        <5>2. \A b \in Block, o \in Ofs : At(p, b, o).value # NoVal => At(p, b, o).value \in Val
          BY <1>1, BlockFields
        <5> QED
          BY <5>1, <5>2, <4>4, <4>5 DEF Elsewhere
      <4>7. /\ EntryOf(n, s, a) = EntryOf(q, s, a) /\ Content(n, s, a) = Content(q, s, a)
            /\ BlockOf(n, s, a) = B
        <5>1. BlockOf(n, s, a) = B /\ SlotOf(n, s, a) = SlotOf(q, s, a)
          <6>1. Tab(n, s) = Tab(q, s)
            BY <3>5, <3>10 DEF Tab
          <6>2. BlockOf(n, s, a) = B
            BY <6>1, <3>2 DEF BlockOf, Tab
          <6>3. n.block[B].slots = q.block[B].slots
            BY <3>3, <3>5, <3>10
          <6> QED
            BY <6>2, <6>3, <3>2 DEF SlotOf
        <5>2. n.value = q.value
          BY <3>5, <3>10
        <5> QED
          BY <5>1, <5>2 DEF EntryOf, Content
      <4>8. n.store[s].hash = Xor(p.store[s].hash, {EntryOf(n, s, a)})
        BY <4>7, <3>2, <3>5, <3>10, <3>13
      <4>9. ASSUME NEW b \in Block
            PROVE  n.block[b].num_reloc = p.block[b].num_reloc + Ahead(b, BlockOf(n, s, a), PutBack(Content(n, s, a)))
        <5>1. n.block[b].num_reloc = IF b = B THEN x ELSE p.block[b].num_reloc
          BY <3>5, <3>10, <3>13
        <5>2. p.block[b].num_reloc \in Int
          BY <1>1, BlockFields
        <5>3. x = p.block[B].num_reloc + PutBack(Content(n, s, a))
          BY <3>5, <3>7, <3>13, <4>7
        <5> QED
          BY <5>1, <5>2, <5>3, <4>7 DEF Ahead
      <4>10. Books(p, s, a)
        BY <3>14 DEF Open
      <4> QED
        BY <4>1, <4>3, <4>6, <4>8, <4>9, <4>10, <1>1, BooksClosed
    <3> QED
      BY <3>11, <3>12, <3>14 DEF Shuts
  <2> QED
    BY <2>7, <2>8
<1> QED
  BY <1>9, <1>10

(* cesk_store_release_rw *)
LEMMA ReleaseCalm ==
  ASSUME NEW m, NEW H, Good(m, H), NEW s \in Store, On(m, s), NEW a, Alive(m, s, a)
  PROVE  /\ Calm(m, ReleaseRw(m, s, a), s, H)
         /\ Mine(m, s, BlockOf(m, s, a)) => Shuts(m, ReleaseRw(m, s, a), s, a)
<1>1. m \in Memory /\ Has(m, s, a)
  BY DEF Good, Alive
<1>2. {BlockNo(a)} \in SUBSET DOMAIN Tab(m, s)
  BY <1>1, HasFields
<1>3. PICK p : p = Private(m, s, {BlockNo(a)})
  OBVIOUS
<1>4. Calm(m, p, s, H) /\ Plain(m, p, s)
  BY <1>2, <1>3, PrivateCalm
<1>5. Good(p, H) /\ On(p, s) /\ Alive(p, s, a)
  BY <1>4 DEF Calm, Alive
<1>6. Calm(p, Closed(p, s, a), s, H) /\ Shuts(p, Closed(p, s, a), s, a)
  BY <1>5, ClosedCalm
<1>7. ASSUME Mine(m, s, BlockOf(m, s, a)) PROVE Shuts(m, Closed(p, s, a), s, a)
  <2>1. Open(m, s, a) => Open(p, s, a)
    BY <1>1, <1>4, <1>7, OpenCalm
  <2> QED
    BY <2>1, <1>6 DEF Shuts
<1> QED
  BY <1>3, <1>4, <1>6, <1>7, CalmTrans DEF ReleaseRw

(* cesk_store_set_reuse, cesk_store_clear_reuse *)
LEMMA ReuseCalm ==
  ASSUME NEW m, NEW H, Good(m, H), NEW s \in Store, On(m, s), NEW a, Alive(m, s, a), NEW bit \in BOOLEAN
  PROVE  /\ Calm(m, WithReuse(m, s, a, bit), s, H) /\ Keeps(m, WithReuse(m, s, a, bit))
         /\ bit /\ Mine(m, s, BlockOf(m, s, a)) => Stays(m, WithReuse(m, s, a, bit), s, a)
<1>1. m \in Memory /\ Has(m, s, a)
  BY DEF Good, Alive
<1>2. {BlockNo(a)} \in SUBSET DOMAIN Tab(m, s) /\ BlockNo(a) \in {BlockNo(a)}
  BY <1>1, HasFields
<1>3. PICK p : p = Private(m, s, {BlockNo(a)})
  OBVIOUS
<1>4. Calm(m, p, s, H) /\ Plain(m, p, s) /\ Mine(p, s, Tab(p, s)[BlockNo(a)])
  BY <1>2, <1>3, PrivateCalm
<1>5. /\ Good(p, H) /\ On(p, s) /\ Alive(p, s, a) /\ Has(p, s, a) /\ p \in Memory /\ Tables(p)
      /\ Mine(p, s, BlockOf(p, s, a))
  BY <1>4 DEF Calm, Alive, Good, BlockOf, Tab
<1>6. SlotOf(p, s, a) \in Slot
  BY <1>5, HasFields
<1>7. PICK l : l = [SlotOf(p, s, a) EXCEPT !.reuse = bit]
  OBVIOUS
<1>8. l \in Slot /\ l.value = SlotOf(p, s, a).value /\ l.param = SlotOf(p, s, a).param
  BY <1>6, <1>7 DEF Slot
<1>9. PICK q : q = WithSlot(p, s, a, l)
  OBVIOUS
<1>10. Calm(p, q, s, H)
  BY <1>5, <1>8, <1>9, SlotCalm
<1>11. Calm(m, q, s, H)
  BY <1>4, <1>10, CalmTrans
<1>12. Good(q, H) /\ On(q, s) /\ Alive(q, s, a) /\ q \in Memory
  BY <1>5, <1>10 DEF Calm, Alive, Good
<1>13. PICK E : E = Xor({EntryOf(p, s, a)}, {EntryOf(q, s, a)})
  OBVIOUS
<1>14. E \in SUBSET Entry
  BY <1>5, <1>12, <1>13, EntryType DEF Xor
<1>17. PICK r, n : r = Rehash(q, s, E) /\ n = WithReuse(m, s, a, bit)
  OBVIOUS
<1>15. /\ Calm(q, r, s, H) /\ r.value = q.value /\ r.block = q.block
       /\ Tab(r, s) = Tab(q, s) /\ r.store[s].hash = Xor(q.store[s].hash, E)
  BY <1>12, <1>14, <1>17, RehashCalm
<1>16. n = IF bit /\ p.value[SlotOf(p, s, a).value].write_count # 0 THEN q ELSE r
  BY <1>3, <1>7, <1>9, <1>13, <1>17 DEF WithReuse, Reused
<1>18. Calm(m, n, s, H) /\ Calm(p, n, s, H)
  BY <1>10, <1>11, <1>15, <1>16, CalmTrans
<1>19. PICK v, B : v = SlotOf(p, s, a).value /\ B = BlockOf(p, s, a)
  OBVIOUS
<1>20. v \in Val /\ B \in Block
  BY <1>5, <1>6, <1>19, HasFields DEF Slot, Alive
<1>21. /\ q.store = p.store /\ q.value = p.value
       /\ \A b \in Block : q.block[b].num_reloc = p.block[b].num_reloc
       /\ \A b \in Block, o \in Ofs : At(q, b, o) = IF b = B /\ o = a % NSlots THEN l ELSE At(p, b, o)
  BY <1>5, <1>8, <1>9, <1>19, WithSlotIs
<1>22. /\ Tab(n, s) = Tab(p, s) /\ n.value = p.value /\ n.block = q.block
       /\ n.store[s].hash = IF n = q THEN p.store[s].hash ELSE Xor(p.store[s].hash, E)
  <2>1. Tab(q, s) = Tab(p, s)
    BY <1>21 DEF Tab
  <2> QED
    BY <2>1, <1>15, <1>16, <1>21
<1>23. Elsewhere(p, n, s, a)
  <2>1. Place(p, s, {a}) = {<<B, a % NSlots>>}
    BY <1>19 DEF Place
  <2>2. \A b \in Block, o \in Ofs : At(n, b, o) = At(q, b, o)
    BY <1>22 DEF At
  <2>3. \A b \in Block, o \in Ofs : <<b, o>> \notin Place(p, s, {a}) => At(n, b, o) = At(p, b, o)
    BY <2>1, <2>2, <1>21
  <2> QED
    BY <2>3, <1>22 DEF Elsewhere
<1>24. n \in Memory /\ On(n, s) /\ Same(p, n, s) /\ SlotOf(n, s, a).value = v /\ Alive(n, s, a)
  BY <1>5, <1>18, <1>19 DEF Calm, Good, Alive
<1>25. /\ \A b \in Block : n.block[b].num_reloc = p.block[b].num_reloc
       /\ \A u \in Val : n.value[u].write_count = p.value[u].write_count
  BY <1>21, <1>22
<1>26. ASSUME Tidy(p) PROVE Tidy(n)
  <2>1. n = r /\ n.store[s].hash = Xor(p.store[s].hash, E)
    <3>1. p.value[v].write_count = 0
      BY <1>20, <1>26 DEF Tidy, Idle
    <3>2. n = r
      BY <3>1, <1>16, <1>19
    <3> QED
      BY <3>2, <1>15, <1>21
  <2>2. Idle(n, {})
    BY <1>25, <1>26 DEF Tidy, Idle
  <2>3. EntryOf(n, s, a) = EntryOf(q, s, a) /\ Content(n, s, a) = Content(p, s, a)
    <3>1. SlotOf(n, s, a) = SlotOf(q, s, a)
      <4>1. Tab(n, s) = Tab(q, s)
        BY <2>1, <1>15
      <4> QED
        BY <4>1, <1>22 DEF SlotOf, BlockOf, Tab
    <3> QED
      BY <3>1, <1>19, <1>21, <1>22, <1>24 DEF EntryOf, Content
  <2> QED
    BY <2>1, <2>2, <2>3, <1>5, <1>13, <1>23, <1>24, <1>25, <1>26, BooksRehashed
<1>27. ASSUME bit, Open(p, s, a) PROVE Open(n, s, a)
  <2>1. n = q /\ n.store[s].hash = p.store[s].hash
    <3>1. p.value[v].write_count = 1
      BY <1>19, <1>20, <1>27 DEF Open, Idle
    <3>2. n = q
      BY <3>1, <1>16, <1>19, <1>27
    <3> QED
      BY <3>2, <1>21
  <2>2. Books(n, s, a)
    BY <2>1, <1>5, <1>23, <1>24, <1>25, <1>27, BooksKept DEF Open
  <2> QED
    BY <2>2, <1>19, <1>24, <1>25, <1>27 DEF Open, Idle
<1>28. Keeps(m, p)
  <2>1. Same(m, p, s)
    BY <1>4 DEF Calm
  <2> QED
    BY <2>1, <1>1, <1>4, <1>5, PlainKeeps
<1>29. Keeps(m, n)
  BY <1>26, <1>28 DEF Keeps
<1>30. ASSUME bit, Mine(m, s, BlockOf(m, s, a)) PROVE Stays(m, n, s, a)
  <2>1. Open(m, s, a) => Open(p, s, a)
    BY <1>1, <1>4, <1>30, OpenCalm
  <2> QED
    BY <2>1, <1>27, <1>30 DEF Stays
<1> QED
  BY <1>17, <1>18, <1>29, <1>30

(* The value v is in the slot of a, and nothing else refers to it *)
Unshared(m, s, a, v) == Sole(m, s, a, v) /\ m.value[v].refcnt = 1

(* The slot of a gets a copy of its own of the value that it shares. *)
LEMMA OwnedStep ==
  ASSUME NEW p, NEW H, Good(p, H), Exact(p), NEW s \in Store, On(p, s), NEW a, Alive(p, s, a),
         Mine(p, s, BlockOf(p, s, a)), Shared(p.value[SlotOf(p, s, a).value]),
         NEW v \in Val, p.value[v].refcnt = 0, NEW n, n = Owned(p, s, a, v)
  PROVE  Step(p, n, s, H) /\ Unshared(n, s, a, v) /\ Keeps(p, n)
<1> DEFINE B == BlockOf(p, s, a)
           i == a % NSlots
<1>1. /\ p \in Memory /\ Tables(p) /\ InUse(p) /\ ValuesCounted(p, H) /\ Buffers(H) /\ Has(p, s, a)
      /\ B \in Block /\ i \in Ofs /\ a \in Addr /\ SlotOf(p, s, a) = At(p, B, i) /\ SlotOf(p, s, a) \in Slot
  BY HasFields DEF Good, Alive
<1>2. PICK u : u = SlotOf(p, s, a).value
  OBVIOUS
<1>3. u \in Val /\ u # NoVal /\ p.value[u].refcnt > 1 /\ u # v /\ v # NoVal
  <2>1. u \in Val /\ u # NoVal /\ p.value[u].refcnt > 1
    BY <1>1, <1>2 DEF Alive, Slot, Shared
  <2> QED
    BY <2>1, StoreAssumption
<1>4. PICK l : l = [SlotOf(p, s, a) EXCEPT !.value = v]
  OBVIOUS
<1>5. l \in Slot /\ l.value = v /\ l.param = SlotOf(p, s, a).param /\ l.reuse = SlotOf(p, s, a).reuse
  BY <1>1, <1>4 DEF Slot
<1>6. PICK q : q = WithSlot(p, s, a, l)
  OBVIOUS
<1>7. /\ q \in Memory /\ q.store = p.store /\ q.value = p.value
      /\ \A b \in Block : /\ q.block[b].refcnt = p.block[b].refcnt
                          /\ q.block[b].num_ent = p.block[b].num_ent
                          /\ q.block[b].num_reloc = p.block[b].num_reloc
                          /\ b # B => q.block[b] = p.block[b]
      /\ \A b \in Block, o \in Ofs : At(q, b, o) = IF b = B /\ o = i THEN l ELSE At(p, b, o)
  BY <1>1, <1>5, <1>6, WithSlotIs
<1> HIDE DEF B, i
<1>8. PICK x, y, k : /\ k = p.value[u].refcnt - 1 /\ x = [p.value[u] EXCEPT !.refcnt = k]
                     /\ y = [p.value[u] EXCEPT !.refcnt = 1, !.write_count = 0]
  OBVIOUS
<1>9. /\ x \in Value /\ x.refcnt = p.value[u].refcnt - 1 /\ x.content = p.value[u].content
      /\ y \in Value /\ y.refcnt = 1 /\ y.content = p.value[u].content
      /\ x.write_count = p.value[u].write_count /\ y.write_count = 0
  <2>1. p.value[u] \in Value /\ k \in Nat
    BY <1>1, <1>3, <1>8, ValueFields
  <2>2. y = [refcnt |-> 1, write_count |-> 0, content |-> p.value[u].content]
    BY <2>1, <1>8 DEF Value
  <2> QED
    BY <2>1, <2>2, <1>8 DEF Value
<1>10. PICK g : g = WithValue(q, u, x)
  OBVIOUS
<1>11. /\ g \in Memory /\ g.store = q.store /\ g.block = q.block
       /\ \A w \in Val : g.value[w] = IF w = u THEN x ELSE q.value[w]
  <2>1. q \in Memory /\ u \in Val /\ x \in Value
    BY <1>3, <1>7, <1>9
  <2> QED
    BY <2>1, <1>10, ValueChanged
<1>12. n = WithValue(g, v, y)
  <2>1. n = [q EXCEPT !.value[u].refcnt = @ - 1, !.value[v] = [p.value[u] EXCEPT !.refcnt = 1, !.write_count = 0]]
    BY <1>2, <1>4, <1>6, Zenon DEF Owned
  <2>2. q.value[u] = p.value[u] /\ q.value[u] \in Value
    BY <1>3, <1>7, ValueFields
  <2> QED
    BY <2>1, <2>2, <1>3, <1>7, <1>8, <1>10 DEF WithValue, Memory, Value
<1>13. /\ n \in Memory /\ n.store = p.store /\ n.block = q.block
       /\ \A w \in Val : n.value[w] = IF w = v THEN y ELSE IF w = u THEN x ELSE p.value[w]
  <2>1. /\ n \in Memory /\ n.store = g.store /\ n.block = g.block
        /\ \A w \in Val : n.value[w] = IF w = v THEN y ELSE g.value[w]
    BY <1>9, <1>11, <1>12, ValueChanged
  <2> QED
    BY <2>1, <1>7, <1>11
<1>14. \A b \in Block, o \in Ofs : At(n, b, o) = IF b = B /\ o = i THEN l ELSE At(p, b, o)
  BY <1>7, <1>13 DEF At
<1>15. \A b \in Block : n.block[b].refcnt = p.block[b].refcnt /\ n.block[b].num_ent = p.block[b].num_ent
                        /\ (b # B => n.block[b] = p.block[b])
  BY <1>7, <1>13
<1>16. Cardinality(Pointers(p, v)) = 0 /\ Cardinality(Records(H, v)) = 0 /\ Pointers(p, v) = {}
  <2>1. /\ IsFiniteSet(Pointers(p, v)) /\ Cardinality(Pointers(p, v)) \in Nat /\ Cardinality(Records(H, v)) \in Nat
    BY <1>1, Sizes
  <2>2. 0 = Cardinality(Pointers(p, v)) + Cardinality(Records(H, v))
    BY <1>1 DEF ValuesCounted
  <2>3. Cardinality(Pointers(p, v)) = 0 /\ Cardinality(Records(H, v)) = 0
    BY <2>1, <2>2
  <2> QED
    BY <2>1, <2>3, FS_EmptySet
<1>17. Writes(p, n, s)
  <2>1. On(n, s) /\ Tab(n, s) = Tab(p, s)
    BY <1>13 DEF On, Tab
  <2>2. \A b \in Block : ~ Mine(p, s, b) => b # B
    BY DEF B
  <2>3. \A w \in Val : (\E c \in Pointers(p, w) : ~ Mine(p, s, c[1])) => n.value[w].content = p.value[w].content
    BY <1>9, <1>13, <1>16
  <2> QED
    BY <2>1, <2>2, <2>3, <1>13, <1>15 DEF Writes
<1>18. /\ Tables(n) /\ BlocksCounted(n) /\ FreeEmpty(n) /\ Same(p, n, s)
       /\ \A b : Mine(n, s, b) <=> Mine(p, s, b)
       /\ \A c : (Has(n, s, c) <=> Has(p, s, c)) /\ BlockOf(n, s, c) = BlockOf(p, s, c)
  BY <1>17, WritesFrame
<1>19. /\ At(p, B, i).value = u /\ At(n, B, i).value = v
       /\ \A b \in Block, o \in Ofs : ~ (b = B /\ o = i) => At(n, b, o).value = At(p, b, o).value
  BY <1>1, <1>2, <1>5, <1>14
<1>20. InUse(n)
  <2>1. \A b \in Block, o \in Ofs : At(n, b, o).param = At(p, b, o).param
    BY <1>1, <1>5, <1>14
  <2>2. \A b \in Block, o \in Ofs : At(n, b, o).value # NoVal => At(p, b, o).value # NoVal
    BY <1>3, <1>19
  <2> QED
    BY <2>1, <2>2, <1>1 DEF InUse
<1>21. Pointers(n, v) = {<<B, i>>}
  <2>1. ASSUME NEW c \in Block \X Ofs PROVE At(n, c[1], c[2]).value = v <=> c = <<B, i>>
    <3>1. At(p, c[1], c[2]).value # v
      BY <1>16 DEF Pointers
    <3> QED
      BY <3>1, <1>19
  <2> QED
    BY <2>1, <1>1 DEF Pointers
<1>22. ValuesCounted(n, H)
  <2> SUFFICES ASSUME NEW w \in Val
               PROVE  n.value[w].refcnt = Cardinality(Pointers(n, w)) + Cardinality(Records(H, w))
    BY DEF ValuesCounted
  <2>1. p.value[w].refcnt = Cardinality(Pointers(p, w)) + Cardinality(Records(H, w))
    BY <1>1 DEF ValuesCounted
  <2>2. IsFiniteSet(Pointers(p, w)) /\ Cardinality(Pointers(p, w)) \in Nat /\ Cardinality(Records(H, w)) \in Nat
    BY <1>1, Sizes
  <2>3. CASE w # v /\ w # u
    <3>1. Pointers(n, w) = Pointers(p, w)
      <4>1. ASSUME NEW c \in Block \X Ofs PROVE At(n, c[1], c[2]).value = w <=> At(p, c[1], c[2]).value = w
        BY <2>3, <1>19
      <4> QED
        BY <4>1 DEF Pointers
    <3> QED
      BY <3>1, <2>1, <2>3, <1>13
  <2>4. CASE w = v
    <3>1. Cardinality(Pointers(n, v)) = 1
      BY <1>21, FS_Singleton
    <3> QED
      BY <3>1, <2>4, <1>9, <1>13, <1>16
  <2>5. CASE w = u
    <3>1. Pointers(n, u) = Pointers(p, u) \ {<<B, i>>} /\ <<B, i>> \in Pointers(p, u)
      <4>1. ASSUME NEW c \in Block \X Ofs
            PROVE  At(n, c[1], c[2]).value = u <=> At(p, c[1], c[2]).value = u /\ c # <<B, i>>
        BY <1>3, <1>19
      <4>2. <<B, i>> \in Block \X Ofs
        BY <1>1
      <4> QED
        BY <4>1, <4>2, <1>19 DEF Pointers
    <3>2. Cardinality(Pointers(n, u)) = Cardinality(Pointers(p, u)) - 1
      BY <3>1, <2>2, <2>5, FS_RemoveElement
    <3>3. n.value[u].refcnt = p.value[u].refcnt - 1
      BY <1>3, <1>9, <1>13
    <3> QED
      BY <3>2, <3>3, <2>1, <2>2, <2>5
  <2> QED
    BY <2>3, <2>4, <2>5
<1>23. Good(n, H)
  BY <1>1, <1>13, <1>18, <1>20, <1>22 DEF Good
<1>24. \A b \in Block, o \in Ofs : At(n, b, o).value # NoVal <=> At(p, b, o).value # NoVal
  BY <1>3, <1>19
<1>25. Exact(n)
  <2>1. Counters(p, s, B, 0)
    BY DEF Exact
  <2>2. \A b \in Block : Filled(n, b) = Filled(p, b)
    BY <1>24 DEF Filled
  <2>3. ASSUME NEW t \in Store, On(n, t) PROVE On(p, t) /\ Living(n, t) = Living(p, t)
    <3>1. On(p, t)
      BY <2>3, <1>13 DEF On
    <3>2. CASE t # s
      BY <3>1, <3>2, <1>18, SameLiving
    <3>3. CASE t = s
      <4>1. ASSUME NEW c \in Addr PROVE Alive(n, s, c) <=> Alive(p, s, c)
        <5>1. CASE ~ Has(p, s, c)
          BY <5>1, <1>18 DEF Alive
        <5>2. CASE Has(p, s, c)
          <6>1. /\ BlockOf(p, s, c) \in Block /\ c % NSlots \in Ofs
                /\ SlotOf(p, s, c) = At(p, BlockOf(p, s, c), c % NSlots)
            BY <5>2, <1>1, HasFields, SMTT(30)
          <6>2. SlotOf(n, s, c) = At(n, BlockOf(p, s, c), c % NSlots)
            BY <1>18 DEF SlotOf, At
          <6> QED
            BY <6>1, <6>2, <5>2, <1>18, <1>24 DEF Alive
        <5> QED
          BY <5>1, <5>2
      <4> QED
        BY <3>1, <3>3, <4>1 DEF Living
    <3> QED
      BY <3>2, <3>3
  <2>4. Counters(n, s, B, 0)
    BY <2>1, <2>2, <2>3, <1>13, <1>15 DEF Counters
  <2> QED
    BY <2>4, ExactIs
<1>26. Unshared(n, s, a, v)
  <2>1. SlotOf(n, s, a) = At(n, B, i) /\ BlockOf(n, s, a) = B
    BY <1>18 DEF SlotOf, At, B, i
  <2>2. Mine(n, s, B)
    BY <1>18 DEF B
  <2>3. Has(n, s, a)
    BY <1>1, <1>18
  <2> QED
    BY <2>1, <2>2, <2>3, <1>9, <1>13, <1>19, <1>21, SMTT(30) DEF Unshared, Sole, i
<1>27. On(n, s) /\ Tab(n, s) = Tab(p, s)
  BY <1>13 DEF On, Tab
<1>28. ASSUME NEW b \in Block, NEW o \in Ofs, At(p, b, o).value # NoVal
       PROVE  /\ At(n, b, o).reuse = At(p, b, o).reuse
              /\ n.value[At(n, b, o).value].content = p.value[At(p, b, o).value].content
  <2>1. \A w \in Val : w # v => n.value[w].content = p.value[w].content
    BY <1>9, <1>13
  <2>2. CASE b = B /\ o = i
    <3>1. At(n, b, o) = l /\ At(p, b, o) = SlotOf(p, s, a)
      BY <2>2, <1>1, <1>14
    <3>2. n.value[v].content = p.value[u].content
      BY <1>9, <1>13
    <3> QED
      BY <3>1, <3>2, <1>2, <1>5
  <2>3. CASE ~ (b = B /\ o = i)
    <3>1. At(n, b, o) = At(p, b, o)
      BY <2>3, <1>14
    <3>2. At(p, b, o).value \in Val
      BY <1>1, <1>28, BlockFields
    <3>3. At(p, b, o).value # v
      <4>1. <<b, o>> \notin Pointers(p, v)
        BY <1>16
      <4> QED
        BY <4>1 DEF Pointers
    <3> QED
      BY <3>1, <3>2, <3>3, <2>1
  <2> QED
    BY <2>2, <2>3
<1>29. ASSUME NEW c \in Addr
       PROVE  (Alive(n, s, c) <=> Alive(p, s, c)) /\ (Alive(p, s, c) => EntryOf(n, s, c) = EntryOf(p, s, c))
  <2>1. CASE ~ Has(p, s, c)
    BY <2>1, <1>18 DEF Alive
  <2>2. CASE Has(p, s, c)
    <3>1. PICK b \in Block, o \in Ofs : b = BlockOf(p, s, c) /\ o = c % NSlots /\ SlotOf(p, s, c) = At(p, b, o)
      BY <2>2, <1>1, HasFields
    <3>2. SlotOf(n, s, c) = At(n, b, o)
      BY <3>1, <1>18 DEF SlotOf, At
    <3>3. Alive(n, s, c) <=> Alive(p, s, c)
      BY <3>1, <3>2, <2>2, <1>18, <1>24 DEF Alive
    <3>4. ASSUME Alive(p, s, c) PROVE EntryOf(n, s, c) = EntryOf(p, s, c)
      <4>1. At(p, b, o).value # NoVal
        BY <3>1, <3>4 DEF Alive
      <4>2. /\ At(n, b, o).reuse = At(p, b, o).reuse
            /\ n.value[At(n, b, o).value].content = p.value[At(p, b, o).value].content
        BY <4>1, <1>28
      <4> QED
        BY <4>2, <3>1, <3>2 DEF EntryOf, Content
    <3> QED
      BY <3>3, <3>4
  <2> QED
    BY <2>1, <2>2
<1>30. Ledger(p, n, s, {})
  <2>1. n.store[s].hash = Xor(p.store[s].hash, {EntryOf(p, s, d) : d \in {}})
    <3>1. {EntryOf(p, s, d) : d \in {}} = {} /\ \A A : Xor(A, {}) = A
      BY DEF Xor
    <3> QED
      BY <3>1, <1>13
  <2>2. Living(n, s) = Living(p, s) \ {} /\ \A c \in Living(n, s) : EntryOf(n, s, c) = EntryOf(p, s, c)
    BY <1>29 DEF Living
  <2>3. \A w \in Val : n.value[w].write_count \in {p.value[w].write_count, 0}
    BY <1>9, <1>13
  <2>4. ASSUME NEW b \in Block PROVE Covered(p, n, s, b)
    <3>1. Relocated(n, b) \subseteq Relocated(p, b)
      BY <1>24, <1>28 DEF Relocated, Filled
    <3>2. n.block[b].num_reloc = p.block[b].num_reloc
      BY <1>7, <1>13
    <3> QED
      BY <3>1, <3>2 DEF Covered
  <2> QED
    BY <2>1, <2>2, <2>3, <2>4 DEF Ledger
<1>31. Keeps(p, n)
  <2>1. {} \in SUBSET Living(p, s)
    OBVIOUS
  <2> QED
    BY <2>1, <1>1, <1>13, <1>18, <1>30, TidyKept DEF Keeps
<1> QED
  BY <1>18, <1>23, <1>25, <1>26, <1>27, <1>31 DEF Step

(* cesk_store_get_rw *)
LEMMA GetRwStep ==
  ASSUME NEW m, NEW H, Good(m, H), Exact(m), NEW s \in Store, On(m, s), NEW a, Alive(m, s, a),
         NEW n, n = GetRw(m, s, a)
  PROVE  /\ Step(m, n, s, H) /\ Alive(n, s, a)
         /\ Unshared(n, s, a, SlotOf(n, s, a).value) /\ Opens(m, n, s, a)
<1>1. m \in Memory /\ Has(m, s, a)
  BY DEF Good, Alive
<1>2. {BlockNo(a)} \in SUBSET DOMAIN Tab(m, s) /\ BlockNo(a) \in {BlockNo(a)}
  BY <1>1, HasFields
<1>3. PICK p : p = Private(m, s, {BlockNo(a)})
  OBVIOUS
<1>4. Calm(m, p, s, H) /\ Plain(m, p, s) /\ Mine(p, s, Tab(p, s)[BlockNo(a)])
  BY <1>2, <1>3, PrivateCalm
<1>5. /\ Good(p, H) /\ On(p, s) /\ Alive(p, s, a) /\ Has(p, s, a) /\ p \in Memory
      /\ Mine(p, s, BlockOf(p, s, a))
  BY <1>4 DEF Calm, Alive, Good, BlockOf, Tab
<1>6. Step(m, p, s, H)
  BY <1>4, CalmStep
<1>7. Exact(p)
  BY <1>6 DEF Step
<1>8. PICK v : v = SlotOf(p, s, a).value
  OBVIOUS
<1>9. v # NoVal /\ v \in Val
  <2>1. SlotOf(p, s, a) \in Slot
    BY <1>5, HasFields
  <2> QED
    BY <2>1, <1>5, <1>8 DEF Alive, Slot
<1>10. PICK q : q = IF Shared(p.value[v]) THEN Owned(p, s, a, FreshVal(p)) ELSE p
  OBVIOUS
<1>11. n = Opened(q, s, a)
  BY <1>3, <1>8, <1>9, <1>10 DEF GetRw, Writable
<1>12. Step(p, q, s, H) /\ Keeps(p, q) /\ \E w \in Val : Unshared(q, s, a, w)
  <2>1. CASE Shared(p.value[v])
    <3>1. FreshVal(p) \in Val /\ p.value[FreshVal(p)].refcnt = 0
      BY <1>5, FreshOK
    <3>2. q = Owned(p, s, a, FreshVal(p))
      BY <2>1, <1>10
    <3> QED
      BY <3>1, <3>2, <2>1, <1>5, <1>7, <1>8, OwnedStep
  <2>2. CASE ~ Shared(p.value[v])
    <3>1. q = p
      BY <2>2, <1>10
    <3>2. Step(p, p, s, H)
      BY <1>5, <1>7 DEF Step, Same
    <3>3. /\ BlockOf(p, s, a) \in Block /\ a % NSlots \in Ofs
          /\ SlotOf(p, s, a) = At(p, BlockOf(p, s, a), a % NSlots)
      BY <1>5, HasFields
    <3>4. PICK c : c = <<BlockOf(p, s, a), a % NSlots>>
      OBVIOUS
    <3>5. c \in Pointers(p, v)
      BY <3>3, <3>4, <1>8 DEF Pointers
    <3>6. /\ IsFiniteSet(Pointers(p, v)) /\ Cardinality(Pointers(p, v)) \in Nat /\ Cardinality(Records(H, v)) \in Nat
          /\ p.value[v].refcnt = Cardinality(Pointers(p, v)) + Cardinality(Records(H, v))
      BY <1>5, <1>9, Sizes DEF Good, ValuesCounted
    <3>7. ~ p.value[v].refcnt > 1
      BY <2>2 DEF Shared
    <3>8. Cardinality(Pointers(p, v) \ {c}) = Cardinality(Pointers(p, v)) - 1 /\ IsFiniteSet(Pointers(p, v) \ {c})
      BY <3>5, <3>6, FS_RemoveElement
    <3>9. Cardinality(Pointers(p, v) \ {c}) \in Nat
      BY <3>8, FS_CardinalityType
    <3>10. Cardinality(Pointers(p, v) \ {c}) = 0 /\ p.value[v].refcnt = 1
      BY <3>6, <3>7, <3>8, <3>9
    <3>11. Pointers(p, v) \ {c} = {}
      BY <3>8, <3>10, FS_EmptySet
    <3>12. Sole(p, s, a, v)
      BY <3>4, <3>11, <1>5, <1>8, <1>9 DEF Sole
    <3> QED
      BY <3>1, <3>2, <3>10, <3>12, <1>9 DEF Unshared, Keeps
  <2> QED
    BY <2>1, <2>2
<1>13. PICK w \in Val : Unshared(q, s, a, w)
  BY <1>12
<1>14. Good(q, H) /\ On(q, s) /\ Exact(q)
  BY <1>12 DEF Step
<1>15. Alive(q, s, a) /\ SlotOf(q, s, a).value = w
  BY <1>13, StoreAssumption DEF Unshared, Sole, Alive
<1>16. Calm(q, n, s, H) /\ n.value[w].refcnt = q.value[w].refcnt /\ Opens(q, n, s, a)
  BY <1>11, <1>13, <1>14, <1>15, OpenedCalm
<1>17. Step(q, n, s, H)
  BY <1>14, <1>16, CalmStep
<1>18. Step(m, n, s, H)
  BY <1>6, <1>12, <1>17, StepTrans
<1>19. Sole(n, s, a, w)
  BY <1>13, <1>16 DEF Calm, Unshared
<1>20. Unshared(n, s, a, w) /\ SlotOf(n, s, a).value = w /\ Has(n, s, a)
  BY <1>13, <1>16, <1>19 DEF Unshared, Sole
<1>21. Alive(n, s, a)
  BY <1>20, StoreAssumption DEF Alive
<1>22. Keeps(m, p)
  <2>1. Same(m, p, s)
    BY <1>4 DEF Calm
  <2> QED
    BY <2>1, <1>1, <1>4, <1>5, PlainKeeps
<1>23. Opens(m, n, s, a)
  BY <1>12, <1>16, <1>22 DEF Opens, Keeps
<1> QED
  BY <1>18, <1>20, <1>21, <1>23

(* Writing to the value under the writable pointer leaves it open. *)
LEMMA ContentStays ==
  ASSUME NEW m, NEW H, Good(m, H), NEW s \in Store, On(m, s), NEW a, NEW v, Alive(m, s, a), Sole(m, s, a, v),
         NEW x \in Value, x.write_count = m.value[v].write_count, NEW n, n = WithValue(m, v, x), Calm(m, n, s, H)
  PROVE  Stays(m, n, s, a)
<1>1. m \in Memory /\ Tables(m) /\ Has(m, s, a) /\ v \in Val
  BY DEF Good, Alive, Sole
<1>2. /\ n \in Memory /\ n.store = m.store /\ n.block = m.block
      /\ \A u \in Val : n.value[u] = IF u = v THEN x ELSE m.value[u]
  BY <1>1, ValueChanged
<1>3. On(n, s) /\ Same(m, n, s) /\ SlotOf(n, s, a).value = SlotOf(m, s, a).value
  BY <1>1 DEF Calm
<1>4. Elsewhere(m, n, s, a)
  <2>1. Tab(n, s) = Tab(m, s) /\ \A b \in Block, o \in Ofs : At(n, b, o) = At(m, b, o)
    BY <1>2 DEF Tab, At
  <2>2. ASSUME NEW b \in Block, NEW o \in Ofs, <<b, o>> \notin Place(m, s, {a}), At(m, b, o).value # NoVal
        PROVE  n.value[At(m, b, o).value].content = m.value[At(m, b, o).value].content
    <3>1. At(m, b, o).value \in Val
      BY <1>1, <2>2, BlockFields DEF Slot
    <3>2. At(m, b, o).value # v
      <4>1. SUFFICES ASSUME At(m, b, o).value = v PROVE FALSE
        OBVIOUS
      <4>2. <<b, o>> \in Pointers(m, v)
        BY <4>1 DEF Pointers
      <4>3. <<b, o>> = <<BlockOf(m, s, a), a % NSlots>>
        BY <4>2 DEF Sole
      <4> QED
        BY <4>3, <2>2 DEF Place
    <3> QED
      BY <3>1, <3>2, <1>2
  <2> QED
    BY <2>1, <2>2 DEF Elsewhere
<1>5. n.store[s].hash = m.store[s].hash /\ \A b \in Block : n.block[b].num_reloc = m.block[b].num_reloc
  BY <1>2
<1>6. \A u \in Val : n.value[u].write_count = m.value[u].write_count
  BY <1>2
<1>7. ASSUME Open(m, s, a) PROVE Open(n, s, a)
  <2>1. Idle(n, {SlotOf(n, s, a).value})
    BY <1>3, <1>6, <1>7 DEF Open, Idle
  <2>2. Books(m, s, a)
    BY <1>7 DEF Open
  <2>3. Books(n, s, a)
    BY <2>2, <1>1, <1>2, <1>3, <1>4, <1>5, BooksKept
  <2> QED
    BY <2>1, <2>3 DEF Open
<1> QED
  BY <1>7 DEF Stays

(* Writing to a slot without changing the value in it is not in the books. *)
LEMMA SlotKeeps ==
  ASSUME NEW m \in Memory, Tables(m), NEW s \in Store, On(m, s), NEW a, Has(m, s, a), NEW l \in Slot,
         l.value = SlotOf(m, s, a).value, l.value # NoVal => l.reuse = SlotOf(m, s, a).reuse,
         NEW n, n = WithSlot(m, s, a, l), Same(m, n, s)
  PROVE  Keeps(m, n)
<1>1. PICK B, i : B = BlockOf(m, s, a) /\ i = a % NSlots
  OBVIOUS
<1>2. B \in Block /\ i \in Ofs /\ SlotOf(m, s, a) = At(m, B, i)
  BY <1>1, HasFields
<1>3. /\ n \in Memory /\ n.store = m.store /\ n.value = m.value
      /\ \A b \in Block : n.block[b].num_reloc = m.block[b].num_reloc
      /\ \A b \in Block, o \in Ofs : At(n, b, o) = IF b = B /\ o = i THEN l ELSE At(m, b, o)
  BY <1>1, WithSlotIs
<1>4. On(n, s) /\ Tab(n, s) = Tab(m, s) /\ n.store[s].hash = m.store[s].hash
  BY <1>3 DEF On, Tab
<1>5. \A b \in Block, o \in Ofs : /\ At(n, b, o).value = At(m, b, o).value
                                  /\ At(n, b, o).value # NoVal => At(n, b, o).reuse = At(m, b, o).reuse
  BY <1>2, <1>3
<1>6. Rests(m, n, s)
  BY <1>3, <1>4, <1>5 DEF Rests
<1> QED
  BY <1>3, <1>4, <1>6, RestsKeeps

(***************************************************************************)
(* cesk_store_apply_alloctab.                                              *)
(***************************************************************************)
(* The memories that steps of the frame of s lead to from m *)
Later(m, s, H) == {n \in Memory : Step(m, n, s, H) /\ Keeps(m, n)}

LEMMA StepRefl ==
  ASSUME NEW m, NEW H, Good(m, H), Exact(m), NEW s \in Store, On(m, s)
  PROVE  Step(m, m, s, H) /\ Keeps(m, m) /\ m \in Later(m, s, H)
BY DEF Step, Same, Good, Later, Keeps

(* What a memory in Later has. *)
LEMMA LaterFields ==
  ASSUME NEW m, NEW H, NEW s \in Store, NEW n \in Later(m, s, H)
  PROVE  /\ Step(m, n, s, H) /\ Good(n, H) /\ Exact(n) /\ On(n, s) /\ Len(Tab(n, s)) = Len(Tab(m, s))
         /\ Keeps(m, n)
BY DEF Later, Step

LEMMA LaterStep ==
  ASSUME NEW m, NEW H, NEW s \in Store, NEW n \in Later(m, s, H), NEW p, Step(n, p, s, H), Keeps(n, p)
  PROVE  p \in Later(m, s, H)
<1>1. Step(m, p, s, H)
  BY StepTrans DEF Later
<1>2. Keeps(m, p)
  BY DEF Later, Keeps
<1> QED
  BY <1>1, <1>2 DEF Later, Step, Good

(* The addresses in a value become object addresses. *)
LEMMA TranslatedStep ==
  ASSUME NEW m, NEW H, Good(m, H), Exact(m), NEW s \in Store, On(m, s), NEW a
  PROVE  Step(m, Translated(m, s, a), s, H) /\ Keeps(m, Translated(m, s, a))
<1>1. CASE ~ Alive(m, s, a) \/ ~ IsReloc(Content(m, s, a))
  <2>1. Translated(m, s, a) = m
    BY <1>1 DEF Translated
  <2> QED
    BY <2>1, StepRefl
<1>2. CASE Alive(m, s, a) /\ IsReloc(Content(m, s, a))
  <2>1. PICK g : g = GetRw(m, s, a)
    OBVIOUS
  <2>2. PICK v : v = SlotOf(g, s, a).value
    OBVIOUS
  <2>3. Step(m, g, s, H) /\ Alive(g, s, a) /\ Unshared(g, s, a, v) /\ Opens(m, g, s, a)
    BY <2>1, <2>2, <1>2, GetRwStep
  <2>4. Good(g, H) /\ Exact(g) /\ On(g, s) /\ g \in Memory /\ v \in Val /\ Sole(g, s, a, v)
    BY <2>3 DEF Step, Good, Unshared, Sole
  <2> DEFINE object(x) == IF x \in Reloc THEN RelocMap[x] ELSE x
  <2>5. PICK X : X = {object(x) : x \in g.value[v].content}
    OBVIOUS
  <2>6. g.value[v] \in Value /\ g.value[v].content \subseteq Elem
    BY <2>4, ValueFields
  <2>7. X \subseteq Elem
    <3>1. \A x \in Elem : object(x) \in Elem
      BY StoreAssumption DEF Elem
    <3> HIDE DEF object
    <3> QED
      BY <2>5, <2>6, <3>1
  <2>8. PICK y : y = [g.value[v] EXCEPT !.content = X]
    OBVIOUS
  <2>9. y \in Value /\ y.refcnt = g.value[v].refcnt /\ y.write_count = g.value[v].write_count
    BY <2>6, <2>7, <2>8 DEF Value
  <2>10. PICK w : w = WithValue(g, v, y)
    OBVIOUS
  <2>11. Translated(m, s, a) = ReleaseRw(w, s, a)
    <3>1. Translated(m, s, a) = ReleaseRw([g EXCEPT !.value[v].content = {object(x) : x \in @}], s, a)
      BY <2>1, <2>2, <1>2, Zenon DEF Translated
    <3>2. [g EXCEPT !.value[v].content = {object(x) : x \in @}] = [g EXCEPT !.value[v] = y]
      <4>1. [g.value EXCEPT ![v].content = {object(x) : x \in @}] = [g.value EXCEPT ![v] = y]
        BY <2>4, <2>5, <2>8, Zenon
      <4> QED
        BY <4>1, Zenon
    <3> QED
      BY <3>1, <3>2, <2>10 DEF WithValue
  <2>12. Calm(g, w, s, H)
    BY <2>4, <2>9, <2>10, ValueCalm
  <2>13. Step(g, w, s, H) /\ Good(w, H) /\ Exact(w) /\ On(w, s) /\ Alive(w, s, a)
    <3>1. Step(g, w, s, H)
      BY <2>4, <2>12, CalmStep
    <3> QED
      BY <3>1, <2>3, <2>12 DEF Step, Calm, Alive
  <2>14. Step(w, ReleaseRw(w, s, a), s, H)
    BY <2>13, ReleaseCalm, CalmStep
  <2>15. Stays(g, w, s, a)
    BY <2>3, <2>4, <2>9, <2>10, <2>12, ContentStays
  <2>16. Mine(w, s, BlockOf(w, s, a))
    BY <2>4, <2>12 DEF Calm, Sole
  <2>17. Shuts(w, ReleaseRw(w, s, a), s, a)
    BY <2>13, <2>16, ReleaseCalm
  <2>18. Keeps(m, ReleaseRw(w, s, a))
    BY <2>3, <2>15, <2>17 DEF Opens, Stays, Shuts, Keeps
  <2> QED
    BY <2>3, <2>11, <2>13, <2>14, <2>18, StepTrans
<1> QED
  BY <1>1, <1>2

(* One block: its values one after another. *)
LEMMA AppliedToStep ==
  ASSUME NEW m, NEW H, Good(m, H), Exact(m), NEW s \in Store, On(m, s), NEW k \in DOMAIN Tab(m, s)
  PROVE  Step(m, AppliedTo(m, s, k), s, H) /\ Keeps(m, AppliedTo(m, s, k))
<1> DEFINE x == Private(m, s, {k})
           G == Later(m, s, H)
           T(n, i) == Translated(n, s, (k - 1) * NSlots + i - 1)
           F == [i \in 1 .. NSlots |-> [n \in G |-> T(n, i)]]
           Def(r) == [i \in 0 .. NSlots |-> IF i = 0 THEN x ELSE T(r[i - 1], i)]
           done == CHOOSE r : r = Def(r)
<1>1. NSlots \in Nat /\ {k} \in SUBSET DOMAIN Tab(m, s)
  BY StoreAssumption
<1>2. x \in G
  <2>1. PICK p : p = x
    OBVIOUS
  <2>2. Calm(m, p, s, H) /\ Plain(m, p, s)
    BY <1>1, <2>1, PrivateCalm
  <2>3. Step(m, p, s, H)
    BY <2>2, CalmStep
  <2>4. Keeps(m, p)
    BY <2>2, PlainKeeps DEF Calm, Good
  <2> QED
    BY <2>1, <2>3, <2>4 DEF Later, Step, Good
<1> HIDE DEF x
<1>3. ASSUME NEW n \in G, NEW i PROVE T(n, i) \in G
  BY LaterFields, TranslatedStep, LaterStep
<1> HIDE DEF G, T
<1>4. F \in [1 .. NSlots -> [G -> G]]
  BY <1>3
<1>5. PICK g : IteratesFrom(g, NSlots, G, x, F)
  <2> HIDE DEF F
  <2> QED
    BY <1>1, <1>2, <1>4, Iteration
<1>6. g \in [0 .. NSlots -> G] /\ g[0] = x /\ \A i \in 1 .. NSlots : g[i] = F[i][g[i - 1]]
  BY <1>5 DEF IteratesFrom
<1>7. ASSUME NEW i \in 1 .. NSlots PROVE g[i] = T(g[i - 1], i)
  <2>1. g[i - 1] \in G
    BY <1>1, <1>6
  <2>2. F[i][g[i - 1]] = T(g[i - 1], i)
    BY <2>1, Zenon
  <2> QED
    BY <1>6, <2>2
<1> HIDE DEF F
<1>8. \A i \in 0 .. NSlots : g[i] = IF i = 0 THEN x ELSE T(g[i - 1], i)
  <2>1. \A i \in 0 .. NSlots : i = 0 \/ i \in 1 .. NSlots
    BY <1>1
  <2> QED
    BY <2>1, <1>6, <1>7
<1>9. \E r : r = Def(r)
  BY <1>6, <1>8
<1>10. done = Def(done)
  <2> HIDE DEF Def
  <2> QED
    BY <1>9, Zenon
<1> HIDE DEF done
<1> DEFINE S == {i \in 0 .. NSlots : done[i] \in G}
<1>11. 0 \in S
  BY <1>1, <1>2, <1>10
<1>12. ASSUME NEW i \in 0 .. NSlots - 1, i \in S PROVE i + 1 \in S
  <2>1. i + 1 \in 1 .. NSlots /\ i + 1 \in 0 .. NSlots /\ (i + 1) - 1 = i /\ i + 1 # 0
    BY <1>1
  <2>2. done[i + 1] = Def(done)[i + 1]
    BY <1>10
  <2>3. Def(done)[i + 1] = T(done[(i + 1) - 1], i + 1)
    BY <2>1
  <2>4. done[i + 1] = T(done[i], i + 1)
    BY <2>1, <2>2, <2>3
  <2>5. done[i] \in G
    BY <1>12
  <2> QED
    BY <2>1, <2>4, <2>5, <1>3
<1>13. NSlots \in S
  <2> HIDE DEF S
  <2>1. 0 .. NSlots \subseteq S
    BY <1>1, <1>11, <1>12, SetInduction
  <2> QED
    BY <2>1, <1>1
<1>14. AppliedTo(m, s, k) = IF Claims(m, s, k) THEN done[NSlots] ELSE m
  BY Zenon DEF AppliedTo, done, Def, T, x
<1>15. done[NSlots] \in G
  BY <1>13
<1>16. Step(m, done[NSlots], s, H) /\ Keeps(m, done[NSlots])
  BY <1>15, LaterFields DEF G
<1> QED
  BY <1>14, <1>16, StepRefl

(* The allocation table leaves the store. *)
LEMMA TabDropped ==
  ASSUME NEW m, NEW H, Good(m, H), Exact(m), NEW s \in Store, On(m, s)
  PROVE  Step(m, [m EXCEPT !.store[s].tab = FALSE], s, H) /\ Keeps(m, [m EXCEPT !.store[s].tab = FALSE])
<1>1. m \in Memory /\ m.store[s] \in Table
  BY StoreFields DEF Good
<1>2. PICK x : x = [m.store[s] EXCEPT !.tab = FALSE]
  OBVIOUS
<1>3. x \in Table /\ x.blocks = m.store[s].blocks /\ x.num_ent = m.store[s].num_ent /\ x.hash = m.store[s].hash
  BY <1>1, <1>2 DEF Table
<1>4. PICK n : n = WithStore(m, s, x)
  OBVIOUS
<1>5. /\ n \in Memory /\ n.value = m.value /\ n.block = m.block /\ On(n, s)
      /\ n.store[s] = x /\ \A t \in Store \ {s} : n.store[t] = m.store[t]
  BY <1>1, <1>3, <1>4, StoreChanged
<1>6. Tab(n, s) = Tab(m, s)
  BY <1>3, <1>5 DEF Tab
<1>7. Writes(m, n, s) /\ Quiet(m, n, s)
  BY <1>3, <1>5, <1>6 DEF Writes, Quiet, At
<1>8. n = [m EXCEPT !.store[s].tab = FALSE]
  BY <1>2, <1>4, Zenon DEF WithStore
<1>9. Calm(m, n, s, H) /\ Step(m, n, s, H)
  BY <1>7, QuietCalm, CalmStep
<1>10. Rests(m, n, s)
  BY <1>3, <1>5, <1>6 DEF Rests, At
<1>11. Keeps(m, n)
  BY <1>1, <1>5, <1>9, <1>10, RestsKeeps DEF Calm, Good
<1> QED
  BY <1>8, <1>9, <1>11

(* All blocks, up to the first one whose counter does not become zero. *)
LEMMA AppliedStep ==
  ASSUME NEW m, NEW H, Good(m, H), Exact(m), NEW s \in Store, On(m, s)
  PROVE  Step(m, Applied(m, s).m, s, H) /\ Keeps(m, Applied(m, s).m)
<1> DEFINE N == Len(m.store[s].blocks)
           x == [m |-> m, ok |-> TRUE]
           X == [m : Later(m, s, H), ok : BOOLEAN]
           next(n, k) == [m |-> n, ok |-> ~Claims(n, s, k)]
           T(d, k) == IF ~d.ok THEN d ELSE next(AppliedTo(d.m, s, k), k)
           F == [k \in 1 .. N |-> [d \in X |-> T(d, k)]]
           Def(r) == [k \in 0 .. N |-> IF k = 0 THEN x ELSE T(r[k - 1], k)]
           done == CHOOSE r : r = Def(r)
<1>1. N \in Nat /\ m \in Memory
  BY StoreFields DEF Good, Tab
<1>2. x \in X
  BY StepRefl
<1>3. ASSUME NEW d \in X, NEW k \in 1 .. N PROVE T(d, k) \in X
  <2>1. d.m \in Later(m, s, H) /\ d.ok \in BOOLEAN
    OBVIOUS
  <2>2. Good(d.m, H) /\ Exact(d.m) /\ On(d.m, s) /\ Len(Tab(d.m, s)) = Len(Tab(m, s))
    BY <2>1, LaterFields
  <2>3. k \in DOMAIN Tab(d.m, s)
    BY <2>2, StoreFields DEF Good, Tab
  <2>4. AppliedTo(d.m, s, k) \in Later(m, s, H)
    BY <2>1, <2>2, <2>3, AppliedToStep, LaterStep
  <2>5. next(AppliedTo(d.m, s, k), k) \in X
    BY <2>4
  <2> QED
    BY <2>5
<1> HIDE DEF x, N
<1>4. F \in [1 .. N -> [X -> X]]
  <2> HIDE DEF T, X
  <2> QED
    BY <1>3
<1>5. PICK g : IteratesFrom(g, N, X, x, F)
  <2> HIDE DEF F, X
  <2> QED
    BY <1>1, <1>2, <1>4, Iteration
<1> HIDE DEF X, T
<1>6. g \in [0 .. N -> X] /\ g[0] = x /\ \A i \in 1 .. N : g[i] = F[i][g[i - 1]]
  BY <1>5 DEF IteratesFrom
<1>7. ASSUME NEW i \in 1 .. N PROVE g[i] = T(g[i - 1], i)
  <2>1. g[i - 1] \in X
    BY <1>1, <1>6
  <2>2. F[i][g[i - 1]] = T(g[i - 1], i)
    BY <2>1, Zenon
  <2> QED
    BY <1>6, <2>2
<1> HIDE DEF F
<1>8. \A i \in 0 .. N : g[i] = IF i = 0 THEN x ELSE T(g[i - 1], i)
  <2>1. \A i \in 0 .. N : i = 0 \/ i \in 1 .. N
    BY <1>1
  <2> QED
    BY <2>1, <1>6, <1>7
<1>9. \E r : r = Def(r)
  BY <1>6, <1>8
<1>10. done = Def(done)
  <2> HIDE DEF Def
  <2> QED
    BY <1>9, Zenon
<1> HIDE DEF done
<1> DEFINE S == {i \in 0 .. N : done[i] \in X}
<1>11. 0 \in S
  BY <1>1, <1>2, <1>10
<1>12. ASSUME NEW i \in 0 .. N - 1, i \in S PROVE i + 1 \in S
  <2>1. i + 1 \in 1 .. N /\ i + 1 \in 0 .. N /\ (i + 1) - 1 = i /\ i + 1 # 0
    BY <1>1
  <2>2. done[i + 1] = Def(done)[i + 1]
    BY <1>10
  <2>3. Def(done)[i + 1] = T(done[(i + 1) - 1], i + 1)
    BY <2>1
  <2>4. done[i + 1] = T(done[i], i + 1)
    BY <2>1, <2>2, <2>3
  <2>5. done[i] \in X
    BY <1>12
  <2> QED
    BY <2>1, <2>4, <2>5, <1>3
<1>13. done[N] \in X
  <2> HIDE DEF S
  <2>1. 0 .. N \subseteq S
    BY <1>1, <1>11, <1>12, SetInduction
  <2>2. N \in S
    BY <2>1, <1>1
  <2> QED
    BY <2>2 DEF S
<1>14. Applied(m, s) =
         IF ~m.store[s].tab THEN x
         ELSE IF done[N].ok THEN [done[N] EXCEPT !.m.store[s].tab = FALSE] ELSE done[N]
  BY Zenon DEF Applied, done, Def, T, x, N
<1>15. PICK d : d = done[N]
  OBVIOUS
<1>16. d \in X /\ d.m \in Later(m, s, H)
  BY <1>13, <1>15 DEF X
<1>17. /\ Step(m, d.m, s, H) /\ Good(d.m, H) /\ Exact(d.m) /\ On(d.m, s) /\ Keeps(m, d.m)
  BY <1>16, LaterFields
<1>18. [d EXCEPT !.m.store[s].tab = FALSE].m = [d.m EXCEPT !.store[s].tab = FALSE]
  BY <1>16 DEF X
<1>19. Step(m, [d.m EXCEPT !.store[s].tab = FALSE], s, H) /\ Keeps(m, [d.m EXCEPT !.store[s].tab = FALSE])
  <2>1. PICK n : n = [d.m EXCEPT !.store[s].tab = FALSE]
    OBVIOUS
  <2>2. Step(d.m, n, s, H) /\ Keeps(d.m, n)
    BY <1>17, <2>1, TabDropped
  <2>3. Step(m, n, s, H)
    BY <1>17, <2>2, StepTrans
  <2>4. Keeps(m, n)
    BY <1>17, <2>2 DEF Keeps
  <2> QED
    BY <2>1, <2>3, <2>4
<1>20. x.m = m
  BY DEF x
<1>21. Step(m, m, s, H) /\ Keeps(m, m)
  BY StepRefl
<1>22. Applied(m, s).m \in {m, d.m, [d.m EXCEPT !.store[s].tab = FALSE]}
  BY <1>14, <1>15, <1>18, <1>20
<1> QED
  BY <1>17, <1>19, <1>21, <1>22

(***************************************************************************)
(* cesk_frame_gc.                                                          *)
(***************************************************************************)
LEMMA DetachStep ==
  ASSUME NEW m, NEW H, Good(m, H), Exact(m), NEW s \in Store, On(m, s), NEW a, NEW R
  PROVE  Step(m, Detach(m, s, a, R), s, H) /\ Keeps(m, Detach(m, s, a, R))
<1>1. CASE a \in R \/ ~Alive(m, s, a)
  BY <1>1, StepRefl DEF Detach
<1>2. CASE ~ (a \in R \/ ~Alive(m, s, a))
  <2>1. PICK n : n = Attached(m, s, a, NoVal)
    OBVIOUS
  <2>2. Has(m, s, a)
    BY <1>2 DEF Alive
  <2>3. /\ Step(m, n, s, H) /\ SlotOf(n, s, a).value = NoVal /\ Mine(n, s, BlockOf(n, s, a))
        /\ Keeps(m, n)
    BY <2>1, <2>2, AttachedStep
  <2>4. Good(n, H) /\ Exact(n) /\ On(n, s) /\ Has(n, s, a) /\ n \in Memory /\ Tables(n)
    BY <2>2, <2>3 DEF Step, Good
  <2>5. PICK l : l = [SlotOf(n, s, a) EXCEPT !.refcnt = 0]
    OBVIOUS
  <2>6. SlotOf(n, s, a) \in Slot
    BY <2>4, HasFields
  <2>7. l \in Slot /\ l.value = SlotOf(n, s, a).value /\ l.param = SlotOf(n, s, a).param
    BY <2>5, <2>6 DEF Slot
  <2>8. Calm(n, WithSlot(n, s, a, l), s, H)
    BY <2>3, <2>4, <2>7, SlotCalm
  <2>9. Step(n, WithSlot(n, s, a, l), s, H)
    BY <2>4, <2>8, CalmStep
  <2>10. Detach(m, s, a, R) = WithSlot(n, s, a, l)
    BY <2>1, <2>5, <1>2 DEF Detach
  <2>11. Keeps(n, WithSlot(n, s, a, l))
    BY <2>3, <2>4, <2>7, <2>8, SlotKeeps DEF Calm
  <2>12. Keeps(m, WithSlot(n, s, a, l))
    BY <2>3, <2>11 DEF Keeps
  <2> QED
    BY <2>3, <2>9, <2>10, <2>12, StepTrans
<1> QED
  BY <1>1, <1>2

(* Detaching one address after another. *)
LEMMA SweptStep ==
  ASSUME NEW m, NEW H, Good(m, H), Exact(m), NEW s \in Store, On(m, s), NEW r
  PROVE  \E n : Step(m, n, s, H) /\ Keeps(m, n) /\ Collected(m, s, r) = Compacted(n, s)
<1> DEFINE R == Reach(m, s, r)
           N == Len(m.store[s].blocks) * NSlots
           X == Later(m, s, H)
           T(n, i) == Detach(n, s, i - 1, R)
           F == [i \in 1 .. N |-> [n \in X |-> T(n, i)]]
           Def(f) == [i \in 0 .. N |-> IF i = 0 THEN m ELSE T(f[i - 1], i)]
           swept == CHOOSE f : f = Def(f)
<1>1. N \in Nat
  <2>1. Len(m.store[s].blocks) \in Nat /\ NSlots \in Nat
    BY StoreFields, StoreAssumption DEF Good, Tab
  <2> QED
    BY <2>1
<1>2. m \in X
  BY StepRefl
<1>3. ASSUME NEW n \in X, NEW i PROVE T(n, i) \in X
  BY LaterFields, DetachStep, LaterStep
<1> HIDE DEF N, X, T
<1>4. F \in [1 .. N -> [X -> X]]
  BY <1>3
<1>5. PICK g : IteratesFrom(g, N, X, m, F)
  <2> HIDE DEF F
  <2> QED
    BY <1>1, <1>2, <1>4, Iteration
<1>6. g \in [0 .. N -> X] /\ g[0] = m /\ \A i \in 1 .. N : g[i] = F[i][g[i - 1]]
  BY <1>5 DEF IteratesFrom
<1>7. ASSUME NEW i \in 1 .. N PROVE g[i] = T(g[i - 1], i)
  <2>1. g[i - 1] \in X
    BY <1>1, <1>6
  <2>2. F[i][g[i - 1]] = T(g[i - 1], i)
    BY <2>1, Zenon
  <2> QED
    BY <1>6, <2>2
<1> HIDE DEF F
<1>8. \A i \in 0 .. N : g[i] = IF i = 0 THEN m ELSE T(g[i - 1], i)
  <2>1. \A i \in 0 .. N : i = 0 \/ i \in 1 .. N
    BY <1>1
  <2> QED
    BY <2>1, <1>6, <1>7
<1>9. \E f : f = Def(f)
  BY <1>6, <1>8
<1>10. swept = Def(swept)
  <2> HIDE DEF Def
  <2> QED
    BY <1>9, Zenon
<1> HIDE DEF swept
<1> DEFINE S == {i \in 0 .. N : swept[i] \in X}
<1>11. 0 \in S
  BY <1>1, <1>2, <1>10
<1>12. ASSUME NEW i \in 0 .. N - 1, i \in S PROVE i + 1 \in S
  <2>1. i + 1 \in 1 .. N /\ i + 1 \in 0 .. N /\ (i + 1) - 1 = i /\ i + 1 # 0
    BY <1>1
  <2>2. swept[i + 1] = Def(swept)[i + 1]
    BY <1>10
  <2>3. Def(swept)[i + 1] = T(swept[(i + 1) - 1], i + 1)
    BY <2>1
  <2>4. swept[i + 1] = T(swept[i], i + 1)
    BY <2>1, <2>2, <2>3
  <2>5. swept[i] \in X
    BY <1>12
  <2> QED
    BY <2>1, <2>4, <2>5, <1>3
<1>13. swept[N] \in X
  <2> HIDE DEF S
  <2>1. 0 .. N \subseteq S
    BY <1>1, <1>11, <1>12, SetInduction
  <2>2. N \in S
    BY <2>1, <1>1
  <2> QED
    BY <2>2 DEF S
<1>14. Collected(m, s, r) = Compacted(swept[N], s)
  BY Zenon DEF Collected, swept, Def, T, N
<1>15. Step(m, swept[N], s, H) /\ Keeps(m, swept[N])
  BY <1>13, LaterFields DEF X
<1> QED
  BY <1>14, <1>15

(***************************************************************************)
(* A store gives up blocks: cesk_store_compact_store and cesk_store_free.  *)
(***************************************************************************)
(* The blocks of C that no other store has, and their pointers to v *)
Gone(m, C) == {b \in C : m.block[b].refcnt = 1}
Lost(m, C, v) == {c \in Gone(m, C) \X Ofs : At(m, c[1], c[2]).value = v}

(* n is m after store s gave up the blocks C *)
Drops(m, n, s, C) ==
  /\ n \in Memory
  /\ \A t \in Store \ {s} : n.store[t] = m.store[t]
  /\ \A b \in C : b \in Block /\ s \in Users(m, b) /\ s \notin Users(n, b)
  /\ \A b \in Block \ C : n.block[b] = m.block[b] /\ (s \in Users(n, b) <=> s \in Users(m, b))
  /\ \A b \in C : n.block[b] = IF m.block[b].refcnt = 1 THEN NewBlock ELSE [m.block[b] EXCEPT !.refcnt = @ - 1]
  /\ \A v \in Val : n.value[v] = Unref(m.value[v], Cardinality(Lost(m, C, v)))

(* The lost pointers are counted. *)
LEMMA LostCounted ==
  ASSUME NEW m, NEW H, Good(m, H), NEW C \in SUBSET Block, NEW v \in Val
  PROVE  /\ Cardinality(Lost(m, C, v)) \in Nat
         /\ Unref(m.value[v], Cardinality(Lost(m, C, v))) \in Value
         /\ Unref(m.value[v], Cardinality(Lost(m, C, v))).refcnt = m.value[v].refcnt - Cardinality(Lost(m, C, v))
         /\ Unref(m.value[v], Cardinality(Lost(m, C, v))).write_count \in {m.value[v].write_count, 0}
         /\ Cardinality(Pointers(m, v) \ Lost(m, C, v)) = Cardinality(Pointers(m, v)) - Cardinality(Lost(m, C, v))
         /\ (\E c \in Pointers(m, v) : c \notin Lost(m, C, v)) =>
              Unref(m.value[v], Cardinality(Lost(m, C, v))).content = m.value[v].content
<1>1. m \in Memory /\ ValuesCounted(m, H) /\ Buffers(H)
  BY DEF Good
<1>2. PICK P, L : P = Pointers(m, v) /\ L = Lost(m, C, v)
  OBVIOUS
<1>3. L \subseteq P
  BY <1>2 DEF Pointers, Lost, Gone
<1>4. IsFiniteSet(P) /\ Cardinality(P) \in Nat /\ Cardinality(Records(H, v)) \in Nat
  BY <1>1, <1>2, Sizes
<1>5. IsFiniteSet(L) /\ Cardinality(L) \in Nat /\ Cardinality(L) <= Cardinality(P)
  BY <1>3, <1>4, FS_Subset, FS_CardinalityType
<1>6. m.value[v].refcnt = Cardinality(P) + Cardinality(Records(H, v))
  BY <1>1, <1>2 DEF ValuesCounted
<1>7. Cardinality(P \ L) = Cardinality(P) - Cardinality(L)
  <2>1. IsFiniteSet(P \ L) /\ P = L \cup (P \ L) /\ L \cap (P \ L) = {}
    BY <1>3, <1>4, FS_Subset
  <2>2. Cardinality(P) = Cardinality(L) + Cardinality(P \ L) /\ Cardinality(P \ L) \in Nat
    BY <2>1, <1>5, Parts
  <2> QED
    BY <2>2, <1>4, <1>5
<1>8. m.value[v] \in Value
  BY <1>1, ValueFields
<1>9. PICK x : x = Cardinality(L)
  OBVIOUS
<1>10. x \in Nat /\ x <= m.value[v].refcnt
  BY <1>4, <1>5, <1>6, <1>9
<1>11. /\ Unref(m.value[v], x) \in Value /\ Unref(m.value[v], x).refcnt = m.value[v].refcnt - x
       /\ Unref(m.value[v], x).write_count \in {m.value[v].write_count, 0}
       /\ x < m.value[v].refcnt => Unref(m.value[v], x).content = m.value[v].content
  BY <1>8, <1>10, UnrefIs
<1>12. ASSUME NEW c \in P, c \notin L PROVE x < m.value[v].refcnt
  <2>1. Cardinality(P \ L) # 0
    <3>1. IsFiniteSet(P \ L) /\ P \ L # {}
      BY <1>4, <1>12, FS_Subset
    <3> QED
      BY <3>1, FS_EmptySet
  <2>2. Cardinality(P \ L) \in Nat
    BY <1>4, <1>5, <1>7
  <2> QED
    BY <2>1, <2>2, <1>4, <1>5, <1>6, <1>7, <1>9
<1> QED
  BY <1>2, <1>7, <1>9, <1>10, <1>11, <1>12

LEMMA DropsGood ==
  ASSUME NEW m, NEW H, Good(m, H), Exact(m), NEW s \in Store, On(m, s), NEW n, NEW C, Drops(m, n, s, C),
         On(n, s) => /\ Len(Tab(n, s)) <= MaxBlocks
                     /\ \A j, k \in DOMAIN Tab(n, s) : Tab(n, s)[j] = Tab(n, s)[k] => j = k
  PROVE  /\ Good(n, H) /\ Same(m, n, s)
         /\ \A b \in Block : n.block[b].num_ent = Cardinality(Filled(n, b))
         /\ \A b \in Block : Covered(m, n, s, b)
         /\ \A v \in Val : n.value[v].write_count \in {m.value[v].write_count, 0}
<1>1. /\ m \in Memory /\ Tables(m) /\ BlocksCounted(m) /\ FreeEmpty(m) /\ InUse(m)
      /\ ValuesCounted(m, H) /\ Buffers(H)
  BY DEF Good
<1>2. /\ n \in Memory /\ C \in SUBSET Block
      /\ \A t \in Store \ {s} : n.store[t] = m.store[t]
      /\ \A b \in Block \ C : n.block[b] = m.block[b] /\ (s \in Users(n, b) <=> s \in Users(m, b))
      /\ \A v \in Val : n.value[v] = Unref(m.value[v], Cardinality(Lost(m, C, v)))
  BY DEF Drops
<1>3. \A b \in C : /\ s \in Users(m, b) /\ s \notin Users(n, b)
                   /\ m.block[b].refcnt = 1 => n.block[b] = NewBlock
                   /\ m.block[b].refcnt # 1 => n.block[b] = [m.block[b] EXCEPT !.refcnt = @ - 1]
  BY DEF Drops
<1>4. Tables(n)
  <2>1. ASSUME NEW t \in Store, On(n, t), t # s
        PROVE  /\ Len(Tab(n, t)) <= MaxBlocks
               /\ \A j, k \in DOMAIN Tab(n, t) : Tab(n, t)[j] = Tab(n, t)[k] => j = k
    <3>1. On(m, t) /\ Tab(n, t) = Tab(m, t)
      BY <2>1, <1>2 DEF On, Tab
    <3> QED
      BY <3>1, <1>1 DEF Tables
  <2> QED
    BY <2>1 DEF Tables
<1>5. \A b \in Block, t \in Store \ {s} : t \in Users(n, b) <=> t \in Users(m, b)
  BY <1>2 DEF Users, On, Tab
<1>6. ASSUME NEW b \in C, m.block[b].refcnt # 1
      PROVE  /\ n.block[b].refcnt = m.block[b].refcnt - 1 /\ n.block[b].slots = m.block[b].slots
             /\ n.block[b].num_ent = m.block[b].num_ent /\ n.block[b].num_reloc = m.block[b].num_reloc
  <2>1. m.block[b] \in StoreCell
    BY <1>1, <1>2, BlockFields
  <2>2. n.block[b] = [m.block[b] EXCEPT !.refcnt = @ - 1]
    BY <1>3, <1>6
  <2> QED
    BY <2>1, <2>2 DEF StoreCell
<1>7. /\ NewBlock.refcnt = 0 /\ NewBlock.num_ent = 0 /\ NewBlock.num_reloc = 0
      /\ \A o \in Ofs : NewBlock.slots[o].value = NoVal
  BY DEF NewBlock, NewSlot
<1>8. BlocksCounted(n)
  <2> SUFFICES ASSUME NEW b \in Block PROVE n.block[b].refcnt = Cardinality(Users(n, b))
    BY DEF BlocksCounted
  <2>1. m.block[b].refcnt = Cardinality(Users(m, b)) /\ IsFiniteSet(Users(m, b)) /\ Cardinality(Users(m, b)) \in Nat
    BY <1>1, UserCounts DEF BlocksCounted
  <2>2. CASE b \notin C
    <3>1. Users(n, b) = Users(m, b)
      BY <2>2, <1>2, <1>5 DEF Users
    <3> QED
      BY <2>1, <2>2, <3>1, <1>2
  <2>3. CASE b \in C
    <3>1. Users(n, b) = Users(m, b) \ {s} /\ s \in Users(m, b)
      <4>1. Users(n, b) \subseteq Store /\ Users(m, b) \subseteq Store
        BY DEF Users
      <4>2. s \in Users(m, b) /\ s \notin Users(n, b)
        BY <2>3, <1>3
      <4> QED
        BY <4>1, <4>2, <1>5
    <3>2. Cardinality(Users(n, b)) = Cardinality(Users(m, b)) - 1
      BY <2>1, <3>1, FS_RemoveElement
    <3>3. CASE m.block[b].refcnt = 1
      <4>1. n.block[b] = NewBlock
        BY <2>3, <3>3, <1>3
      <4> QED
        BY <2>1, <3>2, <3>3, <4>1, <1>7
    <3>4. CASE m.block[b].refcnt # 1
      BY <2>1, <2>3, <3>2, <3>4, <1>6
    <3> QED
      BY <3>3, <3>4
  <2> QED
    BY <2>2, <2>3
<1>9. ASSUME NEW b \in Block, NEW o \in Ofs
      PROVE  IF b \in Gone(m, C) THEN At(n, b, o).value = NoVal ELSE At(n, b, o) = At(m, b, o)
  BY <1>2, <1>3, <1>6, <1>7 DEF At, Gone
<1>10. FreeEmpty(n)
  <2> SUFFICES ASSUME NEW b \in Block, n.block[b].refcnt = 0, NEW o \in Ofs PROVE At(n, b, o).value = NoVal
    BY DEF FreeEmpty
  <2>1. CASE b \in Gone(m, C)
    BY <2>1, <1>9
  <2>2. CASE b \notin Gone(m, C)
    <3>1. m.block[b].refcnt = 0
      <4>1. CASE b \notin C
        BY <4>1, <1>2
      <4>2. CASE b \in C
        <5>1. m.block[b].refcnt # 1 /\ m.block[b].refcnt \in Nat
          BY <2>2, <4>2, <1>1, <1>2, BlockFields DEF Gone
        <5>2. n.block[b].refcnt = m.block[b].refcnt - 1
          BY <4>2, <5>1, <1>6
        <5> QED
          BY <5>1, <5>2
      <4> QED
        BY <4>1, <4>2
    <3> QED
      BY <2>2, <3>1, <1>1, <1>9 DEF FreeEmpty
  <2> QED
    BY <2>1, <2>2
<1>11. InUse(n)
  <2>1. \A b \in Block, o \in Ofs : At(n, b, o).value # NoVal => At(n, b, o) = At(m, b, o)
    BY <1>9
  <2> QED
    BY <2>1, <1>1 DEF InUse
<1>12. ASSUME NEW v \in Val PROVE Pointers(n, v) = Pointers(m, v) \ Lost(m, C, v)
  <2>1. v # NoVal
    BY StoreAssumption
  <2>2. ASSUME NEW c \in Block \X Ofs
        PROVE  At(n, c[1], c[2]).value = v <=> At(m, c[1], c[2]).value = v /\ c \notin Lost(m, C, v)
    <3>1. c \in Lost(m, C, v) <=> c[1] \in Gone(m, C) /\ At(m, c[1], c[2]).value = v
      BY DEF Lost
    <3> QED
      BY <2>1, <3>1, <1>9
  <2> QED
    BY <2>2 DEF Pointers
<1>13. ValuesCounted(n, H)
  <2> SUFFICES ASSUME NEW v \in Val
               PROVE  n.value[v].refcnt = Cardinality(Pointers(n, v)) + Cardinality(Records(H, v))
    BY DEF ValuesCounted
  <2>1. PICK x : x = Cardinality(Lost(m, C, v))
    OBVIOUS
  <2>2. /\ x \in Nat /\ n.value[v].refcnt = m.value[v].refcnt - x
        /\ Cardinality(Pointers(n, v)) = Cardinality(Pointers(m, v)) - x
    <3>1. /\ x \in Nat /\ Unref(m.value[v], x).refcnt = m.value[v].refcnt - x
          /\ Cardinality(Pointers(m, v) \ Lost(m, C, v)) = Cardinality(Pointers(m, v)) - x
      BY <2>1, <1>2, LostCounted
    <3> QED
      BY <2>1, <3>1, <1>2, <1>12
  <2>3. m.value[v].refcnt = Cardinality(Pointers(m, v)) + Cardinality(Records(H, v))
    BY <1>1 DEF ValuesCounted
  <2>4. Cardinality(Pointers(m, v)) \in Nat /\ Cardinality(Records(H, v)) \in Nat
    BY <1>1, Sizes
  <2> QED
    BY <2>2, <2>3, <2>4
<1>14. Good(n, H)
  BY <1>1, <1>2, <1>4, <1>8, <1>10, <1>11, <1>13 DEF Good
<1>15. ASSUME NEW t \in Store \ {s}, On(m, t), NEW k \in DOMAIN Tab(m, t), NEW o \in Ofs
       PROVE  LET b == Tab(m, t)[k]
                  v == At(m, b, o).value
              IN  /\ At(n, b, o).value = v
                  /\ v # NoVal => /\ At(n, b, o).refcnt = At(m, b, o).refcnt
                                  /\ At(n, b, o).reuse = At(m, b, o).reuse
                                  /\ n.value[v].content = m.value[v].content
  <2>1. PICK b, v : b = Tab(m, t)[k] /\ v = At(m, b, o).value
    OBVIOUS
  <2>2. b \in Block
    BY <2>1, <1>1, <1>15, StoreFields
  <2>3. b \notin Gone(m, C)
    <3>1. SUFFICES ASSUME b \in C, m.block[b].refcnt = 1 PROVE FALSE
      BY DEF Gone
    <3>2. b \in Range(Tab(m, s))
      BY <3>1, <1>3 DEF Users
    <3>3. PICK j \in DOMAIN Tab(m, s) : Tab(m, s)[j] = b
      BY <3>2 DEF Range
    <3>4. t = s
      BY <2>1, <3>1, <3>3, <1>1, <1>15, SoleUser
    <3> QED
      BY <3>4
  <2>4. At(n, b, o) = At(m, b, o)
    BY <2>2, <2>3, <1>9
  <2>5. ASSUME v # NoVal PROVE n.value[v].content = m.value[v].content
    <3>1. v \in Val
      BY <2>1, <2>2, <2>5, <1>1, BlockFields
    <3>2. <<b, o>> \in Pointers(m, v) /\ <<b, o>> \notin Lost(m, C, v)
      BY <2>1, <2>2, <2>3 DEF Pointers, Lost
    <3>3. Unref(m.value[v], Cardinality(Lost(m, C, v))).content = m.value[v].content
      BY <3>1, <3>2, <1>2, LostCounted
    <3> QED
      BY <3>1, <3>3, <1>2
  <2> QED
    BY <2>1, <2>4, <2>5
<1>16. Same(m, n, s)
  BY <1>1, <1>2, <1>15, SameIntro
<1>17. ASSUME NEW b \in Block PROVE n.block[b].num_ent = Cardinality(Filled(n, b))
  <2>1. m.block[b].num_ent = Cardinality(Filled(m, b))
    <3>1. m.block[b].num_ent = Cardinality(Filled(m, b)) + Ahead(b, b, 0) /\ Cardinality(Filled(m, b)) \in Nat
      BY <1>1, Sizes DEF Exact, Counters
    <3> QED
      BY <3>1 DEF Ahead
  <2>2. CASE b \in Gone(m, C)
    <3>1. Filled(n, b) = {}
      BY <2>2, <1>9 DEF Filled
    <3>2. n.block[b] = NewBlock
      BY <2>2, <1>3 DEF Gone
    <3> QED
      BY <3>1, <3>2, <1>7, FS_EmptySet
  <2>3. CASE b \notin Gone(m, C)
    <3>1. Filled(n, b) = Filled(m, b)
      BY <2>3, <1>9 DEF Filled
    <3>2. n.block[b].num_ent = m.block[b].num_ent
      BY <2>3, <1>2, <1>6 DEF Gone
    <3> QED
      BY <2>1, <3>1, <3>2
  <2> QED
    BY <2>2, <2>3
<1>18. ASSUME NEW b \in Block PROVE Covered(m, n, s, b)
  <2>1. CASE b \in Gone(m, C)
    <3>1. Relocated(n, b) = {}
      BY <2>1, <1>9 DEF Relocated, Filled
    <3>2. n.block[b].num_reloc = 0
      BY <2>1, <1>3, <1>7 DEF Gone
    <3> QED
      BY <3>1, <3>2 DEF Covered
  <2>2. CASE b \notin Gone(m, C)
    <3>1. n.block[b].num_reloc = m.block[b].num_reloc
      BY <2>2, <1>2, <1>6 DEF Gone
    <3>2. ASSUME NEW o \in Relocated(n, b) PROVE o \in Relocated(m, b)
      <4>1. PICK v : v = At(m, b, o).value
        OBVIOUS
      <4>2. o \in Ofs /\ At(n, b, o).value = v /\ v # NoVal /\ IsReloc(n.value[v].content)
        BY <4>1, <2>2, <1>9 DEF Relocated, Filled
      <4>3. v \in Val
        BY <4>1, <4>2, <1>1, BlockFields
      <4>4. <<b, o>> \in Pointers(m, v) /\ <<b, o>> \notin Lost(m, C, v)
        BY <4>1, <4>2, <2>2 DEF Pointers, Lost
      <4>5. Unref(m.value[v], Cardinality(Lost(m, C, v))).content = m.value[v].content
        BY <4>3, <4>4, <1>2, LostCounted
      <4>6. n.value[v].content = m.value[v].content
        BY <4>3, <4>5, <1>2
      <4> QED
        BY <4>1, <4>2, <4>6 DEF Relocated, Filled
    <3> QED
      BY <3>1, <3>2 DEF Covered
  <2> QED
    BY <2>1, <2>2
<1>19. ASSUME NEW v \in Val PROVE n.value[v].write_count \in {m.value[v].write_count, 0}
  BY <1>2, LostCounted
<1> QED
  BY <1>14, <1>16, <1>17, <1>18, <1>19

(* The books after a step that gives up or gets blocks. *)
LEMMA TidyTurn ==
  ASSUME NEW m \in Memory, NEW n \in Memory, NEW s \in Store, Same(m, n, s), Tidy(m),
         \A v \in Val : n.value[v].write_count \in {m.value[v].write_count, 0},
         \A b \in Block : Covered(m, n, s, b), On(n, s) => Hashed(n, s, {})
  PROVE  Tidy(n)
<1>1. Idle(n, {})
  BY DEF Tidy, Idle
<1>2. Claimed(n, {})
  <2>1. \A b \in Block : Cardinality(Outside(n, b, {})) <= n.block[b].num_reloc
    BY CoveredClaimed DEF Tidy
  <2> QED
    BY <2>1 DEF Claimed
<1>3. ASSUME NEW t \in Store, On(n, t) PROVE Hashed(n, t, {})
  <2>1. CASE t # s
    <3>1. On(m, t)
      BY <2>1, <1>3 DEF Same, On
    <3> QED
      BY <2>1, <3>1, SameHashed DEF Tidy
  <2> QED
    BY <2>1, <1>3
<1> QED
  BY <1>1, <1>2, <1>3 DEF Tidy

(* A step that at most the frame of s sees *)
Turn(m, n, s, H) == Good(n, H) /\ Exact(n) /\ Same(m, n, s) /\ Keeps(m, n)

LEMMA StepTurn ==
  ASSUME NEW m, NEW n, NEW p, NEW s, NEW H, NEW J, Step(m, n, s, H), Keeps(m, n), Turn(n, p, s, J)
  PROVE  Turn(m, p, s, J)
<1>1. Same(m, p, s)
  BY SameTrans DEF Step, Turn
<1> QED
  BY <1>1 DEF Turn, Keeps

(* The counters of the other stores stay exact. *)
LEMMA ExactAfter ==
  ASSUME NEW m, NEW n, NEW s \in Store, Exact(m), Same(m, n, s), NEW H, Buffers(H),
         \A b \in Block : n.block[b].num_ent = Cardinality(Filled(n, b)),
         On(n, s) => n.store[s].num_ent = Cardinality(Living(n, s))
  PROVE  Exact(n)
<1>1. \A b \in Block : n.block[b].num_ent = Cardinality(Filled(n, b)) + Ahead(b, s, 0)
  <2>1. \A b \in Block : Cardinality(Filled(n, b)) \in Nat
    BY Sizes
  <2> QED
    BY <2>1 DEF Ahead
<1>2. ASSUME NEW t \in Store, On(n, t) PROVE n.store[t].num_ent = Cardinality(Living(n, t))
  <2>1. CASE t = s
    BY <2>1, <1>2
  <2>2. CASE t # s
    <3>1. n.store[t] = m.store[t] /\ On(m, t)
      BY <2>2, <1>2 DEF Same, On
    <3>2. Living(n, t) = Living(m, t)
      BY <2>2, <3>1, SameLiving
    <3>3. m.store[t].num_ent = Cardinality(Living(m, t)) + Ahead(t, s, 0) /\ Cardinality(Living(m, t)) \in Nat
      BY <3>1, Sizes DEF Exact, Counters
    <3> QED
      BY <3>1, <3>2, <3>3 DEF Ahead
  <2> QED
    BY <2>1, <2>2
<1>3. Counters(n, s, s, 0)
  <2>1. \A t \in Store : Cardinality(Living(n, t)) \in Nat
    BY Sizes
  <2>2. \A t \in Store : On(n, t) => n.store[t].num_ent = Cardinality(Living(n, t)) + Ahead(t, s, 0)
    BY <1>2, <2>1 DEF Ahead
  <2> QED
    BY <1>1, <2>2 DEF Counters
<1> QED
  BY <1>3, ExactIs

(* A block with one user less *)
LEMMA CellLess ==
  ASSUME NEW m \in Memory, NEW b \in Block, m.block[b].refcnt > 0
  PROVE  NewBlock \in StoreCell /\ [m.block[b] EXCEPT !.refcnt = @ - 1] \in StoreCell
<1>1. NewBlock \in StoreCell
  BY DEF NewBlock, NewSlot, StoreCell, Slot
<1>2. m.block[b] \in StoreCell /\ m.block[b].refcnt - 1 \in Nat
  BY BlockFields
<1>3. [m.block[b] EXCEPT !.refcnt = @ - 1] \in StoreCell
  BY <1>2 DEF StoreCell
<1> QED
  BY <1>1, <1>3

(* The members of a table, as users of blocks. *)
LEMMA TabUsers ==
  ASSUME NEW m \in Memory, NEW s \in Store, NEW b, On(m, s)
  PROVE  s \in Users(m, b) <=> \E k \in DOMAIN Tab(m, s) : Tab(m, s)[k] = b
BY DEF Users, Range

(* cesk_store_free *)
LEMMA FreedTurn ==
  ASSUME NEW m, NEW H, Good(m, H), Exact(m), NEW s \in Store, On(m, s), NEW n, n = Freed(m, s)
  PROVE  Turn(m, n, s, H) /\ ~On(n, s)
<1>1. m \in Memory /\ BlocksCounted(m) /\ Buffers(H)
  BY DEF Good
<1>2. PICK C : C = Range(Tab(m, s))
  OBVIOUS
<1>3. C \in SUBSET Block /\ \A b \in C : \E k \in DOMAIN Tab(m, s) : Tab(m, s)[k] = b
  BY <1>1, <1>2, StoreFields DEF Range
<1>4. \A b \in C : s \in Users(m, b) /\ m.block[b].refcnt > 0
  BY <1>1, <1>3, UserCounts DEF Users, Range
<1> DEFINE BB == [b \in Block |-> IF b \in Gone(m, C) THEN NewBlock
                     ELSE IF b \in C THEN [m.block[b] EXCEPT !.refcnt = @ - 1] ELSE m.block[b]]
           VV == [v \in Val |-> Unref(m.value[v], Cardinality(Lost(m, C, v)))]
<1>5. n = [m EXCEPT !.store[s] = NoStore, !.block = BB, !.value = VV]
  BY <1>2, Zenon DEF Freed, Gone, Lost, At, Tab
<1>6. BB \in [Block -> StoreCell]
  <2>1. \A b \in Block : m.block[b] \in StoreCell
    BY <1>1, BlockFields
  <2>2. \A b \in C : NewBlock \in StoreCell /\ [m.block[b] EXCEPT !.refcnt = @ - 1] \in StoreCell
    BY <1>1, <1>3, <1>4, CellLess
  <2> QED
    BY <2>1, <2>2 DEF Gone
<1>7. VV \in [Val -> Value]
  <2>1. \A v \in Val : Unref(m.value[v], Cardinality(Lost(m, C, v))) \in Value
    BY <1>3, LostCounted
  <2> QED
    BY <2>1
<1>8. \A b \in C : BB[b] = IF m.block[b].refcnt = 1 THEN NewBlock ELSE [m.block[b] EXCEPT !.refcnt = @ - 1]
  BY <1>3 DEF Gone
<1>9. \A b \in Block \ C : BB[b] = m.block[b]
  BY DEF Gone
<1>10. \A v \in Val : VV[v] = Unref(m.value[v], Cardinality(Lost(m, C, v)))
  OBVIOUS
<1> HIDE DEF BB, VV
<1>11. /\ n \in Memory /\ n.block = BB /\ n.value = VV /\ ~On(n, s)
       /\ \A t \in Store \ {s} : n.store[t] = m.store[t]
  BY <1>1, <1>5, <1>6, <1>7 DEF Memory, On
<1>12. Drops(m, n, s, C)
  <2>1. \A b : s \notin Users(n, b)
    BY <1>11 DEF Users
  <2>2. \A b \in Block \ C : s \notin Users(m, b)
    BY <1>2 DEF Users
  <2> QED
    BY <2>1, <2>2, <1>3, <1>4, <1>8, <1>9, <1>10, <1>11 DEF Drops
<1>13. Good(n, H) /\ Same(m, n, s) /\ \A b \in Block : n.block[b].num_ent = Cardinality(Filled(n, b))
  BY <1>11, <1>12, DropsGood
<1>14. Exact(n)
  BY <1>1, <1>11, <1>13, ExactAfter
<1>15. Keeps(m, n)
  <2>1. /\ \A b \in Block : Covered(m, n, s, b)
        /\ \A v \in Val : n.value[v].write_count \in {m.value[v].write_count, 0}
    BY <1>11, <1>12, DropsGood
  <2> QED
    BY <2>1, <1>1, <1>11, <1>13, TidyTurn DEF Keeps
<1> QED
  BY <1>11, <1>13, <1>14, <1>15 DEF Turn

(* Every set of numbers up to N that has a member has a greatest one. *)
LEMMA MaxIs ==
  ASSUME NEW N \in Nat, NEW S \in SUBSET (0 .. N), 0 \in S
  PROVE  Max(S) \in S /\ \A k \in S : k <= Max(S)
<1> DEFINE T == {N - k : k \in S}
<1>1. T \in SUBSET Nat /\ N - 0 \in T
  OBVIOUS
<1>2. PICK j \in T : \A k \in T : j <= k
  <2> HIDE DEF T
  <2> QED
    BY <1>1, LeastMember
<1>3. PICK x \in S : j = N - x
  OBVIOUS
<1>4. \A k \in S : x >= k
  <2> SUFFICES ASSUME NEW k \in S PROVE x >= k
    OBVIOUS
  <2>1. j <= N - k
    BY <1>2
  <2>2. x \in 0 .. N /\ k \in 0 .. N
    OBVIOUS
  <2> QED
    BY <2>1, <2>2, <1>3
<1>5. Max(S) \in S /\ \A k \in S : Max(S) >= k
  BY <1>4 DEF Max
<1> QED
  BY <1>5

(* cesk_store_compact_store: the blocks that go have no values. *)
LEMMA CompactedTurn ==
  ASSUME NEW m, NEW H, Good(m, H), Exact(m), NEW s \in Store, On(m, s), NEW n, n = Compacted(m, s)
  PROVE  Turn(m, n, s, H) /\ On(n, s)
<1>1. m \in Memory /\ BlocksCounted(m) /\ Buffers(H) /\ Tables(m) /\ m.store[s] \in Table
  BY StoreFields DEF Good
<1>2. PICK T, N : T = Tab(m, s) /\ N = Len(Tab(m, s))
  OBVIOUS
<1>3. T \in Seq(Block) /\ N \in Nat /\ DOMAIN T = 1 .. N /\ N <= MaxBlocks /\ N = Len(T)
  BY <1>1, <1>2, StoreFields DEF Tables
<1> DEFINE K == {0} \cup {k \in DOMAIN T : m.block[T[k]].num_ent # 0}
<1>4. PICK e : e = Max(K)
  OBVIOUS
<1>5. e \in 0 .. N /\ \A k \in 1 .. N : k > e => m.block[T[k]].num_ent = 0
  <2>1. K \in SUBSET (0 .. N) /\ 0 \in K
    BY <1>3
  <2>2. e \in K /\ \A k \in K : k <= e
    <3> HIDE DEF K
    <3> QED
      BY <2>1, <1>3, <1>4, MaxIs
  <2>3. e \in 0 .. N
    BY <2>1, <2>2
  <2>4. ASSUME NEW k \in 1 .. N, k > e PROVE m.block[T[k]].num_ent = 0
    <3>1. k \notin K
      BY <2>2, <2>3, <2>4
    <3> QED
      BY <3>1, <1>3
  <2> QED
    BY <2>3, <2>4
<1>6. PICK U : U = SubSeq(T, 1, e)
  OBVIOUS
<1>7. U \in Seq(Block) /\ Len(U) = e /\ DOMAIN U = 1 .. e /\ \A k \in 1 .. e : U[k] = T[k]
  BY <1>3, <1>5, <1>6
<1>8. PICK V : V = SubSeq(T, e + 1, N)
  OBVIOUS
<1>9. DOMAIN V = 1 .. N - e /\ \A k \in 1 .. N - e : V[k] = T[e + k]
  <2>1. /\ e + 1 \in 1 .. N + 1 /\ N \in Nat
    BY <1>3, <1>5
  <2>2. DOMAIN V = 1 .. N - e
    <3>1. DOMAIN V = 1 .. (N + 1) - (e + 1)
      BY <2>1, <1>3, <1>5, <1>8
    <3> QED
      BY <3>1, <1>3, <1>5
  <2>3. ASSUME NEW k \in 1 .. N - e PROVE V[k] = T[e + k]
    <3>1. V[k] = T[(e + 1) + k - 1]
      BY <2>1, <2>3, <1>3, <1>5, <1>8
    <3>2. (e + 1) + k - 1 = e + k
      BY <1>3, <1>5
    <3> QED
      BY <3>1, <3>2
  <2> QED
    BY <2>2, <2>3
<1>10. PICK C : C = Range(V)
  OBVIOUS
<1>11. \A b : b \in C <=> \E k \in 1 .. N : k > e /\ T[k] = b
  <2>1. ASSUME NEW b \in C PROVE \E k \in 1 .. N : k > e /\ T[k] = b
    <3>1. PICK k \in 1 .. N - e : V[k] = b
      BY <1>9, <1>10 DEF Range
    <3>2. e + k \in 1 .. N /\ e + k > e
      BY <1>3, <1>5
    <3> QED
      BY <3>1, <3>2, <1>9
  <2>2. ASSUME NEW k \in 1 .. N, k > e PROVE T[k] \in C
    <3>1. k - e \in 1 .. N - e /\ e + (k - e) = k
      BY <2>2, <1>3, <1>5
    <3>2. V[k - e] = T[k]
      BY <3>1, <1>9
    <3> QED
      BY <3>1, <3>2, <1>9, <1>10 DEF Range
  <2> QED
    BY <2>1, <2>2
<1>12. \A j, k \in 1 .. N : T[j] = T[k] => j = k
  BY <1>1, <1>2, <1>3 DEF Tables
<1>13. C \in SUBSET Block /\ \A b \in C : m.block[b].num_ent = 0 /\ m.block[b].refcnt > 0 /\ s \in Users(m, b)
  <2>1. ASSUME NEW b \in C PROVE b \in Block /\ m.block[b].num_ent = 0 /\ m.block[b].refcnt > 0 /\ s \in Users(m, b)
    <3>1. PICK k \in 1 .. N : k > e /\ T[k] = b
      BY <1>11
    <3>2. b \in Block
      BY <3>1, <1>3
    <3>3. s \in Users(m, b)
      BY <3>1, <1>1, <1>2, <1>3, TabUsers
    <3>4. m.block[b].refcnt > 0
      BY <3>1, <3>2, <1>1, <1>2, <1>3, UserCounts
    <3> QED
      BY <3>1, <3>2, <3>3, <3>4, <1>5
  <2> QED
    BY <2>1
<1>14. ASSUME NEW b \in C, NEW o \in Ofs PROVE At(m, b, o).value = NoVal
  <2>1. m.block[b].num_ent = Cardinality(Filled(m, b)) + Ahead(b, b, 0) /\ Cardinality(Filled(m, b)) \in Nat
        /\ IsFiniteSet(Filled(m, b))
    BY <1>1, <1>13, Sizes DEF Exact, Counters
  <2>2. Cardinality(Filled(m, b)) = 0
    BY <2>1, <1>13 DEF Ahead
  <2>3. Filled(m, b) = {}
    BY <2>1, <2>2, FS_EmptySet
  <2> QED
    BY <2>3 DEF Filled
<1> DEFINE BB == [b \in Block |-> IF b \notin C THEN m.block[b]
                     ELSE IF m.block[b].refcnt = 1 THEN NewBlock
                     ELSE [m.block[b] EXCEPT !.refcnt = @ - 1]]
<1>15. n = [m EXCEPT !.store[s].blocks = SubSeq(@, 1, e), !.block = BB]
  BY <1>2, <1>4, <1>8, <1>10, Zenon DEF Compacted, Tab
<1>16. BB \in [Block -> StoreCell]
  <2>1. \A b \in Block : m.block[b] \in StoreCell
    BY <1>1, BlockFields
  <2>2. \A b \in C : NewBlock \in StoreCell /\ [m.block[b] EXCEPT !.refcnt = @ - 1] \in StoreCell
    BY <1>1, <1>13, CellLess
  <2> QED
    BY <2>1, <2>2
<1>17. \A b \in C : BB[b] = IF m.block[b].refcnt = 1 THEN NewBlock ELSE [m.block[b] EXCEPT !.refcnt = @ - 1]
  BY <1>13
<1>18. \A b \in Block \ C : BB[b] = m.block[b]
  OBVIOUS
<1> HIDE DEF BB, K
<1>19. PICK x : x = [m.store[s] EXCEPT !.blocks = U]
  OBVIOUS
<1>20. x \in Table /\ x.blocks = U /\ x.num_ent = m.store[s].num_ent /\ x.hash = m.store[s].hash
  BY <1>1, <1>7, <1>19 DEF Table
<1>21. n = [WithStore(m, s, x) EXCEPT !.block = BB]
  <2>1. n = [m EXCEPT !.store[s] = x, !.block = BB]
    BY <1>1, <1>2, <1>6, <1>15, <1>19, Zenon DEF Tab
  <2> QED
    BY <2>1, Zenon DEF WithStore
<1>22. PICK y : y = WithStore(m, s, x)
  OBVIOUS
<1>23. /\ y \in Memory /\ y.value = m.value /\ On(y, s) /\ y.store[s] = x
       /\ \A t \in Store \ {s} : y.store[t] = m.store[t]
  BY <1>1, <1>20, <1>22, StoreChanged
<1>24. n \in Memory /\ n.store = y.store /\ n.value = y.value /\ n.block = BB
  BY <1>16, <1>21, <1>22, <1>23, BlocksChanged
<1>25. /\ On(n, s) /\ Tab(n, s) = U /\ n.value = m.value /\ n.store[s].num_ent = m.store[s].num_ent
       /\ \A t \in Store \ {s} : n.store[t] = m.store[t]
       /\ n.store[s].hash = m.store[s].hash
  BY <1>20, <1>23, <1>24 DEF On, Tab
<1>26. Drops(m, n, s, C)
  <2>1. \A b \in Block : s \in Users(n, b) <=> \E k \in 1 .. e : T[k] = b
    BY <1>7, <1>24, <1>25, TabUsers
  <2>2. \A b \in Block : s \in Users(m, b) <=> \E k \in 1 .. N : T[k] = b
    BY <1>1, <1>2, <1>3, TabUsers
  <2>3. \A k \in 1 .. e : k \in 1 .. N /\ ~ k > e
    BY <1>3, <1>5
  <2>4. \A k \in 1 .. N : ~ k > e => k \in 1 .. e
    BY <1>3, <1>5
  <2>5. \A b \in Block : b \in C => s \notin Users(n, b)
    BY <2>1, <2>3, <1>11, <1>12
  <2>6. \A b \in Block : b \notin C => (s \in Users(n, b) <=> s \in Users(m, b))
    BY <2>1, <2>2, <2>3, <2>4, <1>11
  <2>7. ASSUME NEW v \in Val PROVE n.value[v] = Unref(m.value[v], Cardinality(Lost(m, C, v)))
    <3>1. v # NoVal
      BY StoreAssumption
    <3>2. Lost(m, C, v) = {}
      BY <3>1, <1>14 DEF Lost, Gone
    <3>3. Cardinality(Lost(m, C, v)) = 0
      BY <3>2, FS_EmptySet
    <3>4. m.value[v] \in Value
      BY <1>1, ValueFields
    <3>5. Unref(m.value[v], 0) = m.value[v]
      BY <3>4 DEF Unref, Value
    <3> QED
      BY <3>3, <3>5, <1>25
  <2> QED
    BY <2>5, <2>6, <2>7, <1>13, <1>17, <1>18, <1>24, <1>25 DEF Drops
<1>27. /\ Good(n, H) /\ Same(m, n, s) /\ \A b \in Block : n.block[b].num_ent = Cardinality(Filled(n, b))
       /\ \A b \in Block : Covered(m, n, s, b)
  <2>1. Len(Tab(n, s)) <= MaxBlocks
    BY <1>3, <1>5, <1>7, <1>25, StoreAssumption
  <2>2. \A j, k \in DOMAIN Tab(n, s) : Tab(n, s)[j] = Tab(n, s)[k] => j = k
    <3>1. \A k \in 1 .. e : k \in 1 .. N
      BY <1>3, <1>5
    <3> QED
      BY <3>1, <1>7, <1>12, <1>25
  <2> QED
    BY <2>1, <2>2, <1>26, DropsGood
<1>28. Living(n, s) = Living(m, s) /\ \A a \in Living(m, s) : SlotOf(n, s, a) = SlotOf(m, s, a)
  <2> SUFFICES ASSUME NEW a \in Addr
               PROVE  /\ Alive(n, s, a) <=> Alive(m, s, a)
                      /\ Alive(m, s, a) => SlotOf(n, s, a) = SlotOf(m, s, a)
    BY DEF Living
  <2>1. PICK k, o : k = BlockNo(a) /\ o = a % NSlots
    OBVIOUS
  <2>2. k \in 1 .. MaxBlocks /\ o \in Ofs
    BY <2>1, AddrSplit
  <2>3. Has(m, s, a) <=> k <= N
    BY <2>1, <1>2 DEF Has, Tab
  <2>4. Has(n, s, a) <=> k <= e
    BY <2>1, <1>7, <1>25 DEF Has, Tab
  <2>5. k \in 1 .. e => k \in 1 .. N
    BY <1>3, <1>5
  <2>6. CASE k <= e
    <3>1. k \in 1 .. e /\ k \in 1 .. N /\ k <= N
      BY <2>2, <2>6, <1>3, <1>5
    <3>2. T[k] \in Block /\ T[k] \notin C
      <4>1. ~ k > e
        BY <3>1, <1>5
      <4> QED
        BY <3>1, <4>1, <1>3, <1>11, <1>12
    <3>3. SlotOf(n, s, a) = SlotOf(m, s, a)
      BY <2>1, <3>1, <3>2, <1>2, <1>7, <1>18, <1>24, <1>25, SMTT(30) DEF SlotOf, BlockOf, Tab
    <3> QED
      BY <2>3, <2>4, <2>6, <3>1, <3>3 DEF Alive
  <2>7. CASE ~ k <= e
    <3>1. ASSUME k <= N PROVE SlotOf(m, s, a).value = NoVal
      <4>1. k \in 1 .. N /\ k > e
        BY <2>2, <2>7, <3>1, <1>3, <1>5
      <4>2. T[k] \in C
        BY <4>1, <1>11
      <4>3. SlotOf(m, s, a) = At(m, T[k], o)
        BY <2>1, <1>2 DEF SlotOf, BlockOf, At, Tab
      <4> QED
        BY <2>2, <4>2, <4>3, <1>14
    <3> QED
      BY <2>3, <2>4, <2>7, <3>1 DEF Alive
  <2> QED
    BY <2>6, <2>7
<1>29. n.store[s].num_ent = Cardinality(Living(n, s))
  <2>1. m.store[s].num_ent = Cardinality(Living(m, s)) + Ahead(s, s, 0) /\ Cardinality(Living(m, s)) \in Nat
    BY <1>1, Sizes DEF Exact, Counters
  <2> QED
    BY <2>1, <1>25, <1>28 DEF Ahead
<1>30. Exact(n)
  BY <1>1, <1>27, <1>29, ExactAfter
<1>31. \A a \in Living(n, s) : EntryOf(n, s, a) = EntryOf(m, s, a)
  BY <1>25, <1>28 DEF EntryOf, Content
<1>32. Hashed(m, s, {}) => Hashed(n, s, {})
  BY <1>25, <1>28, <1>31 DEF Hashed
<1>33. \A v \in Val : n.value[v].write_count \in {m.value[v].write_count, 0}
  BY <1>25
<1>34. Keeps(m, n)
  <2>1. Tidy(m) => Hashed(m, s, {})
    BY DEF Tidy
  <2> QED
    BY <2>1, <1>1, <1>24, <1>27, <1>32, <1>33, TidyTurn DEF Keeps
<1> QED
  BY <1>25, <1>27, <1>30, <1>34 DEF Turn

(* cesk_frame_gc *)
LEMMA CollectedTurn ==
  ASSUME NEW m, NEW H, Good(m, H), Exact(m), NEW s \in Store, On(m, s), NEW r
  PROVE  Turn(m, Collected(m, s, r), s, H) /\ On(Collected(m, s, r), s)
<1>1. PICK n : Step(m, n, s, H) /\ Keeps(m, n) /\ Collected(m, s, r) = Compacted(n, s)
  BY SweptStep
<1>2. Good(n, H) /\ Exact(n) /\ On(n, s)
  BY <1>1 DEF Step
<1>3. Turn(n, Compacted(n, s), s, H) /\ On(Compacted(n, s), s)
  BY <1>2, CompactedTurn
<1> QED
  BY <1>1, <1>3, StepTurn

(***************************************************************************)
(* cesk_store_fork.                                                        *)
(***************************************************************************)
LEMMA ForkedTurn ==
  ASSUME NEW m, NEW H, Good(m, H), Exact(m), NEW s \in Store, NEW t \in Store, On(m, s), ~On(m, t),
         NEW n, n = Forked(m, s, t)
  PROVE  Turn(m, n, t, H) /\ On(n, t) /\ Tab(n, t) = Tab(m, s)
<1>1. /\ m \in Memory /\ Tables(m) /\ BlocksCounted(m) /\ FreeEmpty(m) /\ InUse(m)
      /\ ValuesCounted(m, H) /\ Buffers(H) /\ m.store[s] \in Table /\ s # t
  BY StoreFields DEF Good
<1>2. PICK R : R = Range(Tab(m, s))
  OBVIOUS
<1>3. R \in SUBSET Block /\ \A b \in R : \E k \in DOMAIN Tab(m, s) : Tab(m, s)[k] = b
  BY <1>1, <1>2, StoreFields DEF Range
<1> DEFINE BB == [b \in Block |-> IF b \in R THEN [m.block[b] EXCEPT !.refcnt = @ + 1] ELSE m.block[b]]
<1>4. n = [WithStore(m, t, m.store[s]) EXCEPT !.block = BB]
  BY <1>2, Zenon DEF Forked, WithStore, Tab
<1>5. ASSUME NEW b \in Block
      PROVE  /\ BB[b] \in StoreCell
             /\ BB[b].refcnt = m.block[b].refcnt + IF b \in R THEN 1 ELSE 0
             /\ BB[b].slots = m.block[b].slots /\ BB[b].num_ent = m.block[b].num_ent
             /\ BB[b].num_reloc = m.block[b].num_reloc
  <2>1. m.block[b] \in StoreCell /\ m.block[b].refcnt + 1 \in Nat /\ m.block[b].refcnt \in Nat
    BY <1>1, BlockFields
  <2>2. BB[b] = IF b \in R THEN [m.block[b] EXCEPT !.refcnt = @ + 1] ELSE m.block[b]
    OBVIOUS
  <2> HIDE DEF BB
  <2> QED
    BY <2>1, <2>2 DEF StoreCell
<1>6. BB \in [Block -> StoreCell]
  BY <1>5
<1> HIDE DEF BB
<1>7. PICK y : y = WithStore(m, t, m.store[s])
  OBVIOUS
<1>8. /\ y \in Memory /\ y.value = m.value /\ On(y, t) /\ y.store[t] = m.store[s]
      /\ \A u \in Store \ {t} : y.store[u] = m.store[u]
  BY <1>1, <1>7, StoreChanged
<1>9. n \in Memory /\ n.store = y.store /\ n.value = y.value /\ n.block = BB
  BY <1>4, <1>6, <1>7, <1>8, BlocksChanged
<1>10. /\ On(n, t) /\ n.store[t] = m.store[s] /\ Tab(n, t) = Tab(m, s) /\ n.value = m.value
       /\ \A u \in Store \ {t} : n.store[u] = m.store[u]
  BY <1>8, <1>9 DEF On, Tab
<1>11. \A b \in Block, o \in Ofs : At(n, b, o) = At(m, b, o)
  BY <1>5, <1>9 DEF At
<1>12. Same(m, n, t)
  <2>1. \A u \in Store \ {t} : On(m, u) => \A k \in DOMAIN Tab(m, u) : Tab(m, u)[k] \in Block
    BY <1>1, StoreFields
  <2> QED
    BY <2>1, <1>1, <1>9, <1>10, <1>11, SameIntro
<1>13. Tables(n)
  <2>1. ASSUME NEW u \in Store, On(n, u)
        PROVE  /\ Len(Tab(n, u)) <= MaxBlocks
               /\ \A j, k \in DOMAIN Tab(n, u) : Tab(n, u)[j] = Tab(n, u)[k] => j = k
    <3>1. PICK w \in Store : On(m, w) /\ Tab(n, u) = Tab(m, w)
      BY <2>1, <1>10 DEF On, Tab
    <3> QED
      BY <3>1, <1>1 DEF Tables
  <2> QED
    BY <2>1 DEF Tables
<1>14. BlocksCounted(n)
  <2> SUFFICES ASSUME NEW b \in Block PROVE n.block[b].refcnt = Cardinality(Users(n, b))
    BY DEF BlocksCounted
  <2>1. m.block[b].refcnt = Cardinality(Users(m, b)) /\ IsFiniteSet(Users(m, b)) /\ Cardinality(Users(m, b)) \in Nat
    BY <1>1, UserCounts DEF BlocksCounted
  <2>2. t \notin Users(m, b) /\ (t \in Users(n, b) <=> b \in R)
    BY <1>2, <1>10 DEF Users
  <2>3. \A u \in Store \ {t} : u \in Users(n, b) <=> u \in Users(m, b)
    BY <1>10 DEF Users, On, Tab
  <2>4. Users(n, b) \subseteq Store /\ Users(m, b) \subseteq Store
    BY DEF Users
  <2>5. CASE b \in R
    <3>1. Users(n, b) = Users(m, b) \cup {t}
      BY <2>2, <2>3, <2>4, <2>5
    <3>2. Cardinality(Users(n, b)) = Cardinality(Users(m, b)) + 1
      BY <2>1, <2>2, <3>1, FS_AddElement
    <3> QED
      BY <2>1, <2>5, <3>2, <1>5, <1>9
  <2>6. CASE b \notin R
    <3>1. Users(n, b) = Users(m, b)
      BY <2>2, <2>3, <2>4, <2>6
    <3> QED
      BY <2>1, <2>6, <3>1, <1>5, <1>9
  <2> QED
    BY <2>5, <2>6
<1>15. FreeEmpty(n)
  <2>1. ASSUME NEW b \in Block, n.block[b].refcnt = 0 PROVE m.block[b].refcnt = 0
    <3>1. m.block[b].refcnt \in Nat
      BY <1>1, BlockFields
    <3> QED
      BY <2>1, <3>1, <1>5, <1>9
  <2> QED
    BY <2>1, <1>1, <1>11 DEF FreeEmpty
<1>16. InUse(n)
  BY <1>1, <1>11 DEF InUse
<1>17. ValuesCounted(n, H)
  <2>1. \A v \in Val : Pointers(n, v) = Pointers(m, v)
    BY <1>11 DEF Pointers
  <2> QED
    BY <2>1, <1>1, <1>10 DEF ValuesCounted
<1>18. Good(n, H)
  BY <1>1, <1>9, <1>13, <1>14, <1>15, <1>16, <1>17 DEF Good
<1>19. ASSUME NEW b \in Block PROVE n.block[b].num_ent = Cardinality(Filled(n, b))
  <2>1. m.block[b].num_ent = Cardinality(Filled(m, b)) + Ahead(b, b, 0) /\ Cardinality(Filled(m, b)) \in Nat
    BY <1>1, Sizes DEF Exact, Counters
  <2>2. Filled(n, b) = Filled(m, b)
    BY <1>11 DEF Filled
  <2> QED
    BY <2>1, <2>2, <1>5, <1>9 DEF Ahead
<1>20. /\ n.store[t].num_ent = Cardinality(Living(n, t)) /\ Living(n, t) = Living(m, s)
       /\ \A a \in Living(m, s) : SlotOf(n, t, a) = SlotOf(m, s, a)
  <2>1. m.store[s].num_ent = Cardinality(Living(m, s)) + Ahead(s, s, 0) /\ Cardinality(Living(m, s)) \in Nat
    BY <1>1, Sizes DEF Exact, Counters
  <2>2. ASSUME NEW a \in Addr
        PROVE  /\ Alive(n, t, a) <=> Alive(m, s, a)
               /\ Alive(m, s, a) => SlotOf(n, t, a) = SlotOf(m, s, a)
    <3>1. Has(n, t, a) <=> Has(m, s, a)
      BY <1>10 DEF Has
    <3>2. ASSUME Has(m, s, a) PROVE SlotOf(n, t, a) = SlotOf(m, s, a)
      <4>1. BlockOf(m, s, a) \in Block /\ a % NSlots \in Ofs /\ SlotOf(m, s, a) = At(m, BlockOf(m, s, a), a % NSlots)
        BY <3>2, <1>1, HasFields
      <4>2. SlotOf(n, t, a) = At(n, BlockOf(m, s, a), a % NSlots)
        BY <1>10 DEF SlotOf, BlockOf, At
      <4> QED
        BY <4>1, <4>2, <1>11
    <3> QED
      BY <3>1, <3>2 DEF Alive
  <2>3. Living(n, t) = Living(m, s) /\ \A a \in Living(m, s) : SlotOf(n, t, a) = SlotOf(m, s, a)
    BY <2>2 DEF Living
  <2> QED
    BY <2>1, <2>3, <1>10 DEF Ahead
<1>21. Exact(n)
  BY <1>1, <1>12, <1>19, <1>20, ExactAfter
<1>22. Hashed(m, s, {}) => Hashed(n, t, {})
  <2>1. \A a \in Living(n, t) : EntryOf(n, t, a) = EntryOf(m, s, a)
    BY <1>10, <1>20 DEF EntryOf, Content
  <2> QED
    BY <2>1, <1>10, <1>20 DEF Hashed
<1>23. ASSUME NEW b \in Block PROVE Covered(m, n, t, b)
  <2>1. Relocated(n, b) = Relocated(m, b)
    BY <1>10, <1>11 DEF Relocated, Filled
  <2>2. n.block[b].num_reloc = m.block[b].num_reloc
    BY <1>5, <1>9
  <2> QED
    BY <2>1, <2>2 DEF Covered
<1>24. Keeps(m, n)
  <2>1. Tidy(m) => Hashed(m, s, {})
    BY DEF Tidy
  <2>2. \A v \in Val : n.value[v].write_count \in {m.value[v].write_count, 0}
    BY <1>10
  <2> QED
    BY <2>1, <2>2, <1>1, <1>9, <1>12, <1>22, <1>23, TidyTurn DEF Keeps
<1> QED
  BY <1>10, <1>12, <1>18, <1>21, <1>24 DEF Turn

LEMMA TurnTrans ==
  ASSUME NEW m, NEW n, NEW p, NEW s, NEW H, NEW J, Turn(m, n, s, H), Turn(n, p, s, J)
  PROVE  Turn(m, p, s, J)
<1>1. Same(m, p, s)
  BY SameTrans DEF Turn
<1> QED
  BY <1>1 DEF Turn, Keeps

LEMMA StepIsTurn ==
  ASSUME NEW m, NEW n, NEW s, NEW H, Step(m, n, s, H), Keeps(m, n)
  PROVE  Turn(m, n, s, H) /\ Good(n, H) /\ Exact(n) /\ On(n, s)
BY DEF Step, Turn

(* Steps that keep the books, one after the other. *)
LEMMA KeepsTrans ==
  ASSUME NEW m, NEW n, NEW p, Keeps(m, n), Keeps(n, p)
  PROVE  Keeps(m, p)
BY DEF Keeps

LEMMA PlainTurn ==
  ASSUME NEW m, NEW H, Good(m, H), Exact(m), NEW n, NEW s \in Store, On(m, s), Calm(m, n, s, H), Plain(m, n, s)
  PROVE  Step(m, n, s, H) /\ Keeps(m, n) /\ Turn(m, n, s, H) /\ Good(n, H) /\ Exact(n) /\ On(n, s)
<1>1. m \in Memory /\ n \in Memory /\ Same(m, n, s)
  BY DEF Good, Calm
<1>2. Step(m, n, s, H) /\ Keeps(m, n)
  BY <1>1, CalmStep, PlainKeeps
<1> QED
  BY <1>2, StepIsTurn

(***************************************************************************)
(* cesk_store_allocate.                                                    *)
(***************************************************************************)
(* The first of some probes exists. *)
First(c, d) == c[1] < d[1] \/ (c[1] = d[1] /\ c[2] <= d[2])
LEMMA FirstExists ==
  ASSUME NEW C \in SUBSET (Nat \X Nat), C # {}
  PROVE  \E c \in C : \A d \in C : First(c, d)
<1> DEFINE X == {c[1] : c \in C}
<1>1. PICK e \in C : TRUE
  OBVIOUS
<1>2. X \in SUBSET Nat /\ e[1] \in X
  OBVIOUS
<1>3. PICK x \in X : \A k \in X : x <= k
  <2> HIDE DEF X
  <2> QED
    BY <1>2, LeastMember
<1> DEFINE Y == {c[2] : c \in {d \in C : d[1] = x}}
<1>4. PICK f \in C : f[1] = x
  OBVIOUS
<1>5. Y \in SUBSET Nat /\ f[2] \in Y
  BY <1>4
<1>6. PICK y \in Y : \A k \in Y : y <= k
  <2> HIDE DEF Y
  <2> QED
    BY <1>5, LeastMember
<1>7. PICK c \in C : c[1] = x /\ c[2] = y
  OBVIOUS
<1>8. ASSUME NEW d \in C PROVE First(c, d)
  <2>1. x <= d[1] /\ x \in Nat /\ d[1] \in Nat /\ d[2] \in Nat /\ y \in Nat
    BY <1>2, <1>3, <1>5
  <2>2. CASE x = d[1]
    <3>1. d[2] \in Y
      BY <2>2
    <3> HIDE DEF Y
    <3>2. y <= d[2]
      BY <3>1, <1>6
    <3> QED
      BY <2>2, <3>2, <1>7 DEF First
  <2>3. CASE x # d[1]
    BY <2>1, <2>3, <1>7 DEF First
  <2> QED
    BY <2>2, <2>3
<1> QED
  BY <1>8

(* The address is one with the parameter, one that is not in use, or in a  *)
(* block that the store does not have yet.                                 *)
LEMMA AllocAddrIs ==
  ASSUME NEW m, NEW H, Good(m, H), NEW s \in Store, On(m, s), NEW p \in Param,
         NEW a \in Addr, a = AllocAddr(m, s, p)
  PROVE  IF Has(m, s, a) THEN SlotOf(m, s, a).param \in {p, NoParam}
         ELSE Len(Tab(m, s)) < MaxBlocks /\ BlockNo(a) = Len(Tab(m, s)) + 1
<1>1. m \in Memory /\ Tables(m)
  BY DEF Good
<1> DEFINE n == Len(m.store[s].blocks)
           at(c) == (c[2] - 1) * NSlots + Probe[p][c[1]]
           probes == (1 .. Len(Probe[p])) \X (1 .. n)
           with(q) == {c \in probes : SlotOf(m, s, at(c)).param = q}
           first(C) == CHOOSE c \in C : \A d \in C : First(c, d)
<1>2. a = IF with(p) # {} THEN at(first(with(p)))
          ELSE IF with(NoParam) # {} THEN at(first(with(NoParam)))
          ELSE n * NSlots + Probe[p][1]
  BY Zenon DEF AllocAddr, First
<1>3. n \in Nat /\ n <= MaxBlocks /\ n = Len(Tab(m, s)) /\ MaxBlocks \in Nat /\ NSlots \in Nat \ {0}
  BY <1>1, StoreFields, StoreAssumption DEF Tab, Tables
<1>4. Probe[p] \in Seq(Ofs) /\ Probe[p] # <<>> /\ Len(Probe[p]) \in Nat
  BY StoreAssumption
<1>5. Probe[p][1] \in Ofs
  BY <1>4
<1> HIDE DEF n, at
<1>6. \A c \in probes : c[1] \in 1 .. Len(Probe[p]) /\ c[2] \in 1 .. n
  OBVIOUS
<1>7. probes \in SUBSET (Nat \X Nat)
  <2>1. (1 .. Len(Probe[p])) \subseteq Nat /\ (1 .. n) \subseteq Nat
    BY <1>3, <1>4
  <2> QED
    BY <2>1
<1> HIDE DEF probes
<1>8. ASSUME NEW q, with(q) # {}
      PROVE  first(with(q)) \in probes /\ SlotOf(m, s, at(first(with(q)))).param = q
  <2>1. with(q) \in SUBSET (Nat \X Nat)
    BY <1>7
  <2>2. \E c \in with(q) : \A d \in with(q) : First(c, d)
    <3> HIDE DEF with
    <3> QED
      BY <2>1, <1>8, FirstExists
  <2>3. first(with(q)) \in with(q)
    <3> HIDE DEF with
    <3> QED
      BY <2>2, Zenon
  <2>4. PICK c : c = first(with(q))
    OBVIOUS
  <2>5. c \in with(q)
    BY <2>3, <2>4
  <2> HIDE DEF first
  <2>6. c \in probes /\ SlotOf(m, s, at(c)).param = q
    BY <2>5
  <2> HIDE DEF with
  <2> QED
    BY <2>4, <2>6
<1> HIDE DEF with, first
<1>9. CASE with(p) # {} \/ with(NoParam) # {}
  <2>1. PICK c \in probes : a = at(c) /\ SlotOf(m, s, at(c)).param \in {p, NoParam}
    BY <1>2, <1>8, <1>9
  <2>2. c[1] \in 1 .. Len(Probe[p]) /\ c[2] \in 1 .. n
    BY <1>6
  <2>3. c[2] \in 1 .. MaxBlocks /\ c[2] <= n
    BY <2>2, <1>3
  <2>4. Probe[p][c[1]] \in Ofs
    BY <2>2, <1>4
  <2>5. BlockNo(a) = c[2] /\ a \in Addr
    BY <2>1, <2>3, <2>4, AddrJoin DEF at
  <2>6. Has(m, s, a)
    BY <2>3, <2>5 DEF Has, n
  <2> QED
    BY <2>1, <2>6
<1>10. CASE with(p) = {} /\ with(NoParam) = {}
  <2>1. a = n * NSlots + Probe[p][1]
    BY <1>2, <1>10
  <2>2. n * NSlots \in Nat
    BY <1>3
  <2>3. BlockNo(a) = n + 1
    <3>1. a \div NSlots = n
      <4>1. PICK o : o = Probe[p][1]
        OBVIOUS
      <4>2. o \in Nat /\ o < NSlots /\ a = n * NSlots + o
        <5>1. o \in 0 .. NSlots - 1
          BY <4>1, <1>5 DEF Ofs
        <5>2. a = n * NSlots + o
          BY <4>1, <2>1, Zenon
        <5> QED
          BY <5>1, <5>2, <1>3
      <4>3. (n * NSlots + o) \div NSlots = n
        BY <4>2, <1>3
      <4> QED
        BY <4>2, <4>3
    <3> QED
      BY <3>1 DEF BlockNo
  <2>4. BlockNo(a) \in 1 .. MaxBlocks
    BY AddrSplit
  <2>5. n < MaxBlocks /\ ~ Has(m, s, a)
    BY <2>3, <2>4, <1>3 DEF Has, n
  <2> QED
    BY <2>3, <2>5, <1>3
<1> QED
  BY <1>9, <1>10

(* A slot without a value gets a parameter, in a shared block too: no      *)
(* frame sees it.                                                          *)
WithParam(m, s, a, p) == WithSlot(m, s, a, [SlotOf(m, s, a) EXCEPT !.param = p, !.reuse = FALSE])
LEMMA ParamStep ==
  ASSUME NEW m, NEW H, Good(m, H), Exact(m), NEW s \in Store, On(m, s), NEW a, Has(m, s, a),
         SlotOf(m, s, a).value = NoVal, NEW p \in Param,
         NEW n, n = WithParam(m, s, a, p)
  PROVE  Step(m, n, s, H) /\ SlotOf(n, s, a).param = p /\ Keeps(m, n)
<1>1. /\ m \in Memory /\ Tables(m) /\ BlocksCounted(m) /\ FreeEmpty(m) /\ InUse(m)
      /\ ValuesCounted(m, H) /\ Buffers(H)
  BY DEF Good
<1>2. PICK B, i : B = BlockOf(m, s, a) /\ i = a % NSlots
  OBVIOUS
<1>3. B \in Block /\ i \in Ofs /\ SlotOf(m, s, a) = At(m, B, i) /\ SlotOf(m, s, a) \in Slot
  BY <1>1, <1>2, HasFields
<1>4. PICK l : l = [SlotOf(m, s, a) EXCEPT !.param = p, !.reuse = FALSE]
  OBVIOUS
<1>5. l \in Slot /\ l.value = NoVal /\ l.param = p
  <2>1. l = [value |-> NoVal, refcnt |-> SlotOf(m, s, a).refcnt, reuse |-> FALSE, param |-> p]
    BY <1>3, <1>4 DEF Slot
  <2>2. SlotOf(m, s, a).refcnt \in Nat
    BY <1>3 DEF Slot
  <2> QED
    BY <2>1, <2>2 DEF Slot
<1>6. n = WithSlot(m, s, a, l)
  BY <1>4 DEF WithParam
<1>7. /\ n \in Memory /\ n.store = m.store /\ n.value = m.value
      /\ \A b \in Block : /\ n.block[b].refcnt = m.block[b].refcnt
                          /\ n.block[b].num_ent = m.block[b].num_ent
      /\ \A b \in Block, o \in Ofs : At(n, b, o) = IF b = B /\ o = i THEN l ELSE At(m, b, o)
  BY <1>1, <1>2, <1>5, <1>6, WithSlotIs
<1>8. \A b \in Block, o \in Ofs : At(n, b, o).value = At(m, b, o).value
  BY <1>3, <1>5, <1>7
<1>9. \A b \in Block, o \in Ofs : At(m, b, o).value # NoVal => At(n, b, o) = At(m, b, o)
  BY <1>3, <1>7
<1>10. \A t \in Store : (On(n, t) <=> On(m, t)) /\ Tab(n, t) = Tab(m, t) /\ n.store[t] = m.store[t]
  BY <1>7 DEF On, Tab
<1>11. Tables(n)
  BY <1>1, <1>10 DEF Tables
<1>12. BlocksCounted(n)
  <2>1. \A b \in Block : Users(n, b) = Users(m, b)
    BY <1>10 DEF Users
  <2> QED
    BY <2>1, <1>1, <1>7 DEF BlocksCounted
<1>13. FreeEmpty(n)
  BY <1>1, <1>7, <1>8 DEF FreeEmpty
<1>14. InUse(n)
  BY <1>1, <1>8, <1>9 DEF InUse
<1>15. ValuesCounted(n, H)
  <2>1. \A v \in Val : Pointers(n, v) = Pointers(m, v)
    BY <1>8 DEF Pointers
  <2> QED
    BY <2>1, <1>1, <1>7 DEF ValuesCounted
<1>16. Good(n, H)
  BY <1>1, <1>7, <1>11, <1>12, <1>13, <1>14, <1>15 DEF Good
<1>17. Same(m, n, s)
  <2>1. ASSUME NEW t \in Store \ {s}, On(m, t), NEW k \in DOMAIN Tab(m, t), NEW o \in Ofs
        PROVE  LET b == Tab(m, t)[k]
                   v == At(m, b, o).value
               IN  /\ At(n, b, o).value = v
                   /\ v # NoVal => /\ At(n, b, o).refcnt = At(m, b, o).refcnt
                                   /\ At(n, b, o).reuse = At(m, b, o).reuse
                                   /\ n.value[v].content = m.value[v].content
    <3>1. Tab(m, t)[k] \in Block
      BY <2>1, <1>1, StoreFields
    <3> QED
      BY <3>1, <1>7, <1>8, <1>9
  <2> QED
    BY <2>1, <1>1, <1>7, SameIntro
<1>18. \A c : (Has(n, s, c) <=> Has(m, s, c)) /\ BlockOf(n, s, c) = BlockOf(m, s, c)
  BY <1>7 DEF Has, BlockOf
<1>19. Living(n, s) = Living(m, s)
  <2>1. ASSUME NEW c \in Addr, Has(m, s, c) PROVE SlotOf(n, s, c).value = SlotOf(m, s, c).value
    <3>1. BlockOf(m, s, c) \in Block /\ c % NSlots \in Ofs /\ SlotOf(m, s, c) = At(m, BlockOf(m, s, c), c % NSlots)
      BY <2>1, <1>1, HasFields
    <3>2. SlotOf(n, s, c) = At(n, BlockOf(m, s, c), c % NSlots)
      BY <1>18 DEF SlotOf, At
    <3> QED
      BY <3>1, <3>2, <1>8
  <2>2. \A c \in Addr : Alive(n, s, c) <=> Alive(m, s, c)
    BY <2>1, <1>18 DEF Alive
  <2> QED
    BY <2>2 DEF Living
<1>20. Exact(n)
  <2>1. Counters(m, s, s, 0)
    BY DEF Exact
  <2>2. \A b \in Block : Filled(n, b) = Filled(m, b)
    BY <1>8 DEF Filled
  <2>3. \A t \in Store : On(m, t) => Living(n, t) = Living(m, t)
    BY <1>17, <1>19, SameLiving
  <2>4. Counters(n, s, s, 0)
    BY <2>1, <2>2, <2>3, <1>7, <1>10 DEF Counters
  <2> QED
    BY <2>4, ExactIs
<1>21. SlotOf(n, s, a).param = p
  <2>1. SlotOf(n, s, a) = At(n, B, i)
    BY <1>2, <1>18 DEF SlotOf, At
  <2> QED
    BY <2>1, <1>3, <1>5, <1>7
<1>22. Keeps(m, n)
  <2>1. l.value = SlotOf(m, s, a).value /\ ~ (l.value # NoVal)
    BY <1>5
  <2> QED
    BY <2>1, <1>1, <1>5, <1>6, <1>17, SlotKeeps
<1> QED
  BY <1>10, <1>16, <1>17, <1>18, <1>20, <1>21, <1>22 DEF Step

(* A store gets a new block. *)
NewTable(m, s, b) == [m EXCEPT !.store[s].blocks = Append(@, b), !.block[b] = [NewBlock EXCEPT !.refcnt = 1]]

LEMMA NewTableTurn ==
  ASSUME NEW m, NEW H, Good(m, H), Exact(m), NEW s \in Store, On(m, s), Len(Tab(m, s)) < MaxBlocks,
         NEW b \in Block, m.block[b].refcnt = 0, NEW n, n = NewTable(m, s, b)
  PROVE  /\ Turn(m, n, s, H) /\ On(n, s) /\ Tab(n, s) = Append(Tab(m, s), b)
         /\ \A o \in Ofs : At(n, b, o) = NewSlot
<1>1. /\ m \in Memory /\ Tables(m) /\ BlocksCounted(m) /\ FreeEmpty(m) /\ InUse(m)
      /\ ValuesCounted(m, H) /\ Buffers(H) /\ m.store[s] \in Table
  BY StoreFields DEF Good
<1>2. PICK T, N : T = Tab(m, s) /\ N = Len(Tab(m, s))
  OBVIOUS
<1>3. T \in Seq(Block) /\ N \in Nat /\ DOMAIN T = 1 .. N /\ N = Len(T) /\ N < MaxBlocks
  BY <1>1, <1>2, StoreFields
<1>4. PICK U : U = Append(T, b)
  OBVIOUS
<1>5. U \in Seq(Block) /\ Len(U) = N + 1 /\ DOMAIN U = 1 .. N + 1 /\ U[N + 1] = b /\ \A k \in 1 .. N : U[k] = T[k]
  BY <1>3, <1>4
<1>6. PICK x, c : x = [m.store[s] EXCEPT !.blocks = U] /\ c = [NewBlock EXCEPT !.refcnt = 1]
  OBVIOUS
<1>7. x \in Table /\ x.blocks = U /\ x.num_ent = m.store[s].num_ent /\ x.hash = m.store[s].hash
  BY <1>1, <1>5, <1>6 DEF Table
<1>8. c \in StoreCell /\ c.refcnt = 1 /\ c.num_ent = 0 /\ c.num_reloc = 0 /\ \A o \in Ofs : c.slots[o] = NewSlot
  <2>1. c = [refcnt |-> 1, num_ent |-> 0, num_reloc |-> 0, slots |-> [o \in Ofs |-> NewSlot]]
    BY <1>6 DEF NewBlock
  <2>2. NewSlot \in Slot
    BY DEF NewSlot, Slot
  <2> QED
    BY <2>1, <2>2 DEF StoreCell
<1>9. PICK y : y = WithStore(m, s, x)
  OBVIOUS
<1>10. /\ y \in Memory /\ y.value = m.value /\ y.block = m.block /\ On(y, s) /\ y.store[s] = x
       /\ \A t \in Store \ {s} : y.store[t] = m.store[t]
  BY <1>1, <1>7, <1>9, StoreChanged, SMTT(30)
<1>11. PICK BB : BB = [m.block EXCEPT ![b] = c]
  OBVIOUS
<1>12. BB \in [Block -> StoreCell] /\ BB[b] = c /\ \A d \in Block : d # b => BB[d] = m.block[d]
  BY <1>1, <1>8, <1>11 DEF Memory
<1>13. n = [y EXCEPT !.block = BB]
  <2>1. n = [m EXCEPT !.store[s] = x, !.block[b] = c]
    BY <1>2, <1>4, <1>6, Zenon DEF NewTable, Tab
  <2>2. [m EXCEPT !.store[s] = x, !.block[b] = c] = [y EXCEPT !.block[b] = c]
    BY <1>9, Zenon DEF WithStore
  <2>3. [y EXCEPT !.block[b] = c] = [y EXCEPT !.block = BB]
    BY <1>10, <1>11 DEF Memory
  <2> QED
    BY <2>1, <2>2, <2>3, Zenon
<1>14. n \in Memory /\ n.store = y.store /\ n.value = y.value /\ n.block = BB
  BY <1>10, <1>12, <1>13, BlocksChanged
<1>15. /\ On(n, s) /\ Tab(n, s) = U /\ n.value = m.value /\ n.store[s].num_ent = m.store[s].num_ent
       /\ \A t \in Store \ {s} : n.store[t] = m.store[t]
       /\ n.store[s].hash = m.store[s].hash
  BY <1>7, <1>10, <1>14 DEF On, Tab
<1>16. \A o \in Ofs : At(n, b, o) = NewSlot /\ At(n, b, o).value = NoVal /\ At(m, b, o).value = NoVal
  <2> SUFFICES ASSUME NEW o \in Ofs
               PROVE  At(n, b, o) = NewSlot /\ At(n, b, o).value = NoVal /\ At(m, b, o).value = NoVal
    OBVIOUS
  <2>1. At(n, b, o) = NewSlot
    BY <1>8, <1>12, <1>14 DEF At
  <2>2. NewSlot.value = NoVal
    BY DEF NewSlot
  <2>3. At(m, b, o).value = NoVal
    BY <1>1 DEF FreeEmpty
  <2> QED
    BY <2>1, <2>2, <2>3
<1>17. \A d \in Block, o \in Ofs : d # b => At(n, d, o) = At(m, d, o)
  BY <1>12, <1>14 DEF At
<1>18. \A t \in Store : t \notin Users(m, b)
  <2>1. ASSUME NEW t \in Store, t \in Users(m, b) PROVE FALSE
    <3>1. On(m, t) /\ \E j \in DOMAIN Tab(m, t) : Tab(m, t)[j] = b
      BY <2>1 DEF Users, Range
    <3>2. m.block[b].refcnt > 0
      BY <3>1, <1>1, UserCounts
    <3> QED
      BY <3>2
  <2> QED
    BY <2>1
<1>19. \A k \in 1 .. N : T[k] # b
  BY <1>1, <1>2, <1>3, <1>18, TabUsers
<1>20. Tables(n)
  <2>1. ASSUME NEW t \in Store, On(n, t)
        PROVE  /\ Len(Tab(n, t)) <= MaxBlocks
               /\ \A j, k \in DOMAIN Tab(n, t) : Tab(n, t)[j] = Tab(n, t)[k] => j = k
    <3>1. CASE t # s
      <4>1. On(m, t) /\ Tab(n, t) = Tab(m, t)
        BY <2>1, <3>1, <1>15 DEF On, Tab
      <4> QED
        BY <4>1, <1>1 DEF Tables
    <3>2. CASE t = s
      <4>1. Len(U) <= MaxBlocks
        BY <1>3, <1>5, StoreAssumption
      <4>2. \A j, k \in 1 .. N : T[j] = T[k] => j = k
        BY <1>1, <1>2, <1>3 DEF Tables
      <4>3. \A k \in 1 .. N + 1 : k \in 1 .. N \/ k = N + 1
        BY <1>3
      <4>4. \A j, k \in DOMAIN U : U[j] = U[k] => j = k
        BY <4>2, <4>3, <1>5, <1>19
      <4> QED
        BY <3>2, <4>1, <4>4, <1>15
    <3> QED
      BY <3>1, <3>2
  <2> QED
    BY <2>1 DEF Tables
<1>21. s \in Users(n, b) /\ \A d \in Block : d # b => (s \in Users(n, d) <=> s \in Users(m, d))
  <2>1. \A d : s \in Users(n, d) <=> \E k \in 1 .. N + 1 : U[k] = d
    BY <1>5, <1>14, <1>15, TabUsers
  <2>2. \A d : s \in Users(m, d) <=> \E k \in 1 .. N : T[k] = d
    BY <1>1, <1>2, <1>3, TabUsers
  <2>3. N + 1 \in 1 .. N + 1 /\ \A k \in 1 .. N + 1 : k \in 1 .. N \/ k = N + 1
    BY <1>3
  <2>4. \A k \in 1 .. N : k \in 1 .. N + 1
    BY <1>3
  <2> QED
    BY <2>1, <2>2, <2>3, <2>4, <1>5
<1>22. \A d \in Block, t \in Store \ {s} : t \in Users(n, d) <=> t \in Users(m, d)
  BY <1>15 DEF Users, On, Tab
<1>23. BlocksCounted(n)
  <2> SUFFICES ASSUME NEW d \in Block PROVE n.block[d].refcnt = Cardinality(Users(n, d))
    BY DEF BlocksCounted
  <2>1. Users(n, d) \subseteq Store /\ Users(m, d) \subseteq Store
    BY DEF Users
  <2>2. CASE d = b
    <3>1. Users(n, b) = {s}
      BY <2>1, <2>2, <1>18, <1>21, <1>22
    <3>2. Cardinality(Users(n, b)) = 1
      BY <3>1, FS_Singleton
    <3> QED
      BY <2>2, <3>2, <1>8, <1>12, <1>14
  <2>3. CASE d # b
    <3>1. Users(n, d) = Users(m, d)
      BY <2>1, <2>3, <1>21, <1>22
    <3> QED
      BY <2>3, <3>1, <1>1, <1>12, <1>14 DEF BlocksCounted
  <2> QED
    BY <2>2, <2>3
<1>24. FreeEmpty(n)
  <2> SUFFICES ASSUME NEW d \in Block, n.block[d].refcnt = 0, NEW o \in Ofs PROVE At(n, d, o).value = NoVal
    BY DEF FreeEmpty
  <2>1. CASE d = b
    BY <2>1, <1>16
  <2>2. CASE d # b
    BY <2>2, <1>1, <1>12, <1>14, <1>17 DEF FreeEmpty
  <2> QED
    BY <2>1, <2>2
<1>25. \A d \in Block, o \in Ofs : At(n, d, o).value = At(m, d, o).value
  BY <1>16, <1>17
<1>26. InUse(n)
  BY <1>1, <1>16, <1>17 DEF InUse
<1>27. ValuesCounted(n, H)
  <2>1. \A v \in Val : Pointers(n, v) = Pointers(m, v)
    BY <1>25 DEF Pointers
  <2> QED
    BY <2>1, <1>1, <1>15 DEF ValuesCounted
<1>28. Good(n, H)
  BY <1>1, <1>14, <1>20, <1>23, <1>24, <1>26, <1>27 DEF Good
<1>29. Same(m, n, s)
  <2>1. ASSUME NEW t \in Store \ {s}, On(m, t), NEW k \in DOMAIN Tab(m, t)
        PROVE  Tab(m, t)[k] \in Block /\ Tab(m, t)[k] # b
    BY <1>1, <1>18, <2>1, StoreFields, TabUsers
  <2> QED
    BY <2>1, <1>1, <1>14, <1>15, <1>17, SameIntro
<1>30. ASSUME NEW d \in Block PROVE n.block[d].num_ent = Cardinality(Filled(n, d))
  <2>1. CASE d = b
    <3>1. Filled(n, b) = {}
      BY <1>16 DEF Filled
    <3> QED
      BY <2>1, <3>1, <1>8, <1>12, <1>14, FS_EmptySet
  <2>2. CASE d # b
    <3>1. m.block[d].num_ent = Cardinality(Filled(m, d)) + Ahead(d, d, 0) /\ Cardinality(Filled(m, d)) \in Nat
      BY <1>1, Sizes DEF Exact, Counters
    <3>2. Filled(n, d) = Filled(m, d)
      BY <1>25 DEF Filled
    <3> QED
      BY <2>2, <3>1, <3>2, <1>12, <1>14 DEF Ahead
  <2> QED
    BY <2>1, <2>2
<1>31. Living(n, s) = Living(m, s) /\ \A a \in Living(m, s) : SlotOf(n, s, a) = SlotOf(m, s, a)
  <2> SUFFICES ASSUME NEW a \in Addr
               PROVE  /\ Alive(n, s, a) <=> Alive(m, s, a)
                      /\ Alive(m, s, a) => SlotOf(n, s, a) = SlotOf(m, s, a)
    BY DEF Living
  <2>1. PICK k, o : k = BlockNo(a) /\ o = a % NSlots
    OBVIOUS
  <2>2. k \in 1 .. MaxBlocks /\ o \in Ofs
    BY <2>1, AddrSplit
  <2>3. /\ Has(m, s, a) <=> k <= N
        /\ Has(n, s, a) <=> k <= N + 1
    BY <2>1, <1>2, <1>5, <1>15 DEF Has, Tab
  <2>4. SlotOf(m, s, a) = At(m, T[k], o) /\ SlotOf(n, s, a) = At(n, U[k], o)
    BY <2>1, <1>2, <1>15 DEF SlotOf, BlockOf, At, Tab
  <2>5. CASE k <= N
    <3>1. k \in 1 .. N /\ k <= N + 1
      BY <2>2, <2>5, <1>3
    <3>2. T[k] \in Block /\ U[k] = T[k] /\ T[k] # b
      BY <3>1, <1>3, <1>5, <1>19
    <3>3. SlotOf(n, s, a) = SlotOf(m, s, a)
      BY <2>2, <2>4, <3>2, <1>17
    <3> QED
      BY <2>3, <2>5, <3>1, <3>3 DEF Alive
  <2>6. CASE ~ k <= N
    <3>1. ASSUME k <= N + 1 PROVE SlotOf(n, s, a).value = NoVal
      <4>1. k = N + 1
        BY <2>2, <2>6, <3>1, <1>3
      <4> QED
        BY <2>2, <2>4, <4>1, <1>5, <1>16
    <3> QED
      BY <2>3, <2>6, <3>1 DEF Alive
  <2> QED
    BY <2>5, <2>6
<1>32. n.store[s].num_ent = Cardinality(Living(n, s))
  <2>1. m.store[s].num_ent = Cardinality(Living(m, s)) + Ahead(s, s, 0) /\ Cardinality(Living(m, s)) \in Nat
    BY <1>1, Sizes DEF Exact, Counters
  <2> QED
    BY <2>1, <1>15, <1>31 DEF Ahead
<1>33. Exact(n)
  BY <1>1, <1>29, <1>30, <1>32, ExactAfter
<1>34. Hashed(m, s, {}) => Hashed(n, s, {})
  <2>1. \A a \in Living(n, s) : EntryOf(n, s, a) = EntryOf(m, s, a)
    BY <1>15, <1>31 DEF EntryOf, Content
  <2> QED
    BY <2>1, <1>15, <1>31 DEF Hashed
<1>35. ASSUME NEW d \in Block PROVE Covered(m, n, s, d)
  <2>1. CASE d = b
    <3>1. Relocated(n, b) = {}
      BY <1>16 DEF Relocated, Filled
    <3> QED
      BY <2>1, <3>1, <1>8, <1>12, <1>14 DEF Covered
  <2>2. CASE d # b
    <3>1. Relocated(n, d) = Relocated(m, d)
      BY <1>15, <1>25 DEF Relocated, Filled
    <3>2. n.block[d].num_reloc = m.block[d].num_reloc
      BY <2>2, <1>12, <1>14
    <3> QED
      BY <3>1, <3>2 DEF Covered
  <2> QED
    BY <2>1, <2>2
<1>36. Keeps(m, n)
  <2>1. Tidy(m) => Hashed(m, s, {})
    BY DEF Tidy
  <2>2. \A v \in Val : n.value[v].write_count \in {m.value[v].write_count, 0}
    BY <1>15
  <2> QED
    BY <2>1, <2>2, <1>1, <1>14, <1>29, <1>34, <1>35, TidyTurn DEF Keeps
<1> QED
  BY <1>2, <1>4, <1>15, <1>16, <1>28, <1>29, <1>33, <1>36 DEF Turn

(* cesk_store_allocate *)
LEMMA AllocatedTurn ==
  ASSUME NEW m, NEW H, Good(m, H), Exact(m), NEW s \in Store, On(m, s), NEW p \in Param,
         NEW a \in Addr, a = AllocAddr(m, s, p), NEW n, n = Allocated(m, s, p, a)
  PROVE  Turn(m, n, s, H) /\ On(n, s) /\ Has(n, s, a) /\ SlotOf(n, s, a).param # NoParam
<1>1. m \in Memory /\ Tables(m) /\ BlocksCounted(m) /\ InUse(m)
  BY DEF Good
<1>2. p # NoParam
  BY StoreAssumption
<1>3. IF Has(m, s, a) THEN SlotOf(m, s, a).param \in {p, NoParam}
      ELSE Len(Tab(m, s)) < MaxBlocks /\ BlockNo(a) = Len(Tab(m, s)) + 1
  BY AllocAddrIs
<1>4. ASSUME NEW w, Good(w, H), Exact(w), On(w, s), Has(w, s, a), SlotOf(w, s, a).value = NoVal, Turn(m, w, s, H),
             n = WithParam(w, s, a, p)
      PROVE  Turn(m, n, s, H) /\ On(n, s) /\ Has(n, s, a) /\ SlotOf(n, s, a).param # NoParam
  <2>1. Step(w, n, s, H) /\ SlotOf(n, s, a).param = p /\ Keeps(w, n)
    BY <1>4, ParamStep
  <2>2. Turn(w, n, s, H) /\ On(n, s) /\ Has(n, s, a)
    BY <2>1, <1>4, StepIsTurn DEF Step
  <2>3. Turn(m, n, s, H)
    BY <2>2, <1>4, TurnTrans
  <2> QED
    BY <2>1, <2>2, <2>3, <1>2
<1>5. CASE Has(m, s, a)
  <2>1. Turn(m, m, s, H)
    BY DEF Turn, Same, Keeps
  <2>2. CASE SlotOf(m, s, a).param = p
    <3>1. n = m
      BY <1>5, <2>2 DEF Allocated
    <3> QED
      BY <2>1, <2>2, <3>1, <1>2, <1>5
  <2>3. CASE SlotOf(m, s, a).param # p
    <3>1. SlotOf(m, s, a).param = NoParam
      BY <2>3, <1>3, <1>5
    <3>2. BlockOf(m, s, a) \in Block /\ a % NSlots \in Ofs /\ SlotOf(m, s, a) = At(m, BlockOf(m, s, a), a % NSlots)
      BY <1>1, <1>5, HasFields
    <3>3. SlotOf(m, s, a).value = NoVal
      BY <3>1, <3>2, <1>1 DEF InUse
    <3>4. n = WithParam(m, s, a, p)
      BY <2>3, <1>5, Zenon DEF Allocated, WithParam
    <3> QED
      BY <2>1, <3>3, <3>4, <1>4, <1>5
  <2> QED
    BY <2>2, <2>3
<1>6. CASE ~ Has(m, s, a)
  <2>1. Len(Tab(m, s)) < MaxBlocks /\ BlockNo(a) = Len(Tab(m, s)) + 1
    BY <1>3, <1>6
  <2>2. PICK b : b = CHOOSE d \in Block : m.block[d].refcnt = 0
    OBVIOUS
  <2>3. b \in Block /\ m.block[b].refcnt = 0
    <3>1. \E d \in Block : m.block[d].refcnt = 0
      BY <2>1, <1>1, FreeBlock
    <3> QED
      BY <2>2, <3>1, Zenon
  <2>4. PICK w : w = NewTable(m, s, b)
    OBVIOUS
  <2>5. /\ Turn(m, w, s, H) /\ On(w, s) /\ Tab(w, s) = Append(Tab(m, s), b)
        /\ \A o \in Ofs : At(w, b, o) = NewSlot
    BY <2>1, <2>3, <2>4, NewTableTurn
  <2>6. Good(w, H) /\ Exact(w)
    BY <2>5 DEF Turn
  <2>7. n = WithParam(w, s, a, p)
    <3>1. w = [m EXCEPT !.store[s].blocks = Append(@, b), !.block[b] = [NewBlock EXCEPT !.refcnt = 1]]
      BY <2>4, Zenon DEF NewTable
    <3>2. w = [m EXCEPT !.store[s].blocks = Append(@, CHOOSE d \in Block : m.block[d].refcnt = 0),
                        !.block[CHOOSE d \in Block : m.block[d].refcnt = 0] = [NewBlock EXCEPT !.refcnt = 1]]
      BY <2>2, <3>1, Zenon
    <3> QED
      BY <3>2, <1>6, Zenon DEF Allocated, WithParam
  <2>8. Has(w, s, a) /\ SlotOf(w, s, a).value = NoVal
    <3>1. Tab(m, s) \in Seq(Block) /\ Len(Tab(m, s)) \in Nat
      BY <1>1, StoreFields
    <3>2. Len(Tab(w, s)) = Len(Tab(m, s)) + 1 /\ Tab(w, s)[Len(Tab(m, s)) + 1] = b
      BY <2>3, <2>5, <3>1
    <3>3. Has(w, s, a)
      BY <2>1, <3>1, <3>2 DEF Has, Tab
    <3>4. SlotOf(w, s, a) = At(w, b, a % NSlots)
      BY <2>1, <3>2 DEF SlotOf, BlockOf, At, Tab
    <3>5. a % NSlots \in Ofs
      BY AddrSplit
    <3> QED
      BY <2>5, <3>3, <3>4, <3>5 DEF NewSlot
  <2> QED
    BY <2>5, <2>6, <2>7, <2>8, <1>4
<1> QED
  BY <1>5, <1>6

(***************************************************************************)
(* New values and writes to old ones.                                      *)
(***************************************************************************)
(* A value that counts no references has no pointers and no records. *)
LEMMA Unreferenced ==
  ASSUME NEW m, NEW H, Good(m, H), NEW v \in Val, m.value[v].refcnt = 0
  PROVE  Pointers(m, v) = {} /\ Records(H, v) = {}
<1>1. /\ IsFiniteSet(Pointers(m, v)) /\ Cardinality(Pointers(m, v)) \in Nat
      /\ IsFiniteSet(Records(H, v)) /\ Cardinality(Records(H, v)) \in Nat
      /\ m.value[v].refcnt = Cardinality(Pointers(m, v)) + Cardinality(Records(H, v))
  BY Sizes DEF Good, ValuesCounted
<1>2. Cardinality(Pointers(m, v)) = 0 /\ Cardinality(Records(H, v)) = 0
  BY <1>1
<1> QED
  BY <1>1, <1>2, FS_EmptySet

LEMMA NewValueStep ==
  ASSUME NEW m, NEW H, Good(m, H), Exact(m), NEW s \in Store, On(m, s), NEW a, Has(m, s, a),
         SlotOf(m, s, a).param # NoParam, NEW X \in SUBSET Elem, NEW n, n = WithNewValue(m, s, a, X)
  PROVE  /\ Step(m, n, s, H) /\ Alive(n, s, a) /\ Keeps(m, n)
         /\ SlotOf(n, s, a).value \in Val /\ Records(H, SlotOf(n, s, a).value) = {}
<1>1. PICK v : v = FreshVal(m)
  OBVIOUS
<1>2. m \in Memory /\ v \in Val /\ m.value[v].refcnt = 0 /\ Pointers(m, v) = {} /\ Records(H, v) = {}
  BY <1>1, FreshOK, Unreferenced DEF Good
<1>3. PICK y : y = [m.value[v] EXCEPT !.content = X]
  OBVIOUS
<1>4. m.value[v] \in Value
  BY <1>2, ValueFields
<1>5. y \in Value /\ y.refcnt = m.value[v].refcnt /\ y.write_count = m.value[v].write_count
  BY <1>3, <1>4 DEF Value
<1>6. PICK g : g = WithValue(m, v, y)
  OBVIOUS
<1>7. g = [m EXCEPT !.value[v].content = X]
  BY <1>3, <1>6, Zenon DEF WithValue
<1>8. Calm(m, g, s, H)
  BY <1>2, <1>5, <1>6, ValueCalm
<1>9. Step(m, g, s, H) /\ Good(g, H) /\ Exact(g) /\ On(g, s) /\ Keeps(m, g)
  <2>1. Step(m, g, s, H) /\ g \in Memory /\ Same(m, g, s) /\ Tables(m)
    BY <1>8, CalmStep DEF Calm, Good
  <2>2. /\ g.store = m.store /\ g.block = m.block
        /\ \A u \in Val : g.value[u] = IF u = v THEN y ELSE m.value[u]
    BY <1>2, <1>5, <1>6, ValueChanged
  <2>3. Rests(m, g, s)
    <3>1. Tab(g, s) = Tab(m, s) /\ \A b \in Block, o \in Ofs : At(g, b, o) = At(m, b, o)
      BY <2>2 DEF Tab, At
    <3>2. \A u \in Val : Pointers(m, u) # {} => g.value[u].content = m.value[u].content
      BY <2>2, <1>2
    <3> QED
      BY <3>1, <3>2, <2>2, <1>5 DEF Rests
  <2>4. Keeps(m, g)
    BY <2>1, <2>3, <1>2, RestsKeeps DEF Step
  <2> QED
    BY <2>1, <2>4 DEF Step
<1>10. Has(g, s, a) /\ SlotOf(g, s, a).param # NoParam
  BY <1>8 DEF Calm
<1>11. PICK w : w = Attached(g, s, a, v)
  OBVIOUS
<1>12. Step(g, w, s, H) /\ SlotOf(w, s, a).value = v /\ Mine(w, s, BlockOf(w, s, a)) /\ Opens(g, w, s, a)
  <2>1. v # NoVal
    BY <1>2, StoreAssumption
  <2> QED
    BY <2>1, <1>2, <1>9, <1>10, <1>11, AttachedStep
<1>13. Good(w, H) /\ Exact(w) /\ On(w, s) /\ Has(w, s, a)
  BY <1>10, <1>12 DEF Step
<1>14. Alive(w, s, a)
  BY <1>2, <1>12, <1>13, StoreAssumption DEF Alive
<1>15. n = ReleaseRw(w, s, a)
  BY <1>1, <1>7, <1>11, Zenon DEF WithNewValue
<1>16. Calm(w, n, s, H) /\ Shuts(w, n, s, a)
  BY <1>12, <1>13, <1>14, <1>15, ReleaseCalm
<1>19. Keeps(m, n)
  BY <1>9, <1>12, <1>16 DEF Keeps, Opens, Shuts
<1>17. Step(m, n, s, H)
  BY <1>9, <1>12, <1>13, <1>16, CalmStep, StepTrans
<1>18. SlotOf(n, s, a).value = v /\ Alive(n, s, a)
  BY <1>12, <1>13, <1>14, <1>16 DEF Calm, Alive
<1> QED
  BY <1>2, <1>17, <1>18, <1>19

(* What cesk_frame_store_new_object does at the address. *)
LEMMA CreatedStep ==
  ASSUME NEW m, NEW H, Good(m, H), Exact(m), NEW s \in Store, On(m, s), NEW a, Has(m, s, a),
         SlotOf(m, s, a).param # NoParam, NEW p
  PROVE  Step(m, Created(m, s, p, a), s, H) /\ Keeps(m, Created(m, s, p, a))
<1>1. CASE ~ Alive(m, s, a)
  <2>1. Created(m, s, p, a) = WithNewValue(m, s, a, {})
    BY <1>1 DEF Created
  <2> QED
    BY <2>1, NewValueStep
<1>2. CASE Alive(m, s, a)
  <2>1. PICK g : g = GetRw(m, s, a)
    OBVIOUS
  <2>2. Step(m, g, s, H) /\ Alive(g, s, a) /\ Sole(g, s, a, SlotOf(g, s, a).value) /\ Opens(m, g, s, a)
    BY <2>1, <1>2, GetRwStep DEF Unshared
  <2>3. Good(g, H) /\ Exact(g) /\ On(g, s) /\ Mine(g, s, BlockOf(g, s, a))
    BY <2>2 DEF Step, Sole
  <2>4. PICK w : w = WithReuse(g, s, a, TRUE)
    OBVIOUS
  <2>5. Calm(g, w, s, H) /\ Stays(g, w, s, a)
    BY <2>2, <2>3, <2>4, ReuseCalm
  <2>6. Good(w, H) /\ On(w, s) /\ Alive(w, s, a)
    BY <2>2, <2>5 DEF Calm, Alive
  <2>7. Calm(g, ReleaseRw(w, s, a), s, H)
    BY <2>5, <2>6, ReleaseCalm, CalmTrans
  <2>8. Step(m, ReleaseRw(w, s, a), s, H)
    BY <2>2, <2>3, <2>7, CalmStep, StepTrans
  <2>9. Created(m, s, p, a) \in {g, ReleaseRw(w, s, a)}
    BY <2>1, <2>4, <1>2 DEF Created
  <2>10. Mine(w, s, BlockOf(w, s, a))
    BY <2>2, <2>5 DEF Calm, Sole
  <2>11. Shuts(w, ReleaseRw(w, s, a), s, a)
    BY <2>6, <2>10, ReleaseCalm
  <2>12. Keeps(m, ReleaseRw(w, s, a))
    BY <2>2, <2>5, <2>11 DEF Keeps, Opens, Stays, Shuts
  <2>13. ConstParam = {} => Created(m, s, p, a) = ReleaseRw(w, s, a)
    BY <2>1, <2>4, <1>2 DEF Created
  <2>14. Keeps(m, Created(m, s, p, a))
    BY <2>12, <2>13, Zenon DEF Keeps
  <2> QED
    BY <2>2, <2>8, <2>9, <2>14
<1> QED
  BY <1>1, <1>2

(* What cesk_frame_store_put_field does between the two records. *)
LEMMA PutStep ==
  ASSUME NEW h, NEW H, Good(h, H), Exact(h), NEW s \in Store, On(h, s), NEW a, Alive(h, s, a),
         NEW v, Sole(h, s, a, v), NEW X \in SUBSET Elem, NEW weak \in BOOLEAN, NEW n, n = Put(h, s, a, X, weak)
  PROVE  /\ Step(h, n, s, H) /\ SlotOf(n, s, a).value \in Val
         /\ SlotOf(n, s, a).value = v \/ Records(H, SlotOf(n, s, a).value) = {}
         /\ Shuts(h, n, s, a)
<1>1. /\ h \in Memory /\ InUse(h) /\ Has(h, s, a) /\ v \in Val /\ SlotOf(h, s, a).value = v
      /\ Mine(h, s, BlockOf(h, s, a))
  BY DEF Good, Alive, Sole
<1>2. CASE weak
  <2>1. PICK q : q = IncrefAll(h, s, X \ Content(h, s, a))
    OBVIOUS
  <2>2. Calm(h, q, s, H) /\ Plain(h, q, s)
    BY <2>1, IncrefCalm
  <2>3. Good(q, H) /\ On(q, s) /\ Alive(q, s, a) /\ Sole(q, s, a, v) /\ q \in Memory
    BY <2>2 DEF Calm, Alive, Good
  <2>15. Open(h, s, a) => Open(q, s, a)
    BY <2>2, <1>1, OpenCalm
  <2>4. q.value[v] \in Value
    BY <2>3, <1>1, ValueFields
  <2>5. PICK y : y = [q.value[v] EXCEPT !.content = @ \cup X]
    OBVIOUS
  <2>6. y \in Value /\ y.refcnt = q.value[v].refcnt /\ y.write_count = q.value[v].write_count
    <3>1. q.value[v].content \cup X \in SUBSET Elem
      BY <2>4 DEF Value
    <3> QED
      BY <2>4, <2>5, <3>1 DEF Value
  <2>7. PICK w : w = WithValue(q, v, y)
    OBVIOUS
  <2>8. Calm(q, w, s, H)
    BY <2>3, <2>6, <2>7, <1>1, ValueCalm
  <2>9. Good(w, H) /\ On(w, s) /\ Alive(w, s, a)
    BY <2>3, <2>8 DEF Calm, Alive
  <2>10. n = ReleaseRw(w, s, a)
    <3>1. w = [q EXCEPT !.value[v].content = @ \cup X]
      BY <2>5, <2>7, Zenon DEF WithValue
    <3>2. w = [IncrefAll(h, s, X \ Content(h, s, a)) EXCEPT !.value[SlotOf(h, s, a).value].content = @ \cup X]
      BY <2>1, <3>1, <1>1, Zenon
    <3> QED
      BY <3>2, <1>2, Zenon DEF Put
  <2>11. Calm(w, n, s, H)
    BY <2>9, <2>10, ReleaseCalm
  <2>12. Calm(h, n, s, H)
    BY <2>2, <2>8, <2>11, CalmTrans
  <2>13. Step(h, n, s, H)
    BY <2>12, CalmStep
  <2>14. SlotOf(n, s, a).value = v
    BY <2>12, <1>1 DEF Calm
  <2>16. Stays(q, w, s, a)
    BY <2>3, <2>6, <2>7, <2>8, ContentStays
  <2>17. Mine(w, s, BlockOf(w, s, a))
    BY <2>3, <2>8 DEF Calm, Sole
  <2>18. Shuts(w, n, s, a)
    BY <2>9, <2>10, <2>17, ReleaseCalm
  <2>19. Shuts(h, n, s, a)
    BY <2>15, <2>16, <2>18 DEF Stays, Shuts
  <2> QED
    BY <2>13, <2>14, <2>19, <1>1
<1>3. CASE ~ weak
  <2>1. PICK q : q = IncrefAll(h, s, X)
    OBVIOUS
  <2>2. Calm(h, q, s, H) /\ Plain(h, q, s)
    BY <2>1, IncrefCalm
  <2>3. Good(q, H) /\ On(q, s) /\ Alive(q, s, a) /\ Mine(q, s, BlockOf(q, s, a))
    BY <2>2 DEF Calm, Alive, Sole
  <2>10. Open(h, s, a) => Open(q, s, a)
    BY <2>2, <1>1, OpenCalm
  <2>4. PICK w : w = ReleaseRw(q, s, a)
    OBVIOUS
  <2>5. Calm(h, w, s, H)
    BY <2>2, <2>3, <2>4, ReleaseCalm, CalmTrans
  <2>6. Step(h, w, s, H) /\ Good(w, H) /\ Exact(w) /\ On(w, s)
    BY <2>5, CalmStep DEF Step
  <2>11. Shuts(q, w, s, a)
    BY <2>3, <2>4, ReleaseCalm
  <2>7. Has(w, s, a) /\ SlotOf(w, s, a).param # NoParam
    <3>1. BlockOf(h, s, a) \in Block /\ a % NSlots \in Ofs /\ SlotOf(h, s, a) = At(h, BlockOf(h, s, a), a % NSlots)
      BY <1>1, HasFields
    <3>2. SlotOf(h, s, a).param # NoParam
      BY <3>1, <1>1 DEF InUse, Alive
    <3> QED
      BY <2>5, <3>2, <1>1 DEF Calm
  <2>8. n = WithNewValue(w, s, a, X)
    BY <2>1, <2>4, <1>3 DEF Put
  <2>9. /\ Step(w, n, s, H) /\ SlotOf(n, s, a).value \in Val /\ Records(H, SlotOf(n, s, a).value) = {}
        /\ Keeps(w, n)
    BY <2>6, <2>7, <2>8, NewValueStep
  <2>12. Shuts(h, n, s, a)
    BY <2>9, <2>10, <2>11 DEF Shuts, Keeps
  <2> QED
    BY <2>6, <2>9, <2>12, StepTrans
<1> QED
  BY <1>2, <1>3

(***************************************************************************)
(* The records of diff buffers.                                            *)
(***************************************************************************)
(* What depends on the tables and the blocks of a memory alone. *)
Alike(m, n) == n.store = m.store /\ n.block = m.block
LEMMA SameBlocks ==
  ASSUME NEW m, Tables(m), BlocksCounted(m), FreeEmpty(m), InUse(m), NEW n, Alike(m, n)
  PROVE  /\ Tables(n) /\ BlocksCounted(n) /\ FreeEmpty(n) /\ InUse(n)
         /\ \A t, a : /\ Has(n, t, a) <=> Has(m, t, a)
                      /\ SlotOf(n, t, a) = SlotOf(m, t, a) /\ BlockOf(n, t, a) = BlockOf(m, t, a)
         /\ \A w : Pointers(n, w) = Pointers(m, w)
         /\ \A t, b : Mine(n, t, b) <=> Mine(m, t, b)
         /\ \A b : Filled(n, b) = Filled(m, b)
         /\ \A b, o : At(n, b, o) = At(m, b, o)
         /\ \A t : Living(n, t) = Living(m, t) /\ (On(n, t) <=> On(m, t)) /\ Tab(n, t) = Tab(m, t)
<1>1. n.store = m.store /\ n.block = m.block
  BY DEF Alike
<1>2. \A t : (On(n, t) <=> On(m, t)) /\ Tab(n, t) = Tab(m, t)
  BY <1>1, Zenon DEF On, Tab
<1>3. \A b, o : At(n, b, o) = At(m, b, o)
  BY <1>1, Zenon DEF At
<1>4. \A t, a : /\ Has(n, t, a) <=> Has(m, t, a)
                /\ SlotOf(n, t, a) = SlotOf(m, t, a) /\ BlockOf(n, t, a) = BlockOf(m, t, a)
  BY <1>1, Zenon DEF Has, SlotOf, BlockOf
<1>5. \A b : Users(n, b) = Users(m, b)
  BY <1>2 DEF Users
<1>6. /\ \A w : Pointers(n, w) = Pointers(m, w)
      /\ \A b : Filled(n, b) = Filled(m, b)
  BY <1>3 DEF Pointers, Filled
<1>7. ASSUME NEW t, NEW b PROVE Mine(n, t, b) <=> Mine(m, t, b)
  <2>1. Tab(n, t) = Tab(m, t) /\ n.block[b] = m.block[b]
    BY <1>1, <1>2
  <2> QED
    BY <2>1 DEF Mine
<1>8. \A t : Living(n, t) = Living(m, t)
  BY <1>4 DEF Living, Alive
<1>9. Tables(n)
  <2>1. \A t \in Store : On(n, t) => On(m, t)
    BY <1>2
  <2> QED
    BY <2>1, <1>2 DEF Tables
<1>10. BlocksCounted(n)
  BY <1>1, <1>5, Zenon DEF BlocksCounted
<1>11. FreeEmpty(n) /\ InUse(n)
  BY <1>1, <1>3, Zenon DEF FreeEmpty, InUse
<1> QED
  BY <1>2, <1>3, <1>4, <1>6, <1>7, <1>8, <1>9, <1>10, <1>11

(* The references of the records J instead of those of H. *)
LEMMA Recounted ==
  ASSUME NEW m, NEW H, Good(m, H), Exact(m), NEW n \in Memory, Alike(m, n), NEW J, Buffers(J), ValuesCounted(n, J),
         \A w \in Val : Pointers(m, w) # {} => n.value[w].content = m.value[w].content
  PROVE  /\ Good(n, J) /\ Exact(n) /\ \A s \in Store : Same(m, n, s)
         /\ \A s, a : /\ SlotOf(n, s, a) = SlotOf(m, s, a) /\ (Has(n, s, a) <=> Has(m, s, a))
                      /\ \A w : Sole(m, s, a, w) => Sole(n, s, a, w)
         /\ \A s : (On(n, s) <=> On(m, s)) /\ Tab(n, s) = Tab(m, s)
<1>1. m \in Memory /\ Tables(m) /\ BlocksCounted(m) /\ FreeEmpty(m) /\ InUse(m)
  BY DEF Good
<1>2. /\ Tables(n) /\ BlocksCounted(n) /\ FreeEmpty(n) /\ InUse(n)
      /\ \A t, a : /\ Has(n, t, a) <=> Has(m, t, a)
                   /\ SlotOf(n, t, a) = SlotOf(m, t, a) /\ BlockOf(n, t, a) = BlockOf(m, t, a)
      /\ \A w : Pointers(n, w) = Pointers(m, w)
      /\ \A t, b : Mine(n, t, b) <=> Mine(m, t, b)
      /\ \A b : Filled(n, b) = Filled(m, b)
      /\ \A b, o : At(n, b, o) = At(m, b, o)
      /\ \A t : Living(n, t) = Living(m, t) /\ (On(n, t) <=> On(m, t)) /\ Tab(n, t) = Tab(m, t)
  BY <1>1, SameBlocks
<1>3. Good(n, J)
  BY <1>2 DEF Good
<1>4. n.store = m.store /\ n.block = m.block
  BY DEF Alike
<1>5. Exact(n)
  <2>1. Counters(m, 0, 0, 0)
    BY DEF Exact
  <2>2. Counters(n, 0, 0, 0)
    BY <2>1, <1>2, <1>4, Zenon DEF Counters
  <2> QED
    BY <2>2, ExactIs
<1>6. ASSUME NEW s \in Store PROVE Same(m, n, s)
  <2>1. \A t \in Store : On(m, t) => \A j \in DOMAIN Tab(m, t) : Tab(m, t)[j] \in Block
    BY <1>1, StoreFields
  <2>2. \A b \in Block, o \in Ofs : At(m, b, o).value \in Val \cup {NoVal}
    BY <1>1, BlockFields
  <2>3. \A b \in Block, o \in Ofs : LET w == At(m, b, o).value
                                 IN  w # NoVal => n.value[w].content = m.value[w].content
    <3>1. ASSUME NEW b \in Block, NEW o \in Ofs, NEW w, w = At(m, b, o).value, w # NoVal
          PROVE  n.value[w].content = m.value[w].content
      <4>1. <<b, o>> \in Pointers(m, w)
        BY <3>1 DEF Pointers
      <4> QED
        BY <4>1, <3>1, <2>2
    <3> QED
      BY <3>1, Zenon
  <2>4. ASSUME NEW t \in Store \ {s}, On(m, t), NEW j \in DOMAIN Tab(m, t), NEW o \in Ofs
        PROVE  LET b == Tab(m, t)[j]
                   w == At(m, b, o).value
               IN  /\ At(n, b, o).value = w
                   /\ w # NoVal => /\ At(n, b, o).refcnt = At(m, b, o).refcnt
                                   /\ At(n, b, o).reuse = At(m, b, o).reuse
                                   /\ n.value[w].content = m.value[w].content
    <3>1. Tab(m, t)[j] \in Block
      BY <2>1, <2>4
    <3> QED
      BY <3>1, <2>3, <1>2, Zenon
  <2>5. \A t \in Store \ {s} : n.store[t] = m.store[t]
    BY <1>4
  <2> QED
    BY <2>4, <2>5, <1>1, SameIntro
<1>7. \A s, a, w : Sole(m, s, a, w) => Sole(n, s, a, w)
  BY <1>2 DEF Sole
<1> QED
  BY <1>2, <1>3, <1>5, <1>6, <1>7

(* Counting the references of records leaves the books alone. *)
LEMMA AlikeKeeps ==
  ASSUME NEW m, NEW H, Good(m, H), NEW n \in Memory, Alike(m, n),
         \A w \in Val : Pointers(m, w) # {} => n.value[w].content = m.value[w].content,
         \A w \in Val : n.value[w].write_count \in {m.value[w].write_count, 0},
         NEW s \in Store, Same(m, n, s)
  PROVE  Keeps(m, n)
<1>1. m \in Memory /\ Tables(m) /\ BlocksCounted(m) /\ FreeEmpty(m) /\ InUse(m)
  BY DEF Good
<1>2. /\ \A t, a : SlotOf(n, t, a) = SlotOf(m, t, a)
      /\ \A b : Filled(n, b) = Filled(m, b)
      /\ \A b, o : At(n, b, o) = At(m, b, o)
      /\ \A t : Living(n, t) = Living(m, t) /\ (On(n, t) <=> On(m, t))
  BY <1>1, SameBlocks
<1>3. n.store = m.store /\ n.block = m.block
  BY DEF Alike
<1>4. ASSUME NEW b \in Block PROVE Covered(m, n, s, b)
  <2>1. ASSUME NEW o \in Filled(m, b)
        PROVE  n.value[At(m, b, o).value].content = m.value[At(m, b, o).value].content
    <3>1. PICK v : v = At(m, b, o).value
      OBVIOUS
    <3>2. v \in Val /\ o \in Ofs
      BY <3>1, <1>1, <2>1, BlockFields DEF Filled
    <3>3. <<b, o>> \in Pointers(m, v)
      BY <3>1, <3>2 DEF Pointers
    <3> QED
      BY <3>1, <3>2, <3>3
  <2>2. Relocated(n, b) \subseteq Relocated(m, b)
    BY <2>1, <1>2, Zenon DEF Relocated
  <2> QED
    BY <2>2, <1>3 DEF Covered
<1>5. ASSUME On(n, s), Hashed(m, s, {}) PROVE Hashed(n, s, {})
  <2>0. On(m, s)
    BY <1>2, <1>5
  <2>1. ASSUME NEW a \in Living(m, s) PROVE EntryOf(n, s, a) = EntryOf(m, s, a)
    <3>1. PICK v : v = SlotOf(m, s, a).value
      OBVIOUS
    <3>2. Has(m, s, a) /\ v # NoVal
      BY <3>1, <2>1 DEF Living, Alive
    <3>3. BlockOf(m, s, a) \in Block /\ a % NSlots \in Ofs /\ v = At(m, BlockOf(m, s, a), a % NSlots).value
      BY <3>1, <3>2, <2>0, <1>1, HasFields
    <3>4. v \in Val /\ <<BlockOf(m, s, a), a % NSlots>> \in Pointers(m, v)
      BY <3>2, <3>3, <1>1, BlockFields DEF Pointers
    <3>5. n.value[v].content = m.value[v].content
      BY <3>4
    <3> QED
      BY <3>1, <3>5, <1>2 DEF EntryOf, Content
  <2>2. {EntryOf(n, s, a) : a \in Living(n, s) \ {}} = {EntryOf(m, s, a) : a \in Living(m, s) \ {}}
    BY <2>1, <1>2
  <2> QED
    BY <2>2, <1>3, <1>5 DEF Hashed
<1>6. ASSUME Tidy(m) PROVE Tidy(n)
  <2>1. On(n, s) => Hashed(n, s, {})
    BY <1>2, <1>5, <1>6 DEF Tidy
  <2> QED
    BY <2>1, <1>1, <1>4, <1>6, TidyTurn
<1> QED
  BY <1>6 DEF Keeps

(* A record more, and its reference. *)
IsRecord(r, v) == r \in {"inv", "diff"} \X Addr \X Val /\ r[3] = v
IsNew(H, r, v) == IsRecord(r, v) /\ r \notin H /\ Cardinality(H) < MaxHeld
LEMMA Recorded ==
  ASSUME NEW H, Buffers(H), NEW v \in Val, NEW r, IsNew(H, r, v)
  PROVE  /\ Buffers(H \cup {r})
         /\ \A w : Cardinality(Records(H \cup {r}, w)) = Cardinality(Records(H, w)) + (IF w = v THEN 1 ELSE 0)
<1>0. IsRecord(r, v) /\ r \notin H /\ Cardinality(H) < MaxHeld
  BY DEF IsNew
<1>1. Buffers(H \cup {r})
  <2>1. IsFiniteSet(H) /\ Cardinality(H) \in Nat /\ MaxHeld \in Nat
    BY FS_CardinalityType, StoreAssumption DEF Buffers
  <2>2. IsFiniteSet(H \cup {r}) /\ Cardinality(H \cup {r}) = Cardinality(H) + 1
    BY <2>1, <1>0, FS_AddElement
  <2>3. H \cup {r} \subseteq {"inv", "diff"} \X Addr \X Val
    BY <1>0, Zenon DEF Buffers, IsRecord
  <2> QED
    BY <2>1, <2>2, <2>3, <1>0 DEF Buffers
<1>2. ASSUME NEW w
      PROVE  Cardinality(Records(H \cup {r}, w)) = Cardinality(Records(H, w)) + (IF w = v THEN 1 ELSE 0)
  <2>1. IsFiniteSet(Records(H, w)) /\ Cardinality(Records(H, w)) \in Nat
    BY Sizes
  <2>2. CASE w = v
    <3>1. Records(H \cup {r}, w) = Records(H, w) \cup {r} /\ r \notin Records(H, w)
      BY <2>2, <1>0, Zenon DEF Records, IsRecord
    <3>2. Cardinality(Records(H \cup {r}, w)) = Cardinality(Records(H, w)) + 1
      BY <2>1, <3>1, FS_AddElement
    <3> QED
      BY <2>2, <3>2
  <2>3. CASE w # v
    <3>1. Records(H \cup {r}, w) = Records(H, w)
      BY <2>3, <1>0, Zenon DEF Records, IsRecord
    <3>2. Cardinality(Records(H, w)) = Cardinality(Records(H, w)) + 0
      BY <2>1
    <3> QED
      BY <2>3, <3>1, <3>2, Zenon
  <2> QED
    BY <2>2, <2>3
<1> QED
  BY <1>1, <1>2

OneMore(m, v) == Count(m, v, TRUE)
LEMMA CountIs ==
  ASSUME NEW m \in Memory, NEW v \in Val, NEW n, n = OneMore(m, v)
  PROVE  /\ n \in Memory /\ Alike(m, n)
         /\ \A w \in Val : /\ n.value[w].refcnt = m.value[w].refcnt + (IF w = v THEN 1 ELSE 0)
                           /\ n.value[w].content = m.value[w].content
                           /\ n.value[w].write_count = m.value[w].write_count
<1>1. m.value[v] \in Value /\ m.value[v].refcnt \in Nat
  BY ValueFields
<1>2. PICK k : k = m.value[v].refcnt + 1
  OBVIOUS
<1>3. PICK y : y = [m.value[v] EXCEPT !.refcnt = k]
  OBVIOUS
<1>4. /\ k \in Nat /\ y \in Value /\ y.refcnt = m.value[v].refcnt + 1
      /\ y.content = m.value[v].content /\ y.write_count = m.value[v].write_count
  BY <1>1, <1>2, <1>3 DEF Value
<1>5. PICK q : q = WithValue(m, v, y)
  OBVIOUS
<1>6. /\ q \in Memory /\ q.store = m.store /\ q.block = m.block
      /\ \A u \in Val : q.value[u] = IF u = v THEN y ELSE m.value[u]
  BY <1>4, <1>5, ValueChanged
<1>7. q = n
  BY <1>2, <1>3, <1>5, Zenon DEF OneMore, Count, WithValue
<1>8. ASSUME NEW w \in Val
      PROVE  /\ q.value[w].refcnt = m.value[w].refcnt + (IF w = v THEN 1 ELSE 0)
             /\ q.value[w].content = m.value[w].content
             /\ q.value[w].write_count = m.value[w].write_count
  <2>1. m.value[w].refcnt \in Nat
    BY ValueFields
  <2> QED
    BY <2>1, <1>4, <1>6
<1>9. Alike(m, q)
  BY <1>6 DEF Alike
<1> QED
  BY <1>6, <1>7, <1>8, <1>9, Zenon

LEMMA CountStep ==
  ASSUME NEW m, NEW H, Good(m, H), Exact(m), NEW s \in Store, On(m, s), NEW v \in Val,
         NEW r, IsNew(H, r, v), NEW n, n = OneMore(m, v)
  PROVE  /\ Step(m, n, s, H \cup {r}) /\ Keeps(m, n)
         /\ \A a, w : Sole(m, s, a, w) => Sole(n, s, a, w)
         /\ \A a : SlotOf(n, s, a) = SlotOf(m, s, a)
         /\ \A a : Mine(m, s, BlockOf(m, s, a)) => Stays(m, n, s, a)
<1>1. m \in Memory /\ ValuesCounted(m, H) /\ Buffers(H)
  BY DEF Good
<1>2. PICK J : J = H \cup {r}
  OBVIOUS
<1>3. /\ Buffers(J)
      /\ \A w : Cardinality(Records(J, w)) = Cardinality(Records(H, w)) + (IF w = v THEN 1 ELSE 0)
  BY <1>1, <1>2, Recorded
<1>4. /\ n \in Memory /\ Alike(m, n)
      /\ \A w \in Val : /\ n.value[w].refcnt = m.value[w].refcnt + (IF w = v THEN 1 ELSE 0)
                        /\ n.value[w].content = m.value[w].content
                        /\ n.value[w].write_count = m.value[w].write_count
  BY <1>1, CountIs
<1>5. ASSUME NEW w \in Val
      PROVE  n.value[w].refcnt = Cardinality(Pointers(n, w)) + Cardinality(Records(J, w))
  <2>1. PICK x, z, u, d : /\ x = m.value[w].refcnt /\ z = Cardinality(Pointers(m, w))
                          /\ u = Cardinality(Records(H, w)) /\ d = IF w = v THEN 1 ELSE 0
    OBVIOUS
  <2>2. x = z + u
    BY <2>1, <1>1, Zenon DEF ValuesCounted
  <2>3. z \in Nat /\ u \in Nat /\ d \in Nat
    BY <2>1, <1>1, Sizes
  <2>4. x + d = z + (u + d)
    BY <2>2, <2>3
  <2>5. Pointers(n, w) = Pointers(m, w)
    BY <1>4 DEF Alike, Pointers, At
  <2> QED
    BY <2>1, <2>4, <2>5, <1>3, <1>4, Zenon
<1>6. ValuesCounted(n, J)
  BY <1>5 DEF ValuesCounted
<1>7. /\ Good(n, J) /\ Exact(n) /\ \A t \in Store : Same(m, n, t)
      /\ \A t, a : /\ SlotOf(n, t, a) = SlotOf(m, t, a) /\ (Has(n, t, a) <=> Has(m, t, a))
                   /\ \A w : Sole(m, t, a, w) => Sole(n, t, a, w)
      /\ \A t : (On(n, t) <=> On(m, t)) /\ Tab(n, t) = Tab(m, t)
  BY <1>3, <1>4, <1>6, Recounted
<1>8. Step(m, n, s, J)
  BY <1>7 DEF Step
<1>9. Keeps(m, n)
  BY <1>4, <1>7, AlikeKeeps
<1>10. ASSUME NEW a, Mine(m, s, BlockOf(m, s, a)) PROVE Stays(m, n, s, a)
  <2>1. n.store = m.store /\ n.block = m.block
    BY <1>4 DEF Alike
  <2>2. Rests(m, n, s)
    <3>1. \A b, o : At(n, b, o) = At(m, b, o)
      BY <2>1 DEF At
    <3> QED
      BY <2>1, <3>1, <1>4 DEF Rests, Tab
  <2>3. Plain(m, n, s) /\ Tables(m)
    BY <2>2, <1>1, <1>4, <1>7, RestsLedger DEF Good
  <2>4. BlockOf(n, s, a) = BlockOf(m, s, a) /\ SlotOf(n, s, a).value = SlotOf(m, s, a).value
    BY <2>1, <1>7 DEF BlockOf
  <2> QED
    BY <2>3, <2>4, <1>1, <1>4, <1>7, <1>10, OpenKept DEF Stays
<1> QED
  BY <1>2, <1>7, <1>8, <1>9, <1>10

(* A record less. *)
LEMMA UncountTurn ==
  ASSUME NEW m, NEW H, Good(m, H), Exact(m), NEW r \in H, NEW n, n = WithValue(m, r[3], Unref(m.value[r[3]], 1))
  PROVE  Good(n, H \ {r}) /\ Exact(n) /\ \A s \in Store : Same(m, n, s) /\ Keeps(m, n)
<1>1. m \in Memory /\ ValuesCounted(m, H) /\ Buffers(H)
  BY DEF Good
<1>2. PICK J, v : J = H \ {r} /\ v = r[3]
  OBVIOUS
<1>3. v \in Val
  BY <1>1, <1>2 DEF Buffers
<1>4. /\ \A w : w # v => Records(J, w) = Records(H, w)
      /\ Records(J, v) = Records(H, v) \ {r} /\ r \in Records(H, v)
  BY <1>2, Zenon DEF Records
<1>5. IsFiniteSet(Records(H, v)) /\ Cardinality(Records(H, v)) \in Nat /\ IsFiniteSet(Pointers(m, v)) /\ Cardinality(Pointers(m, v)) \in Nat
  BY <1>1, Sizes
<1>6. PICK u : u = Cardinality(Records(J, v)) /\ u \in Nat /\ Cardinality(Records(H, v)) = u + 1
  <2>1. IsFiniteSet(Records(J, v)) /\ Cardinality(Records(J, v)) = Cardinality(Records(H, v)) - 1
    BY <1>4, <1>5, FS_RemoveElement
  <2>2. Cardinality(Records(J, v)) \in Nat
    BY <2>1, FS_CardinalityType
  <2>3. Cardinality(Records(H, v)) = Cardinality(Records(J, v)) + 1
    BY <2>1, <1>5
  <2> QED
    BY <2>2, <2>3
<1>7. Buffers(J)
  <2>1. IsFiniteSet(H) /\ J \subseteq H
    BY <1>1, <1>2 DEF Buffers
  <2>2. IsFiniteSet(J) /\ Cardinality(J) <= Cardinality(H)
    BY <2>1, FS_Subset
  <2>3. Cardinality(J) \in Nat /\ Cardinality(H) \in Nat /\ MaxHeld \in Nat
    BY <2>1, <2>2, FS_CardinalityType, StoreAssumption
  <2> QED
    BY <2>1, <2>2, <2>3, <1>1 DEF Buffers
<1>8. PICK z, y : z = Cardinality(Pointers(m, v)) /\ y = Unref(m.value[v], 1)
  OBVIOUS
<1>9. m.value[v] \in Value /\ m.value[v].refcnt = z + (u + 1) /\ z \in Nat
  BY <1>1, <1>3, <1>5, <1>6, <1>8, ValueFields DEF ValuesCounted
<1>10. 1 <= m.value[v].refcnt /\ (z + (u + 1)) - 1 = z + u
  BY <1>6, <1>9
<1>11. /\ y \in Value /\ y.refcnt = z + u
       /\ 1 < m.value[v].refcnt => y.content = m.value[v].content
       /\ y.write_count \in {m.value[v].write_count, 0}
  BY <1>8, <1>9, <1>10, UnrefIs
<1>12. PICK q : q = WithValue(m, v, y)
  OBVIOUS
<1>13. /\ q \in Memory /\ q.store = m.store /\ q.block = m.block
       /\ \A w \in Val : q.value[w] = IF w = v THEN y ELSE m.value[w]
  BY <1>1, <1>3, <1>11, <1>12, ValueChanged
<1>14. n = q
  BY <1>2, <1>8, <1>12, Zenon
<1>15. Alike(m, q) /\ \A w : Pointers(q, w) = Pointers(m, w)
  BY <1>13 DEF Alike, Pointers, At
<1>16. ValuesCounted(q, J)
  <2>1. ASSUME NEW w \in Val, w = v
        PROVE  q.value[w].refcnt = Cardinality(Pointers(q, w)) + Cardinality(Records(J, w))
    BY <2>1, <1>6, <1>8, <1>11, <1>13, <1>15, Zenon
  <2>2. ASSUME NEW w \in Val, w # v
        PROVE  q.value[w].refcnt = Cardinality(Pointers(q, w)) + Cardinality(Records(J, w))
    BY <2>2, <1>1, <1>4, <1>13, <1>15 DEF ValuesCounted
  <2> QED
    BY <2>1, <2>2 DEF ValuesCounted
<1>17. ASSUME NEW w \in Val, Pointers(m, w) # {} PROVE q.value[w].content = m.value[w].content
  <2>1. CASE w = v
    <3>1. z # 0
      BY <2>1, <1>5, <1>8, <1>17, FS_EmptySet
    <3>2. 1 < m.value[v].refcnt
      BY <3>1, <1>6, <1>9
    <3> QED
      BY <3>2, <2>1, <1>11, <1>13
  <2> QED
    BY <2>1, <1>13
<1>18. Good(q, J) /\ Exact(q) /\ \A s \in Store : Same(m, q, s)
  BY <1>7, <1>13, <1>15, <1>16, <1>17, Recounted
<1>19. ASSUME NEW s \in Store PROVE Same(m, q, s) /\ Keeps(m, q)
  <2>1. \A w \in Val : q.value[w].write_count \in {m.value[w].write_count, 0}
    BY <1>11, <1>13
  <2> QED
    BY <2>1, <1>13, <1>15, <1>17, <1>18, AlikeKeeps
<1> QED
  BY <1>2, <1>14, <1>18, <1>19, Zenon

-----------------------------------------------------------------------------
(***************************************************************************)
(* The handlers.                                                           *)
(***************************************************************************)
(* No store has a block yet. *)
LEMMA EmptyGood ==
  ASSUME NEW m, m = [store |-> [s \in Store |-> NoStore], block |-> [b \in Block |-> NewBlock],
                     value |-> [v \in Val |-> NewValue]]
  PROVE  Good(m, {}) /\ Exact(m) /\ Tidy(m)
<1>1. /\ \A s \in Store : m.store[s] = NoStore
      /\ \A b \in Block : m.block[b] = NewBlock
      /\ \A v \in Val : m.value[v] = NewValue
      /\ m.store \in [Store -> {NoStore}] /\ m.block \in [Block -> {NewBlock}] /\ m.value \in [Val -> {NewValue}]
  OBVIOUS
<1>2. NewSlot \in Slot /\ NewBlock \in StoreCell /\ NewValue \in Value
  BY StoreAssumption DEF NewSlot, Slot, NewBlock, StoreCell, NewValue, Value
<1>3. m \in Memory
  <2>1. m.store \in [Store -> Table \cup {NoStore}] /\ m.block \in [Block -> StoreCell] /\ m.value \in [Val -> Value]
    BY <1>1, <1>2
  <2>2. m = [store |-> m.store, block |-> m.block, value |-> m.value]
    OBVIOUS
  <2> QED
    BY <2>1, <2>2 DEF Memory
<1>4. \A s \in Store : ~ On(m, s)
  BY <1>1 DEF On
<1>5. \A b \in Block : m.block[b].refcnt = 0 /\ m.block[b].num_ent = 0 /\ \A o \in Ofs : At(m, b, o).value = NoVal
  BY <1>1 DEF At, NewBlock, NewSlot
<1>6. \A b : Users(m, b) = {}
  BY <1>4 DEF Users
<1>7. \A b \in Block : Filled(m, b) = {}
  BY <1>5 DEF Filled
<1>8. \A v \in Val : Pointers(m, v) = {} /\ Records({}, v) = {} /\ m.value[v].refcnt = 0
  <2>1. \A v \in Val : Pointers(m, v) = {}
    BY <1>5, StoreAssumption DEF Pointers
  <2> QED
    BY <2>1, <1>1 DEF Records, NewValue
<1>9. Cardinality({}) = 0 /\ IsFiniteSet({}) /\ MaxHeld \in Nat
  BY FS_EmptySet, StoreAssumption
<1>10. Tables(m) /\ FreeEmpty(m) /\ InUse(m)
  BY <1>4, <1>5 DEF Tables, FreeEmpty, InUse
<1>11. BlocksCounted(m)
  BY <1>5, <1>6, <1>9 DEF BlocksCounted
<1>12. ValuesCounted(m, {})
  <2>1. \A v \in Val : m.value[v].refcnt = 0 + 0
    BY <1>8
  <2> QED
    BY <2>1, <1>8, <1>9, Zenon DEF ValuesCounted
<1>13. Buffers({})
  BY <1>9 DEF Buffers
<1>14. Counters(m, 0, 0, 0)
  <2>1. \A b \in Block : m.block[b].num_ent = 0 + Ahead(b, 0, 0)
    BY <1>5 DEF Ahead
  <2> QED
    BY <2>1, <1>4, <1>7, <1>9, Zenon DEF Counters
<1>15. Tidy(m)
  <2>1. Idle(m, {})
    BY <1>1 DEF Idle, NewValue
  <2>2. \A b \in Block : Outside(m, b, {}) = {} /\ m.block[b].num_reloc = 0
    <3>1. \A b \in Block : m.block[b].num_reloc = 0
      BY <1>1 DEF NewBlock
    <3>2. \A b \in Block : Outside(m, b, {}) = {}
      BY <1>7 DEF Outside, Relocated
    <3> QED
      BY <3>1, <3>2
  <2>3. Claimed(m, {})
    <3>1. \A b \in Block : Cardinality(Outside(m, b, {})) <= m.block[b].num_reloc
      BY <2>2, <1>9
    <3> QED
      BY <3>1 DEF Claimed
  <2> QED
    BY <2>1, <2>3, <1>4 DEF Tidy
<1> QED
  BY <1>3, <1>10, <1>11, <1>12, <1>13, <1>14, <1>15, ExactIs DEF Good

(* cesk_frame_new *)
LEMMA NewStoreTurn ==
  ASSUME NEW m, NEW H, Good(m, H), Exact(m), NEW s \in Store, ~ On(m, s),
         NEW x \in Table, x.blocks = <<>>, x.num_ent = 0, x.hash = {}, NEW n, n = WithStore(m, s, x)
  PROVE  Turn(m, n, s, H)
<1>1. /\ m \in Memory /\ Tables(m) /\ BlocksCounted(m) /\ FreeEmpty(m) /\ InUse(m)
      /\ ValuesCounted(m, H) /\ Buffers(H)
  BY DEF Good
<1>2. /\ n \in Memory /\ n.value = m.value /\ n.block = m.block /\ On(n, s)
      /\ n.store[s] = x /\ \A t \in Store \ {s} : n.store[t] = m.store[t]
  BY <1>1, StoreChanged
<1>3. Tab(n, s) = <<>> /\ Len(Tab(n, s)) = 0 /\ DOMAIN Tab(n, s) = {}
  BY <1>2 DEF Tab
<1>4. \A t \in Store \ {s} : (On(n, t) <=> On(m, t)) /\ Tab(n, t) = Tab(m, t)
  BY <1>2 DEF On, Tab
<1>5. \A b, o : At(n, b, o) = At(m, b, o)
  BY <1>2 DEF At
<1>6. Tables(n)
  <2>1. ASSUME NEW t \in Store, On(n, t)
        PROVE  /\ Len(Tab(n, t)) <= MaxBlocks
               /\ \A j, k \in DOMAIN Tab(n, t) : Tab(n, t)[j] = Tab(n, t)[k] => j = k
    <3>1. CASE t = s
      BY <3>1, <1>3, StoreAssumption
    <3>2. CASE t # s
      BY <3>2, <2>1, <1>1, <1>4 DEF Tables
    <3> QED
      BY <3>1, <3>2
  <2> QED
    BY <2>1 DEF Tables
<1>7. \A b : Users(n, b) = Users(m, b)
  <2>1. ASSUME NEW b, NEW t \in Store PROVE t \in Users(n, b) <=> t \in Users(m, b)
    <3>1. CASE t = s
      <4>1. t \notin Users(m, b)
        BY <3>1 DEF Users
      <4>2. t \notin Users(n, b)
        BY <3>1, <1>1, <1>2, <1>3, TabUsers
      <4> QED
        BY <4>1, <4>2
    <3>2. CASE t # s
      BY <3>2, <1>4 DEF Users
    <3> QED
      BY <3>1, <3>2
  <2>2. \A b : Users(n, b) \subseteq Store /\ Users(m, b) \subseteq Store
    BY DEF Users
  <2>3. ASSUME NEW b PROVE Users(n, b) = Users(m, b)
    <3>1. \A t \in Store : t \in Users(n, b) <=> t \in Users(m, b)
      BY <2>1
    <3>2. Users(n, b) \subseteq Store /\ Users(m, b) \subseteq Store
      BY <2>2
    <3> QED
      BY <3>1, <3>2, Zenon
  <2> QED
    BY <2>3
<1>8. BlocksCounted(n) /\ FreeEmpty(n) /\ InUse(n)
  <2>1. BlocksCounted(n)
    BY <1>1, <1>2, <1>7, Zenon DEF BlocksCounted
  <2> QED
    BY <2>1, <1>1, <1>2, <1>5, ZenonT(40) DEF FreeEmpty, InUse
<1>9. \A w : Pointers(n, w) = Pointers(m, w)
  BY <1>5 DEF Pointers
<1>10. \A b : Filled(n, b) = Filled(m, b)
  BY <1>5 DEF Filled
<1>11. ValuesCounted(n, H)
  BY <1>1, <1>2, <1>9 DEF ValuesCounted
<1>12. Good(n, H)
  BY <1>1, <1>2, <1>6, <1>8, <1>11 DEF Good
<1>13. Same(m, n, s)
  <2>1. \A t \in Store \ {s} : \A a : Seen(n, t, a) = Seen(m, t, a)
    BY <1>2, Zenon DEF Seen, Alive, Has, SlotOf, BlockOf, Content
  <2> QED
    BY <2>1, <1>2 DEF Same
<1>14. Living(n, s) = {}
  <2>1. \A a : Has(n, s, a) => BlockNo(a) \in DOMAIN Tab(n, s)
    BY <1>2, HasFields
  <2> QED
    BY <2>1, <1>3 DEF Living, Alive
<1>15. Exact(n)
  <2>1. \A b \in Block : m.block[b].num_ent = Cardinality(Filled(m, b))
    <3>1. Counters(m, 0, 0, 0)
      BY DEF Exact
    <3>2. \A b \in Block : Cardinality(Filled(m, b)) \in Nat
      BY <1>1, Sizes
    <3>3. \A b \in Block : m.block[b].num_ent = Cardinality(Filled(m, b)) + Ahead(b, 0, 0)
      BY <3>1, Zenon DEF Counters
    <3> QED
      BY <3>2, <3>3 DEF Ahead
  <2>2. \A b \in Block : n.block[b].num_ent = Cardinality(Filled(n, b))
    BY <2>1, <1>2, <1>10
  <2>3. n.store[s].num_ent = Cardinality(Living(n, s))
    BY <1>2, <1>14, FS_EmptySet
  <2> QED
    BY <2>2, <2>3, <1>1, <1>13, ExactAfter
<1>16. Keeps(m, n)
  <2>1. ASSUME NEW b \in Block PROVE Covered(m, n, s, b)
    <3>1. Relocated(n, b) = Relocated(m, b)
      <4>1. Filled(n, b) = Filled(m, b) /\ n.value = m.value /\ \A o : At(n, b, o) = At(m, b, o)
        BY <1>2, <1>5, <1>10
      <4> QED
        BY <4>1 DEF Relocated
    <3> QED
      BY <3>1, <1>2 DEF Covered
  <2>2. Hashed(n, s, {})
    BY <1>2, <1>14 DEF Hashed
  <2>3. \A v \in Val : n.value[v].write_count \in {m.value[v].write_count, 0}
    BY <1>2
  <2> QED
    BY <2>1, <2>2, <2>3, <1>1, <1>2, <1>13, TidyTurn DEF Keeps
<1> QED
  BY <1>12, <1>13, <1>15, <1>16 DEF Turn

(* cesk_frame_make_invocation_frame *)
LEMMA InvokeTurn ==
  ASSUME NEW m, NEW H, Good(m, H), Exact(m), NEW s \in Store, NEW t \in Store, On(m, s), ~ On(m, t), NEW r,
         NEW n, n = Collected(Applied(Forked(m, s, t), t).m, t, r)
  PROVE  Turn(m, n, t, H)
<1>1. PICK f, q : f = Forked(m, s, t) /\ q = Applied(f, t).m
  OBVIOUS
<1>2. Turn(m, f, t, H) /\ On(f, t)
  BY <1>1, ForkedTurn
<1>3. Good(f, H) /\ Exact(f)
  BY <1>2 DEF Turn
<1>4. Step(f, q, t, H) /\ Keeps(f, q)
  BY <1>1, <1>2, <1>3, AppliedStep
<1>5. Good(q, H) /\ Exact(q) /\ On(q, t) /\ Turn(f, q, t, H)
  BY <1>4, StepIsTurn
<1>6. Turn(q, n, t, H)
  <2>1. Turn(q, Collected(q, t, r), t, H)
    BY <1>5, CollectedTurn
  <2> QED
    BY <2>1, <1>1
<1> QED
  BY <1>2, <1>5, <1>6, TurnTrans

(* cesk_frame_store_new_object *)
LEMMA NewObjectTurn ==
  ASSUME NEW m, NEW H, Good(m, H), Exact(m), NEW s \in Store, On(m, s), NEW p \in Param,
         NEW a \in Addr, a = AllocAddr(m, s, p),
         NEW n, n = IncrefAll(Created(Allocated(m, s, p, a), s, p, a), s, {a})
  PROVE  Turn(m, n, s, H)
<1>1. PICK f, q : f = Allocated(m, s, p, a) /\ q = Created(f, s, p, a)
  OBVIOUS
<1>2. Turn(m, f, s, H) /\ On(f, s) /\ Has(f, s, a) /\ SlotOf(f, s, a).param # NoParam
  BY <1>1, AllocatedTurn
<1>3. Good(f, H) /\ Exact(f)
  BY <1>2 DEF Turn
<1>4. Step(f, q, s, H) /\ Keeps(f, q)
  BY <1>1, <1>2, <1>3, CreatedStep
<1>5. Good(q, H) /\ Exact(q) /\ On(q, s) /\ Turn(f, q, s, H)
  BY <1>4, StepIsTurn
<1>6. {a} \in SUBSET Elem
  BY DEF Elem
<1>7. Calm(q, n, s, H) /\ Plain(q, n, s)
  <2>1. Calm(q, IncrefAll(q, s, {a}), s, H) /\ Plain(q, IncrefAll(q, s, {a}), s)
    BY <1>5, <1>6, IncrefCalm
  <2> QED
    BY <2>1, <1>1
<1>8. Turn(q, n, s, H)
  BY <1>5, <1>7, PlainTurn
<1> QED
  BY <1>2, <1>5, <1>8, TurnTrans

(* A record of a diff applied *)
LEMMA ApplyTurn ==
  ASSUME NEW m, NEW H, Good(m, H), Exact(m), NEW s \in Store, On(m, s), NEW a, Alive(m, s, a),
         NEW v \in Val, NEW X \in SUBSET Elem,
         NEW n, n = ReleaseRw(Attached(IncrefAll(m, s, X), s, a, v), s, a)
  PROVE  Turn(m, n, s, H)
<1>1. PICK f, q : f = IncrefAll(m, s, X) /\ q = Attached(f, s, a, v)
  OBVIOUS
<1>2. Calm(m, f, s, H) /\ Plain(m, f, s)
  BY <1>1, IncrefCalm
<1>3. Turn(m, f, s, H) /\ Good(f, H) /\ Exact(f) /\ On(f, s)
  BY <1>2, PlainTurn
<1>4. Has(f, s, a) /\ SlotOf(f, s, a).param # NoParam
  <2>1. m \in Memory /\ InUse(m) /\ Has(m, s, a) /\ SlotOf(m, s, a).value # NoVal
    BY DEF Good, Alive
  <2>2. BlockOf(m, s, a) \in Block /\ a % NSlots \in Ofs /\ SlotOf(m, s, a) = At(m, BlockOf(m, s, a), a % NSlots)
    BY <2>1, HasFields
  <2>3. SlotOf(m, s, a).param # NoParam
    BY <2>1, <2>2 DEF InUse
  <2> QED
    BY <2>1, <2>3, <1>2 DEF Calm
<1>5. v \in Val \cup {NoVal} /\ v # NoVal
  BY StoreAssumption
<1>6. /\ Step(f, q, s, H) /\ SlotOf(q, s, a).value = v
      /\ Mine(q, s, BlockOf(q, s, a)) /\ Opens(f, q, s, a)
  BY <1>1, <1>3, <1>4, <1>5, AttachedStep
<1>7. Good(q, H) /\ Exact(q) /\ On(q, s)
  BY <1>6 DEF Step
<1>8. Alive(q, s, a)
  BY <1>4, <1>5, <1>6 DEF Step, Alive
<1>9. Calm(q, n, s, H) /\ Shuts(q, n, s, a)
  <2>1. Calm(q, ReleaseRw(q, s, a), s, H) /\ Shuts(q, ReleaseRw(q, s, a), s, a)
    BY <1>6, <1>7, <1>8, ReleaseCalm
  <2> QED
    BY <2>1, <1>1
<1>10. Step(f, n, s, H)
  BY <1>6, <1>7, <1>9, CalmStep, StepTrans
<1>11. Keeps(f, n)
  BY <1>6, <1>9 DEF Opens, Shuts, Keeps
<1>12. Turn(f, n, s, H)
  BY <1>10, <1>11, StepIsTurn
<1> QED
  BY <1>3, <1>12, TurnTrans

(* A value that its slot has alone is in no record. *)
LEMMA UnsharedUnrecorded ==
  ASSUME NEW m, NEW H, Good(m, H), NEW s \in Store, On(m, s), NEW a, NEW v, Unshared(m, s, a, v)
  PROVE  Records(H, v) = {} /\ v \in Val
<1>1. m \in Memory /\ ValuesCounted(m, H) /\ Buffers(H)
  BY DEF Good
<1>2. Has(m, s, a) /\ SlotOf(m, s, a).value = v /\ v \in Val /\ m.value[v].refcnt = 1
  BY DEF Unshared, Sole
<1>3. BlockOf(m, s, a) \in Block /\ a % NSlots \in Ofs /\ SlotOf(m, s, a) = At(m, BlockOf(m, s, a), a % NSlots)
  BY <1>1, <1>2, HasFields
<1>4. Pointers(m, v) # {}
  <2>1. <<BlockOf(m, s, a), a % NSlots>> \in Pointers(m, v)
    BY <1>2, <1>3 DEF Pointers
  <2> QED
    BY <2>1
<1>5. PICK z, u : z = Cardinality(Pointers(m, v)) /\ u = Cardinality(Records(H, v))
  OBVIOUS
<1>6. /\ IsFiniteSet(Pointers(m, v)) /\ IsFiniteSet(Records(H, v)) /\ z \in Nat /\ u \in Nat
  BY <1>1, <1>5, Sizes
<1>7. 1 = z + u
  BY <1>1, <1>2, <1>5 DEF ValuesCounted
<1>8. z # 0
  BY <1>4, <1>5, <1>6, FS_EmptySet
<1>9. u = 0
  BY <1>6, <1>7, <1>8
<1> QED
  BY <1>2, <1>5, <1>6, <1>9, FS_EmptySet

(* cesk_frame_store_put_field without and with the two records *)
LEMMA PutTurn ==
  ASSUME NEW m, NEW H, Good(m, H), Exact(m), NEW s \in Store, On(m, s), NEW a, Alive(m, s, a),
         NEW X \in SUBSET Elem, NEW weak \in BOOLEAN, NEW n, n = Put(GetRw(m, s, a), s, a, X, weak)
  PROVE  Turn(m, n, s, H)
<1>1. PICK g : g = GetRw(m, s, a)
  OBVIOUS
<1>2. Step(m, g, s, H) /\ Alive(g, s, a) /\ Unshared(g, s, a, SlotOf(g, s, a).value) /\ Opens(m, g, s, a)
  BY <1>1, GetRwStep
<1>3. Good(g, H) /\ Exact(g) /\ On(g, s) /\ Sole(g, s, a, SlotOf(g, s, a).value)
  BY <1>2 DEF Step, Unshared
<1>4. Step(g, n, s, H) /\ Shuts(g, n, s, a)
  BY <1>1, <1>2, <1>3, PutStep
<1>5. Step(m, n, s, H)
  BY <1>2, <1>4, StepTrans
<1>6. Keeps(m, n)
  BY <1>2, <1>4 DEF Opens, Shuts, Keeps
<1> QED
  BY <1>5, <1>6, StepIsTurn

LEMMA PutRecordedTurn ==
  ASSUME NEW m, NEW H, Good(m, H), Exact(m), NEW s \in Store, On(m, s), NEW a \in Addr, Alive(m, s, a),
         NEW X \in SUBSET Elem, NEW weak \in BOOLEAN, Cardinality(H) + 2 <= MaxHeld,
         NEW g, g = GetRw(m, s, a), NEW old, old = SlotOf(g, s, a).value,
         NEW p, p = Put(OneMore(g, old), s, a, X, weak), NEW new, new = SlotOf(p, s, a).value,
         NEW n, n = OneMore(p, new)
  PROVE  Turn(m, n, s, H \cup {<<"inv", a, old>>, <<"diff", a, new>>})
<1>1. PICK h, i, d : h = OneMore(g, old) /\ i = <<"inv", a, old>> /\ d = <<"diff", a, new>>
  OBVIOUS
<1>2. PICK I : I = H \cup {i}
  OBVIOUS
<1>3. Step(m, g, s, H) /\ Alive(g, s, a) /\ Unshared(g, s, a, old) /\ Opens(m, g, s, a)
  BY GetRwStep
<1>4. Good(g, H) /\ Exact(g) /\ On(g, s) /\ Sole(g, s, a, old) /\ Mine(g, s, BlockOf(g, s, a))
  BY <1>3 DEF Step, Unshared, Sole
<1>5. old \in Val /\ Records(H, old) = {}
  BY <1>3, <1>4, UnsharedUnrecorded
<1>6. IsNew(H, i, old) /\ Cardinality(I) = Cardinality(H) + 1 /\ Cardinality(H) \in Nat
  <2>1. IsRecord(i, old) /\ i \notin H
    BY <1>1, <1>5 DEF IsRecord, Records
  <2>2. IsFiniteSet(H) /\ Cardinality(H) \in Nat /\ MaxHeld \in Nat
    BY <1>4, FS_CardinalityType, StoreAssumption DEF Good, Buffers
  <2>3. Cardinality(H) < MaxHeld
    BY <2>2
  <2>4. Cardinality(I) = Cardinality(H) + 1
    BY <1>2, <2>1, <2>2, FS_AddElement
  <2> QED
    BY <2>1, <2>2, <2>3, <2>4 DEF IsNew
<1>7. Step(g, h, s, I) /\ Sole(h, s, a, old) /\ SlotOf(h, s, a) = SlotOf(g, s, a) /\ Stays(g, h, s, a)
  BY <1>1, <1>2, <1>4, <1>5, <1>6, CountStep
<1>8. Good(h, I) /\ Exact(h) /\ On(h, s)
  BY <1>7 DEF Step
<1>9. Alive(h, s, a)
  BY <1>3, <1>7 DEF Alive, Step
<1>10. Step(h, p, s, I) /\ new \in Val /\ (new = old \/ Records(I, new) = {}) /\ Shuts(h, p, s, a)
  <2>1. PICK q : q = Put(h, s, a, X, weak)
    OBVIOUS
  <2>2. /\ Step(h, q, s, I) /\ SlotOf(q, s, a).value \in Val
        /\ SlotOf(q, s, a).value = old \/ Records(I, SlotOf(q, s, a).value) = {}
        /\ Shuts(h, q, s, a)
    BY <2>1, <1>7, <1>8, <1>9, PutStep
  <2>3. q = p
    BY <2>1, <1>1, Zenon
  <2> QED
    BY <2>2, <2>3, Zenon
<1>11. Good(p, I) /\ Exact(p) /\ On(p, s)
  BY <1>10 DEF Step
<1>12. IsNew(I, d, new)
  <2>1. IsRecord(d, new)
    BY <1>1, <1>10 DEF IsRecord
  <2>2. d # i
    BY <1>1
  <2>3. d \notin H \/ Records(I, new) = {}
    BY <1>1, <1>5, <1>10 DEF Records
  <2>4. d \notin I
    BY <1>1, <1>2, <2>2, <2>3 DEF Records
  <2>5. Cardinality(I) < MaxHeld
    BY <1>6, StoreAssumption
  <2> QED
    BY <2>1, <2>4, <2>5 DEF IsNew
<1>13. Step(p, n, s, I \cup {d}) /\ Keeps(p, n)
  BY <1>10, <1>11, <1>12, CountStep
<1>14. Turn(m, n, s, I \cup {d})
  <2>1. Step(m, h, s, I)
    BY <1>3, <1>7, StepTrans
  <2>2. Step(m, p, s, I)
    BY <2>1, <1>10, StepTrans
  <2>3. Step(m, n, s, I \cup {d})
    BY <2>2, <1>13, StepTrans
  <2>4. Keeps(m, n)
    BY <1>3, <1>7, <1>10, <1>13 DEF Opens, Stays, Shuts, Keeps
  <2> QED
    BY <2>3, <2>4, StepIsTurn
<1>15. I \cup {d} = H \cup {i, d}
  BY <1>2, Zenon
<1> QED
  BY <1>1, <1>14, <1>15, Zenon

-----------------------------------------------------------------------------
(***************************************************************************)
(* The invariant.  No handler can be called before there is a store.       *)
(***************************************************************************)
StoreInv ==
  /\ Good(mem, held) /\ Exact(mem) /\ (ConstParam = {} => Tidy(mem))
  /\ held # {} => Store # {}

(* Every handler is a step of one frame. *)
LEMMA HandlerTurn ==
  ASSUME StoreInv, NEW s \in Store,
         \/ \E tab \in (IF Reloc = {} THEN {FALSE} ELSE BOOLEAN) : NewFrame(s, tab)
         \/ FreeFrame(s) \/ Collect(s)
         \/ \E t \in Store : Fork(s, t)
         \/ \E t \in Store, args \in [Elem -> 0 .. MaxRegs] : Invoke(s, t, args)
         \/ \E x \in Elem : Load(s, x) \/ Drop(s, x)
         \/ \E p \in Param : NewObject(s, p)
         \/ Live(s) /\ \E a \in Reach(mem, s, root[s]), X \in Registers(s), weak, snap \in BOOLEAN :
                         PutField(s, a, X, weak, snap)
         \/ \E r \in held : ApplyRecord(s, r)
         \/ \E a \in Addr, bit \in ReuseBits : ApplyReuse(s, a, bit)
  PROVE  \E t \in Store : Turn(mem, mem', t, held')
<1>1. PICK m, H, n : m = mem /\ H = held /\ n = mem'
  OBVIOUS
<1>2. Good(m, H) /\ Exact(m) /\ m \in Memory /\ Buffers(H)
  BY <1>1 DEF StoreInv, Good
<1>3. \A t : Live(t) <=> On(m, t)
  BY <1>1 DEF Live, On
<1>4. ASSUME NEW tab \in BOOLEAN, NewFrame(s, tab) PROVE Turn(m, n, s, H) /\ held' = H
  <2>1. PICK x : x = [EmptyStore EXCEPT !.tab = tab]
    OBVIOUS
  <2>2. x \in Table /\ x.blocks = <<>> /\ x.num_ent = 0 /\ x.hash = {}
    <3>1. x = [blocks |-> <<>>, num_ent |-> 0, hash |-> {}, tab |-> tab]
      BY <2>1 DEF EmptyStore
    <3>2. <<>> \in Seq(Block) /\ {} \in SUBSET Entry /\ tab \in BOOLEAN /\ 0 \in Int
      BY <1>4
    <3> QED
      BY <3>1, <3>2 DEF Table
  <2>3. ~ On(m, s) /\ n = WithStore(m, s, x) /\ held' = H
    BY <1>1, <1>3, <1>4, <2>1, Zenon DEF NewFrame, WithStore
  <2> QED
    BY <2>2, <2>3, <1>2, NewStoreTurn
<1>5. ASSUME FreeFrame(s) PROVE Turn(m, n, s, H) /\ held' = H
  <2>1. On(m, s) /\ n = Freed(m, s) /\ held' = H
    BY <1>1, <1>3, <1>5, Zenon DEF FreeFrame
  <2> QED
    BY <2>1, <1>2, FreedTurn
<1>6. ASSUME Collect(s) PROVE Turn(m, n, s, H) /\ held' = H
  <2>1. On(m, s) /\ n = Collected(m, s, root[s]) /\ held' = H
    BY <1>1, <1>3, <1>6, Zenon DEF Collect
  <2>2. PICK r : r = root[s]
    OBVIOUS
  <2>3. Turn(m, Collected(m, s, r), s, H)
    BY <2>1, <1>2, CollectedTurn
  <2> QED
    BY <2>1, <2>2, <2>3
<1>7. ASSUME NEW t \in Store, Fork(s, t) PROVE Turn(m, n, t, H) /\ held' = H
  <2>1. On(m, s) /\ ~ On(m, t) /\ n = Forked(m, s, t) /\ held' = H
    BY <1>1, <1>3, <1>7, Zenon DEF Fork
  <2> QED
    BY <2>1, <1>2, ForkedTurn
<1>8. ASSUME NEW t \in Store, NEW args \in [Elem -> 0 .. MaxRegs], Invoke(s, t, args)
      PROVE  Turn(m, n, t, H) /\ held' = H
  <2> DEFINE regs == [x \in Elem |-> MapThenSumSet(LAMBDA y : args[y],
                                {y \in Elem : args[y] > 0 /\ ObjectAddress(mem, s, y) = x})]
  <2>1. On(m, s) /\ ~ On(m, t) /\ held' = H
    BY <1>1, <1>3, <1>8, Zenon DEF Invoke
  <2>2. \E f \in {Applied(Forked(m, s, t), t)} : mem' = Collected(f.m, t, regs)
    BY <1>1, <1>8, Zenon DEF Invoke
  <2>3. PICK r : r = regs
    OBVIOUS
  <2>4. n = Collected(Applied(Forked(m, s, t), t).m, t, r)
    BY <1>1, <2>2, <2>3, Zenon
  <2> HIDE DEF regs
  <2> QED
    BY <2>1, <2>4, <1>2, InvokeTurn
<1>9. ASSUME NEW x \in Elem, Load(s, x) PROVE Turn(m, n, s, H) /\ held' = H
  <2>1. On(m, s) /\ n = IncrefAll(m, s, {x}) /\ held' = H
    BY <1>1, <1>3, <1>9, Zenon DEF Load
  <2>2. {x} \in SUBSET Elem
    BY <1>9
  <2>3. Calm(m, n, s, H) /\ Plain(m, n, s)
    BY <2>1, <2>2, <1>2, IncrefCalm
  <2> QED
    BY <2>1, <2>3, <1>2, PlainTurn
<1>10. ASSUME NEW x \in Elem, Drop(s, x) PROVE Turn(m, n, s, H) /\ held' = H
  <2>1. PICK f : f = [b \in Addr |-> Refs(m, s, {x}, b)]
    OBVIOUS
  <2>2. On(m, s) /\ n = DecrefAll(m, s, f) /\ held' = H
    BY <1>1, <1>3, <1>10, <2>1, Zenon DEF Drop
  <2>3. f \in [Addr -> Nat]
    <3>1. {x} \in SUBSET Elem
      BY <1>10
    <3>2. \A b : Refs(m, s, {x}, b) \in Nat
      BY <3>1, RefsNat
    <3> QED
      BY <3>2, <2>1
  <2>4. Fades(m, n, s, H) /\ Keeps(m, n)
    BY <2>2, <2>3, <1>2, DecrefFades
  <2> QED
    BY <2>2, <2>4, <1>2, FadesStep, StepIsTurn
<1>11. ASSUME NEW p \in Param, NewObject(s, p) PROVE Turn(m, n, s, H) /\ held' = H
  <2>1. On(m, s) /\ held' = H
    BY <1>1, <1>3, <1>11, Zenon DEF NewObject
  <2>2. PICK a \in {AllocAddr(m, s, p)} \cap Addr :
          n = IncrefAll(Created(Allocated(m, s, p, a), s, p, a), s, {a})
    BY <1>1, <1>11, Zenon DEF NewObject
  <2>3. a \in Addr /\ a = AllocAddr(m, s, p)
    BY <2>2
  <2> QED
    BY <2>1, <2>2, <2>3, <1>2, NewObjectTurn
<1>12. ASSUME NEW a, NEW X \in Registers(s), NEW weak \in BOOLEAN, NEW snap \in BOOLEAN,
              Live(s), PutField(s, a, X, weak, snap)
       PROVE  Turn(m, n, s, held')
  <2>1. On(m, s) /\ Alive(m, s, a) /\ a \in Addr
    BY <1>1, <1>3, <1>12, Zenon DEF PutField, Alive, Has
  <2>2. X \in SUBSET Elem
    BY <1>12 DEF Registers, Loaded, kSubset
  <2>3. PICK g : g = GetRw(m, s, a)
    OBVIOUS
  <2>4. PICK old : old = SlotOf(g, s, a).value
    OBVIOUS
  <2>5. CASE ~ snap
    <3>1. n = Put(g, s, a, X, weak) /\ held' = H
      BY <2>3, <2>5, <1>1, <1>12, Zenon DEF PutField, Count
    <3>2. Turn(m, n, s, H)
      BY <3>1, <2>1, <2>2, <2>3, <1>2, PutTurn
    <3> QED
      BY <3>1, <3>2
  <2>6. CASE snap
    <3>1. PICK p : p = Put(OneMore(g, old), s, a, X, weak)
      OBVIOUS
    <3>2. PICK new : new = SlotOf(p, s, a).value
      OBVIOUS
    <3>3. snap = TRUE
      BY <2>6
    <3>4. /\ n = OneMore(p, new) /\ held' = H \cup {<<"inv", a, old>>, <<"diff", a, new>>}
          /\ Cardinality(H) + 2 <= MaxHeld
      BY <2>3, <2>4, <2>6, <3>1, <3>2, <3>3, <1>1, <1>12, Zenon DEF PutField, OneMore
    <3>5. Turn(m, n, s, H \cup {<<"inv", a, old>>, <<"diff", a, new>>})
      BY <2>1, <2>2, <2>3, <2>4, <3>1, <3>2, <3>4, <1>2, PutRecordedTurn, SMTT(30)
    <3> QED
      BY <3>4, <3>5, Zenon
  <2> QED
    BY <2>5, <2>6
<1>13. ASSUME NEW r \in held, ApplyRecord(s, r) PROVE Turn(m, n, s, H) /\ held' = H
  <2>1. PICK a, v, X : a = r[2] /\ v = r[3] /\ X = m.value[r[3]].content
    OBVIOUS
  <2>2. v \in Val
    BY <1>1, <1>2, <1>13, <2>1 DEF Buffers
  <2>3. X \in SUBSET Elem
    BY <2>1, <2>2, <1>2, ValueFields
  <2>4. /\ On(m, s) /\ Alive(m, s, a) /\ held' = H
        /\ n = ReleaseRw(Attached(IncrefAll(m, s, X), s, a, v), s, a)
    BY <2>1, <1>1, <1>3, <1>13, Zenon DEF ApplyRecord
  <2> QED
    BY <2>2, <2>3, <2>4, <1>2, ApplyTurn
<1>14. ASSUME NEW a \in Addr, NEW bit \in ReuseBits, ApplyReuse(s, a, bit) PROVE Turn(m, n, s, H) /\ held' = H
  <2>1. bit \in BOOLEAN
    BY StoreAssumption
  <2>2. On(m, s) /\ Alive(m, s, a) /\ held' = H /\ n = WithReuse(m, s, a, bit)
    BY <1>1, <1>3, <1>14, Zenon DEF ApplyReuse
  <2>3. Calm(m, WithReuse(m, s, a, bit), s, H) /\ Keeps(m, WithReuse(m, s, a, bit))
    BY <2>1, <2>2, <1>2, ReuseCalm
  <2>4. Calm(m, n, s, H) /\ Keeps(m, n)
    BY <2>2, <2>3, Zenon
  <2> QED
    BY <2>2, <2>4, <1>2, CalmStep, StepIsTurn
<1>15. \A tab \in (IF Reloc = {} THEN {FALSE} ELSE BOOLEAN) : tab \in BOOLEAN
  OBVIOUS
<1> DEFINE Moves == \E t \in Store : Turn(m, n, t, held')
<1>16. Moves
  BY <1>4, <1>5, <1>6, <1>7, <1>8, <1>9, <1>10, <1>11, <1>12, <1>13, <1>14, <1>15, Zenon
<1> QED
  BY <1>1, <1>16, Zenon

LEMMA NextTurn ==
  ASSUME StoreInv, Next
  PROVE  StoreInv' /\ \E s \in Store : Same(mem, mem', s)
<1>1. ASSUME NEW t \in Store, Turn(mem, mem', t, held') PROVE StoreInv' /\ \E s \in Store : Same(mem, mem', s)
  <2>1. Good(mem', held') /\ Exact(mem') /\ Same(mem, mem', t) /\ Keeps(mem, mem')
    BY <1>1, Zenon DEF Turn
  <2>2. ConstParam = {} => Tidy(mem')
    BY <2>1, Zenon DEF StoreInv, Keeps
  <2>3. StoreInv'
    BY <2>1, <2>2, <1>1, Zenon DEF StoreInv
  <2> QED
    BY <2>1, <2>3
<1>2. ASSUME NEW r \in held, FreeRecord(r) PROVE StoreInv' /\ \E s \in Store : Same(mem, mem', s)
  <2>1. PICK m, H, n : m = mem /\ H = held /\ n = mem'
    OBVIOUS
  <2>2. n = WithValue(m, r[3], Unref(m.value[r[3]], 1)) /\ held' = H \ {r}
    BY <2>1, <1>2, Zenon DEF FreeRecord, WithValue
  <2>3. Good(m, H) /\ Exact(m) /\ r \in H /\ Store # {}
    BY <2>1, <1>2 DEF StoreInv
  <2>4. Good(n, H \ {r}) /\ Exact(n) /\ \A s \in Store : Same(m, n, s) /\ Keeps(m, n)
    BY <2>2, <2>3, UncountTurn
  <2>5. Good(mem', held') /\ Exact(mem') /\ \A s \in Store : Same(mem, mem', s) /\ Keeps(mem, mem')
    BY <2>1, <2>2, <2>4, Zenon
  <2>6. ConstParam = {} => Tidy(mem')
    BY <2>3, <2>5, Zenon DEF StoreInv, Keeps
  <2>7. StoreInv'
    BY <2>3, <2>5, <2>6, Zenon DEF StoreInv
  <2> QED
    BY <2>3, <2>5, <2>7
<1>3. CASE \E r \in held : FreeRecord(r)
  BY <1>2, <1>3
<1>4. CASE ~ \E r \in held : FreeRecord(r)
  <2>1. \E t \in Store : Turn(mem, mem', t, held')
    BY <1>4, HandlerTurn, Zenon DEF Next
  <2> QED
    BY <2>1, <1>1
<1> QED
  BY <1>3, <1>4

(* No handler changes the memory without a step. *)
LEMMA StutterKeeps ==
  ASSUME StoreInv, UNCHANGED vars
  PROVE  StoreInv'
BY Zenon DEF StoreInv, vars

-----------------------------------------------------------------------------
(***************************************************************************)
(* The theorems.                                                           *)
(***************************************************************************)
(* The invariant, which relates tables, blocks, slots, values and records: *)
(* every handler of cesk_frame.c keeps it, whatever the frames share.      *)
THEOREM InvariantKept == Spec => []StoreInv
<1>1. Init => StoreInv
  <2>1. SUFFICES ASSUME Init PROVE StoreInv
    OBVIOUS
  <2>2. Good(mem, {}) /\ Exact(mem) /\ Tidy(mem)
    BY <2>1, EmptyGood DEF Init
  <2> QED
    BY <2>1, <2>2 DEF Init, StoreInv
<1>2. StoreInv /\ [Next]_vars => StoreInv'
  BY NextTurn, StutterKeeps
<1> QED
  BY <1>1, <1>2, PTL DEF Spec

LEMMA RefcntFromInv ==
  ASSUME StoreInv
  PROVE  RefcntExact
<1>1. PICK m, H : m = mem /\ H = held
  OBVIOUS
<1>2. m \in Memory /\ BlocksCounted(m) /\ FreeEmpty(m) /\ ValuesCounted(m, H)
  BY <1>1 DEF StoreInv, Good
<1>3. ASSUME NEW b \in Block
      PROVE  mem.block[b].refcnt = Cardinality({s \in Store : Live(s) /\ b \in Range(mem.store[s].blocks)})
  <2>1. Users(mem, b) = {s \in Store : Live(s) /\ b \in Range(mem.store[s].blocks)}
    BY Zenon DEF Users, On, Tab, Live
  <2> QED
    BY <2>1, <1>1, <1>2, Zenon DEF BlocksCounted
<1>4. ASSUME NEW v \in Val
      PROVE  mem.value[v].refcnt =
               Cardinality({c \in LiveBlock \X Ofs : mem.block[c[1]].slots[c[2]].value = v})
                 + Cardinality({r \in held : r[3] = v})
  <2> DEFINE P == {c \in LiveBlock \X Ofs : mem.block[c[1]].slots[c[2]].value = v}
  <2>1. LiveBlock \subseteq Block /\ \A b \in Block : b \in LiveBlock <=> m.block[b].refcnt > 0
    BY <1>1 DEF LiveBlock
  <2>2. \A b \in Block \ LiveBlock : m.block[b].refcnt = 0
    BY <2>1, <1>2, BlockFields
  <2>3. \A b \in Block \ LiveBlock, o \in Ofs : At(m, b, o).value # v
    BY <2>2, <1>2, StoreAssumption DEF FreeEmpty
  <2>4. P = {c \in LiveBlock \X Ofs : At(m, c[1], c[2]).value = v}
    BY <1>1 DEF At
  <2>5. Pointers(m, v) = P
    <3> HIDE DEF P
    <3>1. ASSUME NEW c \in Block \X Ofs, At(m, c[1], c[2]).value = v PROVE c \in LiveBlock \X Ofs
      <4>1. PICK b \in Block, o \in Ofs : c = <<b, o>>
        BY <3>1
      <4>2. b \in LiveBlock
        BY <4>1, <3>1, <2>3
      <4> QED
        BY <4>1, <4>2
    <3> QED
      BY <3>1, <2>1, <2>4 DEF Pointers
  <2>6. Records(H, v) = {r \in held : r[3] = v}
    BY <1>1 DEF Records
  <2> QED
    BY <2>5, <2>6, <1>1, <1>2, Zenon DEF ValuesCounted
<1> QED
  BY <1>3, <1>4 DEF RefcntExact

(* Reference counts are exact for any number of frames, blocks and values: *)
(* copy-on-write, cesk_store_free, cesk_frame_gc, allocation tables and    *)
(* diff buffers neither free a block or value in use nor leave one behind. *)
THEOREM ReferencesExact == Spec => []RefcntExact
<1>1. StoreInv => RefcntExact
  BY RefcntFromInv
<1> QED
  BY <1>1, InvariantKept, PTL

LEMMA CountFromInv ==
  ASSUME StoreInv
  PROVE  CountExact
<1>1. PICK m, H : m = mem /\ H = held
  OBVIOUS
<1>2. Exact(m) /\ Buffers(H)
  BY <1>1 DEF StoreInv, Good
<1>3. Counters(m, 0, 0, 0)
  BY <1>2 DEF Exact
<1>4. \A x, y : Ahead(x, y, 0) = 0
  BY DEF Ahead
<1>5. ASSUME NEW s \in Store, Live(s)
      PROVE  mem.store[s].num_ent = Cardinality({a \in Addr : Alive(mem, s, a)})
  <2>1. On(m, s) /\ Living(m, s) = {a \in Addr : Alive(mem, s, a)}
    BY <1>1, <1>5 DEF On, Live, Living
  <2>2. Cardinality(Living(m, s)) \in Nat
    BY <1>2, Sizes
  <2>3. m.store[s].num_ent = Cardinality(Living(m, s)) + 0
    BY <2>1, <1>3, <1>4 DEF Counters
  <2>4. m.store[s].num_ent = Cardinality(Living(m, s))
    BY <2>2, <2>3
  <2> QED
    BY <2>1, <2>4, <1>1, Zenon
<1>6. ASSUME NEW b \in LiveBlock
      PROVE  mem.block[b].num_ent = Cardinality({o \in Ofs : mem.block[b].slots[o].value # NoVal})
  <2>1. b \in Block /\ Filled(m, b) = {o \in Ofs : mem.block[b].slots[o].value # NoVal}
    BY <1>1 DEF LiveBlock, Filled, At
  <2>2. Cardinality(Filled(m, b)) \in Nat
    BY <1>2, Sizes
  <2>3. m.block[b].num_ent = Cardinality(Filled(m, b)) + 0
    BY <2>1, <1>3, <1>4 DEF Counters
  <2>4. m.block[b].num_ent = Cardinality(Filled(m, b))
    BY <2>2, <2>3
  <2> QED
    BY <2>1, <2>4, <1>1, Zenon
<1> QED
  BY <1>5, <1>6 DEF CountExact

(* The entity counters are exact too, so that cesk_store_compact_store     *)
(* never gives up a block with a value in it.                              *)
THEOREM EntitiesExact == Spec => []CountExact
<1>1. StoreInv => CountExact
  BY CountFromInv
<1> QED
  BY <1>1, InvariantKept, PTL

(* Copy-on-write: no frame sees what the handler of another frame does to  *)
(* blocks and values, shared or not.                                       *)
THEOREM FramesIsolated == Spec => Isolation
<1> DEFINE Apart == \E s \in Store : \A t \in Store \ {s} : View(t)' = View(t)
<1>1. StoreInv /\ [Next]_vars => [Apart]_vars
  <2>1. SUFFICES ASSUME StoreInv, Next PROVE Apart
    OBVIOUS
  <2>2. PICK s \in Store : Same(mem, mem', s)
    BY <2>1, NextTurn
  <2>3. ASSUME NEW t \in Store \ {s} PROVE View(t)' = View(t)
    <3>1. mem'.store[t] = mem.store[t] /\ (On(mem, t) => \A a \in Addr : Seen(mem', t, a) = Seen(mem, t, a))
      BY <2>2, <2>3, Zenon DEF Same
    <3>2. Live(t)' = Live(t) /\ (Live(t) <=> On(mem, t))
      BY <3>1 DEF Live, On
    <3>3. View(t) = [a \in Addr |-> IF Live(t) THEN Seen(mem, t, a) ELSE <<>>]
      BY Zenon DEF View, Seen
    <3>4. View(t)' = [a \in Addr |-> IF Live(t)' THEN Seen(mem', t, a) ELSE <<>>]
      BY Zenon DEF View, Seen
    <3>5. \A a \in Addr : (IF Live(t)' THEN Seen(mem', t, a) ELSE <<>>) = (IF Live(t) THEN Seen(mem, t, a) ELSE <<>>)
      BY <3>1, <3>2, Zenon
    <3> QED
      BY <3>3, <3>4, <3>5
  <2> QED
    BY <2>3
<1> QED
  BY <1>1, InvariantKept, PTL DEF Spec, Isolation

LEMMA HashFromInv ==
  ASSUME StoreInv, ConstParam = {}
  PROVE  HashExact
<1>1. PICK m : m = mem
  OBVIOUS
<1>2. m \in Memory /\ Tidy(m)
  BY <1>1 DEF StoreInv, Good
<1>3. ASSUME NEW s \in Store, Live(s)
      PROVE  mem.store[s].hash = {EntryOf(mem, s, a) : a \in {b \in Addr : Alive(mem, s, b)
                                    /\ mem.value[SlotOf(mem, s, b).value].write_count = 0}}
  <2>1. On(m, s) /\ Hashed(m, s, {})
    BY <1>1, <1>2, <1>3 DEF Tidy, On, Live
  <2>2. ASSUME NEW a, Alive(m, s, a) PROVE m.value[SlotOf(m, s, a).value].write_count = 0
    <3>1. SlotOf(m, s, a).value \in Val
      BY <2>1, <2>2, <1>2, HasFields DEF Alive, Slot
    <3> QED
      BY <3>1, <1>2 DEF Tidy, Idle
  <2>3. Living(m, s) \ {} = {b \in Addr : Alive(m, s, b) /\ m.value[SlotOf(m, s, b).value].write_count = 0}
    BY <2>2 DEF Living
  <2> QED
    BY <2>1, <2>3, <1>1, Zenon DEF Hashed
<1> QED
  BY <1>3 DEF HashExact

(* The hash code that every write keeps up to date is the one computed     *)
(* from the values, for any number of frames, when the const instructions  *)
(* release their writable pointer: then every handler puts back the entry  *)
(* that it took out, also those of values that die on the way.             *)
THEOREM StoreHashesExact ==
  ASSUME ConstParam = {}
  PROVE  Spec => []HashExact
<1>1. StoreInv => HashExact
  BY HashFromInv
<1> QED
  BY <1>1, InvariantKept, PTL

LEMMA RelocFromInv ==
  ASSUME StoreInv, ConstParam = {}
  PROVE  RelocNeverSkipped
<1>1. PICK m : m = mem
  OBVIOUS
<1>2. m \in Memory /\ Claimed(m, {})
  BY <1>1 DEF StoreInv, Good, Tidy
<1>3. ASSUME NEW b \in LiveBlock
      PROVE  mem.block[b].num_reloc >=
               Cardinality({o \in Ofs : LET v == mem.block[b].slots[o].value
                                        IN  v # NoVal /\ IsReloc(mem.value[v].content)})
  <2>1. b \in Block
    BY <1>3 DEF LiveBlock
  <2>2. PICK R : R = Outside(m, b, {})
    OBVIOUS
  <2>3. {o \in Ofs : LET v == mem.block[b].slots[o].value
                     IN  v # NoVal /\ IsReloc(mem.value[v].content)} = R
    BY <2>2, <1>1, Zenon DEF Outside, Relocated, Filled, At
  <2>4. R \subseteq Ofs
    BY <2>2 DEF Outside, Relocated, Filled
  <2>5. IsFiniteSet(R) /\ Cardinality(R) \in Nat
    BY <2>4, FiniteSets, FS_Subset, FS_CardinalityType
  <2>6. m.block[b].num_reloc \in Int /\ Cardinality(R) <= m.block[b].num_reloc
    BY <2>1, <2>2, <1>2, BlockFields DEF Claimed
  <2>7. m.block[b].num_reloc >= Cardinality(R)
    BY <2>5, <2>6
  <2> QED
    BY <2>3, <2>7, <1>1, Zenon
<1> QED
  BY <1>3, Zenon DEF RelocNeverSkipped

(* The relocation counter of a block claims every value with relocated     *)
(* addresses, under the same condition: cesk_store_apply_alloctab, which   *)
(* passes over blocks with a counter of zero, never passes over one that   *)
(* it has to translate, whatever is forked, detached or swiped before.     *)
THEOREM RelocationsClaimed ==
  ASSUME ConstParam = {}
  PROVE  Spec => []RelocNeverSkipped
<1>1. StoreInv => RelocNeverSkipped
  BY RelocFromInv
<1> QED
  BY <1>1, InvariantKept, PTL
=============================================================================
