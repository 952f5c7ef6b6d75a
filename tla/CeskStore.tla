------------------------------ MODULE CeskStore ------------------------------
(***************************************************************************)
(* The frame stores of the CESK machine (src/src/cesk/cesk_store.c) and    *)
(* the values in them (src/src/cesk/cesk_value.c).                         *)
(*                                                                         *)
(* Copy-on-write has two levels.  A store is a table of blocks, shared     *)
(* between forked stores until a store writes to one; a block is an array  *)
(* of slots that point to values, shared between blocks and diff buffers   *)
(* until somebody takes a writable pointer.  A writable pointer is held    *)
(* from cesk_store_get_rw, or cesk_store_attach, to cesk_store_release_rw; *)
(* meanwhile the value is not part of the store's hash code.  Inside a     *)
(* store every slot counts the references to it, from registers and from   *)
(* other values, and cesk_store_decref frees a slot with its last one.     *)
(*                                                                         *)
(* The operators on a memory m are the functions of cesk_store.c, composed *)
(* in the order in which the code calls them; the actions are the handlers *)
(* of cesk_frame.c that call them, each of which runs to its end.          *)
(*                                                                         *)
(* Abstractions.  A value is the set of the addresses in it, whether it is *)
(* a set or an object; constant addresses are left out, since the store    *)
(* ignores them.  The hash code is the set of the entries in it an odd     *)
(* number of times.  The registers and static fields of a frame are the    *)
(* bag of the addresses in them, and the allocation table is a constant    *)
(* function.                                                               *)
(***************************************************************************)
EXTENDS Integers, SequencesExt

CONSTANTS
  Store,      \* the cesk_store_t objects
  NSlots,     \* CESK_STORE_BLOCK_NSLOTS
  MaxBlocks,  \* bound: blocks in the table of a store
  Block,      \* bound: store blocks, no fewer than the tables have entries
  Val,        \* bound: values, more than slots and records can refer to
  Reloc,      \* relocated addresses
  RelocMap,   \* the allocation table: relocated to object addresses
  Param,      \* allocation parameters
  Probe,      \* Probe[p]: the slots cesk_store_allocate tries for p, in order
  MaxHeld,    \* bound: records in the diff buffers
  MaxRegs,    \* bound: registers of a frame with the same address
  MaxRefs,    \* bound: references the slots of a block count
  MaxTotal,   \* bound: references the slots of all blocks count
  MaxWidth,   \* bound: addresses a register has at once
  ReuseBits,  \* the reuse bits in the records of the diffs
  ConstParam, \* the allocation parameters of const instructions
  DupArgs,    \* may a method get the same register as two arguments?
  NoStore, NoVal, NoParam

Ofs == 0 .. NSlots - 1
Addr == 0 .. MaxBlocks * NSlots - 1
Elem == Addr \cup Reloc

ASSUME StoreAssumption ==
  /\ NSlots \in Nat \ {0} /\ MaxBlocks \in Nat \ {0}
  /\ IsFiniteSet(Store) /\ IsFiniteSet(Block) /\ IsFiniteSet(Val)
  /\ IsFiniteSet(Reloc) /\ Reloc \cap Int = {}
  /\ RelocMap \in [Reloc -> Addr]
  /\ \A p \in Param : Probe[p] \in Seq(Ofs) /\ Probe[p] # <<>>
  /\ NoStore \notin Store /\ NoVal \notin Val /\ NoParam \notin Param
  /\ MaxHeld \in Nat /\ {MaxRegs, MaxRefs, MaxTotal, MaxWidth} \subseteq Nat
  /\ ReuseBits \subseteq BOOLEAN /\ ConstParam \subseteq Param /\ DupArgs \in BOOLEAN

VARIABLES
  mem,   \* the stores, the blocks and the values
  root,  \* root[s][x]: the registers of the frame of s that have the address x
  held   \* the records <<kind, address, value>> in the diff buffers

vars == <<mem, root, held>>

(* cesk_value_t; refcnt = 0: not allocated.  reloc is content \cap Reloc # {}. *)
Value == [refcnt : Nat, write_count : 0 .. 15, content : SUBSET Elem]
NewValue == [refcnt |-> 0, write_count |-> 0, content |-> {}]

(* cesk_store_slot_t; inuse is param # NoParam. *)
Slot == [value : Val \cup {NoVal}, refcnt : Nat, reuse : BOOLEAN,
         param : Param \cup {NoParam}]
NewSlot == [value |-> NoVal, refcnt |-> 0, reuse |-> FALSE, param |-> NoParam]

(* cesk_store_block_t; refcnt = 0: not allocated. *)
StoreBlock == [refcnt : Nat, num_ent : Nat, num_reloc : Nat, slots : [Ofs -> Slot]]
NewBlock == [refcnt |-> 0, num_ent |-> 0, num_reloc |-> 0, slots |-> [o \in Ofs |-> NewSlot]]

(* cesk_store_t.  An entry of the hash code: address, value, reuse bit. *)
Entry == Addr \X (SUBSET Elem) \X BOOLEAN
StoreRec == [blocks : Seq(Block), num_ent : Nat, hash : SUBSET Entry, tab : BOOLEAN]
Table == [blocks : Seq(Block), num_ent : Int, hash : SUBSET Entry, tab : BOOLEAN]
EmptyStore == [blocks |-> <<>>, num_ent |-> 0, hash |-> {}, tab |-> FALSE]

(* There is always another block or value to allocate: malloc does not fail *)
ASSUME RoomAssumption ==
  /\ Cardinality(Block) >= Cardinality(Store) * MaxBlocks
  /\ Cardinality(Val) > Cardinality(Store) * MaxBlocks * NSlots + MaxHeld
  /\ NoStore \notin Table

Xor(A, B) == (A \ B) \cup (B \ A)

-----------------------------------------------------------------------------
(* Reading a memory m through a store s.                                   *)

BlockNo(a) == a \div NSlots + 1
Has(m, s, a) == a \in Addr /\ BlockNo(a) <= Len(m.store[s].blocks)
BlockOf(m, s, a) == m.store[s].blocks[BlockNo(a)]
SlotOf(m, s, a) == m.block[BlockOf(m, s, a)].slots[a % NSlots]
Alive(m, s, a) == Has(m, s, a) /\ SlotOf(m, s, a).value # NoVal
Content(m, s, a) == m.value[SlotOf(m, s, a).value].content
IsReloc(c) == c \cap Reloc # {}
EntryOf(m, s, a) == <<a, Content(m, s, a), SlotOf(m, s, a).reuse>>

(* _cesk_store_make_object_address; NoVal stands for CESK_STORE_ADDR_NULL. *)
ObjectAddress(m, s, x) ==
  IF x \notin Reloc THEN x ELSE IF m.store[s].tab THEN RelocMap[x] ELSE NoVal

(* How often the addresses of the set X denote the object address b. *)
Refs(m, s, X, b) == Cardinality({x \in X : ObjectAddress(m, s, x) = b})

FreshVal(m) == CHOOSE v \in Val : m.value[v].refcnt = 0

(* cesk_value_decref, n references less. *)
Unref(val, n) ==
  IF val.refcnt > n THEN [val EXCEPT !.refcnt = @ - n]
  ELSE IF n > 0 THEN NewValue ELSE val

(* Mutant: the values in a copied block are not counted again. *)
PrivateNoIncref(m, s, K) ==
  LET old(k) == m.store[s].blocks[k]
      S == {k \in K : m.block[old(k)].refcnt > 1}
      k == CHOOSE k \in S : TRUE
      new == CHOOSE b \in Block : m.block[b].refcnt = 0
  IN  IF S = {} THEN m ELSE
      [m EXCEPT !.store[s].blocks[k] = new,
                !.block[new] = [m.block[old(k)] EXCEPT !.refcnt = 1],
                !.block[old(k)].refcnt = @ - 1]

(* Mutant: a shared block is written in place. *)
PrivateNever(m, s, K) == m

(***************************************************************************)
(* _cesk_store_getblock_rw of every block number in K: the shared ones are *)
(* copied, and the copies count as references to the values in them.       *)
(***************************************************************************)
Private(m, s, K) ==
  LET old(k) == m.store[s].blocks[k]
      S == {k \in K : m.block[old(k)].refcnt > 1}
      free == {b \in Block : m.block[b].refcnt = 0}
      shared == {old(k) : k \in S}
      new == CHOOSE f \in [S -> free] : \A j, k \in S : f[j] = f[k] => j = k
      copied(v) == Cardinality({c \in S \X Ofs : m.block[old(c[1])].slots[c[2]].value = v})
  IN  IF S = {} THEN m ELSE
      [m EXCEPT
        !.store[s].blocks = [k \in DOMAIN m.store[s].blocks |-> IF k \in S THEN new[k] ELSE old(k)],
        !.block = [b \in Block |->
          IF b \in Range(new) THEN [m.block[old(CHOOSE k \in S : new[k] = b)] EXCEPT !.refcnt = 1]
          ELSE IF b \in shared THEN [m.block[b] EXCEPT !.refcnt = @ - 1] ELSE m.block[b]],
        !.value = [v \in Val |-> [m.value[v] EXCEPT !.refcnt = @ + copied(v)]]]

(* Writing to the slot of a, and to all slots in the blocks K of s. *)
WithSlot(m, s, a, slot) == [m EXCEPT !.block[BlockOf(m, s, a)].slots[a % NSlots] = slot]
WithSlots(m, s, K, slot(_, _)) ==
  LET no(b) == CHOOSE k \in K : m.store[s].blocks[k] = b
      slots(b) == [o \in Ofs |-> slot(m.block[b].slots[o], (no(b) - 1) * NSlots + o)]
  IN  [m EXCEPT !.block = [b \in Block |->
         IF \E k \in K : m.store[s].blocks[k] = b
         THEN [m.block[b] EXCEPT !.slots = slots(b)] ELSE m.block[b]]]

(* Mutant: an entry is put in a second time and not taken out. *)
RehashAdds(m, s, E) == [m EXCEPT !.store[s].hash = @ \cup E]

Rehash(m, s, E) == [m EXCEPT !.store[s].hash = Xor(@, E)]

(* cesk_store_incref of every address in X; a dead slot is left alone. *)
IncrefAll(m, s, X) ==
  LET K == {BlockNo(a) : a \in {b \in Addr : Has(m, s, b) /\ Refs(m, s, X, b) > 0}}
      slot(l, a) == IF l.value = NoVal THEN l ELSE [l EXCEPT !.refcnt = @ + Refs(m, s, X, a)]
  IN  WithSlots(Private(m, s, K), s, K, slot)

(***************************************************************************)
(* cesk_store_decref, n[a] times for every address a.  A slot dies when    *)
(* its counter is used up; _cesk_store_swipe then takes its value out of   *)
(* the store and the hash code, and releases what the value refers to, and *)
(* so on: Dead is the least set closed under this.  num_reloc is not       *)
(* touched.                                                                *)
(***************************************************************************)
Released(m, s, n, D, b) ==
  n[b] + Cardinality({c \in D \X Elem :
                        c[2] \in Content(m, s, c[1]) /\ ObjectAddress(m, s, c[2]) = b})
(* Mutant: a slot dies with its last reference but one. *)
DyingEarly(m, s, n, D) ==
  {b \in Addr : /\ Alive(m, s, b) /\ Released(m, s, n, D, b) > 0
                /\ SlotOf(m, s, b).refcnt <= Released(m, s, n, D, b) + 1}

Dying(m, s, n, D) ==
  {b \in Addr : /\ Alive(m, s, b) /\ Released(m, s, n, D, b) > 0
                /\ SlotOf(m, s, b).refcnt <= Released(m, s, n, D, b)}
Dead(m, s, n) ==
  LET living == {a \in Addr : Alive(m, s, a)}
      fixed == {D \in SUBSET living : Dying(m, s, n, D) = D}
  IN  CHOOSE D \in fixed : \A E \in fixed : D \subseteq E

(* The counters and the hash code of s without the values of the slots D,  *)
(* which were those of memory m.                                           *)
Settled(q, m, s, D) ==
  LET gone(b) == Cardinality({d \in D : BlockOf(q, s, d) = b})
      dropped(v) == Cardinality({d \in D : SlotOf(m, s, d).value = v})
  IN  [q EXCEPT
        !.store[s].num_ent = @ - Cardinality(D),
        !.store[s].hash = Xor(@, {EntryOf(m, s, d) : d \in D}),
        !.block = [b \in Block |-> [q.block[b] EXCEPT !.num_ent = @ - gone(b)]],
        !.value = [v \in Val |-> Unref(q.value[v], dropped(v))]]

Swiped(m, s, n, D) ==
  LET less(b) == Released(m, s, n, D, b)
      K == {BlockNo(a) : a \in {b \in Addr : Has(m, s, b) /\ less(b) > 0}}
      slot(l, a) == IF a \in D THEN [l EXCEPT !.value = NoVal, !.refcnt = 0]
                    ELSE IF l.value = NoVal THEN l
                    ELSE [l EXCEPT !.refcnt = @ - less(a)]
  IN  Settled(WithSlots(Private(m, s, K), s, K, slot), m, s, D)

DecrefAll(m, s, n) == Swiped(m, s, n, Dead(m, s, n))

(* Mutant: detaching a value does not count. *)
EntitiesNeverLess(v, old) == IF old = NoVal /\ v # NoVal THEN 1 ELSE 0

(* How the number of values changes when v is attached in place of old. *)
Entities(v, old) == (IF v = NoVal THEN 0 ELSE 1) - (IF old = NoVal THEN 0 ELSE 1)

(* The old value of a, if any, leaves the slot, the hash code and, with    *)
(* its references, the store; ent is the change of the counters.           *)
Detached(p, s, a, ent) ==
  LET l == SlotOf(p, s, a)
      q == [p EXCEPT !.store[s].num_ent = @ + ent, !.block[BlockOf(p, s, a)].num_ent = @ + ent]
  IN  IF l.value = NoVal THEN q
      ELSE DecrefAll([Rehash(WithSlot(q, s, a, [l EXCEPT !.value = NoVal]), s, {EntryOf(p, s, a)})
                        EXCEPT !.value[l.value] = Unref(@, 1)],
                     s, [x \in Addr |-> Refs(p, s, Content(p, s, a), x)])

(* The slot of a gets v; without a value it is no longer in use. *)
SlotGets(r, s, a, v, old) ==
  LET u == WithSlot(r, s, a, [SlotOf(r, s, a) EXCEPT
             !.value = v, !.reuse = FALSE,
             !.param = IF v = NoVal /\ old # NoVal THEN NoParam ELSE @])
  IN  IF v = NoVal THEN u
      ELSE [u EXCEPT !.value[v].refcnt = @ + 1, !.value[v].write_count = 1]

(* cesk_store_attach of the value v, or of NULL, to the object address a. *)
Attached(m, s, a, v) ==
  LET old == SlotOf(m, s, a).value
  IN  SlotGets(Detached(Private(m, s, {BlockNo(a)}), s, a, Entities(v, old)), s, a, v, old)

(* Mutant: a value with two references is written in place. *)
SharedLate(val) == val.refcnt > 2

(* Mutant: a writable pointer always takes a relocated value out of num_reloc. *)
TakenAlways(c) == 1

(* Mutant: a released value is not counted in num_reloc. *)
PutBackNever(c) == 0

Shared(val) == val.refcnt > 1
Taken(c) == IF IsReloc(c) THEN 1 ELSE 0
PutBack(c) == IF IsReloc(c) THEN 1 ELSE 0

(* Count a writable pointer to the value of a, which the slot has alone. *)
Opened(q, s, a) ==
  [Rehash(q, s, {EntryOf(q, s, a)}) EXCEPT
     !.block[BlockOf(q, s, a)].num_reloc = @ - Taken(Content(q, s, a)),
     !.value[SlotOf(q, s, a).value].write_count = (@ + 1) % 16]

Owned(p, s, a, v) ==
  LET l == SlotOf(p, s, a)
  IN  [WithSlot(p, s, a, [l EXCEPT !.value = v]) EXCEPT
         !.value[l.value].refcnt = @ - 1,
         !.value[v] = [p.value[l.value] EXCEPT !.refcnt = 1, !.write_count = 0]]

(* cesk_store_get_rw: the value is forked unless the slot has it alone. *)
Writable(p, s, a) ==
  LET v == SlotOf(p, s, a).value
  IN  IF v = NoVal THEN p
      ELSE Opened(IF Shared(p.value[v]) THEN Owned(p, s, a, FreshVal(p)) ELSE p, s, a)

GetRw(m, s, a) == Writable(Private(m, s, {BlockNo(a)}), s, a)

(* cesk_store_release_rw: the last pointer puts the value back. *)
Closed(p, s, a) ==
  LET v == SlotOf(p, s, a).value
      q == [p EXCEPT !.value[v].write_count = @ - 1]
  IN  IF p.value[v].write_count = 0 THEN p
      ELSE IF p.value[v].write_count > 1 THEN q
      ELSE [Rehash(q, s, {EntryOf(q, s, a)}) EXCEPT
              !.block[BlockOf(q, s, a)].num_reloc = @ + PutBack(Content(q, s, a))]

ReleaseRw(m, s, a) == Closed(Private(m, s, {BlockNo(a)}), s, a)

(* cesk_store_set_reuse and cesk_store_clear_reuse; the first leaves the   *)
(* hash code alone while a writable pointer is out, the second does not.   *)
Reused(p, s, a, bit) ==
  LET q == WithSlot(p, s, a, [SlotOf(p, s, a) EXCEPT !.reuse = bit])
  IN  IF bit /\ p.value[SlotOf(p, s, a).value].write_count # 0 THEN q
      ELSE Rehash(q, s, Xor({EntryOf(p, s, a)}, {EntryOf(q, s, a)}))

WithReuse(m, s, a, bit) == Reused(Private(m, s, {BlockNo(a)}), s, a, bit)

-----------------------------------------------------------------------------
(* Whole stores.                                                           *)

(* cesk_store_fork, cesk_store_free, cesk_store_compact_store. *)
Forked(m, s, t) ==
  [m EXCEPT !.store[t] = m.store[s],
            !.block = [b \in Block |->
              IF b \in Range(m.store[s].blocks) THEN [m.block[b] EXCEPT !.refcnt = @ + 1] ELSE m.block[b]]]

Freed(m, s) ==
  LET mine == Range(m.store[s].blocks)
      gone == {b \in mine : m.block[b].refcnt = 1}
      less(v) == Cardinality({c \in gone \X Ofs : m.block[c[1]].slots[c[2]].value = v})
  IN  [m EXCEPT !.store[s] = NoStore,
                !.block = [b \in Block |-> IF b \in gone THEN NewBlock
                             ELSE IF b \in mine THEN [m.block[b] EXCEPT !.refcnt = @ - 1] ELSE m.block[b]],
                !.value = [v \in Val |-> Unref(m.value[v], less(v))]]

Compacted(m, s) ==
  LET blocks == m.store[s].blocks
      kept == Max({0} \cup {k \in DOMAIN blocks : m.block[blocks[k]].num_ent # 0})
      cut == Range(SubSeq(blocks, kept + 1, Len(blocks)))
  IN  [m EXCEPT !.store[s].blocks = SubSeq(@, 1, kept),
                !.block = [b \in Block |-> IF b \notin cut THEN m.block[b]
                             ELSE IF m.block[b].refcnt = 1 THEN NewBlock
                             ELSE [m.block[b] EXCEPT !.refcnt = @ - 1]]]

(* Mutant: the search stops at the registers. *)
ReachShallow(m, s, r) == {ObjectAddress(m, s, x) : x \in {y \in Elem : r[y] > 0}} \cap Addr

(* _cesk_frame_store_dfs: the addresses that the registers r reach. *)
Reach(m, s, r) ==
  LET from(X) == {ObjectAddress(m, s, x) : x \in X} \cap Addr
      closed == {R \in SUBSET Addr : /\ from({x \in Elem : r[x] > 0}) \subseteq R
                                     /\ \A a \in R : Alive(m, s, a) => from(Content(m, s, a)) \subseteq R}
  IN  CHOOSE R \in closed : \A Q \in closed : R \subseteq Q

(* cesk_frame_gc: detach what is out of reach, in the order of addresses, and compact. *)
Detach(m, s, a, R) ==
  LET unreferenced(n) == WithSlot(n, s, a, [SlotOf(n, s, a) EXCEPT !.refcnt = 0])
  IN  IF a \in R \/ ~Alive(m, s, a) THEN m ELSE unreferenced(Attached(m, s, a, NoVal))

Collected(m, s, r) ==
  LET R == Reach(m, s, r)
      size == Len(m.store[s].blocks) * NSlots
      swept[i \in 0 .. size] == IF i = 0 THEN m ELSE Detach(swept[i - 1], s, i - 1, R)
  IN  Compacted(swept[size], s)

(***************************************************************************)
(* cesk_store_apply_alloctab: replace the relocated addresses in all       *)
(* values of the blocks that claim to have some, and give up at a block    *)
(* whose counter is not zero afterwards.                                   *)
(***************************************************************************)
Translated(m, s, a) ==
  LET object(x) == IF x \in Reloc THEN RelocMap[x] ELSE x
      written(g) == [g EXCEPT !.value[SlotOf(g, s, a).value].content = {object(x) : x \in @}]
  IN  IF ~Alive(m, s, a) \/ ~IsReloc(Content(m, s, a)) THEN m
      ELSE ReleaseRw(written(GetRw(m, s, a)), s, a)

Claims(m, s, k) == m.block[m.store[s].blocks[k]].num_reloc # 0

AppliedTo(m, s, k) ==
  LET done[i \in 0 .. NSlots] ==
        IF i = 0 THEN Private(m, s, {k}) ELSE Translated(done[i - 1], s, (k - 1) * NSlots + i - 1)
  IN  IF Claims(m, s, k) THEN done[NSlots] ELSE m

Applied(m, s) ==
  LET size == Len(m.store[s].blocks)
      done[k \in 0 .. size] ==
        IF k = 0 THEN [m |-> m, ok |-> TRUE]
        ELSE IF ~done[k - 1].ok THEN done[k - 1]
        ELSE LET n == AppliedTo(done[k - 1].m, s, k) IN [m |-> n, ok |-> ~Claims(n, s, k)]
  IN  IF ~m.store[s].tab THEN [m |-> m, ok |-> TRUE]
      ELSE IF done[size].ok THEN [done[size] EXCEPT !.m.store[s].tab = FALSE] ELSE done[size]

(***************************************************************************)
(* cesk_store_allocate: the first probed slot with this parameter, or else *)
(* the first one that is not in use, or else one in a new block.  The      *)
(* parameter is written to the block as it is, shared or not.              *)
(***************************************************************************)
AllocAddr(m, s, p) ==
  LET n == Len(m.store[s].blocks)
      at(c) == (c[2] - 1) * NSlots + Probe[p][c[1]]
      probes == (1 .. Len(Probe[p])) \X (1 .. n)
      with(q) == {c \in probes : SlotOf(m, s, at(c)).param = q}
      first(C) == CHOOSE c \in C : \A d \in C : c[1] < d[1] \/ (c[1] = d[1] /\ c[2] <= d[2])
  IN  IF with(p) # {} THEN at(first(with(p)))
      ELSE IF with(NoParam) # {} THEN at(first(with(NoParam)))
      ELSE n * NSlots + Probe[p][1]
Allocated(m, s, p, a) ==
  LET new == CHOOSE b \in Block : m.block[b].refcnt = 0
      n == IF Has(m, s, a) THEN m
           ELSE [m EXCEPT !.store[s].blocks = Append(@, new), !.block[new] = [NewBlock EXCEPT !.refcnt = 1]]
  IN  IF Has(m, s, a) /\ SlotOf(m, s, a).param = p THEN m
      ELSE WithSlot(n, s, a, [SlotOf(n, s, a) EXCEPT !.param = p, !.reuse = FALSE])

(* A value of the content X attached to a, the writable pointer released. *)
WithNewValue(m, s, a, X) ==
  LET v == FreshVal(m)
  IN  ReleaseRw(Attached([m EXCEPT !.value[v].content = X], s, a, v), s, a)

-----------------------------------------------------------------------------
(* The handlers of the frame.                                              *)

Live(s) == mem.store[s] # NoStore
NoRegs == [x \in Elem |-> 0]
Loaded(s) == {x \in Elem : root[s][x] > 0}
Counted(m) ==
  LET refs(b) == MapThenSumSet(LAMBDA o : m.block[b].slots[o].refcnt, Ofs)
  IN  (\A b \in Block : refs(b) <= MaxRefs) /\ MapThenSumSet(refs, Block) <= MaxTotal

Init ==
  /\ mem = [store |-> [s \in Store |-> NoStore], block |-> [b \in Block |-> NewBlock],
            value |-> [v \in Val |-> NewValue]]
  /\ root = [s \in Store |-> NoRegs]
  /\ held = {}

(* cesk_frame_new, with or without an allocation table. *)
NewFrame(s, tab) ==
  /\ ~Live(s)
  /\ mem' = [mem EXCEPT !.store[s] = [EmptyStore EXCEPT !.tab = tab]]
  /\ UNCHANGED <<root, held>>

(* cesk_frame_fork *)
Fork(s, t) ==
  /\ Live(s) /\ ~Live(t)
  /\ mem' = Forked(mem, s, t)
  /\ root' = [root EXCEPT ![t] = root[s]]
  /\ UNCHANGED held

(* cesk_frame_free *)
FreeFrame(s) ==
  /\ Live(s)
  /\ mem' = Freed(mem, s)
  /\ root' = [root EXCEPT ![s] = NoRegs]
  /\ UNCHANGED held

(* cesk_frame_gc *)
Collect(s) ==
  /\ Live(s)
  /\ mem' = Collected(mem, s, root[s])
  /\ UNCHANGED <<root, held>>

(***************************************************************************)
(* cesk_frame_make_invocation_frame: fork the store, translate the         *)
(* arguments, apply the allocation table, collect garbage.  The counters   *)
(* of the slots stay those of the caller's registers.                      *)
(***************************************************************************)
Invoke(s, t, args) ==
  LET regs == [x \in Elem |-> MapThenSumSet(LAMBDA y : args[y],
                                {y \in Elem : args[y] > 0 /\ ObjectAddress(mem, s, y) = x})]
  IN  /\ Live(s) /\ ~Live(t)
      /\ \A x \in Elem : args[x] > 0 => /\ root[s][x] > 0
                                        /\ ObjectAddress(mem, s, x) # NoVal
                                        /\ DupArgs \/ args[x] <= root[s][x]
      /\ \E f \in {Applied(Forked(mem, s, t), t)} :
           f.ok /\ mem' = Collected(f.m, t, regs)
      /\ root' = [root EXCEPT ![t] = regs]
      /\ UNCHANGED held

(* A register gets a copy of the address x, another one loses it. *)
Load(s, x) ==
  /\ Live(s) /\ root[s][x] < MaxRegs
  /\ Alive(mem, s, ObjectAddress(mem, s, x))
  /\ x \notin Reloc => x \in Reach(mem, s, root[s])
  /\ mem' = IncrefAll(mem, s, {x}) /\ Counted(mem')
  /\ root' = [root EXCEPT ![s][x] = @ + 1]
  /\ UNCHANGED held
Drop(s, x) ==
  /\ Live(s) /\ root[s][x] > 0
  /\ mem' = DecrefAll(mem, s, [b \in Addr |-> Refs(mem, s, {x}, b)])
  /\ root' = [root EXCEPT ![s][x] = @ - 1]
  /\ UNCHANGED held

(***************************************************************************)
(* cesk_frame_store_new_object, and loading the address to a register: a   *)
(* fresh address gets a new value; a living one is marked as reused; a     *)
(* const instruction leaves that alone, and keeps the writable pointer.    *)
(***************************************************************************)
Created(m, s, p, a) ==
  IF ~Alive(m, s, a) THEN WithNewValue(m, s, a, {})
  ELSE IF p \in ConstParam THEN GetRw(m, s, a)
  ELSE ReleaseRw(WithReuse(GetRw(m, s, a), s, a, TRUE), s, a)

NewObject(s, p) ==
  /\ Live(s)
  /\ \E a \in {AllocAddr(mem, s, p)} \cap Addr :
       /\ root[s][a] < MaxRegs
       /\ mem' = IncrefAll(Created(Allocated(mem, s, p, a), s, p, a), s, {a}) /\ Counted(mem')
       /\ root' = [root EXCEPT ![s][a] = @ + 1]
  /\ UNCHANGED held

(* cesk_diff_buffer_append of a store record. *)
Count(m, v, snap) == IF snap THEN [m EXCEPT !.value[v].refcnt = @ + 1] ELSE m

(***************************************************************************)
(* cesk_frame_store_put_field: write the addresses X of a register to the  *)
(* value at a.  A weak update, which the caller asks for and an address    *)
(* that stands for several objects needs, merges X into the value; another *)
(* one attaches a new value.  With snap, the diff buffers get the value    *)
(* before and after.                                                       *)
(***************************************************************************)
Put(h, s, a, X, weak) ==
  IF weak
  THEN ReleaseRw([IncrefAll(h, s, X \ Content(h, s, a))
                    EXCEPT !.value[SlotOf(h, s, a).value].content = @ \cup X], s, a)
  ELSE WithNewValue(ReleaseRw(IncrefAll(h, s, X), s, a), s, a, X)

PutField(s, a, X, weak, snap) ==
  /\ Alive(mem, s, a)
  /\ SlotOf(mem, s, a).reuse => weak
  /\ snap => Cardinality(held) + 2 <= MaxHeld
  /\ \E g \in {GetRw(mem, s, a)} :
       LET old == SlotOf(g, s, a).value
       IN  \E n \in {Put(Count(g, old, snap), s, a, X, weak)} :
             LET new == SlotOf(n, s, a).value
             IN  /\ mem' = Count(n, new, snap) /\ Counted(mem')
                 /\ held' = IF snap THEN held \cup {<<"inv", a, old>>, <<"diff", a, new>>} ELSE held
  /\ UNCHANGED root

(* A record of cesk_frame_apply_diff's store section applied to the frame. *)
ApplyRecord(s, r) ==
  LET X == mem.value[r[3]].content
  IN  /\ Live(s) /\ Alive(mem, s, r[2]) /\ Content(mem, s, r[2]) # X
      /\ \A x \in X : Alive(mem, s, ObjectAddress(mem, s, x))
      /\ mem' = ReleaseRw(Attached(IncrefAll(mem, s, X), s, r[2], r[3]), s, r[2])
      /\ Counted(mem')
      /\ UNCHANGED <<root, held>>

(* A record of its reuse section. *)
ApplyReuse(s, a, bit) ==
  /\ Live(s) /\ Alive(mem, s, a) /\ SlotOf(mem, s, a).reuse # bit
  /\ mem' = WithReuse(mem, s, a, bit)
  /\ UNCHANGED <<root, held>>

(* cesk_diff_buffer_free, one record of it. *)
FreeRecord(r) ==
  /\ held' = held \ {r}
  /\ mem' = [mem EXCEPT !.value[r[3]] = Unref(@, 1)]
  /\ UNCHANGED root

Registers(s) == UNION {kSubset(k, Loaded(s)) : k \in 0 .. MaxWidth}

Next ==
  \/ \E s \in Store :
       \/ \E tab \in (IF Reloc = {} THEN {FALSE} ELSE BOOLEAN) : NewFrame(s, tab)
       \/ FreeFrame(s) \/ Collect(s)
       \/ \E t \in Store : Fork(s, t)
       \/ \E t \in Store, args \in [Elem -> 0 .. MaxRegs] : Invoke(s, t, args)
       \/ \E x \in Elem : Load(s, x) \/ Drop(s, x)
       \/ \E p \in Param : NewObject(s, p)
       \/ Live(s) /\ \E a \in Reach(mem, s, root[s]), X \in Registers(s), weak, snap \in BOOLEAN :
                       PutField(s, a, X, weak, snap)
       \/ \E r \in held : ApplyRecord(s, r)
       \/ \E a \in Addr, bit \in ReuseBits : ApplyReuse(s, a, bit)
  \/ \E r \in held : FreeRecord(r)

Spec == Init /\ [][Next]_vars

-----------------------------------------------------------------------------
(* Types: no unsigned counter of a block, a store or a value goes below    *)
(* zero, through every order of attaching, swiping, forking and freeing.   *)
TypeOK ==
  /\ mem \in [store : [Store -> StoreRec \cup {NoStore}], block : [Block -> StoreBlock],
              value : [Val -> Value]]
  /\ root \in [Store -> [Elem -> Nat]]
  /\ held \subseteq {"inv", "diff"} \X Addr \X Val

LiveBlock == {b \in Block : mem.block[b].refcnt > 0}

(* Every block is counted by the stores that have it in their table, every *)
(* value by the slots and the diff records that point to it: nothing is    *)
(* freed while it is in use, and nothing that is not in use stays.         *)
RefcntExact ==
  /\ \A b \in Block : mem.block[b].refcnt =
       Cardinality({s \in Store : Live(s) /\ b \in Range(mem.store[s].blocks)})
  /\ \A v \in Val : mem.value[v].refcnt =
       Cardinality({c \in LiveBlock \X Ofs : mem.block[c[1]].slots[c[2]].value = v})
         + Cardinality({r \in held : r[3] = v})

(* cesk_store_hashcode, kept up to date by every write, is what            *)
(* cesk_store_compute_hashcode computes from the values.                   *)
HashExact ==
  \A s \in Store : Live(s) => mem.store[s].hash =
    {EntryOf(mem, s, a) : a \in {b \in Addr : Alive(mem, s, b)
                                   /\ mem.value[SlotOf(mem, s, b).value].write_count = 0}}

(* num_ent of stores and blocks counts the values in them, so that         *)
(* cesk_store_compact_store never cuts off a block with a value in it.     *)
CountExact ==
  /\ \A s \in Store : Live(s) => mem.store[s].num_ent = Cardinality({a \in Addr : Alive(mem, s, a)})
  /\ \A b \in LiveBlock :
       mem.block[b].num_ent = Cardinality({o \in Ofs : mem.block[b].slots[o].value # NoVal})

(* Every address in a register or a value of a frame denotes a living slot *)
(* that counts at least these references: neither cesk_store_decref nor    *)
(* cesk_frame_gc frees what the frame can still reach.                     *)
CountsCover ==
  \A s \in Store : Live(s) =>
    LET living == {a \in Addr : Alive(mem, s, a)}
        refs(b) == MapThenSumSet(LAMBDA x : root[s][x], {x \in Elem : ObjectAddress(mem, s, x) = b})
                     + MapThenSumSet(LAMBDA a : Refs(mem, s, Content(mem, s, a), b), living)
    IN  /\ \A b \in living : SlotOf(mem, s, b).refcnt >= refs(b)
        /\ \A x \in Loaded(s) \cup UNION {Content(mem, s, a) : a \in living} :
             ObjectAddress(mem, s, x) \in living

(* num_reloc never misses a value with relocated addresses, so that        *)
(* cesk_store_apply_alloctab never skips a block that needs it.            *)
RelocNeverSkipped ==
  \A b \in LiveBlock : mem.block[b].num_reloc >=
    Cardinality({o \in Ofs : LET v == mem.block[b].slots[o].value
                             IN  v # NoVal /\ IsReloc(mem.value[v].content)})

(* What the frame of s sees of its store. *)
View(s) ==
  [a \in Addr |-> IF Live(s) /\ Alive(mem, s, a)
                  THEN <<Content(mem, s, a), SlotOf(mem, s, a).reuse, SlotOf(mem, s, a).refcnt>>
                  ELSE <<>>]

(* Copy-on-write: a step is a step of one frame.  Whatever blocks and      *)
(* values the frames share, no other frame sees a change of its store.     *)
Isolation == [][\E s \in Store : \A t \in Store \ {s} : View(t)' = View(t)]_vars
=============================================================================
