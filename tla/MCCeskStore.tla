----------------------------- MODULE MCCeskStore -----------------------------
(***************************************************************************)
(* Instances of CeskStore for TLC.  Blocks are as many as the tables of    *)
(* all stores can name, values as many as all slots and diff records can   *)
(* refer to, and one more: a handler never runs out of either.             *)
(***************************************************************************)
EXTENDS CeskStore

CONSTANTS p1, p2, p3, x1

OneBlockProbe == (p1 :> <<0>>) @@ (p2 :> <<1>>)
OneSlotProbe == [p \in Param |-> <<0>>]
MCBlock == 1 .. Cardinality(Store) * MaxBlocks
MCVal == 1 .. Cardinality(Store) * MaxBlocks * NSlots + MaxHeld + 1
RelocToZero == [x \in Reloc |-> 0]

(***************************************************************************)
(* A view of the state that leaves out the names of blocks and values,     *)
(* which no operation depends on: a value is known by the places that      *)
(* point to it, and a block by the stores that have it.  TLC evaluates the *)
(* functions in mem when it compares it to itself.                         *)
(***************************************************************************)
Places(v) ==
  {<<s, a>> \in Store \X Addr : Live(s) /\ Has(mem, s, a) /\ SlotOf(mem, s, a).value = v}
    \cup {<<r[1], r[2]>> : r \in {q \in held : q[3] = v}}
Seen(v) == IF v = NoVal THEN NoVal ELSE <<mem.value[v], Places(v)>>
SeenStore(s) ==
  LET blocks == mem.store[s].blocks
      stores(b) == {t \in Store : Live(t) /\ b \in Range(mem.store[t].blocks)}
  IN  IF ~Live(s) THEN NoStore ELSE
      <<[mem.store[s] EXCEPT !.blocks = NoStore],
        [k \in DOMAIN blocks |->
          LET b == mem.block[blocks[k]]
          IN  <<b.refcnt, b.num_ent, b.num_reloc, stores(blocks[k]),
                [o \in Ofs |-> <<[b.slots[o] EXCEPT !.value = NoVal], Seen(b.slots[o].value)>>]>>]>>
Nameless ==
  <<mem = mem, [s \in Store |-> SeenStore(s)], root, {<<r[1], r[2], Seen(r[3])>> : r \in held},
    Cardinality(LiveBlock), Cardinality({v \in Val : mem.value[v].refcnt > 0})>>
ParamSymmetry == Permutations(Param)
StoreSymmetry == Permutations(Store)
=============================================================================
