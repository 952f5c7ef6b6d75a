------------------------------- MODULE CeskSet -------------------------------
(***************************************************************************)
(* The address sets of the CESK machine (src/src/cesk/cesk_set.c).         *)
(*                                                                         *)
(* A cesk_set_t is a handle holding a set index.  The contents live in one *)
(* global hash table: an info node per index and a data node per           *)
(* <index, address>.  Handles share an index copy-on-write: cesk_set_fork  *)
(* counts one more handle, and a write through a handle whose index is     *)
(* shared moves that handle to a fresh duplicate first.                    *)
(*                                                                         *)
(* Besides the hash chains, the data nodes of an index are threaded on a   *)
(* list that iteration, merging, duplication and freeing follow.  The list *)
(* is doubly linked only in part: cesk_set_push and cesk_set_merge do not  *)
(* set the back pointer of the node they push down, cesk_set_duplicate     *)
(* does.  cesk_set_modify relies on that back pointer.                     *)
(*                                                                         *)
(* Two abstractions of data.  A 32-bit XOR hash is the set of the summands *)
(* that are in it an odd number of times, so that XOR is symmetric         *)
(* difference and hashes do not collide.  A tag set is a set of tags and   *)
(* tag_set_merge is union (resolutions are left out).                      *)
(***************************************************************************)
EXTENDS Integers, FiniteSets, Sequences

CONSTANTS
  Handle,         \* the cesk_set_t objects clients may hold
  Addr,           \* store addresses, CESK_STORE_ADDR_NULL excluded
  RelocAddr,      \* the relocated addresses among them
  Tag,            \* tags
  NoSet,          \* the value of a handle that is not allocated
  MaxIdx,         \* bound: set indices 0..MaxIdx (the code: 2^32)
  MaxSize,        \* bound: no write takes info->size above MaxSize (2^32)
  AllowCollision  \* may cesk_set_modify turn an element into one already present?

ASSUME SetAssumption ==
  /\ RelocAddr \subseteq Addr
  /\ IsFiniteSet(Handle)
  /\ IsFiniteSet(Addr)
  /\ MaxIdx \in Nat
  /\ MaxSize \in Nat
  /\ NoSet \notin Nat \cup [members : SUBSET Addr, tags : SUBSET Tag]
  /\ AllowCollision \in BOOLEAN

VARIABLES
  handle,    \* handle[h]: the set_idx of h, or NoSet
  next_idx,  \* the next fresh index (static next_idx of _cesk_set_idx_alloc)
  set        \* set[i]: the info node of index i and its data nodes

vars == <<handle, next_idx, set>>

Idx == 0 .. MaxIdx

(* The index of the singleton _cesk_empty_set, allocated by cesk_set_init. *)
EmptyIdx == 0

(***************************************************************************)
(* An info node with its data nodes.                                       *)
(*   refcnt  handles for this index; 0: the info node is not in the table  *)
(*   size, reloc, tags  as in cesk_set_info_entry_t                        *)
(*   ahash, thash  the address and the tag summands of hashcode            *)
(*   node    the addresses with a data node in the hash table              *)
(*   list    the data nodes reachable from info->first, in order           *)
(*   linked  the data nodes whose data_entry->prev is not NULL             *)
(***************************************************************************)
SetInfo ==
  [refcnt : Nat, size : Nat, reloc : Nat, tags : SUBSET Tag,
   ahash : SUBSET Addr, thash : SUBSET (SUBSET Tag),
   node : SUBSET Addr, list : Seq(Addr), linked : SUBSET Addr]

NewInfo ==
  [refcnt |-> 0, size |-> 0, reloc |-> 0, tags |-> {},
   ahash |-> {}, thash |-> {{}},
   node |-> {}, list |-> <<>>, linked |-> {}]

Xor(A, B) == (A \ B) \cup (B \ A)
Elems(s) == {s[k] : k \in 1 .. Len(s)}
Backwards(s) == [k \in 1 .. Len(s) |-> s[Len(s) + 1 - k]]
IndexIn(s, x) == CHOOSE k \in 1 .. Len(s) : s[k] = x

(* Mutant: the duplicate does not take over the size. *)
DuplicateNoSize(s) ==
  [s EXCEPT !.refcnt = 1, !.list = Backwards(s.list), !.size = 0]

(* _cesk_set_duplicate: what the fresh index holds. *)
Duplicate(s) ==
  LET order == Backwards(s.list)
  IN  [s EXCEPT !.refcnt = 1,
                !.node   = Elems(s.list),
                !.list   = order,
                !.linked = Elems(s.list) \ (IF order = <<>> THEN {} ELSE {order[1]})]

(* Mutant: the singleton's own reference is taken into account for every   *)
(* index.                                                                  *)
SharedLate(h) == set[handle[h]].refcnt > 2

(***************************************************************************)
(* _cesk_set_prepare_to_write and the same code in cesk_set_modify and     *)
(* _cesk_set_prepare_merge: where a write through h goes, and the table    *)
(* after the duplication, before the write.                                *)
(***************************************************************************)
Shared(h) == set[handle[h]].refcnt > 1
WriteIdx(h) == IF Shared(h) THEN next_idx ELSE handle[h]
Prepared(h) == IF Shared(h) THEN Duplicate(set[handle[h]]) ELSE set[handle[h]]

(* The rest of a write: the info node that h ends with is s.  The first    *)
(* two conjuncts are the bounds of the model.                              *)
Write(h, s) ==
  /\ Shared(h) => next_idx \in Idx
  /\ s.size <= MaxSize
  /\ handle' = [handle EXCEPT ![h] = WriteIdx(h)]
  /\ IF Shared(h)
       THEN /\ next_idx' = next_idx + 1
            /\ set' = [i \in Idx |->
                         IF i = next_idx THEN s
                         ELSE IF i = handle[h]
                           THEN [set[i] EXCEPT !.refcnt = @ - 1]
                           ELSE set[i]]
       ELSE /\ set' = [set EXCEPT ![handle[h]] = s]
            /\ UNCHANGED next_idx

Live(h) == handle[h] # NoSet

-----------------------------------------------------------------------------
(* Contents of one info node after each update.                            *)

(* Mutant: the relocation count is not maintained. *)
PushedNoReloc(s, new) ==
  [s EXCEPT !.node  = @ \cup Elems(new),
            !.list  = Backwards(new) \o @,
            !.ahash = Xor(@, Elems(new)),
            !.size  = @ + Len(new)]

(* cesk_set_push of an absent address, and the loop of cesk_set_merge: the *)
(* addresses of `new', none of them in s, are pushed one after another.    *)
(* Each becomes info->first; the old first keeps its back pointer.         *)
Pushed(s, new) ==
  [s EXCEPT !.node  = @ \cup Elems(new),
            !.list  = Backwards(new) \o @,
            !.ahash = Xor(@, Elems(new)),
            !.size  = @ + Len(new),
            !.reloc = @ + Cardinality(Elems(new) \cap RelocAddr)]

(* The elements of the list l that the loop of cesk_set_merge pushes into  *)
(* s: the (only) subsequence of l of the addresses with no node in s.      *)
Missing(s, l) ==
  LET K == {k \in 1 .. Len(l) : l[k] \notin s.node}
      N == 1 .. Cardinality(K)
      Increasing == {p \in [N -> K] : \A i, j \in N : i < j => p[i] < p[j]}
  IN  {[j \in N |-> l[p[j]]] : p \in Increasing}

(* Mutant: the tags of the source replace those of the destination. *)
TagsReplaced(s, tags) ==
  [s EXCEPT !.tags  = tags,
            !.thash = Xor(Xor(@, {s.tags}), {tags})]

(* The tag part of cesk_set_merge and cesk_set_merge_tags. *)
MergeTagsInto(s, tags) ==
  [s EXCEPT !.tags  = @ \cup tags,
            !.thash = Xor(Xor(@, {s.tags}), {s.tags \cup tags})]

(* Mutant: only the new address is tested. *)
RelocAfterTestsTo(s, from, to) ==
  IF to \in RelocAddr THEN s.reloc + 1 ELSE s.reloc - 1

(* reloc after one element changed from `from' to `to'. *)
RelocAfter(s, from, to) ==
  IF from \in RelocAddr /\ to \notin RelocAddr THEN s.reloc - 1
  ELSE IF from \notin RelocAddr /\ to \in RelocAddr THEN s.reloc + 1
  ELSE s.reloc

(* cesk_set_modify, `to' not in the set: the node is renamed in place. *)
Rename(s, from, to) ==
  LET new(a) == IF a = from THEN to ELSE a
  IN  [s EXCEPT !.node   = {new(a) : a \in @},
                !.list   = [k \in 1 .. Len(@) |-> new(@[k])],
                !.linked = {new(a) : a \in @},
                !.ahash  = Xor(Xor(@, {from}), {to}),
                !.reloc  = RelocAfter(s, from, to)]

(***************************************************************************)
(* cesk_set_modify, `to' already in the set: the node of `from' is deleted *)
(* and info->size is left alone.  With no back pointer, info->first moves  *)
(* past the node, and whatever preceded it is no longer on the list.       *)
(* Deleting a node that is itself off the list makes info->first a pointer *)
(* into freed or detached nodes: any order of the other nodes may follow.  *)
(***************************************************************************)
ListsWithout(s, from) ==
  LET l == s.list
      p == IndexIn(l, from)
      rest == SubSeq(l, p + 1, Len(l))
      others == s.node \ {from}
  IN  IF from \in Elems(l)
        THEN {IF from \in s.linked THEN SubSeq(l, 1, p - 1) \o rest ELSE rest}
        ELSE UNION {{o \in [1 .. n -> others] :
                       \A j, k \in 1 .. n : o[j] = o[k] => j = k}
                    : n \in 0 .. Cardinality(others)}

(* The node after the deleted one takes over its back pointer. *)
LinkedWithout(s, from) ==
  LET l == s.list
      p == IndexIn(l, from)
      next == {l[k] : k \in {p + 1} \cap 1 .. Len(l)}
  IN  IF from \notin Elems(l) THEN s.linked \ {from}
      ELSE IF from \in s.linked THEN (s.linked \ {from}) \cup next
      ELSE s.linked \ ({from} \cup next)

Delete(s, from, to, l) ==
  [s EXCEPT !.node   = @ \ {from},
            !.list   = l,
            !.linked = LinkedWithout(s, from),
            !.ahash  = Xor(@, {from}),
            !.reloc  = RelocAfter(s, from, to)]

-----------------------------------------------------------------------------
(* The operations of cesk_set.h.                                           *)

(* Mutant: the new handle of the singleton is not counted. *)
EmptySetNotCounted(h) ==
  /\ ~Live(h)
  /\ handle' = [handle EXCEPT ![h] = EmptyIdx]
  /\ UNCHANGED <<next_idx, set>>

(* cesk_set_empty_set: a fork of the singleton. *)
cesk_set_empty_set(h) ==
  /\ ~Live(h)
  /\ handle' = [handle EXCEPT ![h] = EmptyIdx]
  /\ set' = [set EXCEPT ![EmptyIdx].refcnt = @ + 1]
  /\ UNCHANGED next_idx

(* Mutant: the fork is not counted. *)
ForkNotCounted(h, sour) ==
  /\ ~Live(h)
  /\ Live(sour)
  /\ handle' = [handle EXCEPT ![h] = handle[sour]]
  /\ UNCHANGED <<next_idx, set>>

cesk_set_fork(h, sour) ==
  /\ ~Live(h)
  /\ Live(sour)
  /\ handle' = [handle EXCEPT ![h] = handle[sour]]
  /\ set' = [set EXCEPT ![handle[sour]].refcnt = @ + 1]
  /\ UNCHANGED next_idx

(* cesk_set_free: the last handle takes the info node and the data nodes   *)
(* on the list with it.                                                    *)
Freed(s) ==
  IF s.refcnt = 1 THEN [NewInfo EXCEPT !.node = s.node \ Elems(s.list)]
  ELSE [s EXCEPT !.refcnt = @ - 1]

cesk_set_free(h) ==
  /\ Live(h)
  /\ handle' = [handle EXCEPT ![h] = NoSet]
  /\ set' = [set EXCEPT ![handle[h]] = Freed(@)]
  /\ UNCHANGED next_idx

cesk_set_push(h, a) ==
  /\ Live(h)
  /\ LET s == Prepared(h)
     IN  Write(h, IF a \in s.node THEN s ELSE Pushed(s, <<a>>))

cesk_set_merge(h, sour) ==
  /\ Live(h)
  /\ Live(sour)
  /\ LET src == set[handle[sour]]
         dst == Prepared(h)
     IN  \E new \in Missing(dst, src.list) :
           Write(h, MergeTagsInto(Pushed(dst, new), src.tags))

cesk_set_merge_tags(h, sour) ==
  /\ Live(h)
  /\ Live(sour)
  /\ Write(h, MergeTagsInto(Prepared(h), set[handle[sour]].tags))

(* cesk_set_assign_tags replaces the tags and leaves hashcode alone. *)
cesk_set_assign_tags(h, tags) ==
  /\ Live(h)
  /\ Write(h, [Prepared(h) EXCEPT !.tags = tags])

(* from = to returns at once; a missing `from' returns after the set has   *)
(* been duplicated.                                                        *)
cesk_set_modify(h, from, to) ==
  /\ Live(h)
  /\ from # to
  /\ LET s == Prepared(h)
     IN  \/ /\ from \notin s.node
            /\ Write(h, s)
         \/ /\ from \in s.node /\ to \notin s.node
            /\ Write(h, Rename(s, from, to))
         \/ /\ from \in s.node /\ to \in s.node
            /\ AllowCollision
            /\ \E l \in ListsWithout(s, from) : Write(h, Delete(s, from, to, l))

(* cesk_set_init: the info node of the singleton, held by the module. *)
Init ==
  /\ handle = [h \in Handle |-> NoSet]
  /\ next_idx = EmptyIdx + 1
  /\ set = [i \in Idx |-> IF i = EmptyIdx THEN [NewInfo EXCEPT !.refcnt = 1]
                                          ELSE NewInfo]

Next ==
  \E h \in Handle :
    \/ cesk_set_empty_set(h)
    \/ cesk_set_free(h)
    \/ \E a \in Addr : cesk_set_push(h, a)
    \/ \E from, to \in Addr : cesk_set_modify(h, from, to)
    \/ \E tags \in SUBSET Tag : cesk_set_assign_tags(h, tags)
    \/ \E sour \in Handle :
         \/ cesk_set_fork(h, sour)
         \/ cesk_set_merge(h, sour)
         \/ cesk_set_merge_tags(h, sour)

Spec == Init /\ [][Next]_vars

-----------------------------------------------------------------------------
(* What a client reads through a handle.                                   *)

Of(h) == set[handle[h]]

(* cesk_set_contain and cesk_set_get_tags: the value of the set. *)
Value(h) == [members |-> Of(h).node, tags |-> Of(h).tags]

(* cesk_set_hashcode and cesk_set_compute_hashcode. *)
Hashcode(h) == <<Of(h).ahash, Of(h).thash>>
ComputeHashcode(h) == <<Elems(Of(h).list), {Of(h).tags}>>

(* Mutant: the tags are compared by their hash alone. *)
EqualIgnoresTags(g, h) ==
  /\ Hashcode(g) = Hashcode(h)
  /\ Of(g).size = Of(h).size
  /\ Elems(Of(g).list) \subseteq Of(h).node

(* cesk_set_equal *)
cesk_set_equal(g, h) ==
  /\ Hashcode(g) = Hashcode(h)
  /\ Of(g).size = Of(h).size
  /\ Of(g).tags = Of(h).tags
  /\ Elems(Of(g).list) \subseteq Of(h).node

-----------------------------------------------------------------------------
(* Properties.                                                             *)

(* The types of the handles and of the global table; the unsigned fields   *)
(* of cesk_set_info_entry_t never go below zero.                           *)
TypeOK ==
  /\ handle \in [Handle -> Idx \cup {NoSet}]
  /\ next_idx \in 1 .. MaxIdx + 1
  /\ set \in [Idx -> SetInfo]

(* The live handles of an index; the module itself holds the singleton. *)
Holders(i) == {h \in Handle : handle[h] = i}
Owners(i) == Cardinality(Holders(i)) + (IF i = EmptyIdx THEN 1 ELSE 0)

(* The reference count of an index is the number of handles for it: too    *)
(* low and cesk_set_free takes the nodes away from a live handle or a      *)
(* write goes to shared nodes; too high and the nodes leak.                *)
RefcntExact == \A i \in Idx : set[i].refcnt = Owners(i)

(* Indices that were never handed out have no nodes, and a live handle     *)
(* never has such an index.                                                *)
FreshUnused ==
  /\ \A i \in Idx : i >= next_idx => set[i] = NewInfo
  /\ \A h \in Handle : Live(h) => handle[h] < next_idx

(* No write through any handle reaches the singleton that every            *)
(* cesk_set_empty_set forks.                                               *)
EmptySetIntact ==
  /\ set[EmptyIdx].node = {} /\ set[EmptyIdx].list = <<>>
  /\ set[EmptyIdx].tags = {} /\ set[EmptyIdx].size = 0

(* Copy-on-write isolation: one operation creates, frees or changes what   *)
(* is read through at most one handle; every other handle stays as it was. *)
Same(h) ==
  /\ Value(h)' = Value(h) /\ Hashcode(h)' = Hashcode(h)
  /\ Of(h).list' = Of(h).list /\ Of(h).size' = Of(h).size
OneWritten ==
  \E w \in Handle : \A h \in Handle \ {w} :
    Live(h)' = Live(h) /\ (Live(h) => Same(h))
Isolation == [][OneWritten]_vars

(* The relocation count of a set is never below the number of relocated    *)
(* addresses in it, so no value that holds one is marked relocation free   *)
(* (cesk_value.c, cesk_frame.c and cesk_block.c test it against zero).     *)
RelocNeverMissed ==
  \A i \in Idx : set[i].refcnt > 0 =>
                   set[i].reloc >= Cardinality(set[i].node \cap RelocAddr)

(* Without a colliding cesk_set_modify the hash table, the list, the size, *)
(* the relocation count and the incremental address hash all describe the  *)
(* same set.                                                               *)
ViewsAgree ==
  \A i \in Idx :
    LET s == set[i]
    IN  /\ Elems(s.list) = s.node
        /\ s.size = Cardinality(s.node) /\ s.size = Len(s.list)
        /\ s.reloc = Cardinality(s.node \cap RelocAddr)
        /\ s.ahash = s.node

(* cesk_set_equal compares hash, size and tags and then only looks the     *)
(* elements of the first set up in the second: it never takes different    *)
(* sets for equal, and finds equal sets equal whenever the tag summands of *)
(* their hash codes agree.  They need not: cesk_set_assign_tags leaves the *)
(* hash code as it was.                                                    *)
EqualExact ==
  \A g, h \in Handle :
    Live(g) /\ Live(h) =>
      /\ cesk_set_equal(g, h) => Value(g) = Value(h)
      /\ Value(g) = Value(h) /\ Of(g).thash = Of(h).thash => cesk_set_equal(g, h)

(* Every handle behaves as a set of its own (SetValues).                   *)
Values == INSTANCE SetValues WITH
            val <- [h \in Handle |-> IF Live(h) THEN Value(h) ELSE NoSet]
ValueSemantics == Values!Spec

-----------------------------------------------------------------------------
(* What the documentation and the tests say, and the code does not do.     *)

(* cesk_set.h: cesk_set_iter_next returns CESK_STORE_ADDR_NULL when        *)
(* "there's no more element in the set".  It fails after a modification    *)
(* that collides.                                                          *)
IterationComplete == \A h \in Handle : Live(h) => Of(h).node \subseteq Elems(Of(h).list)
=============================================================================
