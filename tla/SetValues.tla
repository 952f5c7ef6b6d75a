------------------------------ MODULE SetValues ------------------------------
(***************************************************************************)
(* What src/include/cesk/cesk_set.h promises a client: every handle is a   *)
(* set of its own, with value semantics.  No sharing, no indices, no node  *)
(* lists; CeskSet is shown to implement this.                              *)
(***************************************************************************)
CONSTANTS Handle, Addr, Tag, NoSet

VARIABLE val   \* val[h]: the members and the tags of h, or NoSet

SetValue == [members : SUBSET Addr, tags : SUBSET Tag]

Live(h) == val[h] # NoSet

Becomes(h, v) == val' = [val EXCEPT ![h] = v]

Empty(h) == ~Live(h) /\ Becomes(h, [members |-> {}, tags |-> {}])

Fork(h, sour) == ~Live(h) /\ Live(sour) /\ Becomes(h, val[sour])

Free(h) == Live(h) /\ Becomes(h, NoSet)

Push(h, a) ==
  Live(h) /\ Becomes(h, [val[h] EXCEPT !.members = @ \cup {a}])

Merge(h, sour) ==
  /\ Live(h) /\ Live(sour)
  /\ Becomes(h, [members |-> val[h].members \cup val[sour].members,
                 tags    |-> val[h].tags \cup val[sour].tags])

MergeTags(h, sour) ==
  /\ Live(h) /\ Live(sour)
  /\ Becomes(h, [val[h] EXCEPT !.tags = @ \cup val[sour].tags])

AssignTags(h, tags) == Live(h) /\ Becomes(h, [val[h] EXCEPT !.tags = tags])

Modify(h, from, to) ==
  /\ Live(h)
  /\ from \in val[h].members
  /\ Becomes(h, [val[h] EXCEPT !.members = (@ \ {from}) \cup {to}])

Init == val = [h \in Handle |-> NoSet]

Next ==
  \E h \in Handle :
    \/ Empty(h) \/ Free(h)
    \/ \E a \in Addr : Push(h, a)
    \/ \E from, to \in Addr : Modify(h, from, to)
    \/ \E tags \in SUBSET Tag : AssignTags(h, tags)
    \/ \E sour \in Handle : Fork(h, sour) \/ Merge(h, sour) \/ MergeTags(h, sour)

Spec == Init /\ [][Next]_val
=============================================================================
