------------------------------ MODULE MCCeskSet ------------------------------
(* CeskSet for TLC: small sets of handles, addresses and tags.             *)
EXTENDS CeskSet, TLC

CONSTANTS h1, h2, h3, a1, a2, a3, r1, t1

TwoHandles == {h1, h2}
ThreeHandles == {h1, h2, h3}
Addrs == {a1, a2, r1}
MoreAddrs == {a1, a2, a3}
Relocs == {r1}
NoRelocs == {}
Tags == {t1}
NoTags == {}

(* Handles are interchangeable, and so are the object addresses. *)
Symmetry == Permutations(TwoHandles) \cup Permutations({a1, a2})
=============================================================================
