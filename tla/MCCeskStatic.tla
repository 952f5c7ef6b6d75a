---------------------------- MODULE MCCeskStatic ----------------------------
(* An instance of CeskStatic: four fields, one of a type without a parser. *)
EXTENDS CeskStatic, TLC

MCLiteral ==
    [f \in Fields |->
        CASE f = 0 -> [type |-> "none",  val |-> 0]
          [] f = 1 -> [type |-> "int",   val |-> 7]
          [] f = 2 -> [type |-> "float", val |-> -5]
          [] OTHER -> [type |-> "char",  val |-> 65]]

MCReloc == {"reloc1", "reloc2"}

MCAllocTab == [a \in MCReloc |-> IF a = "reloc1" THEN "object1" ELSE "object2"]

MCInputs == {{"zero"}, {"pos", "reloc1"}, MCReloc}

TableSymmetry == Permutations(Tables)
=============================================================================
