---------------------------- MODULE MCCeskMethod ----------------------------
(* Small methods over a static field x and a register y, and two values *)
EXTENDS CeskMethod

Locs == {"x", "y"}
Vals == {"neg", "pos"}
Negate == [v \in Vals |-> IF v = "neg" THEN "pos" ELSE "neg"]

Instr(o, d, s, v) == [op |-> o, dst |-> d, src |-> s, val |-> v]
Codes ==
  {<<>>,
   <<Instr("const", "x", "x", "neg")>>, <<Instr("const", "y", "y", "pos")>>,
   <<Instr("unop", "x", "x", "neg")>>, <<Instr("move", "y", "x", "neg")>>,
   <<Instr("weak", "x", "y", "neg")>>}

Ret(l) == [code |-> <<>>, next |-> <<>>, ret |-> l]
Code(c, n) == [code |-> c, next |-> n, ret |-> "y"]
Method(f, bs) == [frame |-> f, blocks |-> bs]

(* No argument: the register is unset when the method is called *)
NoArg == [x |-> {"neg"}, y |-> {}]
(* The register is an argument *)
Arg == [x |-> {"neg"}, y |-> {"pos"}]

(* A block before two blocks that branch to each other, to themselves or *)
(* to a return                                                           *)
Outs(S) == {<<s>> : s \in S} \cup {e \in S \X S : e[1] # e[2]}
Loops ==
  {Method(NoArg, <<Code(c, <<2>>), Code(d, n), Code(e, m), Ret("y")>>) :
     c \in {<<>>, <<Instr("const", "y", "y", "pos")>>}, d \in Codes, e \in Codes,
     n \in Outs({2, 3, 4}), m \in Outs({2, 3, 4})}

(* A condition, one arm that does something, and two returns *)
Arms ==
  {Method(Arg, <<Code(c, <<2, 3>>), Code(d, <<4>>), Ret("y"), Ret("y")>>) :
     c \in Codes, d \in Codes}
=============================================================================
