---------------------------- MODULE CeskArithmetic ----------------------------
(***************************************************************************)
(* The abstract numbers of the CESK machine                                *)
(* (src/include/cesk/cesk_arithmetic.h) and the instruction handlers of    *)
(* src/src/cesk/cesk_block.c that compute with them.                       *)
(*                                                                         *)
(* A number is abstracted to a constant address, whose three low bits say  *)
(* which signs the number may have: here, a set of signs.  The boolean     *)
(* TRUE is the bit of positive numbers, FALSE the bit of zero.             *)
(*                                                                         *)
(* The machine below executes an instruction twice at once: on the numbers *)
(* a running program would have in its registers (val, the reference) and  *)
(* on the constant addresses the analyzer keeps for them (abs, the code).  *)
(* The analysis is right as long as abs covers val.  Numbers are           *)
(* unbounded integers: an addition that wraps around is not considered.    *)
(***************************************************************************)
EXTENDS Integers

CONSTANTS
  Reg,      \* the registers
  Literal,  \* the literals of const instructions
  Ops,      \* the operations the program may use
  Bound     \* bound: the absolute value of a number

ASSUME ArithmeticAssumption ==
  /\ Literal \subseteq Int
  /\ Bound \in Nat

VARIABLES
  val,  \* val[r]: the number in register r of the running program
  abs   \* abs[r]: the merged constant address of register r of the frame

vars == <<val, abs>>

Sign == {"neg", "zero", "pos"}
TRUEBIT == "pos"
FALSEBIT == "zero"

SignOf(x) == IF x < 0 THEN "neg" ELSE IF x = 0 THEN "zero" ELSE "pos"

-----------------------------------------------------------------------------
(* cesk_arithmetic.h                                                       *)

NegSign(s) == IF s = "neg" THEN "pos" ELSE IF s = "pos" THEN "neg" ELSE "zero"

AddSign(s, t) ==
  IF s = "zero" THEN {t} ELSE IF t = "zero" \/ s = t THEN {s} ELSE Sign

(* Mutant: neg x neg = neg. *)
MulSignNegNeg(s, t) ==
  IF s = "zero" \/ t = "zero" THEN "zero"
  ELSE IF s = "pos" /\ t = "pos" THEN "pos" ELSE "neg"

MulSign(s, t) ==
  IF s = "zero" \/ t = "zero" THEN "zero" ELSE IF s = t THEN "pos" ELSE "neg"

cesk_arithmetic_neg(a) == {NegSign(s) : s \in a}
cesk_arithmetic_add(a, b) == UNION {AddSign(s, t) : s \in a, t \in b}
cesk_arithmetic_sub(a, b) == cesk_arithmetic_add(a, cesk_arithmetic_neg(b))
cesk_arithmetic_mul(a, b) == {MulSign(s, t) : s \in a, t \in b}
cesk_arithmetic_div(a, b) == cesk_arithmetic_mul(a, b \ {"zero"})

(* The logical connectives look at the bits TRUE and FALSE alone. *)
BitOf(t) == IF t THEN TRUEBIT ELSE FALSEBIT
Bits(a) == a \cap {TRUEBIT, FALSEBIT}
AndBit(s, t) == BitOf(s = TRUEBIT /\ t = TRUEBIT)
OrBit(s, t) == BitOf(s = TRUEBIT \/ t = TRUEBIT)
XorBit(s, t) == BitOf(s # t)
cesk_arithmetic_and(a, b) == {AndBit(s, t) : s \in Bits(a), t \in Bits(b)}
cesk_arithmetic_or(a, b) == {OrBit(s, t) : s \in Bits(a), t \in Bits(b)}
cesk_arithmetic_xor(a, b) == {XorBit(s, t) : s \in Bits(a), t \in Bits(b)}

-----------------------------------------------------------------------------
(* The handlers of cesk_block.c: register dest gets the address a while    *)
(* the program computes x.                                                 *)

Load(dest, a, x) ==
  /\ x \in -Bound .. Bound
  /\ val' = [val EXCEPT ![dest] = x]
  /\ abs' = [abs EXCEPT ![dest] = a]

(* Mutant: no address for zero. *)
ConstAddrNoZero(c) == IF c = 0 THEN {"null"} ELSE {SignOf(c)}

(* _cesk_block_handler_const of a literal that fits an int. *)
cesk_store_const_addr_from_operand(c) == {SignOf(c)}
Const(dest, c) == Load(dest, cesk_store_const_addr_from_operand(c), c)

(* _cesk_block_handler_move, one register; and DVM_FLAG_UOP_TO. *)
Move(dest, sour) == Load(dest, abs[sour], val[sour])

(* _cesk_block_handler_unop; DVM_FLAG_UOP_NOT computes -x too. *)
Neg(dest, sour) ==
  "neg" \in Ops /\ Load(dest, cesk_arithmetic_neg(abs[sour]), -val[sour])
Not(dest, sour) ==
  "not" \in Ops /\ Load(dest, cesk_arithmetic_neg(abs[sour]), -val[sour] - 1)

(* The quotient and the remainder of Dalvik truncate towards zero. *)
Magnitude(x) == IF x < 0 THEN -x ELSE x
Quotient(x, y) ==
  IF (x < 0) = (y < 0) THEN Magnitude(x) \div Magnitude(y)
                       ELSE -(Magnitude(x) \div Magnitude(y))

(* _cesk_block_handler_binop; a literal operand behaves as a register that *)
(* a const instruction has loaded.                                         *)
Add(dest, l, r) ==
  "add" \in Ops /\ Load(dest, cesk_arithmetic_add(abs[l], abs[r]), val[l] + val[r])
Sub(dest, l, r) ==
  "sub" \in Ops /\ Load(dest, cesk_arithmetic_sub(abs[l], abs[r]), val[l] - val[r])
Mul(dest, l, r) ==
  "mul" \in Ops /\ Load(dest, cesk_arithmetic_mul(abs[l], abs[r]), val[l] * val[r])
Div(dest, l, r) ==
  /\ "div" \in Ops /\ val[r] # 0
  /\ Load(dest, cesk_arithmetic_div(abs[l], abs[r]), Quotient(val[l], val[r]))
Rem(dest, l, r) ==
  /\ "rem" \in Ops /\ val[r] # 0
  /\ LET q == cesk_arithmetic_div(abs[l], abs[r])
     IN  Load(dest, cesk_arithmetic_div(abs[l], cesk_arithmetic_mul(q, abs[r])),
              val[l] - val[r] * Quotient(val[l], val[r]))

(* The program combines numbers bit by bit.  Bits are those of two's       *)
(* complement, read off by halving: Bound + 1 of them tell the numbers of  *)
(* -Bound .. Bound apart, and the last one is that of the sign.            *)
Halves(x) ==
  LET h[k \in 0 .. Bound] == IF k = 0 THEN x ELSE h[k - 1] \div 2
  IN  h
Bit(x, k) == Halves(x)[k] % 2 = 1

(* The analyzer takes the connectives of booleans for every number.        *)
And(dest, l, r) ==
  /\ "and" \in Ops
  /\ \E z \in -Bound .. Bound :
       /\ \A k \in 0 .. Bound : Bit(z, k) <=> Bit(val[l], k) /\ Bit(val[r], k)
       /\ Load(dest, cesk_arithmetic_and(abs[l], abs[r]), z)
Or(dest, l, r) ==
  /\ "or" \in Ops
  /\ \E z \in -Bound .. Bound :
       /\ \A k \in 0 .. Bound : Bit(z, k) <=> Bit(val[l], k) \/ Bit(val[r], k)
       /\ Load(dest, cesk_arithmetic_or(abs[l], abs[r]), z)
Xor(dest, l, r) ==
  /\ "xor" \in Ops
  /\ \E z \in -Bound .. Bound :
       /\ \A k \in 0 .. Bound : Bit(z, k) <=> (Bit(val[l], k) # Bit(val[r], k))
       /\ Load(dest, cesk_arithmetic_xor(abs[l], abs[r]), z)

(* _cesk_block_handler_cmp; _cesk_block_regcmp subtracts. *)
Compare(x, y) == IF x < y THEN -1 ELSE IF x = y THEN 0 ELSE 1
_cesk_block_regcmp(l, r) == cesk_arithmetic_sub(abs[l], abs[r])
Cmp(dest, l, r) ==
  "cmp" \in Ops /\ Load(dest, _cesk_block_regcmp(l, r), Compare(val[l], val[r]))

(* The wide comparison.  const and binary instructions load the first      *)
(* register of a pair only, so the second halves hold no constant.         *)
CmpWide(dest, l, r) ==
  /\ "cmpwide" \in Ops
  /\ LET first == _cesk_block_regcmp(l, r)
         second == cesk_arithmetic_sub({}, {})
     IN  Load(dest, IF "zero" \in first THEN (first \ {"zero"}) \cup second
                                         ELSE first,
              Compare(val[l], val[r]))

(* A join of two paths: the merged register covers more. *)
Join(dest, r) ==
  /\ abs' = [abs EXCEPT ![dest] = @ \cup abs[r]]
  /\ UNCHANGED val

(* A program starts by loading literals. *)
Init ==
  /\ val \in [Reg -> Literal \cap -Bound .. Bound]
  /\ abs = [r \in Reg |-> cesk_store_const_addr_from_operand(val[r])]

Next ==
  \E dest, l \in Reg :
    \/ \E c \in Literal : Const(dest, c)
    \/ Move(dest, l) \/ Neg(dest, l) \/ Not(dest, l) \/ Join(dest, l)
    \/ \E r \in Reg :
         \/ Add(dest, l, r) \/ Sub(dest, l, r) \/ Mul(dest, l, r)
         \/ Div(dest, l, r) \/ Rem(dest, l, r)
         \/ And(dest, l, r) \/ Or(dest, l, r) \/ Xor(dest, l, r)
         \/ Cmp(dest, l, r) \/ CmpWide(dest, l, r)

Spec == Init /\ [][Next]_vars

-----------------------------------------------------------------------------
(* Properties.                                                             *)

(* Numbers and sets of signs: a handler loads constant addresses only. *)
TypeOK == val \in [Reg -> -Bound .. Bound] /\ abs \in [Reg -> SUBSET Sign]

(* The constant address of a register always covers the number a running   *)
(* program has in it: no branch the program can take is invisible to the   *)
(* analyzer.  cesk_arithmetic.h documents each operation as returning the  *)
(* "address for" its result.                                               *)
Sound == \A r \in Reg : SignOf(val[r]) \in abs[r]

(* Where the handlers fall short: ~0 and ~(-1), which are computed as a    *)
(* negation; a quotient that truncates to zero; a remainder that is zero   *)
(* or negative; a connective of a negative number, for which the tables    *)
(* have no entry; positive numbers without a common bit, whose `and` is    *)
(* taken for positive, and different positive numbers, whose `xor` is      *)
(* taken for zero; and a wide comparison of equal numbers.                 *)
KnownGap ==
  \E dest, l \in Reg :
    \/ Not(dest, l) /\ val[l] \in {0, -1}
    \/ \E r \in Reg :
         \/ Div(dest, l, r) /\ val'[dest] = 0
         \/ Rem(dest, l, r) /\ val'[dest] <= 0
         \/ /\ And(dest, l, r) \/ Or(dest, l, r) \/ Xor(dest, l, r)
            /\ val[l] < 0 \/ val[r] < 0
         \/ And(dest, l, r) /\ val[l] > 0 /\ val[r] > 0 /\ val'[dest] = 0
         \/ Xor(dest, l, r) /\ val[l] > 0 /\ val[r] > 0 /\ val'[dest] # 0
         \/ CmpWide(dest, l, r) /\ val[l] = val[r]

(* Every instruction keeps the registers covered except in those cases.    *)
CoveredExceptGaps == [][Sound => Sound' \/ KnownGap]_vars
=============================================================================
