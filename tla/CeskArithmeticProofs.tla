------------------------- MODULE CeskArithmeticProofs -------------------------
(* Proofs about CeskArithmetic: which handlers cover their results, for    *)
(* all integers and all sets of signs.                                     *)
EXTENDS CeskArithmetic, InductionLemmas, TLAPS

(* The sign tables of cesk_arithmetic.h cover the integer operations. *)
LEMMA NegCovers ==
  ASSUME NEW x \in Int, NEW a \in SUBSET Sign, SignOf(x) \in a
  PROVE  SignOf(-x) \in cesk_arithmetic_neg(a)
<1>1. SignOf(-x) = NegSign(SignOf(x))
  BY DEF SignOf, NegSign
<1> QED BY <1>1 DEF cesk_arithmetic_neg

LEMMA AddCovers ==
  ASSUME NEW x \in Int, NEW y \in Int, NEW a \in SUBSET Sign, NEW b \in SUBSET Sign,
         SignOf(x) \in a, SignOf(y) \in b
  PROVE  SignOf(x + y) \in cesk_arithmetic_add(a, b)
<1>1. SignOf(x + y) \in AddSign(SignOf(x), SignOf(y))
  BY DEF SignOf, AddSign, Sign
<1> QED BY <1>1 DEF cesk_arithmetic_add

LEMMA NegTyped ==
  ASSUME NEW a \in SUBSET Sign
  PROVE  cesk_arithmetic_neg(a) \in SUBSET Sign
BY DEF cesk_arithmetic_neg, NegSign, Sign

LEMMA AddTyped ==
  ASSUME NEW a \in SUBSET Sign, NEW b \in SUBSET Sign
  PROVE  cesk_arithmetic_add(a, b) \in SUBSET Sign
<1>1. \A s \in a, t \in b : AddSign(s, t) \subseteq Sign
  BY DEF AddSign, Sign
<1> QED BY <1>1 DEF cesk_arithmetic_add

LEMMA SubCovers ==
  ASSUME NEW x \in Int, NEW y \in Int, NEW a \in SUBSET Sign, NEW b \in SUBSET Sign,
         SignOf(x) \in a, SignOf(y) \in b
  PROVE  SignOf(x - y) \in cesk_arithmetic_sub(a, b)
<1>1. SignOf(-y) \in cesk_arithmetic_neg(b)
  BY NegCovers
<1>2. SignOf(x + (-y)) \in cesk_arithmetic_add(a, cesk_arithmetic_neg(b))
  BY <1>1, AddCovers, NegTyped
<1>3. x - y = x + (-y)
  OBVIOUS
<1> QED BY <1>2, <1>3 DEF cesk_arithmetic_sub

LEMMA MulCovers ==
  ASSUME NEW x \in Int, NEW y \in Int, NEW a \in SUBSET Sign, NEW b \in SUBSET Sign,
         SignOf(x) \in a, SignOf(y) \in b
  PROVE  SignOf(x * y) \in cesk_arithmetic_mul(a, b)
<1>1. SignOf(x * y) = MulSign(SignOf(x), SignOf(y))
  <2>1. CASE x = 0 \/ y = 0
    BY <2>1 DEF SignOf, MulSign
  <2>2. CASE x > 0 /\ y > 0
    <3>1. x * y > 0
      BY <2>2
    <3> QED BY <3>1, <2>2 DEF SignOf, MulSign
  <2>3. CASE x < 0 /\ y < 0
    <3>1. x * y > 0
      BY <2>3
    <3> QED BY <3>1, <2>3 DEF SignOf, MulSign
  <2>4. CASE (x < 0 /\ y > 0) \/ (x > 0 /\ y < 0)
    <3>1. x * y < 0
      BY <2>4
    <3> QED BY <3>1, <2>4 DEF SignOf, MulSign
  <2> QED BY <2>1, <2>2, <2>3, <2>4
<1> QED BY <1>1 DEF cesk_arithmetic_mul

LEMMA MulTyped ==
  ASSUME NEW a \in SUBSET Sign, NEW b \in SUBSET Sign
  PROVE  cesk_arithmetic_mul(a, b) \in SUBSET Sign
BY DEF cesk_arithmetic_mul, MulSign, Sign

(* A quotient that is not zero has the sign cesk_arithmetic_div gives it,  *)
(* although the bit of zero is dropped from the divisor.                   *)
LEMMA QuotientSign ==
  ASSUME NEW x \in Int, NEW y \in Int, y # 0
  PROVE  /\ Quotient(x, y) \in Int
         /\ Quotient(x, y) # 0 => SignOf(Quotient(x, y)) = MulSign(SignOf(x), SignOf(y))
<1> DEFINE q == Magnitude(x) \div Magnitude(y)
<1>1. Magnitude(x) \in Nat /\ Magnitude(y) \in Nat /\ Magnitude(y) > 0
  BY DEF Magnitude
<1>2. q \in Nat
  BY <1>1
<1>3. x = 0 => q = 0
  BY <1>1 DEF Magnitude
<1> QED BY <1>2, <1>3 DEF Quotient, SignOf, MulSign

(* A positive remainder has a positive dividend. *)
LEMMA RemainderSign ==
  ASSUME NEW x \in Int, NEW y \in Int, y # 0, x <= 0
  PROVE  x - y * Quotient(x, y) <= 0
<1> DEFINE m == Magnitude(x)
           d == Magnitude(y)
           q == m \div d
<1>1. m \in Nat /\ d \in Nat /\ d > 0 /\ m = -x
  BY DEF Magnitude
<1>2. q \in Nat /\ d * q <= m
  <2> HIDE DEF m, d
  <2> QED BY <1>1
<1>3. y * Quotient(x, y) = -(d * q)
  <2> HIDE DEF q
  <2>1. CASE y > 0
    <3>1. d = y
      BY <2>1 DEF Magnitude
    <3>2. Quotient(x, y) = -q
      <4>1. x < 0 => Quotient(x, y) = -q
        BY <2>1 DEF Quotient, q
      <4>2. x = 0 => q = 0 /\ Quotient(x, y) = q
        BY <2>1, <1>1 DEF Quotient, q, Magnitude
      <4> QED BY <4>1, <4>2
    <3> QED BY <3>1, <3>2, <1>2
  <2>2. CASE y < 0
    <3>1. d = -y
      BY <2>2 DEF Magnitude
    <3>2. Quotient(x, y) = q
      <4>1. x < 0 => Quotient(x, y) = q
        BY <2>2 DEF Quotient, q
      <4>2. x = 0 => q = 0 /\ Quotient(x, y) = -q
        BY <2>2, <1>1 DEF Quotient, q, Magnitude
      <4> QED BY <4>1, <4>2
    <3> QED BY <3>1, <3>2, <1>2
  <2> QED BY <2>1, <2>2
<1> QED BY <1>1, <1>2, <1>3

LEMMA DivCovers ==
  ASSUME NEW x \in Int, NEW y \in Int, y # 0, NEW a \in SUBSET Sign, NEW b \in SUBSET Sign,
         SignOf(x) \in a, SignOf(y) \in b
  PROVE  MulSign(SignOf(x), SignOf(y)) \in cesk_arithmetic_div(a, b)
<1>1. SignOf(y) \in b \ {"zero"}
  BY DEF SignOf
<1> QED BY <1>1 DEF cesk_arithmetic_div, cesk_arithmetic_mul

LEMMA RemCovers ==
  ASSUME NEW x \in Int, NEW y \in Int, y # 0, NEW a \in SUBSET Sign, NEW b \in SUBSET Sign,
         SignOf(x) \in a, SignOf(y) \in b, x > 0
  PROVE  "pos" \in cesk_arithmetic_div(a, cesk_arithmetic_mul(cesk_arithmetic_div(a, b), b))
<1> DEFINE t == SignOf(y)
<1>1. SignOf(x) = "pos" /\ t \in {"neg", "pos"}
  BY DEF SignOf
<1>2. t \in cesk_arithmetic_div(a, b)
  <2>1. MulSign("pos", t) = t
    BY <1>1 DEF MulSign
  <2> QED BY <2>1, <1>1, DivCovers
<1>3. "pos" \in cesk_arithmetic_mul(cesk_arithmetic_div(a, b), b)
  <2>1. MulSign(t, t) = "pos"
    BY <1>1 DEF MulSign
  <2> QED BY <2>1, <1>2 DEF cesk_arithmetic_mul
<1>4. MulSign("pos", "pos") = "pos"
  BY DEF MulSign
<1> QED BY <1>1, <1>3, <1>4 DEF cesk_arithmetic_div, cesk_arithmetic_mul

(* The halves of a number satisfy their recursive equation. *)
LEMMA HalvesIs ==
  ASSUME NEW x \in Int
  PROVE  /\ Halves(x) \in [0 .. Bound -> Int]
         /\ Halves(x)[0] = x
         /\ \A k \in 1 .. Bound : Halves(x)[k] = Halves(x)[k - 1] \div 2
<1> DEFINE F == [k \in 1 .. Bound |-> [n \in Int |-> n \div 2]]
           Eq(h) == h = [k \in 0 .. Bound |-> IF k = 0 THEN x ELSE h[k - 1] \div 2]
<1>1. Bound \in Nat /\ F \in [1 .. Bound -> [Int -> Int]]
  BY ArithmeticAssumption
<1>2. \E g : IteratesFrom(g, Bound, Int, x, F)
  <2> HIDE DEF F
  <2> QED BY <1>1, Iteration
<1>3. PICK g : IteratesFrom(g, Bound, Int, x, F)
  BY <1>2
<1>4. g \in [0 .. Bound -> Int] /\ g[0] = x
  BY <1>3 DEF IteratesFrom
<1>5. ASSUME NEW k \in 1 .. Bound PROVE g[k] = g[k - 1] \div 2
  <2>1. g[k] = F[k][g[k - 1]]
    BY <1>3 DEF IteratesFrom
  <2>2. g[k - 1] \in Int
    BY <1>1, <1>4
  <2> QED BY <2>1, <2>2
<1>6. Eq(g)
  <2>1. ASSUME NEW k \in 0 .. Bound PROVE g[k] = IF k = 0 THEN x ELSE g[k - 1] \div 2
    BY <1>1, <1>4, <1>5
  <2> QED BY <2>1, <1>4
<1>7. Halves(x) = CHOOSE h : Eq(h)
  BY DEF Halves
<1>8. Eq(Halves(x))
  <2> HIDE DEF Eq
  <2> QED BY <1>6, <1>7
<1> DEFINE h == Halves(x)
<1>9. h = [k \in 0 .. Bound |-> IF k = 0 THEN x ELSE h[k - 1] \div 2]
  BY <1>8
<1> HIDE DEF h
<1>10. h[0] = x /\ \A k \in 1 .. Bound : h[k] = h[k - 1] \div 2
  BY <1>1, <1>9
<1>11. \A k \in 0 .. Bound : h[k] \in Int
  <2> DEFINE S == {k \in 0 .. Bound : h[k] \in Int}
  <2>1. 0 \in S
    BY <1>1, <1>10
  <2>2. ASSUME NEW k \in 0 .. Bound - 1, k \in S PROVE k + 1 \in S
    <3>1. k + 1 \in 1 .. Bound /\ k + 1 - 1 = k /\ k + 1 \in 0 .. Bound
      BY <1>1
    <3>2. h[k + 1] = h[k] \div 2 /\ h[k] \in Int
      BY <3>1, <1>10, <2>2
    <3> QED BY <3>1, <3>2
  <2> HIDE DEF S
  <2>3. 0 .. Bound \subseteq S
    BY <1>1, <2>1, <2>2, SetInduction
  <2> QED BY <2>3 DEF S
<1> QED BY <1>9, <1>10, <1>11 DEF h

(* Halving keeps the sign of a number and ends at 0 or at -1: the last bit *)
(* is the sign, and only 0 has no bit at all.                              *)
LEMMA HalvesEnd ==
  ASSUME NEW x \in -Bound .. Bound
  PROVE  /\ x >= 0 <=> ~Bit(x, Bound)
         /\ x = 0 <=> \A k \in 0 .. Bound : ~Bit(x, k)
<1> DEFINE h == Halves(x)
           Lies(k) == /\ x >= 0 => h[k] >= 0 /\ (h[k] <= Bound - k \/ h[k] = 0)
                      /\ x < 0 => h[k] < 0 /\ (-h[k] <= Bound - k \/ h[k] = -1)
                      /\ x = 0 => h[k] = 0
                      /\ x # 0 /\ (\A j \in 0 .. Bound : ~Bit(x, j)) => h[k] # 0
           S == {k \in 0 .. Bound : Lies(k)}
<1>1. Bound \in Nat /\ x \in Int
  BY ArithmeticAssumption
<1>2. /\ h \in [0 .. Bound -> Int] /\ h[0] = x
      /\ \A k \in 1 .. Bound : h[k] = h[k - 1] \div 2
      /\ \A k \in 0 .. Bound : Bit(x, k) <=> h[k] % 2 = 1
  BY <1>1, HalvesIs DEF Bit
<1> HIDE DEF h
<1>3. 0 \in S
  <2>1. Lies(0)
    BY <1>1, <1>2
  <2>2. 0 \in 0 .. Bound
    BY <1>1
  <2> HIDE DEF Lies
  <2> QED BY <2>1, <2>2
<1>4. ASSUME NEW k \in 0 .. Bound - 1, k \in S PROVE k + 1 \in S
  <2>1. k + 1 \in 1 .. Bound /\ k + 1 - 1 = k /\ k \in 0 .. Bound /\ k + 1 \in 0 .. Bound
    BY <1>1
  <2>2. h[k + 1] = h[k] \div 2 /\ h[k] \in Int /\ (Bit(x, k) <=> h[k] % 2 = 1)
    BY <2>1, <1>2
  <2>3. Lies(k)
    BY <1>4
  <2> DEFINE n == h[k]
  <2>4. h[k + 1] = n \div 2 /\ n \in Int
    BY <2>2
  <2>5. x >= 0 => h[k + 1] >= 0 /\ (h[k + 1] <= Bound - (k + 1) \/ h[k + 1] = 0)
    BY <2>4, <2>3, <2>1, <1>1
  <2>6. x < 0 => h[k + 1] < 0 /\ (-h[k + 1] <= Bound - (k + 1) \/ h[k + 1] = -1)
    BY <2>4, <2>3, <2>1, <1>1
  <2>7. x = 0 => h[k + 1] = 0
    BY <2>4, <2>3
  <2>8. x # 0 /\ (\A j \in 0 .. Bound : ~Bit(x, j)) => h[k + 1] # 0
    <3>1. SUFFICES ASSUME x # 0, \A j \in 0 .. Bound : ~Bit(x, j) PROVE h[k + 1] # 0
      OBVIOUS
    <3>2. n # 0 /\ n % 2 # 1
      BY <2>1, <2>2, <2>3, <3>1
    <3> HIDE DEF n
    <3> QED BY <3>2, <2>4
  <2> QED BY <2>1, <2>5, <2>6, <2>7, <2>8
<1>5. Lies(Bound)
  <2> HIDE DEF S
  <2>1. 0 .. Bound \subseteq S
    BY <1>1, <1>3, <1>4, SetInduction
  <2> QED BY <2>1, <1>1 DEF S
<1>6. h[Bound] \in Int /\ Bound \in 0 .. Bound /\ (Bit(x, Bound) <=> h[Bound] % 2 = 1)
  BY <1>1, <1>2
<1>7. x >= 0 => h[Bound] = 0
  BY <1>1, <1>5, <1>6
<1>8. x < 0 => h[Bound] = -1
  BY <1>1, <1>5, <1>6
<1>9. x >= 0 <=> ~Bit(x, Bound)
  BY <1>1, <1>6, <1>7, <1>8
<1>10. ASSUME x = 0 PROVE \A k \in 0 .. Bound : ~Bit(x, k)
  <2> HIDE DEF S
  <2>1. 0 .. Bound \subseteq S
    BY <1>1, <1>3, <1>4, SetInduction
  <2>2. \A k \in 0 .. Bound : h[k] = 0
    BY <2>1, <1>10 DEF S
  <2> QED BY <2>2, <1>2
<1>11. ASSUME \A k \in 0 .. Bound : ~Bit(x, k) PROVE x = 0
  BY <1>1, <1>5, <1>6, <1>7, <1>9, <1>11
<1> QED BY <1>9, <1>10, <1>11

(* The connectives of numbers that are not negative. *)
LEMMA AndCovers ==
  ASSUME NEW x \in -Bound .. Bound, NEW y \in -Bound .. Bound, NEW z \in -Bound .. Bound,
         x >= 0, y >= 0, z # 0 \/ x = 0 \/ y = 0,
         \A k \in 0 .. Bound : Bit(z, k) <=> Bit(x, k) /\ Bit(y, k),
         NEW a \in SUBSET Sign, NEW b \in SUBSET Sign, SignOf(x) \in a, SignOf(y) \in b
  PROVE  SignOf(z) \in cesk_arithmetic_and(a, b)
<1>0. x \in Int /\ y \in Int /\ z \in Int /\ Bound \in 0 .. Bound
  BY ArithmeticAssumption
<1>1. z >= 0
  BY <1>0, HalvesEnd
<1>2. x = 0 \/ y = 0 => z = 0
  BY HalvesEnd
<1>3. SignOf(z) = AndBit(SignOf(x), SignOf(y))
  BY <1>0, <1>1, <1>2 DEF SignOf, AndBit, BitOf, TRUEBIT, FALSEBIT
<1>4. SignOf(x) \in Bits(a) /\ SignOf(y) \in Bits(b)
  BY <1>0 DEF SignOf, Bits, TRUEBIT, FALSEBIT
<1> QED BY <1>3, <1>4 DEF cesk_arithmetic_and

LEMMA OrCovers ==
  ASSUME NEW x \in -Bound .. Bound, NEW y \in -Bound .. Bound, NEW z \in -Bound .. Bound,
         x >= 0, y >= 0,
         \A k \in 0 .. Bound : Bit(z, k) <=> Bit(x, k) \/ Bit(y, k),
         NEW a \in SUBSET Sign, NEW b \in SUBSET Sign, SignOf(x) \in a, SignOf(y) \in b
  PROVE  SignOf(z) \in cesk_arithmetic_or(a, b)
<1>0. x \in Int /\ y \in Int /\ z \in Int /\ Bound \in 0 .. Bound
  BY ArithmeticAssumption
<1>1. z >= 0
  BY <1>0, HalvesEnd
<1>2. x = 0 /\ y = 0 <=> z = 0
  BY HalvesEnd
<1>3. SignOf(z) = OrBit(SignOf(x), SignOf(y))
  BY <1>0, <1>1, <1>2 DEF SignOf, OrBit, BitOf, TRUEBIT, FALSEBIT
<1>4. SignOf(x) \in Bits(a) /\ SignOf(y) \in Bits(b)
  BY <1>0 DEF SignOf, Bits, TRUEBIT, FALSEBIT
<1> QED BY <1>3, <1>4 DEF cesk_arithmetic_or

LEMMA XorCovers ==
  ASSUME NEW x \in -Bound .. Bound, NEW y \in -Bound .. Bound, NEW z \in -Bound .. Bound,
         x >= 0, y >= 0, z = 0 \/ x = 0 \/ y = 0,
         \A k \in 0 .. Bound : Bit(z, k) <=> (Bit(x, k) # Bit(y, k)),
         NEW a \in SUBSET Sign, NEW b \in SUBSET Sign, SignOf(x) \in a, SignOf(y) \in b
  PROVE  SignOf(z) \in cesk_arithmetic_xor(a, b)
<1>0. x \in Int /\ y \in Int /\ z \in Int /\ Bound \in 0 .. Bound
  BY ArithmeticAssumption
<1>b. \A n, k : Bit(n, k) \in BOOLEAN
  BY DEF Bit
<1>1. z >= 0
  <2>1. ~Bit(x, Bound) /\ ~Bit(y, Bound)
    BY HalvesEnd
  <2>2. ~Bit(z, Bound)
    BY <2>1, <1>0, <1>b, Zenon
  <2> QED BY <2>2, HalvesEnd
<1>2. x = 0 => (y = 0 <=> z = 0)
  <2>1. SUFFICES ASSUME x = 0 PROVE y = 0 <=> z = 0
    OBVIOUS
  <2>2. \A k \in 0 .. Bound : ~Bit(x, k)
    BY <2>1, HalvesEnd
  <2>3. \A k \in 0 .. Bound : Bit(z, k) <=> Bit(y, k)
    BY <2>2, <1>b, Zenon
  <2> QED BY <2>3, HalvesEnd
<1>3. y = 0 => (x = 0 <=> z = 0)
  <2>1. SUFFICES ASSUME y = 0 PROVE x = 0 <=> z = 0
    OBVIOUS
  <2>2. \A k \in 0 .. Bound : ~Bit(y, k)
    BY <2>1, HalvesEnd
  <2>3. \A k \in 0 .. Bound : Bit(z, k) <=> Bit(x, k)
    BY <2>2, <1>b, Zenon
  <2> QED BY <2>3, HalvesEnd
<1>4. SignOf(z) = XorBit(SignOf(x), SignOf(y))
  BY <1>0, <1>1, <1>2, <1>3 DEF SignOf, XorBit, BitOf, TRUEBIT, FALSEBIT
<1>5. SignOf(x) \in Bits(a) /\ SignOf(y) \in Bits(b)
  BY <1>0 DEF SignOf, Bits, TRUEBIT, FALSEBIT
<1> QED BY <1>4, <1>5 DEF cesk_arithmetic_xor

LEMMA LogicTyped ==
  ASSUME NEW a, NEW b
  PROVE  /\ cesk_arithmetic_and(a, b) \in SUBSET Sign
         /\ cesk_arithmetic_or(a, b) \in SUBSET Sign
         /\ cesk_arithmetic_xor(a, b) \in SUBSET Sign
BY DEF cesk_arithmetic_and, cesk_arithmetic_or, cesk_arithmetic_xor,
       AndBit, OrBit, XorBit, BitOf, TRUEBIT, FALSEBIT, Sign

LEMMA SubTyped ==
  ASSUME NEW a \in SUBSET Sign, NEW b \in SUBSET Sign
  PROVE  cesk_arithmetic_sub(a, b) \in SUBSET Sign
BY NegTyped, AddTyped DEF cesk_arithmetic_sub

LEMMA DivTyped ==
  ASSUME NEW a \in SUBSET Sign, NEW b \in SUBSET Sign
  PROVE  cesk_arithmetic_div(a, b) \in SUBSET Sign
BY MulTyped DEF cesk_arithmetic_div

(* What a handler that loads a covering address does to the registers. *)
LEMMA LoadTyped ==
  ASSUME TypeOK, NEW dest \in Reg, NEW a \in SUBSET Sign, NEW x \in Int, Load(dest, a, x)
  PROVE  TypeOK'
BY DEF TypeOK, Load

LEMMA LoadCovers ==
  ASSUME TypeOK, Sound, NEW dest \in Reg, NEW a, NEW x, Load(dest, a, x), SignOf(x) \in a
  PROVE  Sound'
BY DEF TypeOK, Sound, Load

(* Every handler loads constant addresses only: TypeOK is an invariant. *)
THEOREM TypeCorrect == Spec => []TypeOK
<1>1. Init => TypeOK
  BY ArithmeticAssumption DEF Init, TypeOK, cesk_store_const_addr_from_operand, SignOf, Sign
<1>2. TypeOK /\ [Next]_vars => TypeOK'
  <2> SUFFICES ASSUME TypeOK, [Next]_vars PROVE TypeOK'
    OBVIOUS
  <2>1. CASE UNCHANGED vars
    BY <2>1 DEF vars, TypeOK
  <2>2. ASSUME NEW dest \in Reg, NEW l \in Reg, NEW r \in Reg
        PROVE  /\ abs[l] \in SUBSET Sign /\ abs[r] \in SUBSET Sign
               /\ val[l] \in Int /\ val[r] \in Int
    BY DEF TypeOK
  <2>3. ASSUME NEW dest \in Reg, NEW c \in Literal, Const(dest, c) PROVE TypeOK'
    <3>1. {SignOf(c)} \in SUBSET Sign
      BY DEF SignOf, Sign
    <3> QED BY <2>3, <3>1, LoadTyped, ArithmeticAssumption
            DEF Const, cesk_store_const_addr_from_operand
  <2>4. ASSUME NEW dest \in Reg, NEW l \in Reg, Move(dest, l) PROVE TypeOK'
    BY <2>4, <2>2, LoadTyped DEF Move
  <2>5. ASSUME NEW dest \in Reg, NEW l \in Reg, Neg(dest, l) \/ Not(dest, l) PROVE TypeOK'
    BY <2>5, <2>2, LoadTyped, NegTyped DEF Neg, Not
  <2>6. ASSUME NEW dest \in Reg, NEW l \in Reg, Join(dest, l) PROVE TypeOK'
    BY <2>6 DEF Join, TypeOK
  <2>7. ASSUME NEW dest \in Reg, NEW l \in Reg, NEW r \in Reg, Add(dest, l, r) PROVE TypeOK'
    BY <2>7, <2>2, LoadTyped, AddTyped DEF Add
  <2>8. ASSUME NEW dest \in Reg, NEW l \in Reg, NEW r \in Reg, Sub(dest, l, r) PROVE TypeOK'
    BY <2>8, <2>2, LoadTyped, SubTyped DEF Sub
  <2>9. ASSUME NEW dest \in Reg, NEW l \in Reg, NEW r \in Reg, Mul(dest, l, r) PROVE TypeOK'
    BY <2>9, <2>2, LoadTyped, MulTyped DEF Mul
  <2>10. ASSUME NEW dest \in Reg, NEW l \in Reg, NEW r \in Reg, Div(dest, l, r) PROVE TypeOK'
    BY <2>10, <2>2, LoadTyped, DivTyped, QuotientSign DEF Div
  <2>11. ASSUME NEW dest \in Reg, NEW l \in Reg, NEW r \in Reg, Rem(dest, l, r) PROVE TypeOK'
    <3>1. cesk_arithmetic_div(abs[l], cesk_arithmetic_mul(cesk_arithmetic_div(abs[l], abs[r]), abs[r]))
            \in SUBSET Sign
      BY <2>2, DivTyped, MulTyped
    <3>2. val[l] - val[r] * Quotient(val[l], val[r]) \in Int
      BY <2>2, <2>11, QuotientSign DEF Rem
    <3> QED BY <2>11, <3>1, <3>2, LoadTyped DEF Rem
  <2>12. ASSUME NEW dest \in Reg, NEW l \in Reg, NEW r \in Reg,
                And(dest, l, r) \/ Or(dest, l, r) \/ Xor(dest, l, r)
         PROVE  TypeOK'
    <3>1. -Bound .. Bound \subseteq Int
      OBVIOUS
    <3> QED BY <2>12, <3>1, LoadTyped, LogicTyped DEF And, Or, Xor
  <2>13. ASSUME NEW dest \in Reg, NEW l \in Reg, NEW r \in Reg, Cmp(dest, l, r) PROVE TypeOK'
    BY <2>13, <2>2, LoadTyped, SubTyped DEF Cmp, _cesk_block_regcmp, Compare
  <2>14. ASSUME NEW dest \in Reg, NEW l \in Reg, NEW r \in Reg, CmpWide(dest, l, r) PROVE TypeOK'
    <3>1. {} \in SUBSET Sign
      OBVIOUS
    <3> QED BY <2>14, <3>1, <2>2, LoadTyped, SubTyped DEF CmpWide, _cesk_block_regcmp, Compare
  <2> QED BY <2>1, <2>3, <2>4, <2>5, <2>6, <2>7, <2>8, <2>9, <2>10, <2>11, <2>12, <2>13, <2>14
          DEF Next
<1> QED BY <1>1, <1>2, PTL DEF Spec

(* One instruction: the registers stay covered, or it is one of the gaps   *)
(* that KnownGap names.                                                    *)
LEMMA StepCovers ==
  ASSUME TypeOK, Sound, [Next]_vars
  PROVE  Sound' \/ KnownGap
<1>1. CASE UNCHANGED vars
  BY <1>1 DEF vars, Sound
<1>2. ASSUME NEW r \in Reg
      PROVE  /\ abs[r] \in SUBSET Sign /\ SignOf(val[r]) \in abs[r]
             /\ val[r] \in -Bound .. Bound /\ val[r] \in Int
  BY DEF TypeOK, Sound
<1>3. ASSUME NEW dest \in Reg, NEW c \in Literal, Const(dest, c) PROVE Sound'
  BY <1>3, LoadCovers DEF Const, cesk_store_const_addr_from_operand
<1>4. ASSUME NEW dest \in Reg, NEW l \in Reg, Move(dest, l) PROVE Sound'
  BY <1>4, <1>2, LoadCovers DEF Move
<1>5. ASSUME NEW dest \in Reg, NEW l \in Reg, Neg(dest, l) PROVE Sound'
  BY <1>5, <1>2, LoadCovers, NegCovers DEF Neg
<1>6. ASSUME NEW dest \in Reg, NEW l \in Reg, Not(dest, l) PROVE Sound' \/ KnownGap
  <2>1. CASE val[l] \in {0, -1}
    BY <1>6, <2>1 DEF KnownGap
  <2>2. CASE val[l] \notin {0, -1}
    <3>1. SignOf(-val[l] - 1) = SignOf(-val[l])
      BY <2>2, <1>2 DEF SignOf
    <3> QED BY <3>1, <1>6, <1>2, LoadCovers, NegCovers DEF Not
  <2> QED BY <2>1, <2>2
<1>7. ASSUME NEW dest \in Reg, NEW l \in Reg, Join(dest, l) PROVE Sound'
  BY <1>7 DEF Join, Sound, TypeOK
<1>8. ASSUME NEW dest \in Reg, NEW l \in Reg, NEW r \in Reg, Add(dest, l, r) PROVE Sound'
  BY <1>8, <1>2, LoadCovers, AddCovers DEF Add
<1>9. ASSUME NEW dest \in Reg, NEW l \in Reg, NEW r \in Reg, Sub(dest, l, r) PROVE Sound'
  BY <1>9, <1>2, LoadCovers, SubCovers DEF Sub
<1>10. ASSUME NEW dest \in Reg, NEW l \in Reg, NEW r \in Reg, Mul(dest, l, r) PROVE Sound'
  BY <1>10, <1>2, LoadCovers, MulCovers DEF Mul
<1>11. ASSUME NEW dest \in Reg, NEW l \in Reg, NEW r \in Reg, Div(dest, l, r)
       PROVE  Sound' \/ KnownGap
  <2> DEFINE q == Quotient(val[l], val[r])
  <2>1. val[r] # 0 /\ val'[dest] = q
    BY <1>11 DEF Div, Load, TypeOK
  <2>2. CASE q = 0
    BY <1>11, <2>1, <2>2 DEF KnownGap
  <2>3. CASE q # 0
    <3>1. SignOf(q) = MulSign(SignOf(val[l]), SignOf(val[r]))
      BY <2>1, <2>3, <1>2, QuotientSign
    <3>2. SignOf(q) \in cesk_arithmetic_div(abs[l], abs[r])
      BY <3>1, <2>1, <1>2, DivCovers
    <3> QED BY <3>2, <1>11, LoadCovers DEF Div
  <2> QED BY <2>2, <2>3
<1>12. ASSUME NEW dest \in Reg, NEW l \in Reg, NEW r \in Reg, Rem(dest, l, r)
       PROVE  Sound' \/ KnownGap
  <2> DEFINE m == val[l] - val[r] * Quotient(val[l], val[r])
             a == cesk_arithmetic_div(abs[l],
                    cesk_arithmetic_mul(cesk_arithmetic_div(abs[l], abs[r]), abs[r]))
  <2>1. val[r] # 0 /\ Load(dest, a, m)
    BY <1>12 DEF Rem
  <2>2. m \in Int /\ val'[dest] = m
    <3>1. Quotient(val[l], val[r]) \in Int
      BY <2>1, <1>2, QuotientSign
    <3>2. m \in Int
      BY <3>1, <1>2
    <3>3. val'[dest] = m
      BY <2>1 DEF Load, TypeOK
    <3> QED BY <3>2, <3>3
  <2>3. CASE m <= 0
    BY <1>12, <2>2, <2>3 DEF KnownGap
  <2>4. CASE m > 0
    <3>1. val[l] > 0
      <4>1. val[l] <= 0 => m <= 0
        BY <2>1, <1>2, RemainderSign
      <4> HIDE DEF m
      <4> QED BY <4>1, <2>2, <2>4, <1>2
    <3>2. "pos" \in a
      BY <3>1, <2>1, <1>2, RemCovers
    <3>3. SignOf(m) = "pos"
      BY <2>2, <2>4 DEF SignOf
    <3> HIDE DEF m, a
    <3> QED BY <3>2, <3>3, <2>1, LoadCovers
  <2> QED BY <2>2, <2>3, <2>4
<1>13. ASSUME NEW dest \in Reg, NEW l \in Reg, NEW r \in Reg,
              And(dest, l, r) \/ Or(dest, l, r) \/ Xor(dest, l, r)
       PROVE  Sound' \/ KnownGap
  <2>1. CASE val[l] < 0 \/ val[r] < 0
    BY <1>13, <2>1 DEF KnownGap
  <2>2. ASSUME ~(val[l] < 0 \/ val[r] < 0)
        PROVE  val[l] >= 0 /\ val[r] >= 0
    BY <2>2, <1>2
  <2>3. ASSUME NEW z, NEW a, Load(dest, a, z) PROVE val'[dest] = z
    BY <2>3 DEF Load, TypeOK
  <2>4. ASSUME ~(val[l] < 0 \/ val[r] < 0), And(dest, l, r) PROVE Sound' \/ KnownGap
    <3>1. PICK z \in -Bound .. Bound :
            /\ \A k \in 0 .. Bound : Bit(z, k) <=> Bit(val[l], k) /\ Bit(val[r], k)
            /\ Load(dest, cesk_arithmetic_and(abs[l], abs[r]), z)
      BY <2>4 DEF And
    <3>2. CASE z = 0 /\ val[l] # 0 /\ val[r] # 0
      <4>1. val[l] > 0 /\ val[r] > 0 /\ val'[dest] = 0
        BY <3>1, <3>2, <2>2, <2>3, <2>4, <1>2
      <4> QED BY <4>1, <2>4 DEF KnownGap
    <3>3. CASE z # 0 \/ val[l] = 0 \/ val[r] = 0
      <4>1. SignOf(z) \in cesk_arithmetic_and(abs[l], abs[r])
        BY <3>1, <3>3, <2>2, <2>4, <1>2, AndCovers
      <4> QED BY <4>1, <3>1, LoadCovers
    <3> QED BY <3>2, <3>3
  <2>5. ASSUME ~(val[l] < 0 \/ val[r] < 0), Or(dest, l, r) PROVE Sound' \/ KnownGap
    <3>1. PICK z \in -Bound .. Bound :
            /\ \A k \in 0 .. Bound : Bit(z, k) <=> Bit(val[l], k) \/ Bit(val[r], k)
            /\ Load(dest, cesk_arithmetic_or(abs[l], abs[r]), z)
      BY <2>5 DEF Or
    <3>2. SignOf(z) \in cesk_arithmetic_or(abs[l], abs[r])
      BY <3>1, <2>2, <2>5, <1>2, OrCovers
    <3> QED BY <3>2, <3>1, LoadCovers
  <2>6. ASSUME ~(val[l] < 0 \/ val[r] < 0), Xor(dest, l, r) PROVE Sound' \/ KnownGap
    <3>1. PICK z \in -Bound .. Bound :
            /\ \A k \in 0 .. Bound : Bit(z, k) <=> (Bit(val[l], k) # Bit(val[r], k))
            /\ Load(dest, cesk_arithmetic_xor(abs[l], abs[r]), z)
      BY <2>6 DEF Xor
    <3>2. CASE z # 0 /\ val[l] # 0 /\ val[r] # 0
      <4>1. val[l] > 0 /\ val[r] > 0 /\ val'[dest] # 0
        BY <3>1, <3>2, <2>2, <2>3, <2>6, <1>2
      <4> QED BY <4>1, <2>6 DEF KnownGap
    <3>3. CASE z = 0 \/ val[l] = 0 \/ val[r] = 0
      <4>1. SignOf(z) \in cesk_arithmetic_xor(abs[l], abs[r])
        BY <3>1, <3>3, <2>2, <2>6, <1>2, XorCovers
      <4> QED BY <4>1, <3>1, LoadCovers
    <3> QED BY <3>2, <3>3
  <2> QED BY <1>13, <2>1, <2>4, <2>5, <2>6
<1>14. ASSUME NEW dest \in Reg, NEW l \in Reg, NEW r \in Reg
       PROVE  /\ SignOf(Compare(val[l], val[r])) = SignOf(val[l] - val[r])
              /\ SignOf(Compare(val[l], val[r])) \in _cesk_block_regcmp(l, r)
  <2>1. SignOf(Compare(val[l], val[r])) = SignOf(val[l] - val[r])
    BY <1>2 DEF SignOf, Compare
  <2> QED BY <2>1, <1>2, SubCovers DEF _cesk_block_regcmp
<1>15. ASSUME NEW dest \in Reg, NEW l \in Reg, NEW r \in Reg, Cmp(dest, l, r) PROVE Sound'
  BY <1>15, <1>14, LoadCovers DEF Cmp
<1>16. ASSUME NEW dest \in Reg, NEW l \in Reg, NEW r \in Reg, CmpWide(dest, l, r)
       PROVE  Sound' \/ KnownGap
  <2>1. CASE val[l] = val[r]
    BY <1>16, <2>1 DEF KnownGap
  <2>2. CASE val[l] # val[r]
    <3>1. SignOf(Compare(val[l], val[r])) # "zero"
      BY <2>2, <1>2 DEF SignOf, Compare
    <3> QED BY <3>1, <1>14, <1>16, LoadCovers DEF CmpWide
  <2> QED BY <2>1, <2>2
<1> QED BY <1>1, <1>3, <1>4, <1>5, <1>6, <1>7, <1>8, <1>9, <1>10, <1>11, <1>12, <1>13, <1>15, <1>16
        DEF Next

(* The sign analysis of cesk_block.c loses a number only in the cases of   *)
(* KnownGap, whatever the program and its numbers.                         *)
THEOREM CoverageExceptGaps == Spec => CoveredExceptGaps
<1>1. TypeOK /\ [Next]_vars => [Sound => Sound' \/ KnownGap]_vars
  BY StepCovers
<1> QED BY <1>1, TypeCorrect, PTL DEF Spec, CoveredExceptGaps

(* The operations with no gap. *)
SoundOps == {"neg", "add", "sub", "mul", "cmp"}

(* A program that uses those alone is covered in every state: its          *)
(* registers never hold a number the analyzer rules out.                   *)
THEOREM SoundAnalysis ==
  ASSUME Ops \subseteq SoundOps
  PROVE  Spec => []Sound
<1>1. Init => Sound
  BY DEF Init, Sound, cesk_store_const_addr_from_operand
<1>2. ~KnownGap
  <2>1. \A op \in {"not", "div", "rem", "and", "or", "xor", "cmpwide"} : op \notin Ops
    BY DEF SoundOps
  <2>2. ASSUME NEW dest \in Reg, NEW l \in Reg
        PROVE  /\ ~Not(dest, l)
               /\ \A r \in Reg : /\ ~Div(dest, l, r) /\ ~Rem(dest, l, r)
                                 /\ ~And(dest, l, r) /\ ~Or(dest, l, r)
                                 /\ ~Xor(dest, l, r) /\ ~CmpWide(dest, l, r)
    BY <2>1 DEF Not, Div, Rem, And, Or, Xor, CmpWide
  <2> QED BY <2>2 DEF KnownGap
<1>3. TypeOK /\ Sound /\ [Next]_vars => Sound'
  BY <1>2, StepCovers
<1> QED BY <1>1, <1>3, TypeCorrect, PTL DEF Spec
=============================================================================
