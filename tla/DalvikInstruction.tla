------------------------- MODULE DalvikInstruction -------------------------
(***************************************************************************)
(* The decoder of instructions, dalvik_instruction_from_sexp and its       *)
(* constructors (dalvik_instruction.c), for the instructions that do not   *)
(* transfer control; branches and switches are decoded in DalvikMethod and *)
(* DalvikBlock.                                                            *)
(*                                                                         *)
(* An S-expression is a record [op, mods, args]: the first word, the       *)
(* keywords that follow it (the parts of "move-wide/from16" after "move")  *)
(* and the arguments.  A register is its number, a numeric literal a pair  *)
(* <<low, high>> of signed 32 bit words, everything else a name.           *)
(* S-expressions have the number of arguments their keywords call for, so  *)
(* that a failed sexp_match is the absence of a keyword.                   *)
(*                                                                         *)
(* The build does not define DALVIK_ARRAY_SUPPORT.                         *)
(***************************************************************************)
EXTENDS Integers, Sequences, SequencesExt, Folds

\* dalvik_operand_t: the header and the payload
Operand(type, wide, const, result, payload) ==
    [type |-> type, wide |-> wide, const |-> const, result |-> result,
     payload |-> payload]

Register(type, n) == Operand(type, FALSE, FALSE, FALSE, n)

Pair(n) == Operand("any", TRUE, FALSE, FALSE, n)

Constant(type, c) == Operand(type, FALSE, TRUE, FALSE, c)

\* dalvik_instruction_t: num_operands is the length of the operands
Instruction(opcode, flags, operands) ==
    [opcode |-> opcode, flags |-> flags, operands |-> operands]

\* a constructor that returned a negative number
Invalid == Instruction("invalid", "none", <<>>)

-----------------------------------------------------------------------------
(* Reading keywords.                                                       *)

Keyword(s) == IF s.mods = <<>> THEN "none" ELSE Head(s.mods)

Rest(s) == [s EXCEPT !.mods = Tail(@)]

\* sexp_strip: drop the next keyword if it is one of the given
Strip(s, tokens) == IF Keyword(s) \in tokens THEN Rest(s) ELSE s

\* n << 16 in 32 bits, and the word that extends the sign of n
Shift16(n) ==
    LET half == n % 65536
    IN  IF half < 32768 THEN half * 65536 ELSE (half - 65536) * 65536

Extension(n) == IF n < 0 THEN -1 ELSE 0

-----------------------------------------------------------------------------
(* Constructors.                                                           *)

Nop(s) == Instruction("nop", "none", <<>>)

\* move, move-wide, move-object, move-result and move-exception
Move(s) ==
    LET dest == s.args[1]
        source(type, wide) == Operand(type, wide, FALSE, TRUE, 0)
    IN  Instruction("move", "none",
          CASE Keyword(s) = "wide"      -> <<Pair(dest), Pair(s.args[2])>>
            [] Keyword(s) = "object"    -> <<Register("object", dest), Register("object", s.args[2])>>
            [] Keyword(s) = "result"    ->
                 CASE Keyword(Rest(s)) = "wide"   -> <<Pair(dest), source("any", TRUE)>>
                   [] Keyword(Rest(s)) = "object" -> <<Register("object", dest), source("object", FALSE)>>
                   [] OTHER                       -> <<Register("any", dest), source("any", FALSE)>>
            [] Keyword(s) = "exception" -> <<Register("any", dest), Register("exception", 0)>>
            [] OTHER                    -> <<Register("any", dest), Register("any", s.args[2])>>)

Return(s) ==
    Instruction("return", "none",
      CASE Keyword(s) = "void"   -> <<Register("void", 0)>>
        [] Keyword(s) = "wide"   -> <<Pair(s.args[1])>>
        [] Keyword(s) = "object" -> <<Register("object", s.args[1])>>
        [] OTHER                 -> <<Register("int", s.args[1])>>)

\* A wide constant, already stripped of the size of its literal.  Shifting by
\* 48 bits leaves nothing in the low word.
ConstWide(s) ==
    <<Pair(s.args[1]),
      [Constant("int", IF Keyword(s) = "high16" THEN <<0, Shift16(s.args[2][1])>>
                                                 ELSE s.args[2])
       EXCEPT !.wide = TRUE]>>

ConstOperands(s) ==
    CASE Keyword(s) = "high16" ->
           LET n == Shift16(s.args[2][1])
           IN  <<Register("any", s.args[1]), Constant("int", <<n, Extension(n)>>)>>
      [] Keyword(s) = "wide"   -> ConstWide(Strip(Rest(s), {"16", "32"}))
      [] Keyword(s) = "string" ->
           <<Register("string", s.args[1]), Constant("string", s.args[2])>>
      [] Keyword(s) = "class"  ->
           <<Register("object", s.args[1]), Constant("class", s.args[2])>>
      [] OTHER                 ->
           <<Register("any", s.args[1]), Constant("int", s.args[2])>>

Const(s) == Instruction("const", "none", ConstOperands(Strip(s, {"4", "16"})))

Monitor(s) ==
    Instruction("monitor", Keyword(s), <<Register("any", s.args[1])>>)

Check(s) ==
    IF Keyword(s) = "cast"
    THEN Instruction("check_cast", "none",
                     <<Register("object", s.args[1]), Constant("class", s.args[2])>>)
    ELSE Invalid

Throw(s) == Instruction("throw", "none", <<Register("object", s.args[1])>>)

\* cmp, cmpl and cmpg: only a comparison of doubles is wide
Cmp(s) ==
    LET operand(n) == Operand(Keyword(s), Keyword(s) = "double", FALSE, FALSE, n)
    IN  IF Keyword(s) \in {"float", "double", "long"}
        THEN Instruction("cmp", "none",
                 <<Register("any", s.args[1]), operand(s.args[2]), operand(s.args[3])>>)
        ELSE Invalid

\* _dalvik_instruction_setup_object_operations without arrays: a get or put of
\* an instance field names the object, one of a static field does not
ObjectOperation(s, flags) ==
    LET typed == Keyword(s) \in {"object", "boolean", "byte", "char", "short"}
        value == Operand(IF typed THEN Keyword(s) ELSE "any", Keyword(s) = "wide",
                         FALSE, FALSE, s.args[1])
        object == IF flags \in {"sget", "sput"} THEN <<>> ELSE <<Register("object", s.args[2])>>
        path == SubSeq(s.args, 2 + Len(object), Len(s.args))
    IN  Instruction("instance", flags,
            <<value>> \o object
              \o <<Constant("class", path[1]), Constant("field", path[2]),
                   Constant("typedesc", path[3])>>)

\* The operand array has 16 places and num_operands four bits: the counter
\* wraps to zero after the sixteenth operand, which is an error.
MaxArguments == 11

\* The arguments of an invocation are the list of registers, the class, the
\* method, the parameter types and the return type.
InvokeOperands(s, registers) ==
    <<Constant("class", s.args[2]), Constant("field", s.args[3]),
      Constant("typelist", s.args[4]), Constant("typedesc", s.args[5])>> \o registers

Invoke(s) ==
    LET regs == s.args[1]
        range == Keyword(Rest(s)) = "range"
    IN  IF \/ Keyword(s) \notin {"virtual", "super", "direct", "static", "interface"}
           \/ ~range /\ Len(regs) > MaxArguments
        THEN Invalid
        ELSE Instruction("invoke", <<Keyword(s), IF range THEN "range" ELSE "list">>,
               InvokeOperands(s,
                 IF range
                 THEN <<Constant("int", regs[1]), Constant("int", Last(regs))>>
                 ELSE [i \in DOMAIN regs |-> Register("any", regs[i])]))

\* invoke with the number of the thread, kept as an annotation
Uinvoke(s) == Invoke([s EXCEPT !.args = Tail(@)])

-----------------------------------------------------------------------------
(* Arithmetic.                                                             *)

\* _dalvik_instruction_sexpression_fetch_type; the types that take two
\* registers are not marked wide
FetchType(s) ==
    IF Keyword(s) \in {"int", "long", "float", "double", "byte", "char", "short"}
    THEN Keyword(s) ELSE "error"

\* _dalvik_instruction_setup_arithmetic with two register operands
Unop(s, flags, dest, sour) ==
    IF "error" \in {dest, sour} THEN Invalid
    ELSE Instruction("unop", flags, <<Register(dest, s.args[1]), Register(sour, s.args[2])>>)

NegNot(s, flags) == Unop(s, flags, FetchType(s), FetchType(s))

\* _dalvik_instruction_convert_operator: the type before "to" goes with the
\* destination, the one after it with the source
Convert(s) ==
    IF Keyword(s) = "to" THEN Unop(s, "to", s.op, FetchType(Rest(s))) ELSE Invalid

\* Mutant: the two-address form subtracts the destination.
BinopOperandsSwapped(s, type) ==
    IF Keyword(s) = "2addr"
    THEN <<Register(type, s.args[1]), Register(type, s.args[2]), Register(type, s.args[1])>>
    ELSE <<Register(type, s.args[1]), Register(type, s.args[2]),
           IF Keyword(s) \in {"lit16", "lit8"} THEN Constant(type, s.args[3])
                                               ELSE Register(type, s.args[3])>>

\* _dalvik_instruction_setup_binary_operator behind the type
BinopOperands(s, type) ==
    IF Keyword(s) = "2addr"
    THEN <<Register(type, s.args[1]), Register(type, s.args[1]), Register(type, s.args[2])>>
    ELSE <<Register(type, s.args[1]), Register(type, s.args[2]),
           IF Keyword(s) \in {"lit16", "lit8"} THEN Constant(type, s.args[3])
                                               ELSE Register(type, s.args[3])>>

Binop(s) ==
    IF FetchType(s) = "error" THEN Invalid
    ELSE Instruction("binop", s.op, BinopOperands(Rest(s), FetchType(s)))

-----------------------------------------------------------------------------
(* Objects.                                                                *)

\* instance-of a class or, where the argument is no object path, of a type
InstanceOf(s) ==
    IF Keyword(s) = "of"
    THEN Instruction("instance", "of",
           <<Register("any", s.args[1]), Register("object", s.args[2]),
             Constant(IF Keyword(Rest(s)) = "type" THEN "typedesc" ELSE "class", s.args[3])>>)
    ELSE Invalid

\* new-instance; new-array is refused in this build
New(s) ==
    IF Keyword(s) = "instance"
    THEN Instruction("instance", "new", <<Register("any", s.args[1]), Constant("class", s.args[2])>>)
    ELSE Invalid

\* aget, aput, array-length and filled-new-array are refused in this build
Array(s) == Invalid

\* One element of array-data.  A list of bytes, the lowest first, is extended
\* with its sign.  A byte without a list is assigned to a variable that hides
\* the one that is stored, so that it counts as 0.
DataElement(e) ==
    LET width == Len(e.bytes)
        value == FoldRight(LAMBDA b, acc : b + 256 * acc, e.bytes, 0)
    IN  IF ~e.list THEN 0
        ELSE IF width < 4 /\ e.bytes[width] >= 128 THEN value - 256^width ELSE value

Data(s) ==
    IF Keyword(s) = "array"
    THEN Instruction("array", "data",
           <<Constant("arraydata", [i \in DOMAIN s.args |-> DataElement(s.args[i])])>>)
    ELSE Invalid

-----------------------------------------------------------------------------
\* dalvik_instruction_from_sexp
Decode(s) ==
    CASE s.op = "nop"                       -> Nop(s)
      [] s.op = "move"                      -> Move(s)
      [] s.op = "return"                    -> Return(s)
      [] s.op = "const"                     -> Const(s)
      [] s.op = "monitor"                   -> Monitor(s)
      [] s.op = "check"                     -> Check(s)
      [] s.op = "throw"                     -> Throw(s)
      [] s.op \in {"cmp", "cmpl", "cmpg"}   -> Cmp(s)
      [] s.op = "iget"                      -> ObjectOperation(s, "get")
      [] s.op = "iput"                      -> ObjectOperation(s, "put")
      [] s.op \in {"sget", "sput"}          -> ObjectOperation(s, s.op)
      [] s.op = "invoke"                    -> Invoke(s)
      [] s.op = "uinvoke"                   -> Uinvoke(s)
      [] s.op \in {"neg", "not"}            -> NegNot(s, s.op)
      [] s.op \in {"int", "long", "float", "double"} -> Convert(s)
      [] s.op \in {"add", "sub", "mul", "div", "rem", "and", "or", "xor",
                   "shl", "shr", "ushr", "rsub"}     -> Binop(s)
      [] s.op = "instance"                  -> InstanceOf(s)
      [] s.op \in {"aget", "aput", "array", "filled"} -> Array(s)
      [] s.op = "new"                       -> New(s)
      [] s.op = "data"                      -> Data(s)
      [] OTHER                              -> Invalid
=============================================================================
