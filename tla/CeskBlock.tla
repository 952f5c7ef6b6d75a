------------------------------ MODULE CeskBlock ------------------------------
(***************************************************************************)
(* The block analyzer, cesk_block_analyze (cesk_block.c), with the frame   *)
(* operations its handlers call (cesk_frame.c), the two diff buffers they  *)
(* write (cesk_diff.c) and the application of the resulting diffs.         *)
(*                                                                         *)
(* A block is executed twice at once: by a running program on numbers and  *)
(* references (cell, heap: the reference) and by the analyzer on a frame   *)
(* (frame: the code).  The analyzer decodes each instruction with          *)
(* DalvikInstruction; the running program follows the S-expression.        *)
(*                                                                         *)
(* D records how the block changed the frame, I how to take that back.  At *)
(* the end of a block the successor's frame is made by applying the diff   *)
(* of D to the frame the block started with, as the method analyzer does.  *)
(*                                                                         *)
(* Abstractions: an object has one field, or none if it is a string; an    *)
(* object and its field are allocated and die together; an address is a    *)
(* set of signs or an allocation site; reference counts are exact (they    *)
(* are the subject of CeskStore), so that an object dies when neither a    *)
(* cell nor a living object refers to it; no tags; no invoke, array or     *)
(* exception.  A wide value is kept in the first of its two registers, the *)
(* one the arithmetic handlers use.                                        *)
(***************************************************************************)
EXTENDS Integers, Sequences, FiniteSets, SequencesExt

CONSTANTS
    NRegs,       \* the general registers of the method
    NStatics,    \* the static fields
    Objects,     \* the allocation sites: instructions, and the caller's objects
    Strings,     \* the sites of const-string instructions
    Code,        \* the instructions a block may be made of, as S-expressions
    SiteOf,      \* the allocation site of an instruction of Code
    Starts,      \* the frames a block may start with, with a program state each
    MaxSteps,    \* bound: instructions executed
    MaxBlocks,   \* bound: blocks executed
    MaxObjects,  \* bound: objects the program allocates per site
    Bound        \* bound: the absolute value of a computed number

Dalvik == INSTANCE DalvikInstruction

\* the sign arithmetic alone: the machine of CeskArithmetic stands still
Arith == INSTANCE CeskArithmetic
             WITH Reg <- {}, Literal <- {}, Ops <- {}, val <- <<>>, abs <- <<>>

ASSUME BlockAssumption ==
    /\ NRegs \in Nat /\ NStatics \in Nat
    /\ Strings \subseteq Objects
    /\ DOMAIN SiteOf = DOMAIN Code
    /\ MaxSteps \in Nat /\ MaxBlocks \in Nat /\ MaxObjects \in Nat /\ Bound \in Nat

-----------------------------------------------------------------------------
(* Cells are what a REG record of a diff may name: the registers (the      *)
(* result register is 0, the exception register 1) and the static fields.  *)

Result == <<"reg", 0>>
Exception == <<"reg", 1>>
General(n) == <<"reg", n + 2>>
Static(f) == <<"static", f>>

Cells == {<<"reg", n>> : n \in 0 .. NRegs + 1} \cup {Static(f) : f \in 1 .. NStatics}

\* the register after a register, the second of a pair
Second(r) == <<r[1], r[2] + 1>>

Number(signs) == <<"const", signs>>
Ref(o) == <<"obj", o>>

ZERO == Number({"zero"})

ObjectsIn(set) == {a[2] : a \in {b \in set : b[1] = "obj"}}

VARIABLES
    phase,    \* "run", or how the analysis of the block ended
    frame,    \* the analyzer's frame: cells, store, and the allocated addresses
    input,    \* the frame the block started with
    D,        \* the diff buffer
    I,        \* the inverse diff buffer
    cell,     \* the program's registers and static fields
    heap,     \* the field of each object of the program, by site
    sites,    \* the allocation instructions executed in this block
    inplace,  \* history: objects whose first update in this block was in place
    blurred,  \* history: sites that lost the mark that they stand for many objects
    steps,    \* bound: instructions executed
    blocks    \* bound: blocks ended

vars == <<phase, frame, input, D, I, cell, heap, sites, inplace, blurred, steps, blocks>>

-----------------------------------------------------------------------------
(* Frames.                                                                 *)

Only(store, live) == [o \in live |-> store[o]]

Referenced(f, live) ==
    UNION {ObjectsIn(f.cell[c]) : c \in Cells} \cup UNION {ObjectsIn(f.store[o].val) : o \in live}

StillReferenced(f, live) == live \cap Referenced(f, live)

\* The objects that survive when reference counts drop: the largest set that is
\* referenced from the cells or from itself (a cycle survives).
Survivors(f) ==
    LET keep[k \in 0 .. Cardinality(Objects)] ==
            IF k = 0 THEN DOMAIN f.store ELSE StillReferenced(f, keep[k - 1])
    IN  keep[Cardinality(Objects)]

Sweep(f) == [f EXCEPT !.store = Only(@, Survivors(f))]

\* What the cells can reach
Reachable(f) ==
    LET reach[k \in 0 .. Cardinality(Objects)] ==
            DOMAIN f.store \cap Referenced(f, IF k = 0 THEN {} ELSE reach[k - 1])
    IN  reach[Cardinality(Objects)]

\* a new object, its field set to zero
Fresh == [reuse |-> FALSE, val |-> {ZERO}, freuse |-> FALSE]

-----------------------------------------------------------------------------
(* Diff buffers.  A record has a type, an address and a value.             *)

Record(t, a, v) == [type |-> t, addr |-> a, value |-> v]

\* Mutant: the first record of an address is kept.
LatestFirst(buf, reverse, hits) ==
    CHOOSE i \in hits : \A j \in hits : IF reverse THEN i >= j ELSE i <= j

\* Sorted by type, address and time, the last record of an address stays; a
\* reverse buffer negates the times.
Latest(buf, reverse, hits) ==
    CHOOSE i \in hits : \A j \in hits : IF reverse THEN i <= j ELSE i >= j

Section(buf, reverse, t) ==
    [a \in {buf[i].addr : i \in {j \in DOMAIN buf : buf[j].type = t}} |->
        buf[Latest(buf, reverse,
                   {i \in DOMAIN buf : buf[i].type = t /\ buf[i].addr = a})].value]

\* What the store section and the register section refer to
StoreInUse(d) == UNION {ObjectsIn(d.store[o]) : o \in DOMAIN d.store}

RegisterInUse(d) == UNION {ObjectsIn(d.reg[c]) : c \in DOMAIN d.reg}

\* An allocation in use keeps the fields of its object, which are allocated
\* with it and hold zero: another object is stored by a STORE record.
AllocationInUse(d, used) == d.alloc \cap used

Kept(d) == AllocationInUse(d, StoreInUse(d) \cup RegisterInUse(d))

Without(fn, gone) == [a \in DOMAIN fn \ gone |-> fn[a]]

\* _cesk_diff_gc: allocations nothing refers to are dropped, and with them,
\* and with deallocated objects, their store and reuse records.
Collect(d) ==
    LET gone == (d.alloc \ Kept(d)) \cup d.dealloc
    IN  [d EXCEPT !.alloc = Kept(d),
                  !.store = Without(@, gone),
                  !.reuse = Without(@, {<<k, o>> : k \in {"obj", "fld"}, o \in gone})]

\* cesk_diff_from_buffer without merging
FromBuffer(buf, reverse) ==
    Collect([alloc   |-> DOMAIN Section(buf, reverse, "alloc"),
             reuse   |-> Section(buf, reverse, "reuse"),
             reg     |-> Section(buf, reverse, "reg"),
             store   |-> Section(buf, reverse, "store"),
             dealloc |-> DOMAIN Section(buf, reverse, "dealloc")])

-----------------------------------------------------------------------------
(* cesk_frame_apply_diff.  Its result has a status: "refused" where it     *)
(* returns an error, "fault" where it follows a null pointer.              *)

Outcome(status, f) == [status |-> status, frame |-> f]

\* The allocation section: each object is new to the allocation table.
WithAllocated(f, new) ==
    [f EXCEPT !.store = [o \in DOMAIN @ \cup new |-> IF o \in new THEN Fresh ELSE @[o]],
              !.mapped = @ \cup new]

\* The reuse section.  The slot of a dead object is not marked.
Flag(d, k, o, old) == IF <<k, o>> \in DOMAIN d.reuse THEN d.reuse[<<k, o>>] ELSE old

WithReuse(f, d) ==
    [f EXCEPT !.store = [o \in DOMAIN @ |->
        [@[o] EXCEPT !.reuse = Flag(d, "obj", o, @), !.freuse = Flag(d, "fld", o, @)]]]

\* The register section, after the references of the new values were counted.
WithRegs(f, d) ==
    [f EXCEPT !.cell = [c \in Cells |-> IF c \in DOMAIN d.reg THEN d.reg[c] ELSE @[c]]]

\* The store section: a value that differs is attached, and cesk_store_attach
\* clears the reuse flag of the slot.
WithStore(f, d) ==
    [f EXCEPT !.store = [o \in DOMAIN @ |->
        IF o \in DOMAIN d.store /\ d.store[o] # @[o].val
        THEN [@[o] EXCEPT !.val = d.store[o], !.freuse = FALSE]
        ELSE @[o]]]

\* The objects alive while the register section drops old references: those of
\* the new values, counted before, keep theirs, and a new object has no
\* reference to lose.
AliveAtStore(f, d) ==
    d.alloc \cup Survivors([f EXCEPT !.store = [o \in DOMAIN @ |->
        [@[o] EXCEPT !.val = @ \cup (IF o \in DOMAIN d.store THEN d.store[o] ELSE {})]]])

\* The store section reads the type of the old value before it tests for NULL.
ApplyStore(f, d, alive) ==
    IF DOMAIN d.store \subseteq alive
    THEN Outcome("ok", Sweep(WithStore([f EXCEPT !.store = Only(@, alive)], d)))
    ELSE Outcome("fault", f)

ApplyRegs(f, d) == ApplyStore(f, d, AliveAtStore(f, d))

ApplyLive(f, d) ==
    IF DOMAIN d.store \subseteq DOMAIN f.store
    THEN ApplyRegs(WithRegs(WithReuse(f, d), d), d)
    ELSE Outcome("fault", f)

\* cesk_reloc_addr_init refuses an address that the allocation table maps.  The
\* table keeps the mapping of an object that died.
ApplyDiff(f, d) ==
    IF d.alloc \cap f.mapped # {}
    THEN Outcome("refused", f)
    ELSE ApplyLive(WithAllocated(f, d.alloc), d)

-----------------------------------------------------------------------------
(* The operations of a frame.  They map a state of the analyzer, the frame *)
(* and the two buffers, to the next one.                                   *)

Analysis(f, d, i) == [frame |-> f, D |-> d, I |-> i, ok |-> TRUE]

Failed(x) == [x EXCEPT !.ok = FALSE]

\* Mutant: the inverse snapshot is taken after the write.
WriteCellLate(x, c, v) ==
    [x EXCEPT !.frame = Sweep([@ EXCEPT !.cell[c] = v]),
              !.D = Append(@, Record("reg", c, v)),
              !.I = Append(@, Record("reg", c, v))]

\* A snapshot of the old value, the new references, the old ones dropped, and
\* a snapshot of the new value: the pattern of the register operations.
WriteCell(x, c, v) ==
    [x EXCEPT !.frame = Sweep([@ EXCEPT !.cell[c] = v]),
              !.D = Append(@, Record("reg", c, v)),
              !.I = Append(@, Record("reg", c, x.frame.cell[c]))]

RegisterMove(x, dst, src) == WriteCell(x, dst, x.frame.cell[src])

\* Mutant: the result of cesk_store_incref is ignored.
RegisterLoadUnchecked(x, dst, addr) == WriteCell(x, dst, {addr})

\* cesk_store_incref fails for a dead object and for the NULL address
RegisterLoad(x, dst, addr) ==
    IF addr[1] = "null" \/ ObjectsIn({addr}) \cap DOMAIN x.frame.store # ObjectsIn({addr})
    THEN Failed(x)
    ELSE WriteCell(x, dst, {addr})

RegisterLoadFromStatic(x, dst, f) == WriteCell(x, dst, x.frame.cell[Static(f)])

StaticLoadFromRegister(x, f, src) == WriteCell(x, Static(f), x.frame.cell[src])

\* the union of the fields of the objects; numbers are skipped
RegisterLoadFromObject(x, dst, src) ==
    WriteCell(x, dst, UNION {x.frame.store[o].val : o \in ObjectsIn(x.frame.cell[src])})

\* A site that has no living object gets a new one.
NewFresh(x, o) ==
    [x EXCEPT !.frame = WithAllocated(@, {o}),
              !.D = Append(@, Record("alloc", o, TRUE)),
              !.I = Append(@, Record("dealloc", o, TRUE))]

\* A site that has one is marked, and zero added to its field.  The inverse
\* record refers to the value that is then changed in place.
NewReused(x, o, val) ==
    [x EXCEPT !.frame.store[o] = [reuse |-> TRUE, val |-> val, freuse |-> TRUE],
              !.D = @ \o <<Record("store", o, val), Record("reuse", <<"fld", o>>, TRUE),
                           Record("reuse", <<"obj", o>>, TRUE)>>,
              !.I = @ \o <<Record("reuse", <<"fld", o>>, x.frame.store[o].freuse),
                           Record("store", o, val),
                           Record("reuse", <<"obj", o>>, x.frame.store[o].reuse)>>]

\* cesk_frame_store_new_object; a constant is allocated once
StoreNewObject(x, o) ==
    IF o \notin DOMAIN x.frame.store THEN NewFresh(x, o)
    ELSE IF o \in Strings THEN x
    ELSE NewReused(x, o, x.frame.store[o].val \cup {ZERO})

\* Mutant: a marked site is overwritten like any other.
KeepsOldUnmarked(keep_old, slot) == keep_old

\* The test for a weak update
KeepsOld(keep_old, slot) == keep_old \/ slot.freuse

\* A weak update changes the value that the inverse record refers to.
PutValue(x, o, new, inverse) ==
    [x EXCEPT !.frame = Sweep([@ EXCEPT !.store[o].val = new]),
              !.D = Append(@, Record("store", o, new)),
              !.I = Append(@, Record("store", o, inverse))]

\* cesk_frame_store_put_field
StorePutField(x, o, src, keep_old) ==
    IF KeepsOld(keep_old, x.frame.store[o])
    THEN PutValue(x, o, x.frame.store[o].val \cup x.frame.cell[src],
                        x.frame.store[o].val \cup x.frame.cell[src])
    ELSE PutValue(x, o, x.frame.cell[src], x.frame.store[o].val)

-----------------------------------------------------------------------------
(* The handlers of cesk_block.c.                                           *)

\* _cesk_block_operand_to_regidx of an operand that is no constant
Regidx(operand) ==
    IF operand.type = "exception" THEN Exception
    ELSE IF operand.result THEN Result
    ELSE General(operand.payload)

\* _cesk_block_register_const_merge
ConstMerge(f, r) == UNION {a[2] : a \in {b \in f.cell[r] : b[1] = "const"}}

Narrow(n, width) ==
    LET low == n % 2^width
    IN  IF low < 2^(width - 1) THEN low ELSE low - 2^width

\* cesk_store_const_addr_from_operand; only the low word of a literal counts
ConstAddr(operand) ==
    CASE operand.type \in {"int", "long"}  -> Number({Arith!SignOf(operand.payload[1])})
      [] operand.type = "short"            -> Number({Arith!SignOf(Narrow(operand.payload[1], 16))})
      [] operand.type \in {"byte", "char"} -> Number({Arith!SignOf(Narrow(operand.payload[1], 8))})
      [] OTHER                             -> <<"null", {}>>

HandlerMove(x, ins) ==
    LET to == Regidx(ins.operands[1])
        from == Regidx(ins.operands[2])
    IN  IF ins.operands[1].wide
        THEN RegisterMove(RegisterMove(x, to, from), Second(to), Second(from))
        ELSE RegisterMove(x, to, from)

HandlerConst(x, ins, site) ==
    IF ins.operands[2].type = "string"
    THEN RegisterLoad(StoreNewObject(x, site), Regidx(ins.operands[1]), Ref(site))
    ELSE RegisterLoad(x, Regidx(ins.operands[1]), ConstAddr(ins.operands[2]))

\* _cesk_block_regcmp
Regcmp(f, left, right) == Arith!cesk_arithmetic_sub(ConstMerge(f, left), ConstMerge(f, right))

\* A wide comparison whose first words may be equal goes on to the second ones.
CompareWide(f, left, right, first) ==
    IF "zero" \in first
    THEN (first \ {"zero"}) \cup Regcmp(f, Second(left), Second(right))
    ELSE first

HandlerCmp(x, ins) ==
    LET left == Regidx(ins.operands[2])
        right == Regidx(ins.operands[3])
        first == Regcmp(x.frame, left, right)
    IN  RegisterLoad(x, Regidx(ins.operands[1]),
            Number(IF ins.operands[2].wide
                   THEN CompareWide(x.frame, left, right, first) ELSE first))

\* The put case: all objects of the register, which is overwritten only if it
\* holds a single address.
PutAll(x, objs, src, keep_old) ==
    FoldSet(LAMBDA o, y : StorePutField(y, o, src, keep_old), x, objs)

HandlerPut(x, dest, src) ==
    PutAll(x, ObjectsIn(x.frame.cell[dest]), src, Cardinality(x.frame.cell[dest]) # 1)

\* instance-of is a case of its own, below
HandlerInstance(x, ins, site) ==
    CASE ins.flags = "new"  ->
           RegisterLoad(StoreNewObject(x, site), Regidx(ins.operands[1]), Ref(site))
      [] ins.flags = "get"  ->
           RegisterLoadFromObject(x, Regidx(ins.operands[1]), Regidx(ins.operands[2]))
      [] ins.flags = "put"  -> HandlerPut(x, Regidx(ins.operands[2]), Regidx(ins.operands[1]))
      [] ins.flags = "sget" ->
           RegisterLoadFromStatic(x, Regidx(ins.operands[1]), ins.operands[3].payload)
      [] ins.flags = "sput" ->
           StaticLoadFromRegister(x, ins.operands[3].payload, Regidx(ins.operands[1]))

\* The result of the tests is lost: the number of the source register is loaded
\* as an address, which belongs to some object or to none.
HandlerInstanceOf(x, ins, addr) == RegisterLoad(x, Regidx(ins.operands[1]), addr)

HandlerUnop(x, ins) ==
    LET input_ == ConstMerge(x.frame, Regidx(ins.operands[2]))
    IN  RegisterLoad(x, Regidx(ins.operands[1]),
            Number(IF ins.flags = "to" THEN input_ ELSE Arith!cesk_arithmetic_neg(input_)))

\* an operand of a binary operation: a literal or a register
Side(f, operand) ==
    IF operand.const THEN ConstAddr(operand)[2] ELSE ConstMerge(f, Regidx(operand))

BinopResult(flags, l, r) ==
    CASE flags = "add" -> Arith!cesk_arithmetic_add(l, r)
      [] flags = "sub" -> Arith!cesk_arithmetic_sub(l, r)
      [] flags = "mul" -> Arith!cesk_arithmetic_mul(l, r)
      [] flags = "div" -> Arith!cesk_arithmetic_div(l, r)
      [] flags = "and" -> Arith!cesk_arithmetic_and(l, r)
      [] flags = "or"  -> Arith!cesk_arithmetic_or(l, r)
      [] flags = "xor" -> Arith!cesk_arithmetic_xor(l, r)
      [] flags = "rem" ->
           Arith!cesk_arithmetic_div(l, Arith!cesk_arithmetic_mul(Arith!cesk_arithmetic_div(l, r), r))

HandlerBinop(x, ins) ==
    IF ins.flags \in {"shl", "shr", "ushr", "rsub"}
    THEN Failed(x)
    ELSE RegisterLoad(x, Regidx(ins.operands[1]),
             Number(BinopResult(ins.flags, Side(x.frame, ins.operands[2]),
                                           Side(x.frame, ins.operands[3]))))

-----------------------------------------------------------------------------
(* The running program.  A value it computes that the analyzer is known    *)
(* not to cover is Lost; so is everything computed from it.                *)

Int32(n) == <<"int", n>>
Object(o, k) == <<"obj", o, k>>
Lost == <<"lost">>

IsInt(v) == v[1] = "int"

\* The value of a literal: a word, extended with its sign.  The analyzer drops
\* the high word of any other literal.
LiteralValue(w) == IF w[2] = Dalvik!Extension(w[1]) THEN Int32(w[1]) ELSE Lost

ConstValue(s) ==
    LET n == s.args[2][1]
    IN  CASE "wide" \in ToSet(s.mods) /\ "high16" \in ToSet(s.mods) ->
               IF n = 0 THEN Int32(0) ELSE Lost
          [] "high16" \in ToSet(s.mods) -> Int32(n * 65536)
          [] OTHER                      -> LiteralValue(s.args[2])

\* not: the analyzer negates, which differs for 0 and -1.  Conversion to char
\* makes a negative number positive.
UnopValue(s, v) ==
    CASE ~IsInt(v)                                        -> Lost
      [] s.op = "neg"                                     -> Int32(-v[2])
      [] s.op = "not"                                     -> IF v[2] \in {0, -1} THEN Lost
                                                             ELSE Int32(-v[2] - 1)
      [] "char" \in ToSet(s.mods) /\ v[2] < 0              -> Lost
      [] OTHER                                            -> v

\* The operations that CeskArithmetic is about are left to it.
BinopValue(s, v, w) ==
    CASE ~IsInt(v) \/ ~IsInt(w) -> Lost
      [] s.op = "add"           -> Int32(v[2] + w[2])
      [] s.op = "sub"           -> Int32(v[2] - w[2])
      [] s.op = "mul"           -> Int32(v[2] * w[2])
      [] OTHER                  -> Lost

\* The analyzer compares the second words of doubles, which it does not keep.
CmpValue(s, v, w) ==
    IF ~IsInt(v) \/ ~IsInt(w) \/ ("double" \in ToSet(s.mods) /\ v = w) THEN Lost
    ELSE Int32(IF v[2] < w[2] THEN -1 ELSE IF v[2] = w[2] THEN 0 ELSE 1)

Dest(s) == General(s.args[1])

Source(s, n) == cell[General(s.args[n])]

Operands(s) ==
    IF "2addr" \in ToSet(s.mods) THEN <<Source(s, 1), Source(s, 2)>>
    ELSE <<Source(s, 2), IF ToSet(s.mods) \cap {"lit8", "lit16"} # {}
                         THEN LiteralValue(s.args[3]) ELSE Source(s, 3)>>

MoveSource(s) ==
    IF "result" \in ToSet(s.mods) THEN cell[Result]
    ELSE IF "exception" \in ToSet(s.mods) THEN cell[Exception]
    ELSE Source(s, 2)

InBounds(v) == IsInt(v) => v[2] \in -Bound .. Bound

-----------------------------------------------------------------------------
(* A step analyzes one instruction, and the program executes it.  A        *)
(* failing handler ends the analysis of the block.                         *)

Init ==
    /\ phase = "run"
    /\ \E s \in Starts :
          /\ frame = s.frame /\ input = s.frame
          /\ cell = s.cell /\ heap = s.heap
    /\ D = <<>> /\ I = <<>>
    /\ sites = {} /\ inplace = {} /\ blurred = {}
    /\ steps = 0 /\ blocks = 0

\* The state of the analyzer becomes x; new are the allocation sites executed,
\* weak the objects updated in place.
Commit(x, new, weak) ==
    /\ IF x.ok
       THEN frame' = x.frame /\ D' = x.D /\ I' = x.I /\ phase' = phase
       ELSE phase' = "error" /\ UNCHANGED <<frame, D, I>>
    /\ sites' = sites \cup new
    /\ inplace' = inplace \cup (weak \ {r.addr : r \in {q \in ToSet(I) : q.type = "store"}})
    /\ steps' = steps + 1
    /\ UNCHANGED <<input, blurred, blocks>>

\* the instruction pool, filled when the program is loaded
Pool == [i \in DOMAIN Code |-> Dalvik!Decode(Code[i])]

Ins(i) == Pool[i]

\* instruction i is next
Runs(i, opcode) ==
    /\ phase = "run" /\ steps < MaxSteps
    /\ Ins(i).opcode = opcode

Current == Analysis(frame, D, I)

\* a wide value leaves nothing to rely on in the second register
Assign(s, r, v) ==
    IF "wide" \in ToSet(s.mods) THEN [cell EXCEPT ![r] = v, ![Second(r)] = Lost]
    ELSE [cell EXCEPT ![r] = v]

StepMove(i) ==
    /\ Runs(i, "move")
    /\ Regidx(Ins(i).operands[1]) # Regidx(Ins(i).operands[2])
    /\ Commit(HandlerMove(Current, Ins(i)), {}, {})
    /\ cell' = Assign(Code[i], Dest(Code[i]), MoveSource(Code[i]))
    /\ UNCHANGED heap

\* the program has one string per instruction
StepConstString(i) ==
    /\ Runs(i, "const") /\ "string" \in ToSet(Code[i].mods)
    /\ SiteOf[i] \notin sites
    /\ Commit(HandlerConst(Current, Ins(i), SiteOf[i]), {SiteOf[i]}, {})
    /\ cell' = [cell EXCEPT ![Dest(Code[i])] = Object(SiteOf[i], 1)]
    /\ heap' = [heap EXCEPT ![SiteOf[i]] = <<Lost>>]

StepConst(i) ==
    /\ Runs(i, "const") /\ ToSet(Code[i].mods) \cap {"string", "class"} = {}
    /\ Commit(HandlerConst(Current, Ins(i), SiteOf[i]), {}, {})
    /\ cell' = Assign(Code[i], Dest(Code[i]), ConstValue(Code[i]))
    /\ UNCHANGED heap

\* const-class has no address
StepConstClass(i) ==
    /\ Runs(i, "const") /\ "class" \in ToSet(Code[i].mods)
    /\ Commit(HandlerConst(Current, Ins(i), SiteOf[i]), {}, {})
    /\ cell' = [cell EXCEPT ![Dest(Code[i])] = Lost]
    /\ UNCHANGED heap

StepCmp(i) ==
    /\ Runs(i, "cmp")
    /\ Commit(HandlerCmp(Current, Ins(i)), {}, {})
    /\ cell' = [cell EXCEPT ![Dest(Code[i])] =
                  CmpValue(Code[i], Source(Code[i], 2), Source(Code[i], 3))]
    /\ UNCHANGED heap

\* An instruction is in a block once.
StepNew(i) ==
    /\ Runs(i, "instance") /\ Code[i].op = "new"
    /\ SiteOf[i] \notin sites /\ Len(heap[SiteOf[i]]) < MaxObjects
    /\ Commit(HandlerInstance(Current, Ins(i), SiteOf[i]), {SiteOf[i]},
              {SiteOf[i]} \cap DOMAIN frame.store)
    /\ heap' = [heap EXCEPT ![SiteOf[i]] =
                  Append(@, IF SiteOf[i] \in blurred THEN Lost ELSE Int32(0))]
    /\ cell' = [cell EXCEPT ![Dest(Code[i])] =
                  Object(SiteOf[i], Len(heap[SiteOf[i]]) + 1)]

\* The program goes on if the register refers to an object with the field.
HasField(r) ==
    /\ cell[r][1] = "obj"
    /\ ObjectsIn(frame.cell[r]) \cap Strings = {}

StepGet(i) ==
    /\ Runs(i, "instance") /\ Code[i].op = "iget"
    /\ HasField(General(Code[i].args[2]))
    /\ Commit(HandlerInstance(Current, Ins(i), SiteOf[i]), {}, {})
    /\ LET o == Source(Code[i], 2)
       IN  cell' = [cell EXCEPT ![Dest(Code[i])] = heap[o[2]][o[3]]]
    /\ UNCHANGED heap

StepPut(i) ==
    /\ Runs(i, "instance") /\ Code[i].op = "iput"
    /\ HasField(General(Code[i].args[2]))
    /\ LET set == frame.cell[General(Code[i].args[2])]
           o == Source(Code[i], 2)
       IN  /\ Commit(HandlerInstance(Current, Ins(i), SiteOf[i]), {},
                     {b \in ObjectsIn(set) : Cardinality(set) # 1 \/ frame.store[b].freuse})
           /\ heap' = [heap EXCEPT ![o[2]][o[3]] =
                         IF o[2] \in blurred THEN Lost ELSE Source(Code[i], 1)]
    /\ UNCHANGED cell

StepSget(i) ==
    /\ Runs(i, "instance") /\ Code[i].op = "sget"
    /\ Commit(HandlerInstance(Current, Ins(i), SiteOf[i]), {}, {})
    /\ cell' = [cell EXCEPT ![Dest(Code[i])] = cell[Static(Code[i].args[3])]]
    /\ UNCHANGED heap

StepSput(i) ==
    /\ Runs(i, "instance") /\ Code[i].op = "sput"
    /\ Commit(HandlerInstance(Current, Ins(i), SiteOf[i]), {}, {})
    /\ cell' = [cell EXCEPT ![Static(Code[i].args[3])] = Source(Code[i], 1)]
    /\ UNCHANGED heap

StepInstanceOf(i) ==
    /\ Runs(i, "instance") /\ Code[i].op = "instance"
    /\ \E addr \in {<<"null", {}>>} \cup {Ref(o) : o \in DOMAIN frame.store} :
          Commit(HandlerInstanceOf(Current, Ins(i), addr), {}, {})
    /\ cell' = [cell EXCEPT ![Dest(Code[i])] = Lost]
    /\ UNCHANGED heap

StepUnop(i) ==
    /\ Runs(i, "unop")
    /\ Commit(HandlerUnop(Current, Ins(i)), {}, {})
    /\ cell' = [cell EXCEPT ![Dest(Code[i])] = UnopValue(Code[i], Source(Code[i], 2))]
    /\ UNCHANGED heap

StepBinop(i) ==
    /\ Runs(i, "binop")
    /\ Commit(HandlerBinop(Current, Ins(i)), {}, {})
    /\ \E v \in {BinopValue(Code[i], Operands(Code[i])[1], Operands(Code[i])[2])} :
          /\ InBounds(v)
          /\ cell' = [cell EXCEPT ![Dest(Code[i])] = v]
    /\ UNCHANGED heap

\* nop, monitor-enter and monitor-exit; other opcodes get a warning
StepIgnored(i) ==
    /\ phase = "run" /\ steps < MaxSteps
    /\ Ins(i).opcode \in {"nop", "monitor", "return", "throw", "check_cast", "array"}
    /\ Commit(Current, {}, {})
    /\ UNCHANGED <<cell, heap>>

\* The fields of the sites are no longer covered.
Blur(h, os) == [o \in Objects |-> IF o \in os THEN [k \in DOMAIN h[o] |-> Lost] ELSE h[o]]

\* The objects whose mark as standing for many is lost with frame g
LostMarks(g) == {o \in DOMAIN g.store : frame.store[o].freuse /\ ~g.store[o].freuse}

Advance(r) ==
    IF r.status = "ok"
    THEN /\ frame' = r.frame /\ input' = r.frame
         /\ D' = <<>> /\ I' = <<>>
         /\ sites' = {} /\ inplace' = {}
         /\ blurred' = blurred \cup LostMarks(r.frame)
         /\ heap' = Blur(heap, LostMarks(r.frame))
         /\ phase' = phase
    ELSE /\ phase' = r.status
         /\ UNCHANGED <<frame, input, D, I, sites, inplace, blurred, heap>>

\* The end of the loop over the block: the diff is made, and applied to the
\* frame of the next block.
EndBlock ==
    /\ phase = "run" /\ blocks < MaxBlocks /\ D # <<>>
    /\ Advance(ApplyDiff(input, FromBuffer(D, FALSE)))
    /\ blocks' = blocks + 1
    /\ UNCHANGED <<cell, steps>>

Next ==
    \/ \E i \in DOMAIN Code :
          \/ StepMove(i) \/ StepConstString(i) \/ StepConst(i) \/ StepConstClass(i)
          \/ StepCmp(i) \/ StepNew(i) \/ StepGet(i) \/ StepPut(i)
          \/ StepSget(i) \/ StepSput(i) \/ StepInstanceOf(i)
          \/ StepUnop(i) \/ StepBinop(i) \/ StepIgnored(i)
    \/ EndBlock

Spec == Init /\ [][Next]_vars

-----------------------------------------------------------------------------
(* Properties.                                                             *)

Addresses == {Number(s) : s \in SUBSET {"neg", "zero", "pos"}} \cup {Ref(o) : o \in Objects}

Slots == [reuse : BOOLEAN, val : SUBSET Addresses, freuse : BOOLEAN]

IsFrame(f) ==
    /\ DOMAIN f.cell = Cells /\ \A c \in Cells : f.cell[c] \subseteq Addresses
    /\ DOMAIN f.store \subseteq f.mapped /\ f.mapped \subseteq Objects
    /\ \A o \in DOMAIN f.store : f.store[o] \in Slots

\* Both frames are frames, and every reference in a frame is to an object that
\* is alive (cesk_frame.c: an object is freed when its counter drops to zero).
TypeOK ==
    /\ phase \in {"run", "error", "refused", "fault"}
    /\ IsFrame(frame) /\ IsFrame(input)
    /\ Referenced(frame, DOMAIN frame.store) \subseteq DOMAIN frame.store
    /\ Referenced(input, DOMAIN input.store) \subseteq DOMAIN input.store
    /\ sites \subseteq Objects /\ inplace \subseteq Objects /\ blurred \subseteq Objects
    /\ steps \in 0 .. MaxSteps /\ blocks \in 0 .. MaxBlocks

\* a value of the program and a set of the analyzer
Covers(set, v) ==
    CASE v = Lost   -> TRUE
      [] IsInt(v)   -> \E a \in set : a[1] = "const" /\ Arith!SignOf(v[2]) \in a[2]
      [] OTHER      -> Ref(v[2]) \in set /\ v[2] \in DOMAIN frame.store

\* the objects of the program that its registers and fields reach
ProgramReach ==
    LET objs(vs) == {v \in vs : v[1] = "obj"}
        reach[k \in 0 .. Cardinality(Objects)] ==
            objs({cell[c] : c \in Cells})
              \cup (IF k = 0 THEN {} ELSE objs({heap[v[2]][v[3]] : v \in reach[k - 1]}))
    IN  reach[Cardinality(Objects)]

\* The analysis is sound: every register, static field and field of a reachable
\* object holds a value that the set of the frame stands for, whatever the
\* order of instructions and at every block boundary, except for the values
\* the handlers are known to lose (cesk_block.c: the handlers; cesk_frame.c:
\* weak and strong updates).
CoveredExceptGaps ==
    phase = "run" =>
        /\ \A c \in Cells : Covers(frame.cell[c], cell[c])
        /\ \A v \in ProgramReach :
              v[2] \notin Strings => Covers(frame.store[v[2]].val, heap[v[2]][v[3]])

\* The cells and the living objects of two frames.  The mark of a field
\* (freuse) is left out: a diff that writes the field clears it, which is what
\* ReuseKept is about.
SameContents(f, g) ==
    /\ f.cell = g.cell /\ Reachable(f) = Reachable(g)
    /\ \A o \in Reachable(f) :
          f.store[o].val = g.store[o].val /\ f.store[o].reuse = g.store[o].reuse

Updated(buf) == {r.addr : r \in {q \in ToSet(buf) : q.type = "store"}}

\* the objects that the block dropped, those it allocated again included
Died ==
    {o \in DOMAIN input.store :
        o \notin DOMAIN frame.store \/ \E q \in ToSet(D) : q.type = "alloc" /\ q.addr = o}

\* The diff of a block carries the frame it started with to the frame it ended
\* with.  Two kinds of blocks have no usable diff: one that allocates an object
\* its allocation table already maps, and one that updates an object and then
\* drops it (cesk_diff_from_buffer and cesk_frame_apply_diff).
DiffExact ==
    phase = "run" =>
        LET r == ApplyDiff(input, FromBuffer(D, FALSE))
        IN  \/ r.status = "ok" /\ SameContents(r.frame, frame)
            \/ /\ r.status = "refused"
               /\ \E q \in ToSet(D) : q.type = "alloc" /\ q.addr \in input.mapped
            \/ r.status = "fault" /\ Updated(D) \cap Died # {}

\* The inverse diff takes the frame a block ended with back to the one it
\* started with.  The values of objects that were updated in place stay too
\* large; an object that died is not brought back (cesk_frame.c: the inverse
\* snapshots; cesk_diff_from_buffer with a reverse buffer).
InverseExactExceptGaps ==
    phase = "run" =>
        LET r == ApplyDiff(frame, FromBuffer(I, TRUE))
        IN  \/ /\ r.status = "ok" /\ r.frame.cell = input.cell
               /\ \A o \in Reachable(input) \ Died :
                     /\ input.store[o].val \subseteq r.frame.store[o].val
                     /\ o \notin inplace => input.store[o].val = r.frame.store[o].val
            \/ r.status = "fault" /\ Updated(I) \cap Died # {}

\* An object that stands for many objects of the program is never overwritten:
\* "this address is used by mutliple objects, so we can not discard old value"
\* (cesk_frame.c).  The successor's frame must therefore keep the marks.
ReuseKept ==
    phase = "run" =>
        LET r == ApplyDiff(input, FromBuffer(D, FALSE))
        IN  r.status = "ok" => LostMarks(r.frame) = {}
=============================================================================
