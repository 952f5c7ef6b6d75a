------------------------------ MODULE CeskMethod ------------------------------
(***************************************************************************)
(* The method analyzer (src/src/cesk/cesk_method.c): the work list that    *)
(* carries frames around the block graph of one method until nothing       *)
(* changes, and the result it forwards to the caller.                      *)
(*                                                                         *)
(* The analyzer does not keep the input frame of a block.  It keeps, for   *)
(* every branch, the frame at the end of the branch, and moves it by       *)
(* diffs: the inverse diff of the last execution takes it back to the last *)
(* input, the input diff of the block on to the next one.  A diff is a     *)
(* partial function on locations (the register and the store section of    *)
(* cesk_diff.c, whose records replace the value at a location); a location *)
(* is a register, a static field or a cell of an object that exists when   *)
(* the method is called.                                                   *)
(*                                                                         *)
(* One behaviour analyzes one program out of Programs.  A program is       *)
(*   frame  : the frame of the call                                        *)
(*   blocks : a sequence of records; block 1 is the entry, code its        *)
(*            instructions, next the targets of its branches, and a block  *)
(*            without branches returns the register ret (dalvik_block.c    *)
(*            gives a return instruction a block of its own).              *)
(***************************************************************************)
EXTENDS Integers, FiniteSets, Sequences, Functions

CONSTANTS
  Loc,        \* the locations of a frame
  Outer,      \* those that outlive the call (static fields and cells of
              \* objects), whose records a method forwards
  Val,        \* the addresses a location may hold
  Unop,       \* the effect of a unary instruction on an address
  Programs,   \* the programs to analyze
  MaxBlocks,  \* CESK_METHOD_MAX_NBLOCKS, the size of the queue
  MaxRear     \* bound: the queue positions handed out

Frame == [Loc -> SUBSET Val]
Instruction ==
  [op : {"const", "move", "unop", "weak"}, dst : Loc, src : Loc, val : Val]
Block == [code : Seq(Instruction), next : Seq(Nat), ret : Loc]

ASSUME MethodAssumption ==
  /\ IsFiniteSet(Loc) /\ Outer \subseteq Loc
  /\ Unop \in [Val -> Val]
  /\ MaxBlocks \in Nat \ {0}
  /\ MaxRear \in Nat \ {0}

ASSUME ProgramAssumption ==
  \A p \in Programs :
    /\ p.frame \in Frame
    /\ p.blocks \in Seq(Block) /\ Len(p.blocks) \in 1 .. MaxBlocks
    /\ \A b \in DOMAIN p.blocks : Range(p.blocks[b].next) \subseteq DOMAIN p.blocks

VARIABLES
  prog,    \* the program under analysis
  Q,       \* the queue of block numbers, a ring of MaxBlocks entries
  front,   \* the position of the next block to take from it
  rear,    \* the next free position
  block,   \* block[b]: the context of block b
  input,   \* input[e]: the context of branch e, an input of its target
  at,      \* the branch the analyzer is at, or <<>> between two blocks
  result,  \* the forwarded result, or NoResult
  missed   \* history: branches skipped although their frame has changed

vars == <<prog, Q, front, rear, block, input, at, result, missed>>

Diff == UNION {[D -> SUBSET Val] : D \in SUBSET Loc}
Empty == [l \in {} |-> {}]

(***************************************************************************)
(* cesk_diff_apply: one diff after another, the later record wins; and     *)
(* cesk_frame_apply_diff: a frame changed by a diff.                       *)
(***************************************************************************)
Then(d, e) ==
  [l \in DOMAIN d \cup DOMAIN e |-> IF l \in DOMAIN e THEN e[l] ELSE d[l]]

Apply(f, d) == Then(f, d)

(* cesk_diff_factorize: where any of the diffs has a record, the values of *)
(* all current frames merged                                               *)
Factorize(diffs, frames) ==
  [l \in UNION {DOMAIN d : d \in diffs} |-> UNION {f[l] : f \in frames}]

(***************************************************************************)
(* The block graph.  _cesk_method_explore_code finds the blocks that can   *)
(* be reached from the entry, the least set that holds the entry and the   *)
(* targets of its members; a branch <<b, j>> is the j-th way out of b.     *)
(***************************************************************************)
Next(b) == prog.blocks[b].next
Target(e) == Next(e[1])[e[2]]
IsReturn(b) == Next(b) = <<>>

Closed(S) == 1 \in S /\ \A b \in S : Range(Next(b)) \subseteq S
Explored ==
  {b \in DOMAIN prog.blocks :
     \A S \in SUBSET DOMAIN prog.blocks : Closed(S) => b \in S}

Branches == UNION {{b} \X (1 .. Len(Next(b))) : b \in Explored}
Inputs(b) == {e \in DOMAIN input : Target(e) = b}

(***************************************************************************)
(* cesk_block_analyze on a frame: the handlers of a few instructions that  *)
(* stand for the ways to write a location.  Every write leaves a record in *)
(* the diff and one with the value before the block in the inverse.        *)
(***************************************************************************)
Effect(f, i) ==
  [f EXCEPT ![i.dst] =
     CASE i.op = "const" -> {i.val}
       [] i.op = "move"  -> f[i.src]
       [] i.op = "unop"  -> {Unop[v] : v \in f[i.src]}
       [] i.op = "weak"  -> @ \cup f[i.src]]

Execute(b, f) ==
  LET code == prog.blocks[b].code
      run[k \in 0 .. Len(code)] == IF k = 0 THEN f ELSE Effect(run[k - 1], code[k])
  IN  run[Len(code)]
Written(b) == {prog.blocks[b].code[k].dst : k \in DOMAIN prog.blocks[b].code}
On(f, D) == [l \in D |-> f[l]]

(***************************************************************************)
(* _cesk_method_compute_next_input: every input that has changed since the *)
(* block was analyzed last gives the diff of its two last outputs; the     *)
(* others give an empty diff, and all of them their frame.  (cesk_diff_sub *)
(* only touches the allocation sections.)                                  *)
(***************************************************************************)
(* Mutant: an input analyzed at the same queue length counts as old *)
StaleWhenEqual(b, e) == block[b].timestamp >= block[e[1]].timestamp

Stale(b, e) == block[b].timestamp > block[e[1]].timestamp

Term(b, e) ==
  IF Stale(b, e) THEN Empty
  ELSE Then(Then(input[e].prv_inversion, block[e[1]].input_diff), input[e].cur_diff)

NextInput(b) ==
  Factorize({Term(b, e) : e \in Inputs(b)}, {input[e].frame : e \in Inputs(b)})

(***************************************************************************)
(* _cesk_method_compute_branch_frame: take the frame of the branch back to *)
(* the last input and on to the next, and count the changes.  The count of *)
(* cesk_frame_apply_diff is relative to the last output (a);               *)
(* cesk_diff_correct_modified_object_number is to make it relative to the  *)
(* last input (b).  The branch constraint is always empty.                 *)
(***************************************************************************)
BranchDiff(e) == Then(input[e].cur_inversion, block[e[1]].input_diff)
BranchFrame(e) == Apply(input[e].frame, BranchDiff(e))

(* The records cesk_diff_correct_modified_object_number adds and takes away *)
Gained(i, f) ==
  {l \in DOMAIN i.cur_inversion : i.cur_diff[l] # f[l] /\ i.cur_inversion[l] = f[l]}
Lost(i, f) ==
  {l \in DOMAIN i.cur_inversion : i.cur_diff[l] = f[l] /\ i.cur_inversion[l] # f[l]}

(* Mutant: the count takes every record of the diff for a change *)
ModifiedByRecords(e) ==
  LET f == BranchFrame(e)
  IN  Cardinality(DOMAIN BranchDiff(e))
        + Cardinality(Gained(input[e], f)) - Cardinality(Lost(input[e], f))

Modified(e) ==
  LET f == BranchFrame(e)
      changed == {l \in DOMAIN BranchDiff(e) : input[e].frame[l] # f[l]}
  IN  Cardinality(changed)
        + Cardinality(Gained(input[e], f)) - Cardinality(Lost(input[e], f))

-----------------------------------------------------------------------------

NoResult == [l \in {"none"} |-> {}]

(* _cesk_method_context_new and the start of cesk_method_analyze *)
NewBlock == [timestamp |-> 0, queue_position |-> 0, input_diff |-> Empty,
             result_diff |-> Empty]
NewInput(f) == [visited |-> FALSE, frame |-> f, prv_inversion |-> Empty,
                cur_diff |-> Empty, cur_inversion |-> Empty]

Init ==
  /\ prog \in Programs
  /\ Q = [k \in 0 .. MaxBlocks - 1 |-> 1]
  /\ front = 0
  /\ rear = 1
  /\ block = [b \in Explored |-> NewBlock]
  /\ input = [e \in Branches |-> NewInput(prog.frame)]
  /\ at = <<>>
  /\ result = NoResult
  /\ missed = {}

(* Mutant: the loop over the branches runs one too far *)
AfterInclusive(e) ==
  IF e[2] <= Len(Next(e[1])) THEN <<e[1], e[2] + 1>> ELSE <<>>

(* The branch after e, or none when e is the last one of its block *)
After(e) == IF e[2] < Len(Next(e[1])) THEN <<e[1], e[2] + 1>> ELSE <<>>

(* Take the next block from the queue and compute its input diff *)
Dequeue ==
  /\ at = <<>> /\ front < rear
  /\ LET b == Q[front % MaxBlocks]
     IN  /\ block' = [block EXCEPT ![b].input_diff = NextInput(b),
                                   ![b].timestamp = rear]
         /\ at' = <<b, 1>>
  /\ front' = front + 1
  /\ UNCHANGED <<prog, Q, rear, input, result, missed>>

(* A return branch adds the input diff to the result of its block *)
ReturnBranch ==
  /\ at # <<>> /\ IsReturn(at[1])
  /\ block' = [block EXCEPT ![at[1]].result_diff = Then(@, block[at[1]].input_diff)]
  /\ at' = <<>>
  /\ UNCHANGED <<prog, Q, front, rear, input, result, missed>>

(* A branch that counts no change is skipped, with its frame moved *)
SkipBranch ==
  /\ at # <<>> /\ ~ IsReturn(at[1])
  /\ input[at].visited /\ Modified(at) = 0
  /\ input' = [input EXCEPT ![at].frame = BranchFrame(at)]
  /\ missed' = IF BranchFrame(at) # input[at].frame THEN missed \cup {at} ELSE missed
  /\ at' = After(at)
  /\ UNCHANGED <<prog, Q, front, rear, block, result>>

(* Mutant: the inverse of the last execution is not replaced *)
RanOldInverse(e, f) ==
  LET out == Execute(e[1], f)
  IN  [input[e] EXCEPT !.visited = TRUE, !.frame = out,
                       !.prv_inversion = input[e].cur_inversion,
                       !.cur_diff = On(out, Written(e[1]))]

(* The input context of a branch after the block has run on frame f *)
Ran(e, f) ==
  LET b == e[1]
      out == Execute(b, f)
  IN  [visited |-> TRUE, frame |-> out,
       prv_inversion |-> input[e].cur_inversion,
       cur_diff |-> On(out, Written(b)),
       cur_inversion |-> On(f, Written(b))]

(* Mutant: the block at the head of the queue counts as taken *)
QueuedBehindHead(b) == block[b].queue_position > front

(* Is block b in the queue, by its last position? *)
Queued(b) == block[b].queue_position >= front

(* Run the block on the frame of the branch and queue the target *)
RunBranch ==
  /\ at # <<>> /\ ~ IsReturn(at[1])
  /\ ~ (input[at].visited /\ Modified(at) = 0)
  /\ input' = [input EXCEPT ![at] = Ran(at, BranchFrame(at))]
  /\ IF Queued(Target(at))
     THEN UNCHANGED <<Q, rear, block>>
     ELSE /\ rear < MaxRear
          /\ Q' = [Q EXCEPT ![rear % MaxBlocks] = Target(at)]
          /\ block' = [block EXCEPT ![Target(at)].queue_position = rear]
          /\ rear' = rear + 1
  /\ at' = After(at)
  /\ UNCHANGED <<prog, front, result, missed>>

(***************************************************************************)
(* _cesk_method_return for every return block: the records of static       *)
(* fields and of the store, and that of the returned register, merged.     *)
(***************************************************************************)
Returns == {b \in DOMAIN block : IsReturn(b)}
Record(b, l) ==
  IF l = "result"
  THEN IF prog.blocks[b].ret \in DOMAIN block[b].result_diff
       THEN {block[b].result_diff[prog.blocks[b].ret]} ELSE {}
  ELSE IF l \in DOMAIN block[b].result_diff THEN {block[b].result_diff[l]} ELSE {}
Records(l) == UNION {Record(b, l) : b \in Returns}

Forwarded ==
  [l \in {m \in Outer \cup {"result"} : Records(m) # {}} |-> UNION Records(l)]

Finish ==
  /\ at = <<>> /\ front = rear /\ result = NoResult
  /\ result' = Forwarded
  /\ UNCHANGED <<prog, Q, front, rear, block, input, at, missed>>

Step == Dequeue \/ ReturnBranch \/ SkipBranch \/ RunBranch \/ Finish
Spec == Init /\ [][Step]_vars /\ WF_vars(Step)

Done == result # NoResult

-----------------------------------------------------------------------------
(***************************************************************************)
(* Properties.                                                             *)
(***************************************************************************)
(* The input frame of a block: where the inverse diff of a branch leads,   *)
(* or the accumulated diff of a return block                               *)
InputOf(b) ==
  IF IsReturn(b) THEN Apply(prog.frame, block[b].result_diff)
  ELSE Apply(input[<<b, 1>>].frame, input[<<b, 1>>].cur_inversion)

(* Frame f allows every value that frame g allows *)
Covers(f, g) == \A l \in Loc : g[l] \subseteq f[l]

(* The contexts have the shape of _cesk_method_context_t, and the analyzer *)
(* is between two blocks or at a branch of a block it has explored         *)
TypeOK ==
  /\ Q \in [0 .. MaxBlocks - 1 -> DOMAIN block]
  /\ front \in 0 .. rear /\ rear \in 1 .. MaxRear
  /\ block \in [DOMAIN block -> [timestamp : 0 .. rear, queue_position : 0 .. rear,
                                 input_diff : Diff, result_diff : Diff]]
  /\ input \in [DOMAIN input -> [visited : BOOLEAN, frame : Frame, prv_inversion : Diff,
                                 cur_diff : Diff, cur_inversion : Diff]]
  /\ at \in {<<>>} \cup DOMAIN input \cup {<<b, 1>> : b \in Returns}

(* The queue holds no block twice, so the ring of CESK_METHOD_MAX_NBLOCKS  *)
(* entries never overwrites a waiting block, and queue_position, which     *)
(* outlives the block's stay in the queue, tells where it is: a block that *)
(* waits does so exactly at that position (cesk_method.c, the test         *)
(* target_qp < context->front)                                             *)
QueueExact ==
  /\ rear - front <= MaxBlocks
  /\ \A i \in front .. rear - 1 : block[Q[i % MaxBlocks]].queue_position = i

(* As long as no changed branch was skipped, the inverse diff kept with a  *)
(* branch leads from its frame to an input on which the block gives that   *)
(* frame again: what _cesk_method_compute_branch_frame relies on when it   *)
(* rewinds the branch instead of keeping its input                         *)
InverseExact ==
  missed = {} =>
    \A e \in DOMAIN input :
      input[e].visited =>
        Execute(e[1], Apply(input[e].frame, input[e].cur_inversion)) = input[e].frame

(* As long as no changed branch was skipped, a block that does not wait in *)
(* the queue was last analyzed with an input that covers the output of     *)
(* every branch into it: neither the timestamps, nor the diff of the two   *)
(* last outputs, nor merging only where a diff has a record loses a value  *)
(* (_cesk_method_compute_next_input)                                       *)
NoChangeMissed ==
  missed = {} /\ at = <<>> =>
    \A e \in DOMAIN input :
      input[e].visited /\ ~ Queued(Target(e)) => Covers(InputOf(Target(e)), input[e].frame)

(* Every cycle of the method has a block that writes nothing               *)
SilentCycles ==
  \A S \in SUBSET {b \in DOMAIN block : Written(b) # {}} :
    S # {} => \E b \in S : Range(Next(b)) \cap S = {}

(* The loop of cesk_method_analyze ends on every method in which no cycle  *)
(* consists of writing blocks only.  (On the others it need not: a block   *)
(* that writes what it does not restore is counted as changed forever.)    *)
Terminates == SilentCycles ~> Done

(* When the analyzer stops, the input of every block covers all branches   *)
(* into it: "if nothing has been changed, it's a fix point"                *)
FixpointSound ==
  Done => \A e \in DOMAIN input : Covers(InputOf(Target(e)), input[e].frame)

(* The result a method forwards lets the caller see every value that the   *)
(* returned register and the static fields may have at a return.  It fails *)
(* for a register that no block of the method writes.                      *)
ResultComplete ==
  LET forwarded(l, f) == IF l \in DOMAIN result THEN result[l] ELSE f
  IN  Done /\ missed = {} =>
        \A b \in Returns :
          /\ InputOf(b)[prog.blocks[b].ret] \subseteq forwarded("result", {})
          /\ \A l \in Outer : InputOf(b)[l] \subseteq forwarded(l, prog.frame[l])
=============================================================================
