# A verification project for ADAM

ADAM is a static analyzer for Dalvik byte code. It reads a program as
s-expressions, cuts every method into a graph of basic blocks, and interprets the
graph abstractly on a CESK machine: control, environment, store, continuation.
This directory has TLA+ modules for the core of that machine and for the front
end that builds its graphs, TLC configurations that check them on small instances,
and theorems about sets, arithmetic, the store, the static fields, the method analyzer
and the front end with proofs that TLAPS checks.

All paths below are relative to the root of the repository; the sources are in
`src/src` and `src/include`.

## The system: inventory

| Component | Sources | State | Operations | Model |
|---|---|---|---|---|
| Abstract value sets | `cesk/cesk_set.c` | one global hash table: an info node per set index, a data node per (index, address), element lists, counts, hash codes | empty, fork, free, push, merge, modify, merge and assign tags, equal, iterate | `CeskSet`, `SetValues` |
| Abstract arithmetic | `include/cesk/cesk_arithmetic.h`, handlers in `cesk/cesk_block.c` | the sign bits of a constant address | neg, add, sub, mul, div, and, or, xor, comparisons | `CeskArithmetic` |
| Virtual store | `cesk/cesk_store.c`, `cesk/cesk_value.c` | stores, shared blocks of slots, shared values; counts, hash code, relocation and reuse bits | fork, free, allocate, attach, get/release a writable pointer, incref/decref, apply the allocation table, compact | `CeskStore` |
| Stack frame | `cesk/cesk_frame.c` | registers, store, static fields | new, fork, invoke, collect, load, new object, get/put field, apply a diff | `CeskStore` (what changes the store), `CeskBlock` (registers, fields and diffs), `CeskStatic` (static fields) |
| Diffs | `cesk/cesk_diff.c` | sorted records in five sections | append, build from a buffer, apply, factorize, sub, collect, correct the count | `CeskBlock`, `CeskMethod`, `CeskStore` (parts) |
| Method analyzer | `cesk/cesk_method.c` | work list, block and branch contexts, cache of invocation contexts | explore, next input, branch frame, return, analyze | `CeskMethod` (one call) |
| Block analyzer | `cesk/cesk_block.c` | diff and inverse buffers | one handler per instruction, invoke | `CeskBlock` (all but invoke), `CeskArithmetic` (numbers) |
| Relocation and allocation tables | `cesk/cesk_reloc.c`, `cesk/cesk_alloctab.c` | relocated addresses of a closure, the addresses they get in a store | allocate, insert, query | `CeskBlock`, `CeskStore` (parts) |
| Static fields | `cesk/cesk_static.c` | copy-on-write segment tree of sets, flags, hash code | query, fork, read, write, iterate, compare | `CeskStatic` |
| Objects | `cesk/cesk_object.c` | member tables | read, modify, compare | `CeskBlock` (one field per object) |
| Dalvik front end | `dalvik/` | instruction pool, label table, member dictionary, block graphs and their cache | parse, decode, link, build and look up a graph | `DalvikMethod`, `DalvikInstruction`, `DalvikBlock` |
| Built-in classes | `bci/`, `builtins/` | private data of built-in classes | merge, equal, modify, read | not modelled |
| Tags | `tag/` | tag sets and the transaction tracker | merge, begin/close a transaction | not modelled |
| Utilities | `stringpool.c`, `vector.c`, `sexp.c`, `log.c` | interned strings, arrays | query, append | not modelled |
| Tools | `tools/` | command line | - | not modelled |

How they interact. The front end reads classes into one pool of instructions and
builds the block graph of a method when it is first called. The method analyzer takes a block from its queue, computes
the input of the block as a diff from the outputs of the branches into it, moves
the frame of every outgoing branch by diffs and runs the block analyzer on it.
The instruction handlers change the frame through `cesk_frame.c`, which changes
registers (sets) and the store, and write every change to a diff buffer and to an
inverse buffer. A call goes back into the method analyzer with a new frame whose
store shares its blocks with the caller's.  Results come back as a diff. There are
no threads: what makes the program hard is *sharing* (set indices, store blocks,
values and diffs are all copy-on-write and reference counted, at several levels),
*caches* (incremental hash codes, entity and relocation counters, sizes) that
every path has to keep, *rewinding* (frames are moved backwards and forwards by
diffs rather than stored), and a *fixed point* that must be reached and must be
one.

What makes each component correct:

- sets: sharing is invisible (each handle is a set of its own), counts are exact,
  the empty-set singleton stays empty, no relocated address is missed;
- arithmetic: the abstract value covers every number the program can have;
- store: sharing is invisible, counts and hash codes are what a recount gives,
  nothing reachable is freed, relocation skips nothing;
- static fields: a table shows what was written through it, counts and hash codes
  are exact, iteration skips nothing, the flags lead to every relocated address;
- block analyzer: the frame covers the running program at every instruction, the
  diff carries the input frame to the output frame and the inverse takes it back;
- front end: handlers and labels are those of the text, a graph goes where the code
  goes, pruning keeps exactly the linked blocks, a lookup finds the right graph;
- method analyzer: no block waits twice, the inverse belongs to the frame, no
  change is lost, the loop ends, the result covers what the method returns.

`PROJECT.json` lists the hazards of the code one by one, with the line and the
property that covers each, or the reason why none does yet.

## Modules

### CeskSet, SetValues, CeskSetProofs

`CeskSet` is `cesk_set.c`. `handle[h]` is the index a `cesk_set_t` holds;
`set[i]` is the info node of index `i` with its data nodes. The hash table
(`node`), the element list (`list`) and the back pointers that are set (`linked`)
are separate, because the code keeps them separately: push and merge do not set the
back pointer of the node they push down, and `cesk_set_modify` relies on it
when it deletes a node. One action per exported function that changes
something. A hash code is the set of its XOR summands; a tag set is a set of tags.

`SetValues` is the promise of `cesk_set.h`: every handle has a set and tags of
its own. `ValueSemantics` says that `CeskSet` implements it, with
`val[h]` the members and tags a client can observe.

### CeskArithmetic, CeskArithmeticProofs

A machine that executes each instruction on the program's numbers (`val`) and on
the analyzer's constant addresses (`abs`) at once. The actions are the handlers
of const, move, unary, binary and comparison instructions; an address is the set
of signs its low bits allow. `Ops` selects the instructions a program may use. The
program's `and`, `or` and `xor` work on the bits of any numbers, in two's complement,
as those of Dalvik do; the handler computes them with the truth tables
`cesk_arithmetic_and`, `_or` and `_xor`. The comparison and bitwise functions of
`cesk_arithmetic.h` that no handler calls (`gt`, `ge`, `eq`, and the `bitwise_*` that
connectives of ints would need) have no model.

### CeskStore, CeskStoreProofs

`mem` has the stores, blocks and values; `root[s]` is the bag of addresses in the
registers of the frame of store `s`; `held` is the set of diff records that keep
a reference to a value. The functions of `cesk_store.c` are operators on a
memory, composed in the order of the calls; the actions are the handlers of
`cesk_frame.c`, each whole: forking, invoking, loading and dropping registers,
allocation, weak and strong field updates with or without diff buffers, applying
records, collecting. A value is the set of the addresses in it.

Two constants open paths of the code that break the invariants: `DupArgs`, a
method called with the same object as two arguments (`cesk_frame.c:195` does not
count the registers of the callee), and `ConstParam`,
allocations by const instructions, whose second execution returns with the
writable pointer still taken (`cesk_frame.c:1690`). The passing runs leave both
off; their results are about all the other paths.

### CeskMethod, CeskMethodProofs

The loop of `cesk_method_analyze` for one call. `prog` is the method under
analysis: one behaviour per member of `Programs`. `block[b]` and `input[e]` are
`_cesk_method_block_context_t` and `_cesk_method_block_input_t`; the queue is
the ring `Q` with `front` and `rear`. The steps of the loop are actions:
`Dequeue` (take a block, compute its next input), then for each branch one of
`ReturnBranch`, `SkipBranch` (no change counted) and `RunBranch` (rewind, move on,
run the block, queue the target), and `Finish` (forward the results). A diff is
a partial function on locations: the register and store sections of
`cesk_diff.c`, whose records replace a value. Blocks contain four kinds of
instruction that stand for the ways to write: a constant, a copy, a
function of another location, and a weak update. `missed` is a history variable:
the branches that were skipped although their frame had changed.

Left out: allocation, reuse and deallocation sections, the cache of invocation
contexts, recursion, tags and the error exits.

### DalvikInstruction, CeskBlock

`DalvikInstruction` is the decoder of `dalvik_instruction.c`: `Decode` maps an
S-expression (an operation, its modifiers, its arguments) to an instruction with
its operands, or to `Invalid`. A literal is a pair of words, so that what the code does
to the high word can be seen.

`CeskBlock` is `cesk_block_analyze` with the frame operations under it. The
block is executed twice at once: `cell` and `heap` are a running program that
follows the S-expressions, `frame` is the analyzer that follows the decoded
instructions. `D` and `I` are the diff and inverse buffers; `FromBuffer` sorts,
keeps one record per address and collects, `ApplyDiff` is `cesk_frame_apply_diff`
with its outcomes `ok`, `refused` (an error is returned) and `fault` (a null pointer
is followed). One action per kind of instruction runs the decoder's result through
its handler; `EndBlock` makes the frame of the next block from the input frame and
the diff, as `_cesk_method_compute_branch_frame` of `cesk_method.c` does. The history variables `inplace` and `blurred`
name the objects whose inverse, or whose mark as standing for many objects, is known
to be lost, so that the properties hold everywhere else.

What is simplified: an object has one field; an object and its field live and die
together; reference counts are exact and their consequence, `Sweep`, is computed;
`cesk_diff_from_buffer` runs without merging. The inverse diff is applied alone,
as a check of what it means; the program composes it with other diffs first.
A program value the handlers are known not to cover (the second word of a pair, a
`not` of 0, a literal with a high word, the result of `instance-of`) is `Lost`, and
so is what is computed from it.

### CeskStatic, CeskStaticProofs, CeskStaticFlagProofs

`heap` has the nodes of the segment trees, `root` and `hash` are a
`cesk_static_table_t`. Trees share nodes, a write copies the shared part of one path
(`PrepareToWrite`), and a read may insert. The actions are the callers in
`cesk_frame.c` and `cesk_block.c`: sget and sput, an sput to a field whose literal
has no parser, a register record of a diff, fork, the frame of a callee with its
loop over the relocated fields, and free. `view` is what was last written, `stale`
says that a flag was lost on one of the three ways that lose it: a read that creates a
field copies nodes without their flags, an sput gets its flag from a function that
always answers zero, and a diff passes the number of relocated addresses
(`cesk_set_get_reloc`) for a flag of one bit, so that an even number clears it.

### DalvikMethod, DalvikBlock, DalvikBlockProofs

`DalvikMethod` reads a class statement by statement: `pool`, `jump` (the label
table), `stack` (labels that wait for an instruction), `catches` and `ehset` (the
handlers and those in force). The error exits are actions; what a rejected class
leaves in the pool and the tables stays there, as in the code. `DalvikBlock` adds
`dalvik_block_from_method`: the keys, the graph, the links, the pruning and the
cache, with the calls that build nothing, find nothing or leave the pool.

`GraphFaithful` compares the graph with a definition of the straight pieces of a
method read off its text (`Starts`), and not with the keys: every block is such a
piece, its branches lead exactly to the begins where its last instruction goes on
(`Following`), and its exception branches exactly to the starts of the pieces that its
handlers lie in (`Caught`). Three departures from what the program does are part of the
definition, by name: the default of a packed switch is lost (`PackedDefault`); a throw
has no case of its own and goes on to the next instruction (`PastThrow`, and inside a
block when it has no handler); the label of a handler is not pushed as a key, so that a
handler in the middle of a piece is entered at the start of the piece, and the
instructions before the handler are analyzed as if the exception led to them.

### InductionLemmas

What the proofs of several modules need and the library does not have in a form the
provers can use: a set of naturals has a least member (`LeastMember`), and from it
induction over a set (`SetInduction`), the existence of an iteration, without which a
recursive function is not known to satisfy its own equation (`Iteration`), and
the places of a ring buffer (`RingPlaces`).

## What TLC checks

| Run | Module | Checks | Result |
|---|---|---|---|
| `set_cow` | MCCeskSet | types, exact reference counts, intact empty set, relocation count, isolation; colliding `cesk_set_modify` allowed | holds |
| `set_values` | MCCeskSet | table, list, size and hash agree; `cesk_set_equal` is exact but for stale tags; refinement of `SetValues`; no colliding `cesk_set_modify` | holds |
| `arith` | MCCeskArithmetic | types; every step keeps covered registers covered, except the cases `KnownGap` names | holds |
| `store_cow` | MCCeskStore | counts, hash codes, entity counters, liveness of reachable slots, isolation for two frames over a shared block | holds |
| `store_gc` | MCCeskStore | cascading release, collection and compaction over three blocks, cycles included | holds |
| `store_reloc` | MCCeskStore | relocated addresses, the allocation table, diff records and reuse bits | holds |
| `method` | MCCeskMethod | types, queue, inverses, no lost change, termination, over 5832 methods | holds |
| `method_skip` | MCCeskMethod | the state in which the analysis stops is a fixed point | violated |
| `blocks` | MCDalvikBlock | handler ranges and labels, faithful graphs, exact pruning, lookups, over all bodies of four instructions and the error exits | holds |
| `instr` | MCCeskBlock | living references, coverage of the running program, diff and inverse, over all sequences of four instructions cut into at most two blocks | holds |
| `block_reuse` | MCCeskBlock | the next block keeps the marks of addresses that stand for many objects | violated |
| `statics` | MCCeskStatic | types, counts, isolation of tables, hash code, iteration, relocated flags | holds |

`MCCeskBlock` also evaluates the decoder on an instruction of every other form
(`DecoderAssumption`) and at the limits of invoke (`InvokeAssumption`).

Every property of a passing run has a mutant of the model, a plausible slip in
the code, under which TLC finds it violated (`PROJECT.json`, "mutants"; the
mutated forms stand before the definitions they mutate, marked "Mutant").

### The two violations

- `method_skip`: `cesk_diff_correct_modified_object_number` adds where it should
  subtract and the reverse. Two changes then cancel to zero, and a branch whose
  input has changed is skipped. The same line makes a cycle of writing blocks run
  for ever (a do-while loop over one counter never settles), which is why
  `Terminates` asks for a block that writes nothing in every cycle.
- `block_reuse`: a diff applies its reuse section before its store section, and
  `cesk_store_attach` clears the flag again. `doc/diffagl.txt:66` has the other
  order: "Then we modify the value of the register and the store. After this we
  can set the reuse flag". A block of a loop that allocates an object again and
  writes its field leaves the next block an address without its mark, and the next
  write there discards what the other objects hold.

### Properties that do not hold

The modules state more properties that a comment, a test or a contract of the code
suggests, and that fail. They have no run of their own; to see the counterexample,
add the name to the configuration:

- `IterationComplete` in `set_cow.cfg`: after a colliding `cesk_set_modify` the
  list loses elements that are in the table, because `cesk_set_push` and
  `cesk_set_merge` leave `prev` unset.
- `Sound` in `arith.cfg`: a wide comparison of equal numbers loses the outcome zero, a
  division the zero it truncates to, and a connective is computed on truth values:
  `1 & 2` is 0 and is taken for positive, `1 ^ 2` is 3 and is taken for zero, and a
  negative operand has no entry in the tables. `KnownGap` lists the cases.
- `CountsCover` in `store_cow.cfg` with `DupArgs = TRUE` and `MaxRegs = 2`: a callee's store counts one
  reference for two equal arguments, and the object dies when one of the registers
  is overwritten.
- `ResultComplete` in `method.cfg` with `Programs <- Arms`: a register no block of the method writes, for
  example an argument returned as it is, has no record and so gives no result.
- `RelocFlagExact` in `statics.cfg`: after an sput of a relocated address the flag
  is not set, because `_cesk_frame_set_ref` always returns zero.
- `DiffSetsFlag` in `statics.cfg`: a diff that stores a value with two relocated
  addresses clears the flag, because their number goes into a field of one bit
  (`cesk_frame.c:891`, `cesk_static.c:701`).
- `EqualWhenSame` in `statics.cfg`: a table with a written field is not equal to its
  fork, because the right iterator does not advance after a match.
- `NoPathLost` in `blocks.cfg`: the default branch of a packed switch keeps its `eq`
  bit and is taken for a return.
- `HandlersEntered` in `blocks.cfg`: an exception leads to a block that does not begin
  with its handler, although "a instruction that is not the first instruction of a code
  block can not be the target of any jump" (`dalvik_block.h:12-14`).

Met while modelling and inside the stated gaps: `cesk_set_size` stays
too high after a colliding modify; `cesk_set_assign_tags` leaves the hash code, so that
sets with equal elements and tags may compare as different (the exception in `EqualExact`);
`cesk_store_allocate` writes a slot parameter to a shared block; a value that
dies with relocated addresses leaves `num_reloc` too high, and the next call of
the frame fails; a weak field update changes the value that its own inverse
record holds; a block that updates an object and drops it has a diff that cannot be
applied, as has one that allocates where the allocation table still maps an object
that died.

### Bounds, and why they are enough

- Sets: two handles, three addresses (one relocated), four indices. Sharing needs
  two handles; a deletion from the middle of a list needs three elements. Indices
  are never reused in the code, so four give every handle one fresh copy and a
  second one after it. `MaxSize` bounds `info->size`, which a collision leaves too
  high.
- Arithmetic: two registers, literals of every sign, numbers in -4..4; the next
  state depends on signs, on equality and on truncation, all of which occur.
- Store: two stores; one block of two slots (`store_cow`), three blocks of one
  (`store_gc`, to compact and to have cycles through blocks), one slot with relocated
  addresses and two diff records (`store_reloc`). `MCBlock` and `MCVal` are as many
  blocks and values as can be in use at once, so no handler ever runs out.
  `MaxRefs` and `MaxTotal` bound the references that a block, and that all blocks,
  count, `MaxRegs` the registers with one address. Both frames can still have
  written to their own copy of a block at the same time.
- Store runs use the VIEW `Nameless`, which leaves out the names of blocks and
  values: the code only compares pointers for equality, so two states with the
  same view have the same behaviour up to renaming. The properties depend on the
  view alone. Stores, or allocation parameters, are symmetric.
- Methods: an entry, two blocks with one or two ways out to each other, to
  themselves or to the return, six kinds of code, two locations and two values.
  That has self-loops, cycles through two blocks, joins, and a block that waits
  while its input changes. `MaxRear` bounds the queue positions; methods that
  never settle stop there, and `Terminates` would fail if one it
  covers did not settle before.

- Static fields: two tables, four fields (a full tree of depth three), one of them
  of a type without a parser, values with none, one and two relocated addresses (the
  flag of one bit tells even from odd), six operations. Sharing needs two tables; every
  partly built tree of four leaves occurs.
- Front end: bodies of four instructions with two labels, or with three labels and one
  or two handlers, throws included, at all places, behind a method of one instruction, so
  that the pool is not empty; a handler then lies at the begin of a block, in the middle of
  one, and behind its own range. One class for each error exit and limit (`MaxCatch`,
  `MaxStack`, `MaxKeys`) and one with two overloads in one bucket.
- Blocks of instructions: three registers, a static field, an allocation
  site, a string and an object of the caller; sixteen instructions, all sequences of
  four with at most one end of a block between them, from three frames: empty,
  at the head of a loop that allocates, and after a join with two possible objects.
  Weak updates, reallocation, death, and a reuse flag that crosses a block all need
  three steps or fewer. `MaxObjects` bounds objects per site, `Bound` the numbers.

### Fairness

Only `CeskMethod` has liveness. The analyzer is a sequential loop that no
scheduler can stop, so `WF_vars(Step)` says no more than that the program goes
on. `CHECK_DEADLOCK FALSE` stands where the system may stop: the analyzer ends,
the front end closes, arithmetic programs end at the bound on numbers, set clients
at the bound on indices, blocks and static tables at the bound on steps.

## What is proved

`CeskSetProofs`, for any finite sets of handles and addresses and any bounds
(`SetAssumption`):

- `TypeCorrect`, `ReferenceCounts`, `EmptySetStaysEmpty`, `NoRelocationMissed`
  (invariants) and `CopyOnWrite` (the action property `Isolation`).
- The inductive invariant is
  `IInv == TypeOK /\ RefcntExact /\ FreshUnused /\ EmptySetIntact /\ Contents`.
  `RefcntExact` alone is not inductive: a write to an unshared index must not
  meet another handle on the fresh index (`FreshUnused`), and
  `cesk_set_modify` decrements the unsigned `reloc` and frees nodes along the list,
  so list, table and counts have to be related (`Contents`), in the weak form that
  survives collisions. `EmptySetIntact` is needed because the singleton's extra
  reference is what makes every write to it a copy.
- Each operation on an info node has a lemma (`PushedOK`, `RenameOK`,
  `DeleteOK`, ...) that it keeps `Contents`; `WriteOK` lifts them to copy-on-write,
  `HandleChangeOK` to fork and free. `Isolation` follows because every step writes
  to at most one handle (`OneWritten`).

- `ViewsStayEqual`, `EqualIsExact` and `ImplementsValues`: as long as no
  `cesk_set_modify` turns an element into one the set already holds (`~AllowCollision`;
  such a call really breaks them, see `IterationComplete` above) the table, the list, the
  size and the hash agree, `cesk_set_equal` answers whether elements and tags are the
  same, but for sets whose hash codes `cesk_set_assign_tags` has left stale, and
  `CeskSet` implements `SetValues`. `ViewsAgree` is
  inductive together with `IInv`; each operation has one lemma that it keeps the views
  (`...Agrees`) and one that its step is a step of `SetValues` (`...Refines`).

`CeskArithmeticProofs`, for any registers, literals and bound:

- `TypeCorrect`, `CoverageExceptGaps` (every step keeps the registers covered but
  for `KnownGap`), and `SoundAnalysis`: a program of negations, sums,
  differences, products and narrow comparisons is covered always. The lemmas are the
  sign rules of integer arithmetic, one per operation, and for the connectives
  (`AndCovers`, `OrCovers`, `XorCovers`) that halving a number ends (`HalvesEnd`), from
  which the bits of any two numbers decide whether the result is zero.

`CeskMethodProofs`, for every set of programs, any finite set of locations, any values
and any size of the queue that has room for the blocks of the programs
(`MethodAssumption`):

- `TypesKept`; `QueueNeverOverwrites`: the ring never overwrites a waiting block
  and `queue_position` tells where one waits. The invariant is `Waiting`: a block
  whose position has not been taken is in the ring there. The ring does not overflow because
  waiting blocks are at different places (`QueueBound`), and a block is put there
  only if it does not wait yet (`QueueRoom`).
- `RewindExact`: the inverse diff of a branch leads back to the input it ran on.
  `Kept` says what the last execution left with a branch; that the inverse has a record
  of every location that has to be restored rests on `ExecuteOK`, an induction over
  the instructions of a block: only the locations they name change.
- `NothingMissed`: outside the queue no block lacks a value that a branch brings
  to it, and `FixpointUnlessSkipped`: the analyzer stops at a fixed point unless it
  has skipped a changed branch. So the wrong sign in
  `cesk_diff_correct_modified_object_number` (run `method_skip`) is the only reason
  why the fixed point can be missed. The invariant (`Content`) needs three parts beside
  `Kept`: all branches of a block have run on one input (`Same`); an output that has not reached its
  target is in a diff the target will still read (`Cover`); and a block
  that runs again before that target is a self-loop (`Again`), for otherwise the next diff
  would overwrite the records of the pending one. `Same`, `Cover` and `Again` are what a reviewer would
  have to believe about the timestamps and the two last outputs kept per branch.

`CeskStoreProofs`, for any finite sets of stores, blocks, values and relocated addresses,
any numbers of slots, blocks and records, and any probing sequences (`StoreAssumption`).
`RoomAssumption` says that there are as many blocks and values as the tables,
slots and diff buffers can refer to, so that the model's `malloc` never fails; that the bound
is enough is part of the proof (`FreeBlock`, `FreeCopies`, `FreshOK`).

- `ReferencesExact` (blocks and values), `EntitiesExact` (the entity counters) and
  `FramesIsolated` (the action property `Isolation`), all from the invariant
  `StoreInv == Good(mem, held) /\ Exact(mem) /\ ...`, kept by every handler (`InvariantKept`).
- `RefcntExact` is not inductive alone. A write in place is right only if the block
  of the slot has one user and the value one pointer, so tables must not name
  a block twice (`Tables`); a block that is given up must not take pointers
  with it unseen, so free blocks are empty (`FreeEmpty`), and `cesk_store_compact_store`
  cuts off only empty blocks because the entity counters are exact; and
  `cesk_store_allocate` writes a parameter to a shared block, which no frame sees because
  a slot that is not in use has no value (`InUse`).
- One lemma per function of `cesk_store.c` says what it keeps. `Calm` steps leave the
  values in the slots (`PrivateCalm`, `IncrefCalm`, `ReleaseCalm`, `ReuseCalm`), `Fades` steps
  at most take some out (`DecrefFades`, by the least fixed point of the slots that die),
  a `Step` leaves the counters exact (`AttachedStep`, `GetRwStep`, `AppliedStep`), a `Turn`
  may change the table as well (`FreedTurn`, `CompactedTurn`, `ForkedTurn`, `AllocatedTurn`).
  In the middle of `cesk_store_attach` the entity counters are ahead of the values;
  `Counters` carries the difference through the release of the old value, and it is made up when
  the slot gets the new one. `HandlerTurn` puts the handlers together. `DupArgs` and
  `ConstParam` may have any value here: what they break are the counters of slots and the books below.
- `StoreHashesExact` (the hash code) and `RelocationsClaimed` (`num_reloc` misses no value with
  relocated addresses), for frames whose const instructions release their writable pointer
  (`ConstParam = {}`, as in the runs): the early return at `cesk_frame.c:1690` keeps it, and then the
  entry stays out of the hash code and the value out of `num_reloc`. `StoreInv` has these books
  as `Tidy`: nobody has a writable pointer, `num_reloc` of every block is at least the number of
  its relocated values, the hash code is that of the values. In the middle of a handler they are
  not in order. `cesk_store_get_rw` and `cesk_store_attach` open them for one value
  (`Opens`), what comes in between keeps them open for the same value (`Stays`), and
  `cesk_store_release_rw` closes them (`Shuts`); `Keeps` says so of the functions that never leave them
  open. A release that makes other slots die meanwhile changes the hash code by the entries of exactly
  those (`Ledger`). A copy of a shared block takes over the counter of the original and has no relocated
  value that the original had not (`Covered`).
- `CountsCover` and `TypeOK` are only model-checked.

`CeskStaticProofs` and `CeskStaticFlagProofs`, for any number of fields, any finite
set of tables, any literals and any values written (`ConstantsAssumption`,
`PointersAssumption`). `Places` has one node more of each segment than there are tables; that
this is enough for the model's `malloc` never to fail is part of the proof (`FewLiving`).

- `CountsExact`, `TypeCorrect`, `HashesExact`, from the invariant
  `StaticInv == Good(heap, root) /\ DefaultsKnown /\ HashRight /\ ...`. `Good` is the
  shape of the trees (a child has the half of its parent's segment that its position
  says, so that a leaf has none), exact counters, and free nodes without children. Exact counters
  alone are not inductive: `_cesk_static_tree_node_prepare_to_write` writes to a node
  with one pointer in place, and only the shape tells that this pointer is on the path to the
  field, so that no other table reaches the node (`OnePointer`, `PrivateApart`).
- `_cesk_static_tree_prepare_to_write` goes down from the root. A shared node on its way
  is replaced by a copy (`IsCopyAt`), after which the path so far
  is private to the table (`CopyAtPrivate`); a write to a private path is seen by no other
  table (`SameBut`). `_cesk_static_tree_insert` adds a path of new nodes below
  the last one that is there (`InsertsNodes`).
- Releasing a tree (`Decref`) goes down level by level: the nodes that lose a pointer
  at one level are nodes the table meets there, one per segment (`LostLevel`), so each
  counter goes down by the pointers that the dying nodes had (`DecrefGood`).
- `NextFieldExact`: the search finds the least field at or after the start. The nodes
  that `Climb` has on its stack have a right child that is not on the path (`Open`); the
  deepest is where the next field parts from the path (`ClimbNext`). The child leads to a field
  because no inner node of a tree is without children (`Full`, an invariant on top of
  `StaticInv`).
- `ViewsCorrect` and `RelocsFound`, from `ViewInv == StaticInv /\ ViewTypes /\ ViewsRight`.
  Every table shows what was written through it (`ShownIn`), and in a table that is
  not stale a node is marked exactly if its value has a relocated address or one
  of its children is marked (`Flagged`). That marked nodes lead to the values is not inductive alone:
  `cesk_static_table_update_relocated_flag` keeps a flag because the sibling is marked, so
  the sibling has to be right as well. While it runs all flags are right but those
  on one path (`FlaggedOff`). The loop over the
  relocated fields of a callee's frame ends because every turn takes one field
  out of the marked ones (`Marked`).

`DalvikBlockProofs`, for every set of class texts, every size of the tables and every
hash function (`ParserAssumption`):

- `TypesKept`, `GraphsFaithful` (every graph goes where the code goes, and into the pieces
  of the handlers, with the three departures that `GraphFaithful` names), `NoBlockLost`
  (pruning keeps exactly the linked blocks) and `LookupsExact` (a lookup finds the graph
  of the method asked for, or of an overload with its path in the same bucket: the code
  does not tell these two apart).
- The invariant has a part for the parser (`ParserInv`: the instructions of a method
  are a linked segment of the pool, and the labels it mentions lead into that segment)
  and one for the cache (every graph is `Sound`). A graph is sound when it is built
  (`BuildSound`) because the list of keys is sorted (`SortedLists`), the binary search finds
  the first key at or behind an instruction (`FindBlockFirst`, by the loop invariant
  of the search), the keys cut the code exactly into the straight pieces of the text
  (`KeysCut`), so that the block found for a handler is the piece around it
  (`FindBlockEntered`), and each setup function leads on where its instruction does (`SetupLeads`, one lemma
  each). It stays sound because a segment is never written again (`SegmentKept`).
- `RangesAreExact`: in a text whose labels are defined once and of which no more than
  `MaxStack` labels and catches stand together (`Tidy`), the handlers of an instruction are
  those whose ranges it is in, and a label leads to the instruction behind it. The
  invariant `RangesInv` gives the pool as a function of the statements read so far
  (`Placed`), the state of every handler (`Tracked`) and the labels that wait (`Stacked`).
  Without `Tidy` the code overwrites a label or drops it from the full stack; such classes
  are in the run `blocks`, which checks the rest of the invariants on them.

Only model-checked, so far: `CeskBlock` and the two properties of
`CeskStore` named above. Out of reach of
the prover is liveness (`Terminates`). What recursive functions compute is proved
with `InductionLemmas`, by a least counterexample instead of the library's induction
rules.

## Not modelled, and why

- Invoke: the search for the methods of a call, the frames of the callees, the merge
  of their results, and with it built-in classes, recursion and the cache of
  invocation contexts. `CeskStore` has what a call does to the store.
- Arrays and exceptions: the decoder rejects array instructions, and the block
  analyzer ignores throw. The graph has exception branches, and what it makes of a throw
  is in `DalvikBlock`.
- Tags: they ride on value sets and never decide a branch of the analysis.
- Parsing and printing of text (`sexp.c`, tokens, type names, `*_to_string`), logging
  and files (`log.c`, `tag_fs.c`): conversions with no state that matters here.
- The debugger in `tools/adb` and the generator in `tools/bcdl`.
- Failures of `malloc`, throughout.

## Plan

The components above are modelled in the order of what rests on them: sets,
arithmetic, store, method analyzer, then front end, static fields, block analyzer.
The proofs follow the same order: sets, arithmetic, store, method analyzer, front end
and static fields are done. Next:

1. `CeskStore`: `TypeOK` and `CountsCover`.
2. `CeskBlock`: `TypeOK` (references are to living objects).

Further models, if the code grows: the cache of invocation contexts with recursion;
a store as a function from addresses to values, as `SetValues` is for `CeskSet`.
