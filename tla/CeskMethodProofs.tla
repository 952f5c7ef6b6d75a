--------------------------- MODULE CeskMethodProofs ---------------------------
(***************************************************************************)
(* Proofs about the method analyzer, for every set of programs, every size *)
(* of the queue and every finite set of locations: the contexts keep their *)
(* types, the queue never overwrites a waiting block, the inverse diff of  *)
(* a branch leads back to the input it ran on, and, as long as no changed  *)
(* branch is skipped, no block outside the queue lacks a value that a      *)
(* branch brings to it.                                                    *)
(***************************************************************************)
EXTENDS CeskMethod, FiniteSetTheorems, InductionLemmas

-----------------------------------------------------------------------------
(***************************************************************************)
(* The inductive invariant.                                                *)
(***************************************************************************)
(* The contexts are those of the blocks and branches of the program *)
Shape ==
  /\ prog \in Programs
  /\ DOMAIN block = Explored
  /\ DOMAIN input = Branches

(* A block whose last position has not been taken yet waits there.  Before *)
(* the first block is taken every position is 0, that of the entry.        *)
Waiting ==
  /\ front = 0 => rear = 1 /\ at = <<>> /\ \A b \in Explored : block[b].queue_position = 0
  /\ front > 0 =>
       \A b \in Explored :
         /\ block[b].queue_position < rear
         /\ Queued(b) => Q[block[b].queue_position % MaxBlocks] = b
  /\ \A i \in front .. rear - 1 : block[Q[i % MaxBlocks]].queue_position = i

(* A block is queued while it is analyzed only by a branch to itself *)
SelfLoop(b) == \E j \in DOMAIN Next(b) : Next(b)[j] = b
Busy == at # <<>> /\ Queued(at[1]) => SelfLoop(at[1])

(* The block that is analyzed has the highest timestamp *)
Latest ==
  at # <<>> => \A c \in Explored : block[c].timestamp <= block[at[1]].timestamp

(* The input a branch ran on last *)
InOf(e) == Apply(input[e].frame, input[e].cur_inversion)

(* What is kept with a branch is what its last execution left there *)
Kept ==
  \A e \in Branches :
    /\ DOMAIN input[e].prv_inversion \subseteq Written(e[1])
    /\ IF input[e].visited
       THEN /\ input[e].cur_diff = On(input[e].frame, Written(e[1]))
            /\ DOMAIN input[e].cur_inversion = Written(e[1])
            /\ Execute(e[1], InOf(e)) = input[e].frame
       ELSE /\ input[e].cur_diff = Empty
            /\ input[e].cur_inversion = Empty

(* The input of a block before and after the analysis in progress *)
At(b) == at # <<>> /\ at[1] = b
OldIn(b) ==
  IF IsReturn(b) THEN Apply(prog.frame, block[b].result_diff)
  ELSE IF At(b) THEN InOf(at) ELSE InOf(<<b, 1>>)
NewIn(b) == IF At(b) THEN Apply(OldIn(b), block[b].input_diff) ELSE OldIn(b)

(* All branches of a block have run on the same input; those the analyzer  *)
(* has yet to come to, on the one before                                   *)
Same ==
  \A e \in Branches :
    InOf(e) = IF At(e[1]) /\ at[2] <= e[2] THEN OldIn(e[1]) ELSE NewIn(e[1])

(* The output of branch e at l is in the input of its target, or will be:  *)
(* the target waits, and the diff of the branch has a record of l          *)
CoveredAt(e, l) == input[e].frame[l] \subseteq NewIn(Target(e))[l]
Pending(e, l) ==
  /\ front > 0 /\ Queued(Target(e)) /\ ~ Stale(Target(e), e)
  /\ l \in DOMAIN input[e].prv_inversion \cup DOMAIN block[e[1]].input_diff
             \cup DOMAIN input[e].cur_diff
Cover == \A e \in Branches, l \in Loc : CoveredAt(e, l) \/ Pending(e, l)

(* A block is analyzed again before the target of a pending branch only if *)
(* it branches to itself, and then its next diff has the records of this   *)
(* one                                                                     *)
Again ==
  \A e \in Branches :
    LET a == e[1]
        c == Target(e)
    IN  /\ Queued(a) /\ Queued(c) /\ block[a].queue_position < block[c].queue_position
        /\ \E l \in Loc : ~ CoveredAt(e, l)
        => SelfLoop(a)

Content == Kept /\ Same /\ Cover /\ Again

IInv == TypeOK /\ Shape /\ Waiting /\ Busy /\ Latest /\ (missed = {} => Content)

-----------------------------------------------------------------------------
(***************************************************************************)
(* The program: the explored blocks, and what an execution changes.        *)
(***************************************************************************)
(* The program never changes, and neither does its block graph. *)
LEMMA ProgramKept ==
  ASSUME prog' = prog
  PROVE  /\ Explored' = Explored /\ Branches' = Branches
         /\ \A b : Next(b)' = Next(b) /\ IsReturn(b)' = IsReturn(b) /\ Written(b)' = Written(b)
         /\ \A b, f : Execute(b, f)' = Execute(b, f)
         /\ \A e : Target(e)' = Target(e) /\ After(e)' = After(e)
<1>1. \A b : Next(b)' = Next(b)
  BY DEF Next
<1>2. Explored' = Explored
  BY <1>1 DEF Explored, Closed
<1>3. Branches' = Branches
  BY <1>1, <1>2 DEF Branches
<1>4. \A b : IsReturn(b)' = IsReturn(b) /\ Written(b)' = Written(b)
  BY <1>1 DEF IsReturn, Written
<1>5. \A b, f : Execute(b, f)' = Execute(b, f)
  BY DEF Execute, Effect
<1>6. \A e : Target(e)' = Target(e) /\ After(e)' = After(e)
  BY <1>1 DEF Target, After
<1> QED
  BY <1>1, <1>2, <1>3, <1>4, <1>5, <1>6

(* The code, the branches and the returned register of an explored block,  *)
(* and the branches lead to explored blocks                                *)
LEMMA ExploredOK ==
  ASSUME prog \in Programs
  PROVE  /\ prog.frame \in Frame
         /\ Explored \subseteq 1 .. MaxBlocks /\ 1 \in Explored
         /\ \A b \in Explored :
              /\ prog.blocks[b].code \in Seq(Instruction)
              /\ Next(b) \in Seq(Nat)
              /\ \A j \in DOMAIN Next(b) : Next(b)[j] \in Explored
<1>1. /\ prog.frame \in Frame
      /\ prog.blocks \in Seq(Block) /\ Len(prog.blocks) \in 1 .. MaxBlocks
      /\ \A b \in DOMAIN prog.blocks : Range(prog.blocks[b].next) \subseteq DOMAIN prog.blocks
  BY ProgramAssumption
<1>2. DOMAIN prog.blocks = 1 .. Len(prog.blocks) /\ MaxBlocks \in Nat
  BY <1>1, MethodAssumption
<1>3. Explored \subseteq DOMAIN prog.blocks
  BY DEF Explored
<1>4. 1 \in Explored
  BY <1>1, <1>2 DEF Explored, Closed
<1>5. ASSUME NEW b \in Explored
      PROVE  prog.blocks[b].code \in Seq(Instruction) /\ Next(b) \in Seq(Nat)
  <2>1. prog.blocks[b] \in Block
    BY <1>1, <1>2, <1>3
  <2> QED
    BY <2>1 DEF Block, Next
<1>6. ASSUME NEW b \in Explored, NEW j \in DOMAIN Next(b) PROVE Next(b)[j] \in Explored
  <2>1. Next(b)[j] \in Range(Next(b))
    BY DEF Range
  <2>2. Next(b)[j] \in DOMAIN prog.blocks
    BY <2>1, <1>1, <1>3 DEF Next
  <2>3. ASSUME NEW S \in SUBSET DOMAIN prog.blocks, Closed(S) PROVE Next(b)[j] \in S
    <3>1. b \in S
      BY <2>3 DEF Explored
    <3> QED
      BY <3>1, <2>1, <2>3 DEF Closed
  <2> QED
    BY <2>2, <2>3 DEF Explored
<1> QED
  BY <1>1, <1>2, <1>3, <1>4, <1>5, <1>6

(* An instruction changes at most its destination. *)
LEMMA EffectOK ==
  ASSUME NEW f \in Frame, NEW i \in Instruction
  PROVE  /\ Effect(f, i) \in Frame
         /\ \A l \in Loc \ {i.dst} : Effect(f, i)[l] = f[l]
<1> DEFINE v == CASE i.op = "const" -> {i.val}
                  [] i.op = "move"  -> f[i.src]
                  [] i.op = "unop"  -> {Unop[u] : u \in f[i.src]}
                  [] i.op = "weak"  -> f[i.dst] \cup f[i.src]
<1>1. i.dst \in Loc /\ i.src \in Loc /\ i.val \in Val
      /\ i.op \in {"const", "move", "unop", "weak"}
  BY DEF Instruction
<1>2. f[i.dst] \subseteq Val /\ f[i.src] \subseteq Val
  BY <1>1 DEF Frame
<1>3. {Unop[u] : u \in f[i.src]} \subseteq Val
  BY <1>2, MethodAssumption
<1>4. v \in SUBSET Val
  <2>1. CASE i.op = "const"
    BY <2>1, <1>1
  <2>2. CASE i.op = "move"
    BY <2>2, <1>2
  <2>3. CASE i.op = "unop"
    BY <2>3, <1>3
  <2>4. CASE i.op = "weak"
    BY <2>4, <1>2
  <2> QED
    BY <1>1, <2>1, <2>2, <2>3, <2>4
<1>5. Effect(f, i) = [f EXCEPT ![i.dst] = v]
  BY DEF Effect
<1> HIDE DEF v
<1> QED
  BY <1>1, <1>4, <1>5 DEF Frame

(* run is the sequence of frames that N instructions give *)
Runs(run, N, code, f) ==
  /\ run \in [0 .. N -> Frame] /\ run[0] = f
  /\ \A k \in 1 .. N : run[k] = Effect(run[k - 1], code[k])

(* Instructions can be run one after another. *)
LEMMA RunExists ==
  ASSUME NEW N \in Nat, NEW code, NEW f \in Frame, \A k \in 1 .. N : code[k] \in Instruction
  PROVE  \E g : Runs(g, N, code, f)
<1> DEFINE F == [k \in 1 .. N |-> [g \in Frame |-> Effect(g, code[k])]]
<1>1. F \in [1 .. N -> [Frame -> Frame]]
  BY EffectOK
<1>2. PICK g \in [0 .. N -> Frame] : g[0] = f /\ \A k \in 1 .. N : g[k] = F[k][g[k - 1]]
  <2> HIDE DEF F
  <2>1. \E g : IteratesFrom(g, N, Frame, f, F)
    BY <1>1, Iteration
  <2> QED
    BY <2>1 DEF IteratesFrom
<1>3. ASSUME NEW k \in 1 .. N PROVE g[k] = Effect(g[k - 1], code[k])
  <2>1. k - 1 \in 0 .. N
    OBVIOUS
  <2>2. g[k - 1] \in Frame
    BY <2>1
  <2>3. g[k] = F[k][g[k - 1]]
    BY <1>2
  <2>4. F[k][g[k - 1]] = Effect(g[k - 1], code[k])
    BY <2>2, Zenon
  <2> QED
    BY <2>3, <2>4
<1> QED
  BY <1>2, <1>3 DEF Runs

(* A block changes at most the locations its instructions name. *)
LEMMA ExecuteOK ==
  ASSUME prog \in Programs, NEW b \in Explored, NEW f \in Frame
  PROVE  /\ Execute(b, f) \in Frame
         /\ \A l \in Loc \ Written(b) : Execute(b, f)[l] = f[l]
<1> DEFINE code == prog.blocks[b].code
           N == Len(code)
           Def(r) == [k \in 0 .. N |-> IF k = 0 THEN f ELSE Effect(r[k - 1], code[k])]
<1>1. code \in Seq(Instruction)
  BY ExploredOK
<1>2. N \in Nat /\ \A k \in 1 .. N : code[k] \in Instruction /\ code[k].dst \in Written(b)
  BY <1>1 DEF Written
<1> HIDE DEF code, N
<1>4. PICK g : Runs(g, N, code, f)
  BY <1>2, RunExists
<1>6. g = Def(g)
  BY <1>2, <1>4 DEF Runs
<1>7. \E r : r = Def(r)
  BY <1>6
<1> DEFINE run == CHOOSE r : r = Def(r)
<1>8. run = Def(run)
  <2> HIDE DEF Def
  <2> QED
    BY <1>7, Zenon
<1>9. Execute(b, f) = run[N]
  BY Zenon DEF Execute, code, N
<1> HIDE DEF run
<1> DEFINE S == {k \in 0 .. N : run[k] \in Frame /\ \A l \in Loc \ Written(b) : run[k][l] = f[l]}
<1>10. 0 \in S
  BY <1>2, <1>8
<1>11. ASSUME NEW k \in 0 .. N - 1, k \in S PROVE k + 1 \in S
  <2>1. k + 1 \in 1 .. N /\ k + 1 \in 0 .. N /\ k + 1 - 1 = k
    BY <1>2
  <2>2. run[k + 1] = Effect(run[k], code[k + 1])
    <3>1. run[k + 1] = Def(run)[k + 1]
      BY <1>8
    <3>2. Def(run)[k + 1] = Effect(run[k + 1 - 1], code[k + 1])
      BY <2>1
    <3> QED
      BY <2>1, <3>1, <3>2
  <2>3. run[k] \in Frame /\ code[k + 1] \in Instruction /\ code[k + 1].dst \in Written(b)
    BY <1>2, <1>11, <2>1
  <2>4. run[k + 1] \in Frame /\ \A l \in Loc \ Written(b) : run[k + 1][l] = run[k][l]
    BY <2>2, <2>3, EffectOK
  <2> QED
    BY <2>1, <2>4, <1>11
<1>12. N \in S
  <2> HIDE DEF S
  <2>1. 0 .. N \subseteq S
    BY <1>2, <1>10, <1>11, SetInduction
  <2> QED
    BY <2>1, <1>2
<1> QED
  BY <1>9, <1>12

-----------------------------------------------------------------------------
(***************************************************************************)
(* Diffs and frames.                                                       *)
(***************************************************************************)
(* A diff has records of locations. *)
LEMMA DiffDef ==
  ASSUME NEW d
  PROVE  d \in Diff <=> DOMAIN d \subseteq Loc /\ d \in [DOMAIN d -> SUBSET Val]
<1>1. ASSUME d \in Diff PROVE DOMAIN d \subseteq Loc /\ d \in [DOMAIN d -> SUBSET Val]
  <2>1. PICK D \in SUBSET Loc : d \in [D -> SUBSET Val]
    BY <1>1 DEF Diff
  <2> QED
    BY <2>1
<1>2. ASSUME DOMAIN d \subseteq Loc, d \in [DOMAIN d -> SUBSET Val] PROVE d \in Diff
  BY <1>2 DEF Diff
<1> QED
  BY <1>1, <1>2

(* What Then, Apply and On give. *)
LEMMA ThenOK ==
  ASSUME NEW d \in Diff, NEW e \in Diff
  PROVE  /\ Then(d, e) \in Diff
         /\ DOMAIN Then(d, e) = DOMAIN d \cup DOMAIN e
BY DiffDef DEF Then

LEMMA ApplyOK ==
  ASSUME NEW f \in Frame, NEW d \in Diff
  PROVE  /\ Apply(f, d) \in Frame
         /\ \A l \in Loc : Apply(f, d)[l] = IF l \in DOMAIN d THEN d[l] ELSE f[l]
BY DiffDef DEF Apply, Then, Frame

LEMMA ApplyThen ==
  ASSUME NEW f \in Frame, NEW d \in Diff, NEW e \in Diff
  PROVE  Apply(Apply(f, d), e) = Apply(f, Then(d, e))
<1>1. /\ Apply(f, d) \in Frame /\ Apply(Apply(f, d), e) \in Frame
      /\ Then(d, e) \in Diff /\ Apply(f, Then(d, e)) \in Frame
  BY ThenOK, ApplyOK
<1>2. ASSUME NEW l \in Loc PROVE Apply(Apply(f, d), e)[l] = Apply(f, Then(d, e))[l]
  <2>1. /\ Apply(f, d)[l] = IF l \in DOMAIN d THEN d[l] ELSE f[l]
        /\ Apply(Apply(f, d), e)[l] = IF l \in DOMAIN e THEN e[l] ELSE Apply(f, d)[l]
        /\ Apply(f, Then(d, e))[l] = IF l \in DOMAIN Then(d, e) THEN Then(d, e)[l] ELSE f[l]
    BY <1>1, ApplyOK
  <2>2. l \in DOMAIN d \cup DOMAIN e => Then(d, e)[l] = IF l \in DOMAIN e THEN e[l] ELSE d[l]
    BY DEF Then
  <2> QED
    BY <2>1, <2>2, ThenOK
<1> QED
  BY <1>1, <1>2 DEF Frame

LEMMA OnOK ==
  ASSUME NEW f \in Frame, NEW D \in SUBSET Loc
  PROVE  On(f, D) \in Diff /\ DOMAIN On(f, D) = D /\ \A l \in D : On(f, D)[l] = f[l]
BY DiffDef DEF On, Frame

LEMMA EmptyOK ==
  /\ Empty \in Diff /\ DOMAIN Empty = {}
  /\ \A f \in Frame : Apply(f, Empty) = f
<1>1. Empty \in Diff /\ DOMAIN Empty = {}
  BY DiffDef DEF Empty
<1>2. ASSUME NEW f \in Frame PROVE Apply(f, Empty) = f
  BY <1>1, ApplyOK DEF Frame
<1> QED
  BY <1>1, <1>2

-----------------------------------------------------------------------------
(***************************************************************************)
(* The types of what the contexts hold.                                    *)
(***************************************************************************)
LEMMA WrittenLoc ==
  ASSUME prog \in Programs, NEW b \in Explored
  PROVE  Written(b) \in SUBSET Loc
<1>1. prog.blocks[b].code \in Seq(Instruction)
  BY ExploredOK
<1>2. ASSUME NEW k \in DOMAIN prog.blocks[b].code
      PROVE  prog.blocks[b].code[k].dst \in Loc
  <2>1. prog.blocks[b].code[k] \in Instruction
    BY <1>1
  <2> QED
    BY <2>1 DEF Instruction
<1> QED
  BY <1>2 DEF Written

LEMMA BranchOK ==
  ASSUME prog \in Programs, NEW e \in Branches
  PROVE  /\ e = <<e[1], e[2]>> /\ e # <<>>
         /\ e[1] \in Explored /\ e[2] \in 1 .. Len(Next(e[1])) /\ Len(Next(e[1])) \in Nat
         /\ ~ IsReturn(e[1])
         /\ Target(e) \in Explored
         /\ Target(e) = e[1] => SelfLoop(e[1])
         /\ <<e[1], 1>> \in Branches
<1>1. PICK b \in Explored : e \in {b} \X (1 .. Len(Next(b)))
  BY DEF Branches
<1>2. e = <<e[1], e[2]>> /\ e[1] = b /\ e[2] \in 1 .. Len(Next(b))
  BY <1>1
<1>3. Next(b) \in Seq(Nat) /\ \A j \in DOMAIN Next(b) : Next(b)[j] \in Explored
  BY ExploredOK
<1>4. e[2] \in DOMAIN Next(b) /\ Len(Next(b)) \in Nat /\ 1 \in 1 .. Len(Next(b))
  BY <1>2, <1>3
<1>5. e # <<>>
  BY <1>2
<1>6. ~ IsReturn(b)
  BY <1>3, <1>4 DEF IsReturn
<1>7. <<b, 1>> \in Branches
  BY <1>4 DEF Branches
<1> QED
  BY <1>2, <1>3, <1>4, <1>5, <1>6, <1>7 DEF Target, SelfLoop

(* The fields of a context have the types TypeOK gives them. *)
LEMMA Fields ==
  ASSUME TypeOK, Shape
  PROVE  /\ front \in Nat /\ rear \in Nat /\ front <= rear /\ rear >= 1
         /\ \A b \in Explored :
              /\ block[b].timestamp \in Nat /\ block[b].timestamp <= rear
              /\ block[b].queue_position \in Nat /\ block[b].queue_position <= rear
              /\ block[b].input_diff \in Diff /\ block[b].result_diff \in Diff
         /\ \A e \in Branches :
              /\ input[e].visited \in BOOLEAN /\ input[e].frame \in Frame
              /\ input[e].prv_inversion \in Diff /\ input[e].cur_diff \in Diff
              /\ input[e].cur_inversion \in Diff
BY MethodAssumption DEF TypeOK, Shape

LEMMA BranchFrameOK ==
  ASSUME TypeOK, Shape, NEW e \in Branches
  PROVE  /\ InOf(e) \in Frame
         /\ BranchDiff(e) \in Diff
         /\ DOMAIN BranchDiff(e) = DOMAIN input[e].cur_inversion \cup DOMAIN block[e[1]].input_diff
         /\ BranchFrame(e) \in Frame
         /\ BranchFrame(e) = Apply(InOf(e), block[e[1]].input_diff)
         /\ \A l \in Loc \ DOMAIN BranchDiff(e) : BranchFrame(e)[l] = input[e].frame[l]
<1>1. /\ input[e].frame \in Frame /\ input[e].cur_inversion \in Diff
      /\ block[e[1]].input_diff \in Diff
  BY Fields, BranchOK DEF Shape
<1>2. InOf(e) \in Frame
  BY <1>1, ApplyOK DEF InOf
<1>3. /\ BranchDiff(e) \in Diff
      /\ DOMAIN BranchDiff(e) = DOMAIN input[e].cur_inversion \cup DOMAIN block[e[1]].input_diff
  BY <1>1, ThenOK DEF BranchDiff
<1>4. BranchFrame(e) = Apply(InOf(e), block[e[1]].input_diff)
  BY <1>1, ApplyThen DEF BranchFrame, BranchDiff, InOf
<1> QED
  BY <1>1, <1>2, <1>3, <1>4, ApplyOK DEF BranchFrame

(* The input diff of a block: its records, and that they cover the frames. *)
LEMMA NextInputOK ==
  ASSUME TypeOK, Shape, NEW b \in Explored
  PROVE  /\ NextInput(b) \in Diff
         /\ \A e \in Branches :
              Target(e) = b /\ ~ Stale(b, e) =>
                DOMAIN input[e].prv_inversion \cup DOMAIN block[e[1]].input_diff
                  \cup DOMAIN input[e].cur_diff \subseteq DOMAIN NextInput(b)
         /\ \A e \in Branches, l \in DOMAIN NextInput(b) :
              Target(e) = b => input[e].frame[l] \subseteq NextInput(b)[l]
<1>1. Inputs(b) = {e \in Branches : Target(e) = b}
  BY DEF Inputs, Shape
<1>2. ASSUME NEW e \in Branches
      PROVE  /\ Term(b, e) \in Diff
             /\ ~ Stale(b, e) =>
                  DOMAIN Term(b, e) = DOMAIN input[e].prv_inversion
                     \cup DOMAIN block[e[1]].input_diff \cup DOMAIN input[e].cur_diff
  <2>1. /\ input[e].prv_inversion \in Diff /\ input[e].cur_diff \in Diff
        /\ block[e[1]].input_diff \in Diff
    BY Fields, BranchOK DEF Shape
  <2>2. /\ Then(input[e].prv_inversion, block[e[1]].input_diff) \in Diff
        /\ DOMAIN Then(input[e].prv_inversion, block[e[1]].input_diff)
             = DOMAIN input[e].prv_inversion \cup DOMAIN block[e[1]].input_diff
    BY <2>1, ThenOK
  <2> QED
    BY <2>1, <2>2, ThenOK, EmptyOK DEF Term
<1> DEFINE D == UNION {DOMAIN d : d \in {Term(b, e) : e \in Inputs(b)}}
<1>3. NextInput(b) = [l \in D |-> UNION {f[l] : f \in {input[e].frame : e \in Inputs(b)}}]
  BY DEF NextInput, Factorize
<1>4. DOMAIN NextInput(b) = D
  BY <1>3
<1>5. D \subseteq Loc
  BY <1>1, <1>2, DiffDef
<1>6. ASSUME NEW l \in D
      PROVE  /\ NextInput(b)[l] \subseteq Val
             /\ \A e \in Inputs(b) : input[e].frame[l] \subseteq NextInput(b)[l]
  <2>1. NextInput(b)[l] = UNION {f[l] : f \in {input[e].frame : e \in Inputs(b)}}
    BY <1>3
  <2>2. \A e \in Inputs(b) : input[e].frame[l] \subseteq Val
    BY <1>1, <1>5, Fields DEF Frame
  <2> QED
    BY <2>1, <2>2
<1>7. NextInput(b) \in Diff
  <2>1. NextInput(b) \in [D -> SUBSET Val]
    <3> HIDE DEF D
    <3> QED
      BY <1>3, <1>6
  <2> QED
    BY <2>1, <1>4, <1>5, DiffDef
<1>8. ASSUME NEW e \in Branches, Target(e) = b
      PROVE  e \in Inputs(b) /\ DOMAIN Term(b, e) \subseteq D
  BY <1>1, <1>8
<1> HIDE DEF D
<1> QED
  BY <1>2, <1>4, <1>6, <1>7, <1>8

-----------------------------------------------------------------------------
(***************************************************************************)
(* Types are kept.                                                         *)
(***************************************************************************)
(* The analyzer is at a branch or at a return block. *)
LEMMA AtOK ==
  ASSUME TypeOK, Shape, at # <<>>
  PROVE  /\ at[1] \in Explored
         /\ ~ IsReturn(at[1]) => at \in Branches
         /\ IsReturn(at[1]) => at = <<at[1], 1>>
<1>1. at \in Branches \/ \E b \in Explored : IsReturn(b) /\ at = <<b, 1>>
  BY DEF TypeOK, Shape, Returns
<1>2. CASE at \in Branches
  BY <1>2, BranchOK DEF Shape
<1>3. CASE \E b \in Explored : IsReturn(b) /\ at = <<b, 1>>
  BY <1>3
<1> QED
  BY <1>1, <1>2, <1>3

(* The branch after a branch is one, too. *)
LEMMA AfterOK ==
  ASSUME prog \in Programs, NEW e \in Branches
  PROVE  /\ After(e) \in {<<>>} \cup Branches
         /\ After(e) # <<>> => After(e)[1] = e[1] /\ After(e)[2] = e[2] + 1
         /\ After(e) = <<>> => e[2] = Len(Next(e[1]))
<1>1. /\ e = <<e[1], e[2]>> /\ e[1] \in Explored
      /\ e[2] \in 1 .. Len(Next(e[1])) /\ Len(Next(e[1])) \in Nat
  BY BranchOK
<1>2. CASE e[2] < Len(Next(e[1]))
  <2>1. e[2] + 1 \in 1 .. Len(Next(e[1]))
    BY <1>1, <1>2
  <2>2. After(e) = <<e[1], e[2] + 1>>
    BY <1>2 DEF After
  <2> QED
    BY <1>1, <2>1, <2>2 DEF Branches
<1>3. CASE ~ (e[2] < Len(Next(e[1])))
  BY <1>1, <1>3 DEF After
<1> QED
  BY <1>2, <1>3

(* Every place of the ring is one of the queue. *)
LEMMA PlaceOK ==
  ASSUME TypeOK, Shape, NEW i \in Nat
  PROVE  i % MaxBlocks \in 0 .. MaxBlocks - 1 /\ Q[i % MaxBlocks] \in Explored
<1>1. i % MaxBlocks \in 0 .. MaxBlocks - 1
  BY MethodAssumption
<1> QED
  BY <1>1 DEF TypeOK, Shape

LEMMA InitType ==
  ASSUME Init
  PROVE  TypeOK /\ Shape
<1>1. Shape
  BY DEF Init, Shape
<1>2. 1 \in Explored /\ prog.frame \in Frame
  BY <1>1, ExploredOK DEF Shape
<1> QED
  BY <1>1, <1>2, EmptyOK, MethodAssumption DEF Init, TypeOK, NewBlock, NewInput, Shape

LEMMA DequeueType ==
  ASSUME TypeOK, Shape, Dequeue
  PROVE  TypeOK' /\ Shape'
<1> DEFINE b == Q[front % MaxBlocks]
<1>1. b \in Explored /\ NextInput(b) \in Diff
  BY Fields, PlaceOK, NextInputOK
<1>2. prog' = prog /\ Explored' = Explored /\ Branches' = Branches
      /\ \A c : IsReturn(c)' = IsReturn(c)
  BY ProgramKept DEF Dequeue
<1>3. block' = [block EXCEPT ![b].input_diff = NextInput(b), ![b].timestamp = rear]
  BY DEF Dequeue
<1>4. Shape'
  BY <1>1, <1>2, <1>3 DEF Dequeue, Shape
<1>5. block' \in [Explored -> [timestamp : 0 .. rear, queue_position : 0 .. rear,
                              input_diff : Diff, result_diff : Diff]]
  <2> HIDE DEF b
  <2> DEFINE R == [timestamp : 0 .. rear, queue_position : 0 .. rear,
                   input_diff : Diff, result_diff : Diff]
  <2>1. block \in [Explored -> R] /\ rear \in 0 .. rear
    BY Fields DEF TypeOK, Shape
  <2>2. [block EXCEPT ![b].input_diff = NextInput(b)] \in [Explored -> R]
    BY <1>1, <2>1
  <2>3. block' = [[block EXCEPT ![b].input_diff = NextInput(b)] EXCEPT ![b].timestamp = rear]
    BY <1>3
  <2> QED
    BY <1>1, <2>1, <2>2, <2>3
<1>6. <<b, 1>> \in {<<>>} \cup Branches \cup {<<c, 1>> : c \in Returns'}
  <2>1. CASE IsReturn(b)
    BY <2>1, <1>1, <1>2, <1>4 DEF Returns, Shape
  <2>2. CASE ~ IsReturn(b)
    <3>1. Next(b) \in Seq(Nat) /\ Next(b) # <<>>
      BY <2>2, <1>1, ExploredOK DEF IsReturn, Shape
    <3>2. 1 \in 1 .. Len(Next(b))
      BY <3>1
    <3> QED
      BY <1>1, <3>2 DEF Branches
  <2> QED
    BY <2>1, <2>2
<1>7. at' = <<b, 1>>
  BY DEF Dequeue
<1> HIDE DEF b
<1>8. /\ Q' = Q /\ rear' = rear /\ input' = input
      /\ front' \in 0 .. rear
  BY Fields DEF Dequeue
<1> QED
  BY <1>2, <1>4, <1>5, <1>6, <1>7, <1>8 DEF TypeOK, Shape

LEMMA ReturnType ==
  ASSUME TypeOK, Shape, ReturnBranch
  PROVE  TypeOK' /\ Shape'
<1>1. at[1] \in Explored
  BY AtOK DEF ReturnBranch
<1>2. prog' = prog /\ Explored' = Explored /\ Branches' = Branches
  BY ProgramKept DEF ReturnBranch
<1>3. Then(block[at[1]].result_diff, block[at[1]].input_diff) \in Diff
  BY <1>1, Fields, ThenOK
<1>4. block' = [block EXCEPT ![at[1]].result_diff =
                  Then(block[at[1]].result_diff, block[at[1]].input_diff)]
  BY <1>1 DEF ReturnBranch, TypeOK, Shape
<1>5. Shape'
  BY <1>1, <1>2, <1>4 DEF ReturnBranch, Shape
<1>6. block' \in [Explored -> [timestamp : 0 .. rear, queue_position : 0 .. rear,
                              input_diff : Diff, result_diff : Diff]]
  BY <1>1, <1>3, <1>4 DEF TypeOK, Shape
<1> QED
  BY <1>2, <1>5, <1>6 DEF TypeOK, Shape, ReturnBranch

LEMMA SkipType ==
  ASSUME TypeOK, Shape, SkipBranch
  PROVE  TypeOK' /\ Shape'
<1>1. at \in Branches
  BY AtOK DEF SkipBranch
<1>2. /\ prog' = prog /\ Explored' = Explored /\ Branches' = Branches
      /\ \A c : IsReturn(c)' = IsReturn(c)
  BY ProgramKept DEF SkipBranch
<1>3. BranchFrame(at) \in Frame
  BY <1>1, BranchFrameOK
<1>4. Shape'
  BY <1>1, <1>2 DEF SkipBranch, Shape
<1>5. input' \in [Branches -> [visited : BOOLEAN, frame : Frame, prv_inversion : Diff,
                              cur_diff : Diff, cur_inversion : Diff]]
  BY <1>1, <1>3 DEF TypeOK, Shape, SkipBranch
<1>6. at' \in {<<>>} \cup Branches
  BY <1>1, AfterOK DEF SkipBranch, Shape
<1> QED
  BY <1>2, <1>4, <1>5, <1>6 DEF TypeOK, Shape, SkipBranch

(* What a branch that has run keeps. *)
LEMMA RanOK ==
  ASSUME TypeOK, Shape, NEW e \in Branches
  PROVE  LET f == BranchFrame(e)
             out == Execute(e[1], f)
         IN  /\ f \in Frame /\ out \in Frame
             /\ Ran(e, f) \in [visited : BOOLEAN, frame : Frame, prv_inversion : Diff,
                               cur_diff : Diff, cur_inversion : Diff]
             /\ Ran(e, f).visited /\ Ran(e, f).frame = out
             /\ Ran(e, f).prv_inversion = input[e].cur_inversion
             /\ Ran(e, f).cur_diff = On(out, Written(e[1]))
             /\ Ran(e, f).cur_inversion = On(f, Written(e[1]))
             /\ DOMAIN Ran(e, f).cur_diff = Written(e[1])
             /\ DOMAIN Ran(e, f).cur_inversion = Written(e[1])
             /\ Apply(out, On(f, Written(e[1]))) = f
<1> DEFINE f == BranchFrame(e)
           out == Execute(e[1], f)
           W == Written(e[1])
<1>1. prog \in Programs /\ e[1] \in Explored
  BY BranchOK DEF Shape
<1>2. f \in Frame
  BY BranchFrameOK
<1>3. out \in Frame /\ \A l \in Loc \ W : out[l] = f[l]
  BY <1>1, <1>2, ExecuteOK
<1>4. W \in SUBSET Loc
  BY <1>1, WrittenLoc
<1>5. input[e].cur_inversion \in Diff
  BY Fields
<1> HIDE DEF f, out, W
<1>6. /\ On(out, W) \in Diff /\ DOMAIN On(out, W) = W
      /\ On(f, W) \in Diff /\ DOMAIN On(f, W) = W /\ \A l \in W : On(f, W)[l] = f[l]
  BY <1>2, <1>3, <1>4, OnOK
<1>7. Apply(out, On(f, W)) = f
  BY <1>2, <1>3, <1>6, ApplyOK DEF Frame
<1>8. Ran(e, f) = [visited |-> TRUE, frame |-> out,
                   prv_inversion |-> input[e].cur_inversion,
                   cur_diff |-> On(out, W), cur_inversion |-> On(f, W)]
  BY DEF Ran, out, W
<1> QED
  BY <1>2, <1>3, <1>5, <1>6, <1>7, <1>8 DEF f, out, W

LEMMA RunType ==
  ASSUME TypeOK, Shape, RunBranch
  PROVE  TypeOK' /\ Shape'
<1>1. at \in Branches
  BY AtOK DEF RunBranch
<1>2. /\ prog' = prog /\ Explored' = Explored /\ Branches' = Branches
      /\ \A c : IsReturn(c)' = IsReturn(c)
  BY ProgramKept DEF RunBranch
<1>3. Target(at) \in Explored
  BY <1>1, BranchOK DEF Shape
<1>4. input' \in [Branches -> [visited : BOOLEAN, frame : Frame, prv_inversion : Diff,
                              cur_diff : Diff, cur_inversion : Diff]]
  BY <1>1, RanOK DEF TypeOK, Shape, RunBranch
<1>5. at' \in {<<>>} \cup Branches
  BY <1>1, AfterOK DEF RunBranch, Shape
<1>6. /\ rear' \in 1 .. MaxRear /\ rear <= rear'
      /\ Q' \in [0 .. MaxBlocks - 1 -> Explored]
      /\ block' \in [Explored -> [timestamp : 0 .. rear', queue_position : 0 .. rear',
                                 input_diff : Diff, result_diff : Diff]]
  <2>1. CASE Queued(Target(at))
    BY <2>1, Fields DEF TypeOK, Shape, RunBranch
  <2>2. CASE ~ Queued(Target(at))
    <3>1. /\ rear < MaxRear /\ rear' = rear + 1
          /\ Q' = [Q EXCEPT ![rear % MaxBlocks] = Target(at)]
          /\ block' = [block EXCEPT ![Target(at)].queue_position = rear]
      BY <2>2 DEF RunBranch
    <3>2. rear' \in 1 .. MaxRear /\ rear \in 0 .. rear' /\ rear <= rear'
      BY <3>1, Fields, MethodAssumption
    <3>3. Q' \in [0 .. MaxBlocks - 1 -> Explored]
      BY <3>1, <1>3 DEF TypeOK, Shape
    <3>4. \A b \in Explored : block[b] \in [timestamp : 0 .. rear', queue_position : 0 .. rear',
                                           input_diff : Diff, result_diff : Diff]
      BY <3>1, Fields DEF TypeOK, Shape
    <3>5. block' \in [Explored -> [timestamp : 0 .. rear', queue_position : 0 .. rear',
                                   input_diff : Diff, result_diff : Diff]]
      BY <3>1, <3>2, <3>4, <1>3 DEF TypeOK, Shape
    <3> QED
      BY <3>2, <3>3, <3>5
  <2> QED
    BY <2>1, <2>2
<1>7. Shape'
  BY <1>2, <1>4, <1>6 DEF Shape
<1>8. front' = front /\ front \in 0 .. rear'
  BY <1>6, Fields, MethodAssumption DEF RunBranch
<1> QED
  BY <1>4, <1>5, <1>6, <1>7, <1>8 DEF TypeOK, Shape

LEMMA FinishType ==
  ASSUME TypeOK, Shape, Finish
  PROVE  TypeOK' /\ Shape'
<1>1. prog' = prog /\ Explored' = Explored /\ Branches' = Branches
      /\ \A c : IsReturn(c)' = IsReturn(c)
  BY ProgramKept DEF Finish
<1> QED
  BY <1>1 DEF TypeOK, Shape, Finish

-----------------------------------------------------------------------------
(***************************************************************************)
(* The queue.                                                              *)
(***************************************************************************)
(* What each action does to the contexts, field by field. *)
LEMMA DequeueFacts ==
  ASSUME TypeOK, Shape, Dequeue
  PROVE  LET b == Q[front % MaxBlocks]
         IN  /\ b \in Explored
             /\ \A c \in Explored :
                  /\ block'[c].queue_position = block[c].queue_position
                  /\ block'[c].result_diff = block[c].result_diff
                  /\ c # b => block'[c].input_diff = block[c].input_diff
                  /\ c # b => block'[c].timestamp = block[c].timestamp
             /\ block'[b].input_diff = NextInput(b) /\ block'[b].timestamp = rear
             /\ at = <<>> /\ front < rear /\ at' = <<b, 1>> /\ front' = front + 1
             /\ prog' = prog /\ Q' = Q /\ rear' = rear /\ input' = input /\ missed' = missed
<1> DEFINE b == Q[front % MaxBlocks]
<1>1. b \in Explored
  BY Fields, PlaceOK
<1>2. block' = [block EXCEPT ![b].input_diff = NextInput(b), ![b].timestamp = rear]
  BY DEF Dequeue
<1>3. ASSUME NEW c \in Explored
      PROVE  /\ block'[c].queue_position = block[c].queue_position
             /\ block'[c].result_diff = block[c].result_diff
             /\ c # b => block'[c].input_diff = block[c].input_diff
             /\ c # b => block'[c].timestamp = block[c].timestamp
             /\ c = b => block'[b].input_diff = NextInput(b) /\ block'[b].timestamp = rear
  <2> HIDE DEF b
  <2> DEFINE B == [block EXCEPT ![b].input_diff = NextInput(b)]
  <2>1. block' = [B EXCEPT ![b].timestamp = rear]
    BY <1>2
  <2>2. /\ DOMAIN B = Explored
        /\ \A d \in Explored : d # b => B[d] = block[d]
        /\ B[b] = [block[b] EXCEPT !.input_diff = NextInput(b)]
    BY <1>1 DEF Shape
  <2>3. /\ \A d \in Explored : d # b => block'[d] = B[d]
        /\ block'[b] = [B[b] EXCEPT !.timestamp = rear]
    <3> HIDE DEF B
    <3> QED
      BY <1>1, <2>1, <2>2
  <2>4. block[b] \in [timestamp : 0 .. rear, queue_position : 0 .. rear,
                      input_diff : Diff, result_diff : Diff]
    BY <1>1 DEF TypeOK, Shape
  <2>5. /\ block'[b].queue_position = block[b].queue_position
        /\ block'[b].result_diff = block[b].result_diff
        /\ block'[b].input_diff = NextInput(b) /\ block'[b].timestamp = rear
    BY <2>2, <2>3, <2>4
  <2> QED
    BY <2>2, <2>3, <2>5
<1> QED
  BY <1>1, <1>3 DEF Dequeue

LEMMA ReturnFacts ==
  ASSUME TypeOK, Shape, ReturnBranch
  PROVE  /\ at # <<>> /\ at[1] \in Explored /\ IsReturn(at[1])
         /\ \A c \in Explored :
              /\ block'[c].queue_position = block[c].queue_position
              /\ block'[c].input_diff = block[c].input_diff
              /\ block'[c].timestamp = block[c].timestamp
              /\ c # at[1] => block'[c].result_diff = block[c].result_diff
         /\ block'[at[1]].result_diff = Then(block[at[1]].result_diff, block[at[1]].input_diff)
         /\ at' = <<>> /\ prog' = prog /\ Q' = Q /\ front' = front /\ rear' = rear
         /\ input' = input /\ missed' = missed
<1>1. at[1] \in Explored
  BY AtOK DEF ReturnBranch
<1> QED
  BY <1>1 DEF ReturnBranch, TypeOK, Shape

LEMMA SkipFacts ==
  ASSUME TypeOK, Shape, SkipBranch
  PROVE  /\ at \in Branches /\ input[at].visited /\ Modified(at) = 0
         /\ \A e \in Branches : e # at => input'[e] = input[e]
         /\ input'[at].frame = BranchFrame(at)
         /\ input'[at].visited = input[at].visited
         /\ input'[at].prv_inversion = input[at].prv_inversion
         /\ input'[at].cur_diff = input[at].cur_diff
         /\ input'[at].cur_inversion = input[at].cur_inversion
         /\ at' = After(at) /\ prog' = prog /\ Q' = Q /\ front' = front /\ rear' = rear
         /\ block' = block
         /\ missed' = {} => missed = {} /\ BranchFrame(at) = input[at].frame
<1>1. at \in Branches
  BY AtOK DEF SkipBranch
<1> QED
  BY <1>1 DEF SkipBranch, TypeOK, Shape

LEMMA RunFacts ==
  ASSUME TypeOK, Shape, RunBranch
  PROVE  /\ at \in Branches /\ Target(at) \in Explored
         /\ \A e \in Branches : e # at => input'[e] = input[e]
         /\ input'[at] = Ran(at, BranchFrame(at))
         /\ \A c \in Explored :
              /\ block'[c].input_diff = block[c].input_diff
              /\ block'[c].timestamp = block[c].timestamp
              /\ block'[c].result_diff = block[c].result_diff
              /\ c # Target(at) => block'[c].queue_position = block[c].queue_position
         /\ IF Queued(Target(at))
            THEN Q' = Q /\ rear' = rear /\ block' = block
            ELSE /\ rear < MaxRear /\ rear' = rear + 1
                 /\ Q' = [Q EXCEPT ![rear % MaxBlocks] = Target(at)]
                 /\ block'[Target(at)].queue_position = rear
         /\ at' = After(at) /\ prog' = prog /\ front' = front /\ missed' = missed
<1>1. at \in Branches /\ Target(at) \in Explored
  BY AtOK, BranchOK DEF RunBranch, Shape
<1>2. ASSUME ~ Queued(Target(at))
      PROVE  \A c \in Explored :
              /\ block'[c].input_diff = block[c].input_diff
              /\ block'[c].timestamp = block[c].timestamp
              /\ block'[c].result_diff = block[c].result_diff
              /\ block'[c].queue_position =
                   IF c = Target(at) THEN rear ELSE block[c].queue_position
  BY <1>1, <1>2 DEF RunBranch, TypeOK, Shape
<1>3. \A e \in Branches : input'[e] = IF e = at THEN Ran(at, BranchFrame(at)) ELSE input[e]
  BY <1>1 DEF RunBranch, Shape
<1> QED
  BY <1>1, <1>2, <1>3 DEF RunBranch

(* The blocks that wait are different, so there are never more of them     *)
(* than blocks that may wait                                               *)
LEMMA QueueBound ==
  ASSUME TypeOK, Shape, Waiting, NEW D \in SUBSET Explored,
         \A i \in front .. rear - 1 : Q[i % MaxBlocks] \in D
  PROVE  rear - front <= Cardinality(D)
<1> DEFINE S == front .. rear - 1
           f == [i \in S |-> Q[i % MaxBlocks]]
<1>1. MaxBlocks \in Nat /\ Explored \subseteq 1 .. MaxBlocks
  BY MethodAssumption, ExploredOK DEF Shape
<1>2. IsFiniteSet(D) /\ Cardinality(D) \in Nat
  <2>1. IsFiniteSet(1 .. MaxBlocks) /\ D \in SUBSET (1 .. MaxBlocks)
    BY <1>1, FS_Interval
  <2>2. IsFiniteSet(D)
    BY <2>1, FS_Subset
  <2> QED
    BY <2>2, FS_CardinalityType
<1>3. IsFiniteSet(S) /\ Cardinality(S) = rear - front
  <2>1. front \in Int /\ rear - 1 \in Int /\ front <= rear /\ rear \in Int
    BY Fields
  <2>2. /\ IsFiniteSet(S)
        /\ Cardinality(S) = IF front > rear - 1 THEN 0 ELSE rear - 1 - front + 1
    BY <2>1, FS_Interval
  <2> QED
    BY <2>1, <2>2
<1>4. f \in [S -> D]
  OBVIOUS
<1>5. SUFFICES ASSUME Cardinality(D) < Cardinality(S) PROVE FALSE
  BY <1>2, <1>3, Fields
<1>6. PICK x \in S, y \in S : x # y /\ f[x] = f[y]
  <2> HIDE DEF S, f
  <2> QED
    BY <1>2, <1>3, <1>4, <1>5, FS_PigeonHole
<1> QED
  BY <1>6 DEF Waiting

(* While a block does not wait, the queue has a free place *)
LEMMA QueueRoom ==
  ASSUME TypeOK, Shape, Waiting, NEW c \in Explored, ~ Queued(c)
  PROVE  rear - front < MaxBlocks
<1>1. MaxBlocks \in Nat /\ Explored \subseteq 1 .. MaxBlocks
  BY MethodAssumption, ExploredOK DEF Shape
<1>2. \A i \in front .. rear - 1 : Q[i % MaxBlocks] \in Explored \ {c}
  <2> SUFFICES ASSUME NEW i \in front .. rear - 1 PROVE Q[i % MaxBlocks] \in Explored \ {c}
    OBVIOUS
  <2>1. i \in Nat /\ i >= front
    BY Fields
  <2>2. Q[i % MaxBlocks] \in Explored
    BY <2>1, PlaceOK
  <2>3. Queued(Q[i % MaxBlocks])
    BY <2>1 DEF Waiting, Queued
  <2> QED
    BY <2>2, <2>3
<1>3. rear - front <= Cardinality(Explored \ {c})
  BY <1>2, QueueBound
<1>4. Cardinality(Explored \ {c}) <= MaxBlocks - 1
  <2>1. IsFiniteSet(1 .. MaxBlocks) /\ Cardinality(1 .. MaxBlocks) = MaxBlocks
    BY <1>1, FS_Interval
  <2>2. /\ IsFiniteSet((1 .. MaxBlocks) \ {c})
        /\ Cardinality((1 .. MaxBlocks) \ {c}) = MaxBlocks - 1
    BY <1>1, <2>1, FS_RemoveElement
  <2>3. Explored \ {c} \in SUBSET ((1 .. MaxBlocks) \ {c})
    BY <1>1
  <2> QED
    BY <2>2, <2>3, FS_Subset
<1>5. Cardinality(Explored \ {c}) \in Int
  <2>1. Explored \ {c} \in SUBSET (1 .. MaxBlocks) /\ IsFiniteSet(1 .. MaxBlocks)
    BY <1>1, FS_Interval
  <2>2. IsFiniteSet(Explored \ {c})
    BY <2>1, FS_Subset
  <2> QED
    BY <2>2, FS_CardinalityType
<1> QED
  BY <1>1, <1>3, <1>4, <1>5, Fields

LEMMA DequeueQueue ==
  ASSUME TypeOK, Shape, Waiting, Dequeue
  PROVE  /\ Waiting' /\ Busy'
         /\ front' > 0 /\ block'[Q[front % MaxBlocks]].queue_position < front'
         /\ block[Q[front % MaxBlocks]].queue_position = front
         /\ \A c \in Explored :
              front > 0 /\ c # Q[front % MaxBlocks] /\ Queued(c) =>
                Queued(c)' /\ front < block[c].queue_position
<1> DEFINE b == Q[front % MaxBlocks]
<1>1. /\ Explored' = Explored /\ b \in Explored /\ front \in Nat /\ rear \in Nat
      /\ front < rear /\ front' = front + 1 /\ rear' = rear /\ Q' = Q /\ at' = <<b, 1>>
      /\ \A c \in Explored : /\ block'[c].queue_position = block[c].queue_position
                             /\ block[c].queue_position \in Nat
  BY DequeueFacts, ProgramKept, Fields
<1>2. block[b].queue_position = front
  BY <1>1 DEF Waiting
<1>3. block'[b].queue_position < front'
  BY <1>1, <1>2
<1>4. Busy'
  <2>1. at'[1] = b
    BY <1>1
  <2> HIDE DEF b
  <2> QED
    BY <1>1, <1>3, <2>1 DEF Busy, Queued
<1>5. ASSUME NEW c \in Explored
      PROVE  /\ block'[c].queue_position < rear'
             /\ Queued(c)' => Q'[block'[c].queue_position % MaxBlocks] = c
  <2>1. CASE front = 0
    BY <1>1, <2>1 DEF Waiting, Queued
  <2>2. CASE front > 0
    BY <1>1, <2>2 DEF Waiting, Queued
  <2> QED
    BY <1>1, <2>1, <2>2
<1>6. ASSUME NEW i \in front' .. rear' - 1
      PROVE  block'[Q'[i % MaxBlocks]].queue_position = i
  <2>1. i \in Nat /\ i \in front .. rear - 1
    BY <1>1
  <2>2. Q[i % MaxBlocks] \in Explored
    BY <2>1, PlaceOK
  <2> QED
    BY <1>1, <2>1, <2>2 DEF Waiting
<1>7. Waiting'
  BY <1>1, <1>5, <1>6 DEF Waiting
<1>8. ASSUME NEW c \in Explored, front > 0, c # b, Queued(c)
      PROVE  Queued(c)' /\ front < block[c].queue_position
  BY <1>1, <1>8 DEF Waiting, Queued
<1> QED
  BY <1>1, <1>2, <1>3, <1>4, <1>7, <1>8

LEMMA KeptQueue ==
  ASSUME TypeOK, Shape, Waiting, Busy, prog' = prog, Q' = Q, front' = front, rear' = rear,
         \A c \in Explored : block'[c].queue_position = block[c].queue_position,
         at' # <<>> => at # <<>> /\ at'[1] = at[1]
  PROVE  Waiting' /\ Busy' /\ \A c \in Explored : Queued(c)' <=> Queued(c)
<1>1. Explored' = Explored /\ \A c : Next(c)' = Next(c)
  BY ProgramKept
<1>2. \A c \in Explored : Queued(c)' <=> Queued(c)
  BY DEF Queued
<1>3. \A i \in front .. rear - 1 : Q[i % MaxBlocks] \in Explored
  BY Fields, PlaceOK
<1>4. Waiting'
  <2>1. front = 0 => at' = <<>>
    BY DEF Waiting
  <2> QED
    BY <1>1, <1>2, <1>3, <2>1 DEF Waiting
<1>5. Busy'
  <2>1. at # <<>> => at[1] \in Explored
    BY AtOK
  <2> QED
    BY <1>1, <1>2, <2>1 DEF Busy, SelfLoop
<1> QED
  BY <1>2, <1>4, <1>5

LEMMA RunQueue ==
  ASSUME TypeOK, Shape, Waiting, Busy, RunBranch
  PROVE  /\ Waiting' /\ Busy' /\ front > 0
         /\ block'[Target(at)].queue_position >= front'
         /\ \A c \in Explored : c # Target(at) => (Queued(c)' <=> Queued(c))
<1> DEFINE t == Target(at)
<1>1. /\ Explored' = Explored /\ \A c : Next(c)' = Next(c)
      /\ at \in Branches /\ at # <<>> /\ t \in Explored /\ front' = front
      /\ \A c \in Explored : /\ c # t => block'[c].queue_position = block[c].queue_position
                             /\ block[c].queue_position \in Nat
      /\ front \in Nat /\ rear \in Nat /\ front <= rear
  BY RunFacts, ProgramKept, Fields, BranchOK DEF Shape
<1>2. front > 0
  BY <1>1 DEF Waiting
<1>3. \A c \in Explored : c # t => (Queued(c)' <=> Queued(c))
  BY <1>1 DEF Queued
<1>4. at' = After(at) /\ (at' # <<>> => at'[1] = at[1])
  BY <1>1, RunFacts, AfterOK DEF Shape
<1>5. CASE Queued(t)
  <2>1. Q' = Q /\ rear' = rear /\ block' = block
    BY <1>5, RunFacts
  <2>2. Waiting' /\ Busy' /\ \A c \in Explored : Queued(c)' <=> Queued(c)
    BY <1>1, <1>4, <2>1, RunFacts, KeptQueue
  <2>3. block'[t].queue_position >= front'
    BY <1>1, <1>5, <2>1 DEF Queued
  <2> QED
    BY <1>2, <1>3, <2>2, <2>3
<1>6. CASE ~ Queued(t)
  <2>1. /\ rear' = rear + 1 /\ Q' = [Q EXCEPT ![rear % MaxBlocks] = t]
        /\ block'[t].queue_position = rear
    BY <1>6, RunFacts
  <2>2. block'[t].queue_position >= front'
    BY <1>1, <2>1
  <2>3. ASSUME NEW i \in front .. rear - 1
        PROVE  i % MaxBlocks # rear % MaxBlocks /\ Q'[i % MaxBlocks] = Q[i % MaxBlocks]
               /\ Q[i % MaxBlocks] \in Explored
    <3>1. rear - front < MaxBlocks /\ MaxBlocks \in Nat \ {0}
      BY <1>1, <1>6, QueueRoom, MethodAssumption
    <3>2. i \in Nat /\ i < rear /\ rear - i < MaxBlocks
      BY <1>1, <3>1
    <3>3. i % MaxBlocks # rear % MaxBlocks
      BY <1>1, <3>1, <3>2, RingPlaces
    <3>4. i % MaxBlocks \in 0 .. MaxBlocks - 1 /\ Q[i % MaxBlocks] \in Explored
      BY <3>2, PlaceOK
    <3> QED
      BY <2>1, <3>3, <3>4 DEF TypeOK
  <2>4. Q'[rear % MaxBlocks] = t
    <3>1. rear % MaxBlocks \in 0 .. MaxBlocks - 1
      BY <1>1, PlaceOK
    <3> QED
      BY <2>1, <3>1 DEF TypeOK
  <2>5. ASSUME NEW c \in Explored
        PROVE  /\ block'[c].queue_position < rear'
               /\ Queued(c)' => Q'[block'[c].queue_position % MaxBlocks] = c
    <3>1. CASE c = t
      BY <1>1, <2>1, <2>4, <3>1
    <3>2. CASE c # t
      <4>1. block[c].queue_position < rear /\ block'[c].queue_position = block[c].queue_position
        BY <1>1, <1>2, <3>2 DEF Waiting
      <4>2. ASSUME Queued(c)' PROVE Q'[block'[c].queue_position % MaxBlocks] = c
        <5>1. /\ Q[block[c].queue_position % MaxBlocks] = c
              /\ block[c].queue_position \in front .. rear - 1
          BY <1>1, <1>2, <1>3, <3>2, <4>1, <4>2 DEF Waiting, Queued
        <5> QED
          BY <2>3, <4>1, <5>1
      <4> QED
        BY <1>1, <2>1, <4>1, <4>2
    <3> QED
      BY <3>1, <3>2
  <2>6. ASSUME NEW i \in front' .. rear' - 1
        PROVE  block'[Q'[i % MaxBlocks]].queue_position = i
    <3>1. CASE i = rear
      BY <2>1, <2>4, <3>1
    <3>2. CASE i # rear
      <4>1. i \in front .. rear - 1
        BY <1>1, <2>1, <3>2
      <4>2. block[Q[i % MaxBlocks]].queue_position = i
        BY <4>1 DEF Waiting
      <4>3. Q[i % MaxBlocks] # t
        BY <1>1, <1>6, <4>1, <4>2 DEF Queued
      <4> QED
        BY <1>1, <2>3, <4>1, <4>2, <4>3
    <3> QED
      BY <3>1, <3>2
  <2>7. Waiting'
    BY <1>1, <1>2, <2>5, <2>6 DEF Waiting
  <2>8. Busy'
    <3>1. at[1] \in Explored /\ (t = at[1] => SelfLoop(at[1]))
      BY <1>1, BranchOK DEF Shape
    <3> SUFFICES ASSUME at' # <<>>, Queued(at[1])' PROVE SelfLoop(at[1])'
      BY DEF Busy
    <3>3. at'[1] = at[1]
      BY <1>4
    <3>4. CASE t = at[1]
      BY <1>1, <3>1, <3>3, <3>4 DEF SelfLoop
    <3>5. CASE t # at[1]
      <4>1. Queued(at[1])
        BY <1>1, <3>1, <3>3, <3>5 DEF Queued
      <4> QED
        BY <1>1, <3>3, <4>1 DEF Busy, SelfLoop
    <3> QED
      BY <3>4, <3>5
  <2> QED
    BY <1>2, <1>3, <2>2, <2>7, <2>8
<1> QED
  BY <1>5, <1>6

-----------------------------------------------------------------------------
(***************************************************************************)
(* The inputs of the blocks.                                               *)
(***************************************************************************)
(* The inputs are frames *)
LEMMA InTyped ==
  ASSUME TypeOK, Shape, NEW b \in Explored
  PROVE  /\ ~ IsReturn(b) => <<b, 1>> \in Branches
         /\ OldIn(b) \in Frame /\ NewIn(b) \in Frame
<1>1. ASSUME ~ IsReturn(b) PROVE <<b, 1>> \in Branches
  <2>1. Next(b) \in Seq(Nat) /\ Next(b) # <<>>
    BY <1>1, ExploredOK DEF IsReturn, Shape
  <2>2. 1 \in 1 .. Len(Next(b))
    BY <2>1
  <2> QED
    BY <2>2 DEF Branches
<1>2. OldIn(b) \in Frame
  <2>1. CASE IsReturn(b)
    <3>1. prog.frame \in Frame /\ block[b].result_diff \in Diff
      BY ExploredOK, Fields DEF Shape
    <3> QED
      BY <2>1, <3>1, ApplyOK DEF OldIn
  <2>2. CASE ~ IsReturn(b)
    <3>1. At(b) => at \in Branches
      BY <2>2, AtOK DEF At
    <3> QED
      BY <2>2, <3>1, <1>1, BranchFrameOK DEF OldIn
  <2> QED
    BY <2>1, <2>2
<1>3. block[b].input_diff \in Diff
  BY Fields
<1>4. NewIn(b) \in Frame
  BY <1>2, <1>3, ApplyOK DEF NewIn
<1> QED
  BY <1>1, <1>2, <1>4

(* A branch that counts no change and whose frame has not changed has run  *)
(* on the frame it still has                                               *)
LEMMA NothingModified ==
  ASSUME TypeOK, Shape, Kept, NEW e \in Branches,
         input[e].visited, Modified(e) = 0, BranchFrame(e) = input[e].frame
  PROVE  InOf(e) = input[e].frame
<1> DEFINE f == input[e].frame
           i == input[e]
           W == Written(e[1])
<1>1. /\ f \in Frame /\ i.cur_inversion \in Diff /\ i.cur_diff = On(f, W)
      /\ DOMAIN i.cur_inversion = W
  BY Fields DEF Kept
<1>2. W \in SUBSET Loc
  BY BranchOK, WrittenLoc DEF Shape
<1>3. \A l \in W : i.cur_diff[l] = f[l]
  BY <1>1, <1>2, OnOK
<1>4. Gained(i, f) = {} /\ Lost(i, f) \in SUBSET Loc
  BY <1>1, <1>2, <1>3 DEF Gained, Lost
<1>5. {l \in DOMAIN BranchDiff(e) : i.frame[l] # BranchFrame(e)[l]} = {}
  OBVIOUS
<1>6. IsFiniteSet(Lost(i, f)) /\ Cardinality(Lost(i, f)) \in Nat
  BY <1>4, MethodAssumption, FS_Subset, FS_CardinalityType
<1>7. Cardinality(Lost(i, f)) = 0
  <2>1. 0 = Cardinality({l \in DOMAIN BranchDiff(e) : i.frame[l] # BranchFrame(e)[l]})
              + Cardinality(Gained(i, f)) - Cardinality(Lost(i, f))
    BY Zenon DEF Modified
  <2>2. 0 = Cardinality({}) + Cardinality({}) - Cardinality(Lost(i, f))
    BY <2>1, <1>4, <1>5
  <2>3. Cardinality({}) = 0
    BY FS_EmptySet
  <2> QED
    BY <2>2, <2>3, <1>6
<1>8. Lost(i, f) = {}
  BY <1>6, <1>7, FS_EmptySet
<1>9. \A l \in W : i.cur_inversion[l] = f[l]
  BY <1>1, <1>3, <1>8 DEF Lost
<1>10. \A l \in Loc : Apply(f, i.cur_inversion)[l] = f[l]
  BY <1>1, <1>9, ApplyOK
<1> QED
  BY <1>1, <1>10, ApplyOK DEF InOf, Frame

(* While the analyzer is at a branch of b, that branch has yet to run: the *)
(* frame it will run on is the new input of b                              *)
LEMMA AtInput ==
  ASSUME TypeOK, Shape, at \in Branches
  PROVE  /\ At(at[1]) /\ OldIn(at[1]) = InOf(at)
         /\ NewIn(at[1]) = BranchFrame(at)
<1>1. at # <<>> /\ ~ IsReturn(at[1])
  BY BranchOK DEF Shape
<1> QED
  BY <1>1, BranchFrameOK DEF At, OldIn, NewIn

(* When the analyzer moves on to the next branch of the block it is at,    *)
(* the inputs of the blocks stay what they are                             *)
LEMMA MoveOn ==
  ASSUME TypeOK, Shape, at \in Branches, Same, prog' = prog, at' = After(at),
         \A c \in Explored : /\ block'[c].result_diff = block[c].result_diff
                             /\ block'[c].input_diff = block[c].input_diff,
         \A e \in Branches : e # at => InOf(e)' = InOf(e),
         \A e : e = at => InOf(e)' = NewIn(at[1])
  PROVE  Same' /\ \A c \in Explored : NewIn(c)' = NewIn(c)
<1> DEFINE b == at[1]
<1>1. /\ Explored' = Explored /\ Branches' = Branches
      /\ \A c : IsReturn(c)' = IsReturn(c)
  BY ProgramKept
<1>2. /\ at # <<>> /\ b \in Explored /\ ~ IsReturn(b) /\ at = <<b, at[2]>>
      /\ at[2] \in 1 .. Len(Next(b)) /\ Len(Next(b)) \in Nat /\ <<b, 1>> \in Branches
  BY BranchOK DEF Shape
<1>3. /\ at' \in {<<>>} \cup Branches
      /\ at' # <<>> => at'[1] = b /\ at'[2] = at[2] + 1
      /\ at' = <<>> => at[2] = Len(Next(b))
  BY AfterOK DEF Shape
<1>4. ASSUME NEW c \in Explored, c # b PROVE OldIn(c)' = OldIn(c) /\ NewIn(c)' = NewIn(c)
  <2>1. ~ At(c) /\ ~ At(c)'
    BY <1>3, <1>4 DEF At
  <2>2. ~ IsReturn(c) => <<c, 1>> \in Branches /\ <<c, 1>> # at
    BY <1>4, InTyped
  <2>3. ~ IsReturn(c) => InOf(<<c, 1>>)' = InOf(<<c, 1>>)
    BY <2>2
  <2> QED
    BY <1>1, <2>1, <2>3 DEF OldIn, NewIn
<1>5. OldIn(b) = InOf(at) /\ NewIn(b) = Apply(OldIn(b), block[b].input_diff) /\ At(b)
  BY AtInput DEF NewIn
<1>6. ASSUME NEW e \in Branches
      PROVE  /\ e[1] = b /\ e # at => e[2] < at[2] \/ at[2] + 1 <= e[2]
             /\ e[2] \in 1 .. Len(Next(e[1])) /\ e = <<e[1], e[2]>> /\ e[1] \in Explored
  <2>1. /\ e[2] \in 1 .. Len(Next(e[1])) /\ e = <<e[1], e[2]>> /\ e[1] \in Explored
        /\ Len(Next(e[1])) \in Nat
    BY BranchOK DEF Shape
  <2>2. e[1] = b /\ e # at => e[2] # at[2]
    BY <2>1, <1>2
  <2> QED
    BY <2>1, <2>2, <1>2
<1>7. ASSUME NEW e \in Branches, e[1] = b, e # at
      PROVE  InOf(e)' = IF at[2] <= e[2] THEN OldIn(b) ELSE NewIn(b)
  BY <1>5, <1>7 DEF Same
<1>8. CASE at' # <<>>
  <2>1. at' \in Branches /\ at' # at /\ at'[1] = b /\ at[2] <= at'[2]
    BY <1>2, <1>3, <1>8
  <2>2. \A e : e = at' => InOf(e)' = OldIn(b)
    BY <2>1, <1>7
  <2>3. ASSUME NEW c, c = b PROVE At(c)' /\ OldIn(c)' = OldIn(b) /\ NewIn(c)' = NewIn(b)
    <3>1. At(c)'
      BY <2>1, <2>3, <1>8 DEF At
    <3>2. OldIn(c)' = OldIn(b)
      BY <3>1, <2>2, <2>3, <1>1, <1>2 DEF OldIn
    <3> QED
      BY <3>1, <3>2, <2>3, <1>2, <1>5 DEF NewIn
  <2>4. ASSUME NEW e \in Branches
        PROVE  InOf(e)' = IF At(e[1])' /\ at'[2] <= e[2] THEN OldIn(e[1])' ELSE NewIn(e[1])'
    <3>1. CASE e[1] # b
      <4>1. ~ At(e[1])' /\ ~ At(e[1])
        BY <3>1, <1>3 DEF At
      <4> QED
        BY <3>1, <4>1, <1>4, <1>6 DEF Same
    <3>2. CASE e[1] = b
      BY <3>2, <2>3, <1>2, <1>3, <1>6, <1>7, <1>8
    <3> QED
      BY <3>1, <3>2
  <2> QED
    BY <2>3, <2>4, <1>1, <1>4 DEF Same
<1>9. CASE at' = <<>>
  <2>1. \A c : ~ At(c)'
    BY <1>9 DEF At
  <2>2. ASSUME NEW e \in Branches, e[1] = b PROVE InOf(e)' = NewIn(b)
    BY <2>2, <1>2, <1>3, <1>6, <1>7, <1>9
  <2>3. ASSUME NEW c, c = b PROVE NewIn(c)' = NewIn(b)
    <3>1. NewIn(c)' = InOf(<<c, 1>>)'
      BY <2>1, <2>3, <1>1, <1>2 DEF NewIn, OldIn
    <3> QED
      BY <3>1, <2>2, <2>3, <1>2
  <2>4. ASSUME NEW e \in Branches PROVE InOf(e)' = NewIn(e[1])'
    <3>1. CASE e[1] # b
      <4>1. ~ At(e[1])
        BY <3>1 DEF At
      <4> QED
        BY <3>1, <4>1, <1>4, <1>6 DEF Same
    <3>2. CASE e[1] = b
      BY <3>2, <2>2, <2>3
    <3> QED
      BY <3>1, <3>2
  <2> QED
    BY <2>1, <2>3, <2>4, <1>1, <1>4 DEF Same
<1> QED
  BY <1>8, <1>9

-----------------------------------------------------------------------------
(***************************************************************************)
(* Every action keeps the content.                                         *)
(***************************************************************************)
(* A state in which nothing has changed but the position of the analyzer,  *)
(* seen from the branches: frames, diffs and inputs are the same           *)
LEMMA KeptCover ==
  ASSUME TypeOK, Shape, Kept, Cover, Again, prog' = prog, front' = front,
         \A c \in Explored : /\ NewIn(c)' = NewIn(c)
                             /\ block'[c].queue_position = block[c].queue_position
                             /\ block'[c].input_diff = block[c].input_diff
                             /\ block'[c].timestamp = block[c].timestamp,
         \A e \in Branches : /\ input'[e].frame = input[e].frame
                             /\ input'[e].visited = input[e].visited
                             /\ input'[e].prv_inversion = input[e].prv_inversion
                             /\ input'[e].cur_diff = input[e].cur_diff
                             /\ input'[e].cur_inversion = input[e].cur_inversion
  PROVE  Kept' /\ Cover' /\ Again' /\ \A e \in Branches : InOf(e)' = InOf(e)
<1>1. /\ Explored' = Explored /\ Branches' = Branches
      /\ \A b : Next(b)' = Next(b) /\ Written(b)' = Written(b)
      /\ \A b, f : Execute(b, f)' = Execute(b, f)
      /\ \A e : Target(e)' = Target(e)
  BY ProgramKept
<1>2. \A e \in Branches : e[1] \in Explored /\ Target(e) \in Explored
  BY BranchOK DEF Shape
<1>3. \A e \in Branches : InOf(e)' = InOf(e)
  BY DEF InOf
<1>4. Kept'
  BY <1>1, <1>2, <1>3 DEF Kept
<1>5. \A e \in Branches, l \in Loc : CoveredAt(e, l)' <=> CoveredAt(e, l)
  BY <1>1, <1>2 DEF CoveredAt
<1>6. \A e \in Branches, l \in Loc : Pending(e, l)' <=> Pending(e, l)
  BY <1>1, <1>2 DEF Pending, Queued, Stale
<1>7. Cover'
  BY <1>1, <1>5, <1>6 DEF Cover
<1>8. Again'
  BY <1>1, <1>2, <1>5 DEF Again, Queued, SelfLoop
<1> QED
  BY <1>3, <1>4, <1>7, <1>8

LEMMA InitContent ==
  ASSUME Init
  PROVE  Waiting /\ Busy /\ Latest /\ Content
<1>1. TypeOK /\ Shape /\ prog \in Programs
  BY InitType DEF Shape
<1>2. prog.frame \in Frame /\ 1 \in Explored
  BY <1>1, ExploredOK
<1>3. Waiting /\ Busy /\ Latest
  <2>1. \A b \in Explored : block[b].queue_position = 0
    BY DEF Init, NewBlock
  <2>2. \A i \in front .. rear - 1 : block[Q[i % MaxBlocks]].queue_position = i
    <3>1. \A i \in front .. rear - 1 : i = 0 /\ Q[i % MaxBlocks] \in Explored
      BY <1>1, PlaceOK DEF Init
    <3> QED
      BY <2>1, <3>1
  <2> QED
    BY <2>1, <2>2 DEF Init, Waiting, Busy, Latest
<1>4. \A e \in Branches : /\ input[e].frame = prog.frame /\ input[e].visited = FALSE
                          /\ input[e].prv_inversion = Empty
                          /\ input[e].cur_diff = Empty /\ input[e].cur_inversion = Empty
  BY DEF Init, NewInput
<1>5. Kept
  BY <1>4, EmptyOK DEF Kept
<1>6. \A e \in Branches : InOf(e) = prog.frame
  BY <1>2, <1>4, EmptyOK DEF InOf
<1>7. \A b \in Explored : ~ At(b) /\ NewIn(b) = prog.frame
  <2>1. \A b \in Explored : ~ At(b) /\ block[b].result_diff = Empty
    BY DEF Init, At, NewBlock
  <2>2. \A b \in Explored : ~ IsReturn(b) => <<b, 1>> \in Branches
    BY <1>1, InTyped
  <2> QED
    BY <1>2, <1>6, <2>1, <2>2, EmptyOK DEF NewIn, OldIn
<1>8. \A e \in Branches : e[1] \in Explored /\ Target(e) \in Explored
  BY <1>1, BranchOK
<1>9. Same
  BY <1>6, <1>7, <1>8 DEF Same
<1>10. \A e \in Branches, l \in Loc : CoveredAt(e, l)
  BY <1>4, <1>7, <1>8 DEF CoveredAt
<1> QED
  BY <1>3, <1>5, <1>9, <1>10 DEF Content, Cover, Again

LEMMA DequeueContent ==
  ASSUME TypeOK, Shape, Waiting, Content, Dequeue
  PROVE  Content'
<1>0. PICK b \in Explored : b = Q[front % MaxBlocks]
  BY DequeueFacts
<1>1. /\ Explored' = Explored /\ Branches' = Branches
      /\ \A c : Next(c)' = Next(c) /\ Written(c)' = Written(c) /\ IsReturn(c)' = IsReturn(c)
      /\ \A c, f : Execute(c, f)' = Execute(c, f)
      /\ \A e : Target(e)' = Target(e)
  BY DequeueFacts, ProgramKept
<1>2. /\ input' = input /\ at = <<>> /\ at' = <<b, 1>> /\ prog' = prog
      /\ block'[b].input_diff = NextInput(b) /\ block'[b].timestamp = rear
      /\ \A c \in Explored :
           /\ block'[c].queue_position = block[c].queue_position
           /\ block'[c].result_diff = block[c].result_diff
           /\ c # b => block'[c].input_diff = block[c].input_diff
           /\ c # b => block'[c].timestamp = block[c].timestamp
  BY <1>0, DequeueFacts
<1>3. ASSUME NEW e \in Branches
      PROVE  e[1] \in Explored /\ Target(e) \in Explored /\ 1 <= e[2]
  <2>1. /\ e[1] \in Explored /\ Target(e) \in Explored
        /\ e[2] \in 1 .. Len(Next(e[1])) /\ Len(Next(e[1])) \in Nat
    BY BranchOK DEF Shape
  <2> QED
    BY <2>1
<1>4. \A e : InOf(e)' = InOf(e)
  BY <1>2 DEF InOf
<1>5. Kept'
  BY <1>1, <1>2, <1>3, <1>4 DEF Kept, Content
<1>6. ASSUME NEW c \in Explored
      PROVE  /\ ~ At(c) /\ NewIn(c) = OldIn(c) /\ OldIn(c)' = OldIn(c)
             /\ At(c)' <=> c = b
             /\ NewIn(c)' = IF c = b THEN Apply(NewIn(c), NextInput(c)) ELSE NewIn(c)
  <2>1. ~ At(c) /\ (At(c)' <=> c = b)
    BY <1>2 DEF At
  <2>2. InOf(at)' = InOf(<<b, 1>>)
    BY <1>2 DEF InOf
  <2>3. OldIn(c)' = OldIn(c)
    BY <1>1, <1>2, <1>4, <2>1, <2>2 DEF OldIn
  <2> QED
    BY <1>2, <2>1, <2>3 DEF NewIn
<1>7. Same'
  <2> SUFFICES ASSUME NEW e \in Branches
               PROVE  InOf(e)' = IF At(e[1])' /\ at'[2] <= e[2] THEN OldIn(e[1])' ELSE NewIn(e[1])'
    BY <1>1 DEF Same
  <2>1. InOf(e)' = NewIn(e[1])
    BY <1>3, <1>4, <1>6 DEF Same, Content
  <2>2. at'[2] = 1
    BY <1>2
  <2> QED
    BY <1>3, <1>6, <2>1, <2>2
<1>8. /\ front' > 0 /\ block[b].queue_position = front /\ ~ Queued(b)'
      /\ \A c \in Explored : front > 0 /\ c # b /\ Queued(c) =>
           Queued(c)' /\ front < block[c].queue_position
      /\ front = 0 => \A c \in Explored : block[c].queue_position = 0
      /\ front' = front + 1 /\ front \in Nat /\ rear \in Nat
      /\ \A c \in Explored : block[c].queue_position \in Nat
  BY <1>0, DequeueQueue, DequeueFacts, Fields DEF Queued, Waiting
<1>9. ASSUME NEW e \in Branches, NEW l \in Loc, Target(e) = b PROVE CoveredAt(e, l)'
  <2>1. /\ NewIn(b)' = Apply(NewIn(b), NextInput(b))
        /\ NewIn(b) \in Frame /\ NextInput(b) \in Diff
    BY <1>6, InTyped, NextInputOK
  <2>2. NewIn(b)'[l] = IF l \in DOMAIN NextInput(b) THEN NextInput(b)[l] ELSE NewIn(b)[l]
    BY <2>1, ApplyOK
  <2>3. CASE l \in DOMAIN NextInput(b)
    <3>1. input[e].frame[l] \subseteq NextInput(b)[l]
      BY <1>9, <2>3, NextInputOK
    <3> QED
      BY <1>1, <1>2, <1>9, <2>2, <2>3, <3>1 DEF CoveredAt
  <2>4. CASE l \notin DOMAIN NextInput(b)
    <3>1. ~ Pending(e, l)
      BY <1>9, <2>4, NextInputOK DEF Pending
    <3>2. CoveredAt(e, l)
      BY <3>1 DEF Cover, Content
    <3> QED
      BY <1>1, <1>2, <1>9, <2>2, <2>4, <3>2 DEF CoveredAt
  <2> QED
    BY <2>3, <2>4
<1>10. ASSUME NEW e \in Branches, NEW l \in Loc, Target(e) # b
       PROVE  CoveredAt(e, l)' <=> CoveredAt(e, l)
  BY <1>1, <1>2, <1>3, <1>6, <1>10 DEF CoveredAt
<1>11. ASSUME NEW e \in Branches, NEW l \in Loc, Target(e) # b, ~ CoveredAt(e, l)
       PROVE  Pending(e, l)'
  <2>1. Pending(e, l)
    BY <1>11 DEF Cover, Content
  <2>2. /\ front > 0 /\ Queued(Target(e)) /\ ~ Stale(Target(e), e)
        /\ l \in DOMAIN input[e].prv_inversion \cup DOMAIN block[e[1]].input_diff
                   \cup DOMAIN input[e].cur_diff
    BY <2>1 DEF Pending
  <2>3. \A c \in Explored : c = Target(e) => Queued(c)' /\ front < block[c].queue_position
    BY <2>2, <1>8, <1>11
  <2>4. CASE e[1] # b
    <3>1. Stale(Target(e), e)' <=> Stale(Target(e), e)
      BY <1>1, <1>2, <1>3, <1>11, <2>4 DEF Stale
    <3>2. block'[e[1]].input_diff = block[e[1]].input_diff
      BY <1>2, <1>3, <2>4
    <3> QED
      BY <1>1, <1>2, <1>3, <1>8, <2>2, <2>3, <3>1, <3>2 DEF Pending, Queued
  <2>5. CASE e[1] = b
    <3>1. Queued(b)
      BY <1>8 DEF Queued
    <3>2. SelfLoop(b)
      BY <1>3, <1>8, <1>11, <2>2, <2>3, <2>5, <3>1 DEF Again, Content
    <3>3. PICK j \in DOMAIN Next(b) : Next(b)[j] = b
      BY <3>2 DEF SelfLoop
    <3>4. <<b, j>> \in Branches /\ Target(<<b, j>>) = b
      <4>1. Next(b) \in Seq(Nat)
        BY ExploredOK DEF Shape
      <4>2. j \in 1 .. Len(Next(b))
        BY <4>1
      <4> QED
        BY <3>3, <4>2 DEF Branches, Target
    <3>5. ~ Stale(b, <<b, j>>)
      BY Fields DEF Stale
    <3>6. DOMAIN block[b].input_diff \subseteq DOMAIN NextInput(b)
      BY <3>4, <3>5, NextInputOK
    <3>7. ~ Stale(Target(e), e)'
      <4>1. block[Target(e)].timestamp <= rear /\ block[Target(e)].timestamp \in Nat
        BY <1>3, Fields
      <4>2. block'[Target(e)].timestamp = block[Target(e)].timestamp
        BY <1>2, <1>3, <1>11
      <4> QED
        BY <1>1, <1>2, <1>8, <2>5, <4>1, <4>2 DEF Stale
    <3> QED
      BY <1>1, <1>2, <1>3, <1>8, <2>2, <2>3, <2>5, <3>6, <3>7 DEF Pending, Queued
  <2> QED
    BY <2>4, <2>5
<1>12. Cover'
  BY <1>1, <1>9, <1>10, <1>11 DEF Cover
<1>13. Again'
  <2> SUFFICES ASSUME NEW e \in Branches,
                      Queued(e[1])', Queued(Target(e))',
                      block'[e[1]].queue_position < block'[Target(e)].queue_position,
                      NEW l \in Loc, ~ CoveredAt(e, l)'
               PROVE  SelfLoop(e[1])
    BY <1>1 DEF Again, SelfLoop
  <2>1. Target(e) # b
    BY <1>9
  <2>2. ~ CoveredAt(e, l)
    BY <1>10, <2>1
  <2>3. Queued(e[1]) /\ Queued(Target(e))
    BY <1>1, <1>2, <1>3, <1>8 DEF Queued
  <2> QED
    BY <1>1, <1>2, <1>3, <2>2, <2>3 DEF Again, Content
<1> QED
  BY <1>5, <1>7, <1>12, <1>13 DEF Content

LEMMA ReturnContent ==
  ASSUME TypeOK, Shape, Content, ReturnBranch
  PROVE  Content'
<1>0. PICK b \in Explored : b = at[1]
  BY ReturnFacts
<1>1. /\ at # <<>> /\ at' = <<>> /\ IsReturn(b) /\ prog' = prog /\ input' = input
      /\ front' = front
      /\ block'[b].result_diff = Then(block[b].result_diff, block[b].input_diff)
  BY <1>0, ReturnFacts
<1>2. /\ Explored' = Explored /\ Branches' = Branches
      /\ \A c : IsReturn(c)' = IsReturn(c)
  BY <1>1, ProgramKept
<1>3. \A e : InOf(e)' = InOf(e)
  BY <1>1 DEF InOf
<1>4. ASSUME NEW c \in Explored PROVE ~ At(c)' /\ NewIn(c)' = NewIn(c)
  <2>1. ~ At(c)'
    BY <1>1 DEF At
  <2>2. CASE c = b
    <3>1. NewIn(c) = Apply(Apply(prog.frame, block[b].result_diff), block[b].input_diff)
      BY <1>0, <1>1, <2>2 DEF NewIn, OldIn, At
    <3>2. NewIn(c)' = Apply(prog.frame, block'[b].result_diff)
      BY <1>1, <1>2, <2>1, <2>2 DEF NewIn, OldIn
    <3>3. prog.frame \in Frame /\ block[b].result_diff \in Diff /\ block[b].input_diff \in Diff
      BY ExploredOK, Fields DEF Shape
    <3> QED
      BY <1>1, <2>1, <3>1, <3>2, <3>3, ApplyThen
  <2>3. CASE c # b
    <3>1. ~ At(c) /\ block'[c].result_diff = block[c].result_diff
      BY <1>0, <2>3, ReturnFacts DEF At
    <3> QED
      BY <1>1, <1>2, <1>3, <2>1, <3>1 DEF NewIn, OldIn
  <2> QED
    BY <2>2, <2>3
<1>5. Kept' /\ Cover' /\ Again'
  BY <1>1, <1>4, ReturnFacts, KeptCover DEF Content
<1>6. Same'
  <2> SUFFICES ASSUME NEW e \in Branches PROVE InOf(e)' = NewIn(e[1])'
    BY <1>1, <1>2 DEF Same, At
  <2>1. e[1] \in Explored /\ e[1] # b
    BY <1>1, BranchOK DEF Shape
  <2>2. ~ At(e[1])
    BY <1>0, <2>1 DEF At
  <2> QED
    BY <1>3, <1>4, <2>1, <2>2 DEF Same, Content
<1> QED
  BY <1>5, <1>6 DEF Content

LEMMA SkipContent ==
  ASSUME TypeOK, Shape, Content, SkipBranch, missed' = {}
  PROVE  Content'
<1>1. /\ at \in Branches /\ prog' = prog /\ block' = block /\ front' = front
      /\ at' = After(at) /\ input[at].visited /\ Modified(at) = 0
      /\ BranchFrame(at) = input[at].frame
  BY SkipFacts
<1>2. \A e \in Branches : /\ input'[e].frame = input[e].frame
                          /\ input'[e].visited = input[e].visited
                          /\ input'[e].prv_inversion = input[e].prv_inversion
                          /\ input'[e].cur_diff = input[e].cur_diff
                          /\ input'[e].cur_inversion = input[e].cur_inversion
  BY <1>1, SkipFacts
<1>3. \A e \in Branches : InOf(e)' = InOf(e)
  BY <1>2 DEF InOf
<1>4. InOf(at) = NewIn(at[1])
  BY <1>1, NothingModified, AtInput DEF Content
<1>5. \A e : e = at => InOf(e)' = NewIn(at[1])
  BY <1>1, <1>3, <1>4
<1>6. Same' /\ \A c \in Explored : NewIn(c)' = NewIn(c)
  BY <1>1, <1>3, <1>5, MoveOn DEF Content
<1>7. Kept' /\ Cover' /\ Again'
  BY <1>1, <1>2, <1>6, KeptCover DEF Content
<1> QED
  BY <1>6, <1>7 DEF Content

LEMMA RunContent ==
  ASSUME TypeOK, Shape, Waiting, Busy, Latest, Content, RunBranch
  PROVE  Content'
<1>0. PICK a \in Branches, t \in Explored : a = at /\ t = Target(at)
  BY RunFacts
<1> DEFINE b == a[1]
           f == BranchFrame(a)
           out == Execute(b, f)
           W == Written(b)
<1>1. /\ Explored' = Explored /\ Branches' = Branches
      /\ \A c : Next(c)' = Next(c) /\ Written(c)' = Written(c) /\ IsReturn(c)' = IsReturn(c)
      /\ \A c, g : Execute(c, g)' = Execute(c, g)
      /\ \A e : Target(e)' = Target(e)
  BY RunFacts, ProgramKept
<1>2. /\ prog' = prog /\ at' = After(at) /\ front' = front
      /\ \A e \in Branches : e # a => input'[e] = input[e]
      /\ \A c \in Explored :
           /\ block'[c].input_diff = block[c].input_diff
           /\ block'[c].timestamp = block[c].timestamp
           /\ block'[c].result_diff = block[c].result_diff
           /\ c # t => block'[c].queue_position = block[c].queue_position
  BY <1>0, RunFacts
<1>3. \A e \in Branches : e[1] \in Explored /\ Target(e) \in Explored
  BY BranchOK DEF Shape
<1>4. /\ f \in Frame /\ out \in Frame
      /\ input'[a].visited /\ input'[a].frame = out
      /\ input'[a].prv_inversion = input[a].cur_inversion
      /\ input'[a].cur_diff = On(out, W) /\ input'[a].cur_inversion = On(f, W)
      /\ DOMAIN input'[a].cur_diff = W /\ DOMAIN input'[a].cur_inversion = W
      /\ Apply(out, On(f, W)) = f
  <2>1. input'[a] = Ran(a, f)
    BY <1>0, RunFacts
  <2> QED
    BY <2>1, RanOK
<1>5. InOf(a)' = f
  BY <1>4 DEF InOf
<1>6. \A e \in Branches : e # a => InOf(e)' = InOf(e)
  BY <1>2 DEF InOf
<1>7. Same' /\ \A c \in Explored : NewIn(c)' = NewIn(c)
  <2>1. NewIn(at[1]) = f /\ at \in Branches
    BY <1>0, AtInput
  <2>2. \A e : e = at => InOf(e)' = NewIn(at[1])
    BY <1>0, <1>5, <2>1
  <2> QED
    BY <1>0, <1>2, <1>6, <2>1, <2>2, MoveOn DEF Content
<1>8. Kept'
  <2>1. DOMAIN input'[a].prv_inversion \subseteq W
    BY <1>4, EmptyOK DEF Kept, Content
  <2>2. Execute(b, InOf(a)') = out
    BY <1>5
  <2> HIDE DEF b, f, out, W
  <2>3. ASSUME NEW e \in Branches, e # a
        PROVE  /\ input'[e] = input[e] /\ InOf(e)' = InOf(e)
    BY <1>2, <1>6, <2>3
  <2>4. ASSUME NEW e \in Branches
        PROVE  /\ DOMAIN input'[e].prv_inversion \subseteq Written(e[1])
               /\ IF input'[e].visited
                  THEN /\ input'[e].cur_diff = On(input'[e].frame, Written(e[1]))
                       /\ DOMAIN input'[e].cur_inversion = Written(e[1])
                       /\ Execute(e[1], InOf(e)') = input'[e].frame
                  ELSE /\ input'[e].cur_diff = Empty
                       /\ input'[e].cur_inversion = Empty
    <3>1. CASE e = a
      BY <3>1, <1>4, <2>1, <2>2 DEF b, W
    <3>2. CASE e # a
      BY <3>2, <2>3 DEF Kept, Content
    <3> QED
      BY <3>1, <3>2
  <2> QED
    BY <1>1, <2>4 DEF Kept
<1>9. /\ front > 0 /\ Queued(t)' /\ b \in Explored /\ Target(a) = t
      /\ \A c \in Explored : c # t => (Queued(c)' <=> Queued(c))
      /\ b = t => SelfLoop(b)
  BY <1>0, <1>2, <1>3, RunQueue, BranchOK DEF Queued, Shape
<1>10. ASSUME NEW e \in Branches, NEW l \in Loc, e # a
       PROVE  /\ CoveredAt(e, l)' <=> CoveredAt(e, l)
              /\ Pending(e, l) => Pending(e, l)'
  <2>1. input'[e] = input[e]
    BY <1>2, <1>10
  <2>2. CoveredAt(e, l)' <=> CoveredAt(e, l)
    BY <1>1, <1>3, <1>7, <2>1 DEF CoveredAt
  <2>3. ASSUME Pending(e, l) PROVE Pending(e, l)'
    <3>1. \A c \in Explored : c = Target(e) => Queued(c)'
      BY <1>9, <2>3 DEF Pending
    <3>2. ~ Stale(Target(e), e)'
      BY <1>1, <1>2, <1>3, <2>3 DEF Pending, Stale
    <3> QED
      BY <1>1, <1>2, <1>3, <2>1, <2>3, <3>1, <3>2 DEF Pending, Queued
  <2> QED
    BY <2>2, <2>3
<1>11. ASSUME NEW l \in Loc PROVE CoveredAt(a, l)' \/ Pending(a, l)'
  <2>1. CASE l \in DOMAIN input[a].cur_inversion \cup DOMAIN block[b].input_diff \cup W
    <3>1. ~ Stale(t, a)'
      <4>1. block[t].timestamp <= block[b].timestamp
        BY <1>0, BranchOK DEF Latest, Shape
      <4>2. block[t].timestamp \in Nat /\ block[b].timestamp \in Nat
        BY <1>9, Fields
      <4>3. ~ (block'[t].timestamp > block'[b].timestamp)
        BY <1>2, <1>9, <4>1, <4>2
      <4> QED
        BY <1>0, <4>3 DEF Stale
    <3>2. l \in DOMAIN input'[a].prv_inversion \cup DOMAIN block'[b].input_diff
                  \cup DOMAIN input'[a].cur_diff
      BY <1>2, <1>4, <1>9, <2>1
    <3> QED
      BY <1>1, <1>2, <1>9, <3>1, <3>2 DEF Pending
  <2>2. CASE l \notin DOMAIN input[a].cur_inversion \cup DOMAIN block[b].input_diff \cup W
    <3>1. f[l] = input[a].frame[l]
      BY <2>2, BranchFrameOK
    <3>2. out[l] = f[l]
      BY <1>3, <1>4, <2>2, ExecuteOK DEF Shape
    <3>3. DOMAIN input[a].prv_inversion \subseteq W /\ DOMAIN input[a].cur_diff \subseteq W
      <4>1. input[a].visited => DOMAIN input[a].cur_diff = W
        BY DEF Kept, Content, On
      <4> QED
        BY <4>1, EmptyOK DEF Kept, Content
    <3>4. ~ Pending(a, l)
      BY <2>2, <3>3 DEF Pending
    <3>5. CoveredAt(a, l)
      BY <3>4 DEF Cover, Content
    <3> QED
      BY <1>1, <1>3, <1>4, <1>7, <3>1, <3>2, <3>5 DEF CoveredAt
  <2> QED
    BY <2>1, <2>2
<1>12. Cover'
  BY <1>1, <1>10, <1>11 DEF Cover, Content
<1> HIDE DEF f, out, W
<1>13. Again'
  <2> SUFFICES ASSUME NEW e \in Branches,
                      Queued(e[1])', Queued(Target(e))',
                      block'[e[1]].queue_position < block'[Target(e)].queue_position,
                      NEW l \in Loc, ~ CoveredAt(e, l)'
               PROVE  SelfLoop(e[1])
    BY <1>1 DEF Again, SelfLoop
  <2>1. CASE e[1] = b
    <3>1. CASE Queued(b)
      BY <1>0, <2>1, <3>1, BranchOK DEF Busy, Shape
    <3>2. CASE ~ Queued(b)
      BY <1>9, <2>1, <3>2
    <3> QED
      BY <3>1, <3>2
  <2>2. CASE e[1] # b
    <3>1. ~ CoveredAt(e, l)
      BY <1>10, <2>2
    <3>2. Pending(e, l)
      BY <3>1 DEF Cover, Content
    <3>3. Queued(Target(e))
      BY <3>2 DEF Pending
    <3>4. block[Target(e)].queue_position < rear /\ block[Target(e)].queue_position \in Nat
          /\ rear \in Nat
      BY <1>3, <1>9, Fields DEF Waiting
    <3>5. CASE Queued(t)
      <4>1. block' = block
        BY <1>0, <3>5, RunFacts
      <4>2. Queued(e[1])
        BY <1>2, <4>1 DEF Queued
      <4> QED
        BY <1>1, <3>1, <3>3, <4>1, <4>2 DEF Again, Content
    <3>6. CASE ~ Queued(t)
      <4>1. Target(e) # t
        BY <3>3, <3>6
      <4>2. block'[t].queue_position = rear
        BY <1>0, <3>6, RunFacts
      <4>3. e[1] # t
        BY <1>1, <1>2, <1>3, <3>4, <4>1, <4>2
      <4>4. Queued(e[1]) /\ block[e[1]].queue_position < block[Target(e)].queue_position
        BY <1>1, <1>2, <1>3, <1>9, <4>1, <4>3
      <4> QED
        BY <3>1, <3>3, <4>4 DEF Again, Content
    <3> QED
      BY <3>5, <3>6
  <2> QED
    BY <2>1, <2>2
<1> QED
  BY <1>7, <1>8, <1>12, <1>13 DEF Content

-----------------------------------------------------------------------------
(***************************************************************************)
(* The theorems.                                                           *)
(***************************************************************************)
LEMMA InitOK ==
  Init => IInv
BY InitType, InitContent DEF IInv

LEMMA StepOK ==
  IInv /\ [Step]_vars => IInv'
<1> SUFFICES ASSUME IInv, [Step]_vars PROVE IInv'
  OBVIOUS
<1>0. TypeOK /\ Shape /\ Waiting /\ Busy /\ Latest /\ (missed = {} => Content)
  BY DEF IInv
<1>1. CASE Dequeue
  <2>1. TypeOK' /\ Shape' /\ Waiting' /\ Busy'
    BY <1>0, <1>1, DequeueType, DequeueQueue
  <2>2. Latest'
    <3>1. Explored' = Explored
      BY <1>0, <1>1, DequeueFacts, ProgramKept
    <3>2. PICK b \in Explored : at' = <<b, 1>> /\ block'[b].timestamp = rear
      BY <1>0, <1>1, DequeueFacts
    <3>3. \A c \in Explored : block'[c].timestamp \in Nat /\ block'[c].timestamp <= rear
      BY <1>0, <1>1, DequeueFacts, Fields
    <3> QED
      BY <3>1, <3>2, <3>3 DEF Latest
  <2>3. missed' = {} => Content'
    BY <1>0, <1>1, DequeueFacts, DequeueContent
  <2> QED
    BY <2>1, <2>2, <2>3 DEF IInv
<1>2. CASE ReturnBranch
  <2>1. TypeOK' /\ Shape'
    BY <1>0, <1>2, ReturnType
  <2>2. Waiting' /\ Busy'
    BY <1>0, <1>2, ReturnFacts, KeptQueue
  <2>3. Latest'
    BY <1>0, <1>2, ReturnFacts DEF Latest
  <2>4. missed' = {} => Content'
    BY <1>0, <1>2, ReturnFacts, ReturnContent
  <2> QED
    BY <2>1, <2>2, <2>3, <2>4 DEF IInv
<1>3. CASE SkipBranch
  <2>1. TypeOK' /\ Shape'
    BY <1>0, <1>3, SkipType
  <2>2. at' # <<>> => at # <<>> /\ at'[1] = at[1]
    <3>1. at \in Branches /\ at' = After(at) /\ prog \in Programs
      BY <1>0, <1>3, SkipFacts DEF Shape
    <3>2. at # <<>> /\ (After(at) # <<>> => After(at)[1] = at[1])
      BY <3>1, AfterOK, BranchOK
    <3> QED
      BY <3>1, <3>2
  <2>3. Waiting' /\ Busy'
    BY <1>0, <1>3, <2>2, SkipFacts, KeptQueue
  <2>4. Latest'
    BY <1>0, <1>3, <2>2, SkipFacts, ProgramKept DEF Latest
  <2>5. missed' = {} => Content'
    BY <1>0, <1>3, SkipFacts, SkipContent
  <2> QED
    BY <2>1, <2>3, <2>4, <2>5 DEF IInv
<1>4. CASE RunBranch
  <2>1. TypeOK' /\ Shape'
    BY <1>0, <1>4, RunType
  <2>2. at' # <<>> => at # <<>> /\ at'[1] = at[1] /\ at[1] \in Explored
    <3>1. at \in Branches /\ at' = After(at) /\ prog \in Programs
      BY <1>0, <1>4, RunFacts DEF Shape
    <3>2. at # <<>> /\ at[1] \in Explored /\ (After(at) # <<>> => After(at)[1] = at[1])
      BY <3>1, AfterOK, BranchOK
    <3> QED
      BY <3>1, <3>2
  <2>3. Waiting' /\ Busy'
    BY <1>0, <1>4, RunQueue
  <2>4. Latest'
    <3>1. Explored' = Explored /\ \A c \in Explored : block'[c].timestamp = block[c].timestamp
      BY <1>0, <1>4, RunFacts, ProgramKept
    <3> QED
      BY <1>0, <2>2, <3>1 DEF Latest
  <2>5. missed' = {} => Content'
    BY <1>0, <1>4, RunFacts, RunContent
  <2> QED
    BY <2>1, <2>3, <2>4, <2>5 DEF IInv
<1>5. CASE Finish
  <2>1. TypeOK' /\ Shape'
    BY <1>0, <1>5, FinishType
  <2>2. Waiting' /\ Busy'
    BY <1>0, <1>5, KeptQueue DEF Finish
  <2>3. Latest'
    BY <1>5 DEF Finish, Latest
  <2>4. missed' = {} => Content'
    <3>1. Explored' = Explored /\ Branches' = Branches /\ \A c : IsReturn(c)' = IsReturn(c)
      BY <1>5, ProgramKept DEF Finish
    <3>2. \A e : InOf(e)' = InOf(e)
      BY <1>5 DEF Finish, InOf
    <3>3. \A c : ~ At(c)' /\ ~ At(c) /\ NewIn(c)' = NewIn(c)
      BY <1>5, <3>1, <3>2 DEF Finish, At, NewIn, OldIn
    <3>4. missed' = {} => Kept' /\ Cover' /\ Again'
      BY <1>0, <1>5, <3>3, KeptCover DEF Finish, Content
    <3>5. missed' = {} => Same'
      BY <1>0, <1>5, <3>1, <3>2, <3>3 DEF Finish, Content, Same
    <3> QED
      BY <3>4, <3>5 DEF Content
  <2> QED
    BY <2>1, <2>2, <2>3, <2>4 DEF IInv
<1>6. CASE UNCHANGED vars
  <2>1. /\ prog' = prog /\ Q' = Q /\ front' = front /\ rear' = rear /\ block' = block
        /\ input' = input /\ at' = at /\ missed' = missed
    BY <1>6 DEF vars
  <2>2. /\ Explored' = Explored /\ Branches' = Branches
        /\ \A c : IsReturn(c)' = IsReturn(c)
    BY <2>1, ProgramKept
  <2>3. TypeOK' /\ Shape'
    BY <1>0, <2>1, <2>2 DEF TypeOK, Shape, Returns
  <2>4. Waiting' /\ Busy'
    BY <1>0, <2>1, KeptQueue
  <2>5. Latest'
    BY <1>0, <2>1, <2>2 DEF Latest
  <2>6. missed' = {} => Content'
    <3>1. \A e : InOf(e)' = InOf(e)
      BY <2>1 DEF InOf
    <3>2. InOf(at)' = InOf(at)
      BY <2>1 DEF InOf
    <3>3. \A c : (At(c)' <=> At(c)) /\ OldIn(c)' = OldIn(c) /\ NewIn(c)' = NewIn(c)
      BY <2>1, <2>2, <3>1, <3>2 DEF At, NewIn, OldIn
    <3>4. missed' = {} => Kept' /\ Cover' /\ Again'
      BY <1>0, <2>1, <3>3, KeptCover DEF Content
    <3>5. missed' = {} => Same'
      BY <1>0, <2>1, <2>2, <3>1, <3>3 DEF Content, Same
    <3> QED
      BY <3>4, <3>5 DEF Content
  <2> QED
    BY <2>3, <2>4, <2>5, <2>6 DEF IInv
<1> QED
  BY <1>1, <1>2, <1>3, <1>4, <1>5, <1>6 DEF Step

(* The inductive invariant holds in every state of the analyzer. *)
THEOREM Inductive ==
  Spec => []IInv
<1>1. Init => IInv
  BY InitOK
<1>2. IInv /\ [Step]_vars => IInv'
  BY StepOK
<1> QED
  BY <1>1, <1>2, PTL DEF Spec

(* For every method and every size of the queue the contexts of the        *)
(* analyzer keep their types: no diff names a location outside the frame,  *)
(* no queue entry a block that was not explored.                           *)
THEOREM TypesKept ==
  Spec => []TypeOK
<1>1. IInv => TypeOK
  BY DEF IInv
<1> QED
  BY <1>1, Inductive, PTL

(* The ring of CESK_METHOD_MAX_NBLOCKS entries never overwrites a waiting  *)
(* block and queue_position tells where a block waits, for every method    *)
(* whose blocks the ring has room for.                                     *)
THEOREM QueueNeverOverwrites ==
  Spec => []QueueExact
<1>1. IInv => QueueExact
  <2> SUFFICES ASSUME IInv PROVE QueueExact
    OBVIOUS
  <2>0. TypeOK /\ Shape /\ Waiting
    BY DEF IInv
  <2>1. MaxBlocks \in Nat /\ Explored \subseteq 1 .. MaxBlocks
    BY <2>0, MethodAssumption, ExploredOK DEF Shape
  <2>2. \A i \in front .. rear - 1 : Q[i % MaxBlocks] \in Explored
    BY <2>0, Fields, PlaceOK
  <2>3. rear - front <= Cardinality(Explored)
    BY <2>0, <2>2, QueueBound
  <2>4. Cardinality(Explored) <= MaxBlocks /\ Cardinality(Explored) \in Nat
    <3>1. IsFiniteSet(1 .. MaxBlocks) /\ Cardinality(1 .. MaxBlocks) = MaxBlocks
      BY <2>1, FS_Interval
    <3>2. IsFiniteSet(Explored) /\ Cardinality(Explored) <= MaxBlocks
      BY <2>1, <3>1, FS_Subset
    <3> QED
      BY <3>2, FS_CardinalityType
  <2>5. rear - front <= MaxBlocks
    BY <2>0, <2>1, <2>3, <2>4, Fields
  <2> QED
    BY <2>0, <2>5 DEF QueueExact, Waiting
<1> QED
  BY <1>1, Inductive, PTL

(* As long as no changed branch was skipped, rewinding a branch by its     *)
(* inverse diff gives an input from which the block computes the frame of  *)
(* the branch again, for every method.                                     *)
THEOREM RewindExact ==
  Spec => []InverseExact
<1>1. IInv => InverseExact
  BY DEF IInv, Shape, Content, Kept, InverseExact, InOf
<1> QED
  BY <1>1, Inductive, PTL

(* As long as no changed branch was skipped, no value that a branch brings *)
(* to a block outside the queue is missing from the input the block was    *)
(* analyzed with: the timestamps, the diff of the two last outputs and the *)
(* merge of the locations with records lose nothing, whatever the method.  *)
THEOREM NothingMissed ==
  Spec => []NoChangeMissed
<1>1. IInv => NoChangeMissed
  <2> SUFFICES ASSUME IInv, missed = {}, at = <<>>, NEW e \in Branches,
                      ~ Queued(Target(e)), NEW l \in Loc
               PROVE  input[e].frame[l] \subseteq InputOf(Target(e))[l]
    BY DEF NoChangeMissed, IInv, Shape, Covers
  <2>1. CoveredAt(e, l)
    BY DEF IInv, Content, Cover, Pending
  <2>2. NewIn(Target(e)) = InputOf(Target(e))
    BY DEF NewIn, OldIn, At, InputOf, InOf
  <2> QED
    BY <2>1, <2>2 DEF CoveredAt
<1> QED
  BY <1>1, Inductive, PTL

(* The analyzer has a result only after the queue has run empty *)
Stopped == Done => at = <<>> /\ front = rear

(* The method analyzer stops at a fix point unless it skipped a changed    *)
(* branch: FixpointSound, which is false as it stands, fails for no other  *)
(* reason.                                                                 *)
THEOREM FixpointUnlessSkipped ==
  Spec => [](missed = {} => FixpointSound)
<1>1. Init => Stopped
  BY DEF Init, Stopped, Done
<1>2. IInv /\ Stopped /\ [Step]_vars => Stopped'
  <2> SUFFICES ASSUME IInv, Stopped, [Step]_vars PROVE Stopped'
    OBVIOUS
  <2>0. front \in Nat /\ rear \in Nat
    BY Fields DEF IInv
  <2>1. CASE Dequeue
    <3>1. front < rear /\ result' = result
      BY <2>1 DEF Dequeue
    <3>2. ~ Done
      <4>1. SUFFICES ASSUME front = rear PROVE FALSE
        BY DEF Stopped
      <4> QED
        BY <2>0, <3>1, <4>1
    <3> QED
      BY <3>1, <3>2 DEF Stopped, Done
  <2>2. CASE ReturnBranch \/ SkipBranch \/ RunBranch
    BY <2>2 DEF ReturnBranch, SkipBranch, RunBranch, Stopped, Done
  <2>3. CASE Finish
    BY <2>3 DEF Finish, Stopped, Done
  <2>4. CASE UNCHANGED vars
    BY <2>4 DEF vars, Stopped, Done
  <2> QED
    BY <2>1, <2>2, <2>3, <2>4 DEF Step
<1>3. IInv /\ Stopped => (missed = {} => FixpointSound)
  <2> SUFFICES ASSUME IInv, Stopped, missed = {}, Done, NEW e \in Branches, NEW l \in Loc
               PROVE  input[e].frame[l] \subseteq InputOf(Target(e))[l]
    BY DEF FixpointSound, IInv, Shape, Covers
  <2>0. TypeOK /\ Shape /\ Waiting /\ at = <<>> /\ front = rear
    BY DEF IInv, Stopped
  <2>1. Target(e) \in Explored /\ front > 0
    <3>1. Target(e) \in Explored
      BY <2>0, BranchOK DEF Shape
    <3>2. rear \in Nat /\ rear >= 1
      BY <2>0, Fields
    <3> QED
      BY <2>0, <3>1, <3>2
  <2>2. ~ Queued(Target(e))
    BY <2>0, <2>1, Fields DEF Waiting, Queued
  <2>3. CoveredAt(e, l)
    BY <2>2 DEF IInv, Content, Cover, Pending
  <2>4. NewIn(Target(e)) = InputOf(Target(e))
    BY <2>0 DEF NewIn, OldIn, At, InputOf, InOf
  <2> QED
    BY <2>3, <2>4 DEF CoveredAt
<1> QED
  BY <1>1, <1>2, <1>3, Inductive, PTL DEF Spec
=============================================================================
