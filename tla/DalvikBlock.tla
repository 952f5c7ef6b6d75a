------------------------------ MODULE DalvikBlock ------------------------------
(***************************************************************************)
(* The block graph builder (src/src/dalvik/dalvik_block.c): it cuts the    *)
(* code of a method at its key instructions, gives every piece the         *)
(* branches of its last instruction, links them, frees the blocks that     *)
(* cannot be reached, and keeps the graph in a cache for the next call of  *)
(* the method.                                                             *)
(*                                                                         *)
(* A block is [begin, end, key, branches]: the analyzer executes the       *)
(* instructions from begin to end - 1, and key is the instruction that     *)
(* ends it.  A branch is                                                   *)
(*   conditional, eq, lt : the bits of dalvik_block_branch_t; without      *)
(*                         conditional, eq and lt hold a type code         *)
(*   id                  : the number of the target block, 0 for -1        *)
(*   disabled            : the branch is ignored                           *)
(***************************************************************************)
EXTENDS DalvikMethod

CONSTANTS
  MaxKeys,   \* DALVIK_BLOCK_MAX_KEYS
  Bucket     \* key -> hash value modulo DALVIK_BLOCK_CACHE_SIZE

VARIABLES
  cache,   \* the cache nodes: key, number of the graph
  graphs,  \* the graphs built so far: block number -> block
  heap,    \* the blocks that are allocated, as <<graph, block number>>
  answer   \* the last call of dalvik_block_from_method and its result

bvars == <<cache, graphs, heap, answer>>
vars == <<pvars, bvars>>

NoGraph == 0
WildGraph == -1    \* the answer of a call that left the pool
Closed == -2       \* and of the finalizer; the program ends with either

Working == ~ Reading /\ answer.graph \notin {WildGraph, Closed}

-----------------------------------------------------------------------------
(***************************************************************************)
(* Step 1, _dalvik_block_get_key_instruction_list.                         *)
(***************************************************************************)
(* The instructions of the method with entry e, by their next links *)
Chain(e) == {i \in e .. Len(pool) : \A j \in e .. i - 1 : pool[j].next # Invalid}
LastOf(e) == CHOOSE i \in Chain(e) : pool[i].next = Invalid

(* The labels of the operands of instruction i *)
LabelsOf(i) == [k \in DOMAIN pool[i].operands |-> pool[i].operands[k].label]

(* __PUSH_LABEL: the instruction before the target is a key.  Numbers are  *)
(* 32 bits wide and the pool of the program starts at 0, here at 1: before *)
(* its first instruction, and for a label that is not bound, there is only *)
(* a number far above the pool                                             *)
PushLabel(l) == IF l \in DOMAIN jump /\ jump[l] > 1 THEN jump[l] - 1 ELSE Invalid

(* What an instruction adds: itself, the instructions before its targets,  *)
(* and the one before it when it is to stand alone                         *)
Pushes(e, i) ==
  IF pool[i].op \in Branching
  THEN <<i>> \o [k \in DOMAIN pool[i].operands |-> PushLabel(LabelsOf(i)[k])]
  ELSE IF pool[i].op \in {"invoke", "return"} \/ pool[i].handlers # <<>>
  THEN IF i # e THEN <<i - 1, i>> ELSE <<i>>
  ELSE <<>>

(* All that is pushed, as <<instruction, place, key>>; what lies before    *)
(* the entry is ignored                                                    *)
Pushed(e) ==
  {p \in UNION {{<<i, n, Pushes(e, i)[n]>> : n \in DOMAIN Pushes(e, i)} : i \in Chain(e)} :
     p[3] >= e}
KeySet(e) == {p[3] : p \in Pushed(e)} \cup {LastOf(e)}

(* The keys, sorted and unique; none at all when the buffer is too small *)
Keys(e) == IF Cardinality(Pushed(e)) + 1 > MaxKeys THEN <<>> ELSE Sorted(KeySet(e))

(***************************************************************************)
(* Step 2, _dalvik_block_build_graph.                                      *)
(***************************************************************************)
(* Mutant: the binary search stops at the key below the instruction *)
FindBlockBelow(key, i) ==
  LET hi == {n \in DOMAIN key : key[n] >= i}
  IN  IF hi = {} THEN 0 ELSE IF 1 \in hi THEN 1 ELSE (CHOOSE n \in hi : n - 1 \notin hi) - 1

(* _dalvik_block_find_blockid_by_instruction: the first key at or behind   *)
(* instruction i, by binary search                                         *)
Halved(key, i, w) ==
  LET m == (w[1] + w[2]) \div 2
  IN  IF w[2] - w[1] <= 1 THEN w ELSE IF key[m] < i THEN <<m, w[2]>> ELSE <<w[1], m>>

FindBlock(key, i) ==
  LET n == Len(key)
      window[k \in 0 .. n] == IF k = 0 THEN <<1, n + 1>> ELSE Halved(key, i, window[k - 1])
  IN  IF n = 0 \/ key[n] < i THEN 0
      ELSE IF i <= key[1] THEN 1
      ELSE window[n][2]

Branch(id) == [conditional |-> 0, eq |-> 0, lt |-> 0, id |-> id, disabled |-> 0]
Disabled == [Branch(0) EXCEPT !.disabled = 1]
Cond(id) == [Branch(id) EXCEPT !.conditional = 1, !.eq = 1]

(* The type code of an unconditional branch lies over the bits eq and lt *)
UncondType(b) == b.eq + 2 * b.lt
IsReturn(b) == b.conditional = 0 /\ UncondType(b) = 1
IsException(b) == b.conditional = 0 /\ UncondType(b) = 2

Onward(key, i) ==
  IF pool[i].next = Invalid THEN Disabled ELSE Branch(FindBlock(key, pool[i].next))
To(key, l) == FindBlock(key, jump[l])

SetupGoto(key, i) == <<Branch(To(key, LabelsOf(i)[1]))>>
SetupIf(key, i) == <<Cond(To(key, LabelsOf(i)[1])), Onward(key, i)>>

(* The last branch of a packed switch is its default: it keeps the eq bit. *)
(* The default of a sparse switch may stand anywhere and never has the bit *)
SetupSwitch(key, i) ==
  LET ls == LabelsOf(i)
  IN  [j \in DOMAIN ls |->
         IF pool[i].op = "packed"
         THEN [Cond(To(key, ls[j])) EXCEPT !.conditional = IF j = Len(ls) THEN 0 ELSE 1]
         ELSE IF pool[i].operands[j].isDefault THEN Branch(To(key, ls[j])) ELSE Cond(To(key, ls[j]))]

(* Any other instruction: go on, or to a handler.  The loop over the       *)
(* handlers ends at one whose label is not bound; the branches behind it   *)
(* keep their zeros, a jump to the first block                             *)
SetupLinear(key, i) ==
  LET hs == pool[i].handlers
      bound(n) == \A k \in 1 .. n : hs[k] \in DOMAIN jump
  IN  <<Onward(key, i)>> \o
      [k \in DOMAIN hs |->
         IF bound(k) THEN [Branch(To(key, hs[k])) EXCEPT !.lt = 1]
         ELSE IF bound(k - 1) THEN Disabled ELSE Branch(1)]

SetupReturn == <<[Branch(0) EXCEPT !.eq = 1]>>

Setup(key, i) ==
  CASE pool[i].op = "goto" -> SetupGoto(key, i)
    [] pool[i].op = "if" -> SetupIf(key, i)
    [] pool[i].op \in {"packed", "sparse"} -> SetupSwitch(key, i)
    [] pool[i].op = "return" -> SetupReturn
    [] OTHER -> SetupLinear(key, i)

(* The blocks: a jump, a condition, a switch and a return are not executed *)
(* by the block they end                                                   *)
BuildGraph(e, key) ==
  [n \in DOMAIN key |->
     [begin |-> IF n = 1 THEN e ELSE pool[key[n - 1]].next,
      end |-> IF pool[key[n]].op \in Branching \cup {"return"} THEN key[n] ELSE pool[key[n]].next,
      key |-> key[n],
      branches |-> Setup(key, key[n])]]

(***************************************************************************)
(* Steps 3 and 4: a branch is linked to its block unless it is disabled or *)
(* a return; _dalvik_block_graph_dfs marks what can be reached.            *)
(***************************************************************************)
(* Mutant: the search does not follow the branches of handlers *)
LinkedJumps(b) ==
  {r.id : r \in {s \in Range(b.branches) : s.disabled = 0 /\ ~ IsReturn(s) /\ ~ IsException(s)}}

Linked(b) == {r.id : r \in {s \in Range(b.branches) : s.disabled = 0 /\ ~ IsReturn(s)}}

Reached(g) ==
  LET closed == {S \in SUBSET DOMAIN g : 1 \in S /\ \A k \in S : Linked(g[k]) \subseteq S}
  IN  {n \in DOMAIN g : \A S \in closed : n \in S}

(* What a later walk over the linked blocks comes to: _dalvik_block_traverse_graph *)
Walked(g) ==
  LET links(b) == {r.id : r \in {s \in Range(b.branches) : s.disabled = 0 /\ ~ IsReturn(s)}}
      closed == {S \in SUBSET DOMAIN g : 1 \in S /\ \A k \in S : links(g[k]) \subseteq S}
  IN  {n \in DOMAIN g : \A S \in closed : n \in S}

-----------------------------------------------------------------------------
(***************************************************************************)
(* dalvik_block_from_method.                                               *)
(***************************************************************************)
(* Mutant: the hash leaves out the return type *)
HashOfPath(k) == Bucket[CHOOSE j \in DOMAIN Bucket : j.path = k.path]

(* _dalvik_block_hash covers the return type *)
Hash(k) == Bucket[k]

(* A node answers for key k; the comparison leaves out the return type *)
Matches(node, k) == Hash(node.key) = Hash(k) /\ node.key.path = k.path

Hit(k) ==
  /\ Working
  /\ \E node \in cache :
       /\ Matches(node, k)
       /\ answer' = [key |-> k, graph |-> node.graph]
  /\ UNCHANGED <<pvars, cache, graphs, heap>>

Missing(k) ==
  /\ Working
  /\ \A node \in cache : ~ Matches(node, k)
  /\ k \notin DOMAIN methods
  /\ answer' = [key |-> k, graph |-> NoGraph]
  /\ UNCHANGED <<pvars, cache, graphs, heap>>

(* A key outside the pool is read as an instruction: anything may happen,  *)
(* and nothing the program does afterwards is modelled                     *)
Wild(k) ==
  /\ Working
  /\ \A node \in cache : ~ Matches(node, k)
  /\ k \in DOMAIN methods
  /\ \E i \in Range(Keys(methods[k])) : i > Len(pool)
  /\ answer' = [key |-> k, graph |-> WildGraph]
  /\ UNCHANGED <<pvars, cache, graphs, heap>>

(* No keys: NULL goes to the cache as the graph of the method *)
BuildNothing(k) ==
  /\ Working
  /\ \A node \in cache : ~ Matches(node, k)
  /\ k \in DOMAIN methods
  /\ Keys(methods[k]) = <<>>
  /\ cache' = cache \cup {[key |-> k, graph |-> NoGraph]}
  /\ answer' = [key |-> k, graph |-> NoGraph]
  /\ UNCHANGED <<pvars, graphs, heap>>

Build(k) ==
  /\ Working
  /\ \A node \in cache : ~ Matches(node, k)
  /\ k \in DOMAIN methods
  /\ \E key \in {Keys(methods[k])} :
       /\ key # <<>> /\ Range(key) \subseteq DOMAIN pool
       /\ \E g \in {BuildGraph(methods[k], key)}, n \in {Len(graphs) + 1} :
            /\ graphs' = Append(graphs, g)
            /\ heap' = heap \cup {<<n, b>> : b \in Reached(g)}
            /\ cache' = cache \cup {[key |-> k, graph |-> n]}
            /\ answer' = [key |-> k, graph |-> n]
  /\ UNCHANGED pvars

(* dalvik_block_finalize: free every graph of the cache, block by block *)
Finalize ==
  /\ Working
  /\ cache # {}
  /\ heap' = heap \ UNION {{<<c.graph, b>> : b \in Walked(graphs[c.graph])} :
                             c \in {d \in cache : d.graph # NoGraph}}
  /\ cache' = {}
  /\ answer' = [key |-> "none", graph |-> Closed]
  /\ UNCHANGED <<pvars, graphs>>

BlockInit ==
  /\ Init
  /\ cache = {} /\ graphs = <<>> /\ heap = {}
  /\ answer = [key |-> "none", graph |-> NoGraph]

Next ==
  \/ Parse /\ UNCHANGED bvars
  \/ \E k \in DOMAIN Bucket : Hit(k) \/ Missing(k) \/ Wild(k) \/ BuildNothing(k) \/ Build(k)
  \/ Finalize

Spec == BlockInit /\ [][Next]_vars

-----------------------------------------------------------------------------
(***************************************************************************)
(* Properties.                                                             *)
(***************************************************************************)
BranchType ==
  [conditional : {0, 1}, eq : {0, 1}, lt : {0, 1}, id : Nat, disabled : {0, 1}]

(* Labels and methods lead into the pool, also after a method was given up;  *)
(* a cached graph starts its blocks in the pool (dalvik_block.c, step 2)    *)
TypeOK ==
  /\ pool \in Seq([op : STRING, operands : Seq([label : Nat, isDefault : BOOLEAN]),
                next : Nat, handlers : Seq(Nat)])
  /\ \A l \in DOMAIN jump : jump[l] \in DOMAIN pool
  /\ \A k \in DOMAIN methods : methods[k] \in DOMAIN pool
  /\ cache \in SUBSET [key : DOMAIN methods, graph : {NoGraph} \cup DOMAIN graphs]
  /\ \A g \in Range(graphs) : \A b \in Range(g) :
       b.begin \in DOMAIN pool /\ b.branches \in Seq(BranchType)
  /\ answer.graph \in {Closed, WildGraph, NoGraph} \cup DOMAIN graphs

(* Where the program itself goes on from instruction i *)
Following(i) ==
  IF pool[i].op \in Branching
  THEN {jump[l] : l \in Range(LabelsOf(i))}
         \cup (IF pool[i].op = "if" /\ pool[i].next # Invalid THEN {pool[i].next} ELSE {})
  ELSE IF pool[i].op \in {"return", "throw"} \/ pool[i].next = Invalid THEN {} ELSE {pool[i].next}

(* Behind a throw: it is read like an instruction that goes on *)
PastThrow(i) ==
  IF pool[i].op = "throw" /\ pool[i].next # Invalid THEN {pool[i].next} ELSE {}

(* Is instruction i one that only goes on to the next one? *)
Plain(i) == pool[i].op \notin Branching \cup {"invoke", "return"} /\ pool[i].handlers = <<>>

Cached == {c.graph : c \in cache} \ {NoGraph}

(* The blocks that block b goes on to without an exception *)
Jumps(b) == {r \in Range(b.branches) : r.disabled = 0 /\ ~ IsReturn(r) /\ ~ IsException(r)}
Catches(b) == {r \in Range(b.branches) : r.disabled = 0 /\ IsException(r)}

(* A label that only the default branch of a packed switch leads to *)
PackedDefault(i) ==
  IF pool[i].op = "packed"
  THEN LET ls == LabelsOf(i) IN {jump[ls[Len(ls)]]} \ {jump[ls[k]] : k \in 1 .. Len(ls) - 1}
  ELSE {}

HandlersBound(i) == Range(pool[i].handlers) \subseteq DOMAIN jump

(* The straight pieces of the method with entry e: a piece starts at the   *)
(* entry, behind an instruction that is not plain, with a call, a return   *)
(* or an instruction that has a handler, and at the target of a jump       *)
Starts(e, i) ==
  \/ i = e
  \/ ~ Plain(i - 1)
  \/ ~ Plain(i) /\ pool[i].op \notin Branching
  \/ \E j \in Chain(e) : pool[j].op \in Branching /\
       \E l \in Range(LabelsOf(j)) \cap DOMAIN jump : jump[l] = i

(* The start of the piece that instruction t lies in *)
Entered(e, t) == CHOOSE s \in e .. t : Starts(e, s) /\ \A u \in s + 1 .. t : ~ Starts(e, u)

(* Where an exception of instruction i is caught.  The label of a handler  *)
(* starts no piece: it is caught at the start of the piece around it       *)
Caught(e, i) ==
  IF pool[i].op \in Branching \cup {"return"} THEN {}
  ELSE {Entered(e, jump[h]) : h \in Range(pool[i].handlers)}

(* A block of the graph is a straight piece of code: inside it no          *)
(* instruction jumps, calls, returns or has a handler.  It goes on exactly *)
(* where its last instruction does, to the begin of a block, and into the  *)
(* pieces that its handlers lie in.  Three exceptions are named: the       *)
(* default of a packed switch is lost; a throw goes on to the instruction  *)
(* behind it, and one without a handler even lies inside a block; and a    *)
(* handler in the middle of a piece is entered at the start of the piece   *)
(* (HandlersEntered).  (dalvik_block.c: the keys, the binary search and    *)
(* the four ways to set up the branches have to agree.)                    *)
GraphFaithful ==
  \A g \in {graphs[c] : c \in Cached} : \A n \in Walked(g) :
    HandlersBound(g[n].key) =>
      /\ \A i \in g[n].begin .. g[n].key - 1 : Plain(i) /\ pool[i].next = i + 1
      /\ {g[r.id].begin : r \in Jumps(g[n])} =
           (Following(g[n].key) \ PackedDefault(g[n].key)) \cup PastThrow(g[n].key)
      /\ {g[r.id].begin : r \in Catches(g[n])} = Caught(g[1].begin, g[n].key)

(* The blocks in memory are those of the cached graphs that a later walk   *)
(* comes to: pruning frees no block that is linked and keeps none that is  *)
(* not, and the finalizer leaves nothing (dalvik_block.c: the search that  *)
(* marks, the loop that frees and the walk that finalizes are three codes) *)
HeapExact == heap = UNION {{<<c, b>> : b \in Walked(graphs[c])} : c \in Cached}

(* A graph that a lookup answers with is that of a method of the class     *)
(* with the path that was asked for: of the very method, or of an overload *)
(* that differs in the return type alone and shares the bucket with it.    *)
(* Such an overload may be answered for a method that has a graph of its   *)
(* own, or that does not exist (dalvik_block.c: the hash covers the return *)
(* type, the comparison does not).                                         *)
LookupExact ==
  \/ answer.graph \in {NoGraph, WildGraph, Closed}
  \/ \E k \in DOMAIN methods \cap DOMAIN Bucket :
       /\ k = answer.key \/ (k.path = answer.key.path /\ Bucket[k] = Bucket[answer.key])
       /\ graphs[answer.graph][1].begin = methods[k]

(* What the comments say, and the code does not do: every way the code can *)
(* go on is a branch of the graph (dalvik_block.h:80: without the          *)
(* conditional bit, eq, lt and gt are free for the type of the branch).    *)
(* It fails for the default of a packed switch.                            *)
NoPathLost ==
  \A g \in {graphs[c] : c \in Cached} : \A n \in Walked(g) :
    Following(g[n].key) \subseteq {g[r.id].begin : r \in Jumps(g[n])}

(* And: an instruction that is not the first of a block can not be the     *)
(* target of any jump (dalvik_block.h:12-14), that is, an exception goes   *)
(* to a block that begins with its handler.  It fails for a handler in the *)
(* middle of a block: _dalvik_block_get_key_instruction_list pushes the    *)
(* targets of jumps, and no handler.                                       *)
HandlersEntered ==
  \A g \in {graphs[c] : c \in Cached} : \A n \in Walked(g) : \A r \in Catches(g[n]) :
    \E h \in Range(pool[g[n].key].handlers) : g[r.id].begin = jump[h]
=============================================================================
