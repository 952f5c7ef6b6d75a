----------------------------- MODULE CeskStatic -----------------------------
(***************************************************************************)
(* The table of static fields of a frame (cesk_static.c) and the frame     *)
(* operations that use it.                                                 *)
(*                                                                         *)
(* A table is a segment tree over the field indices 0 .. FieldCount-1.     *)
(* Trees share subtrees: a fork shares the root, a write copies the nodes  *)
(* of one path that have more than one reference.  Every node carries a    *)
(* reference counter and a flag "this subtree contains a relocated         *)
(* address", and the table carries an incremental hash code.               *)
(*                                                                         *)
(* A field is created when it is first read or written, so that even a     *)
(* read changes the tree.                                                  *)
(*                                                                         *)
(* Abstractions: a value set is a set of addresses (its own sharing is     *)
(* the subject of CeskSet); the hash of a field is the pair (index, value) *)
(* and exclusive or is symmetric difference, so there are no collisions;   *)
(* memory allocation does not fail; an allocation table gives a relocated  *)
(* address the same object in every store.                                 *)
(***************************************************************************)
EXTENDS Integers, Sequences, FiniteSets, SequencesExt

CONSTANTS
    FieldCount,   \* dalvik_static_field_count
    Tables,       \* the tables that can exist at the same time
    Literal,      \* the declared initial value of each field
    Reloc,        \* the relocated addresses
    AllocTab,     \* the object that the allocation table gives for each
    Inputs,       \* the value sets a register or a diff may hold
    MaxOps,       \* bound on the number of operations
    Nil,          \* a null pointer, or a value that is not there
    NoTable       \* the root pointer of a table that is not allocated

Fields == 0 .. FieldCount - 1

Constant == {"zero", "pos", "neg"}

Addresses == Constant \cup Reloc \cup {AllocTab[a] : a \in Reloc}

\* cesk_set_get_reloc: a counter
cesk_set_get_reloc(v) == Cardinality(v \cap Reloc)

\* Does a value set contain relocated addresses?
Relocated(v) == \E a \in Reloc : a \in v

ASSUME ConstantsAssumption ==
    /\ FieldCount \in Nat \ {0}
    /\ DOMAIN Literal = Fields
    /\ Reloc \cap Constant = {}
    /\ \A a \in Reloc : AllocTab[a] \notin Reloc
    /\ Inputs \subseteq SUBSET Addresses
    /\ MaxOps \in Nat

-----------------------------------------------------------------------------
(* The default value of a field, parsed from its declaration.              *)

Sign(n) == IF n > 0 THEN "pos" ELSE IF n < 0 THEN "neg" ELSE "zero"

\* (int)fltval, with the literal given in tenths
Truncate(n) == IF n >= 0 THEN n \div 10 ELSE -((-n) \div 10)

\* What cesk_static_field_query stores for a literal; Nil where the type has
\* no case: the error is logged and the index is returned all the same.
DefaultValue(lit) ==
    CASE lit.type = "none"                       -> "zero"
      [] lit.type \in {"int", "boolean"}         -> Sign(lit.val)
      [] lit.type \in {"float", "double"}        -> Sign(Truncate(lit.val))
      [] lit.type \in {"array", "object"}        -> "zero"
      [] OTHER                                   -> Nil

-----------------------------------------------------------------------------
(* Segments [l, r) and the path of segments from the root to a field.      *)

IsLeaf(s) == s[2] - s[1] <= 1

Middle(s) == (s[1] + s[2]) \div 2

\* the child pointer followed for field f: 1 is the left one
Direction(s, f) == IF f < Middle(s) THEN 1 ELSE 2

Half(s, d) == IF d = 1 THEN <<s[1], Middle(s)>> ELSE <<Middle(s), s[2]>>

\* one more segment of the path p to field f, unless it has reached a leaf
Descend(p, f) ==
    IF IsLeaf(Last(p)) THEN p ELSE Append(p, Half(Last(p), Direction(Last(p), f)))

PathTo(f) ==
    LET path[k \in 0 .. FieldCount] ==
            IF k = 0 THEN << <<0, FieldCount>> >> ELSE Descend(path[k - 1], f)
    IN  path[FieldCount]

Path == [f \in Fields |-> PathTo(f)]

Segments == UNION {ToSet(Path[f]) : f \in Fields}

Depth == CHOOSE d \in 1 .. FieldCount :
            /\ \E f \in Fields : Len(Path[f]) = d
            /\ \A f \in Fields : Len(Path[f]) <= d

\* The memory of the nodes: a node of a segment lives in one of as many
\* places as there are tables, one more than a correct program ever needs.
Places == Segments \X (1 .. Cardinality(Tables) + 1)

\* Tables are finitely many, and a null pointer is neither a node nor a value.
ASSUME PointersAssumption ==
    /\ IsFiniteSet(Tables)
    /\ Nil # NoTable
    /\ Nil \notin Places /\ NoTable \notin Places
    /\ Nil \notin Addresses /\ \A v \in SUBSET Addresses : v # Nil

SegmentOf(n) == n[1]

FreeNode == [refcnt |-> 0, reloc |-> FALSE, value |-> {}, child |-> <<Nil, Nil>>]

\* the place malloc returns for a node of segment s
Malloc(h, s) == <<s, CHOOSE k \in 1 .. Cardinality(Tables) + 1 :
                        /\ h[<<s, k>>].refcnt = 0
                        /\ \A j \in 1 .. k - 1 : h[<<s, j>>].refcnt # 0>>

-----------------------------------------------------------------------------
VARIABLES
    default,   \* _cesk_static_default_value: Nil until a query
    heap,      \* the nodes
    root,      \* the root pointer of each table
    hash,      \* the hashcode of each table
    fault,     \* a null pointer was followed: the process is dead
    view,      \* history: what was last written to each field of a table
    stale,     \* history: a flag of the table was cleared, or not set, wrongly
    ops        \* bound: the number of operations that changed something

vars == <<default, heap, root, hash, fault, view, stale, ops>>

Live == {t \in Tables : root[t] # NoTable}

-----------------------------------------------------------------------------
(* Reading the tree.                                                       *)

Child(h, n, d) == IF n = Nil THEN Nil ELSE h[n].child[d]

\* The pointers met on the way from root r to field f: Nil from the first
\* missing node on.  Its last element is _cesk_static_tree_node_find.
Nodes(h, r, f) ==
    LET at[i \in 1 .. Len(Path[f])] ==
            IF i = 1 THEN r ELSE Child(h, at[i - 1], Direction(Path[f][i - 1], f))
    IN  at

Find(h, r, f) == Nodes(h, r, f)[Len(Path[f])]

\* the value of a field, Nil if it is not initialised
Content(h, n) == IF n = Nil THEN Nil ELSE h[n].value

ValueOf(t, f) == Content(heap, Find(heap, root[t], f))

Initialised(h, r) == {f \in Fields : Find(h, r, f) # Nil}

\* One step down to the leftmost leaf below n
StepLeft(h, n) ==
    IF IsLeaf(SegmentOf(n)) THEN n
    ELSE IF h[n].child[1] # Nil THEN h[n].child[1] ELSE h[n].child[2]

\* the index of the first field of a subtree
Leftmost(h, n) ==
    LET down[k \in 0 .. Depth] == IF k = 0 THEN n ELSE StepLeft(h, down[k - 1])
    IN  SegmentOf(down[Depth])[1]

\* Mutant: the right child the search came from is searched again.
ClimbAny(h, p) ==
    LET open == {i \in 1 .. Len(p) - 1 : p[i] # Nil /\ h[p[i]].child[2] # Nil}
    IN  IF open = {} THEN Nil
        ELSE Leftmost(h, h[p[CHOOSE i \in open : \A j \in open : j <= i]].child[2])

\* The branch that _cesk_static_tree_next takes after it climbed from the
\* path p to its deepest ancestor with an unvisited right child.
Climb(h, p) ==
    LET open == {i \in 1 .. Len(p) - 1 :
                    /\ p[i] # Nil
                    /\ h[p[i]].child[2] \notin {Nil, p[i + 1]}}
    IN  IF open = {} THEN Nil
        ELSE Leftmost(h, h[p[CHOOSE i \in open : \A j \in open : j <= i]].child[2])

\* The first initialised field at or after start.  An index past the last
\* field descends like the last one.
TreeNext(h, r, start) ==
    LET f == IF start < FieldCount THEN start ELSE FieldCount - 1
    IN  IF start < FieldCount /\ Find(h, r, f) # Nil
        THEN start
        ELSE Climb(h, Nodes(h, r, f))

HasReloc(h, n) == n # Nil /\ h[n].reloc

StepReloc(h, n) ==
    IF n = Nil \/ IsLeaf(SegmentOf(n)) THEN n
    ELSE IF HasReloc(h, h[n].child[1]) THEN h[n].child[1] ELSE h[n].child[2]

\* The loop of _cesk_static_tree_first_reloc ends in a leaf, or follows a
\* null pointer.
FirstRelocNode(h, r) ==
    LET down[k \in 0 .. Depth] == IF k = 0 THEN r ELSE StepReloc(h, down[k - 1])
    IN  down[Depth]

-----------------------------------------------------------------------------
(* Writing the tree.  These operators map a tree, a record of the memory   *)
(* and a root pointer, to a tree.                                          *)

Tree(h, r) == [heap |-> h, root |-> r]

\* Mutant: the children of the copy are not referenced again.
DuplicateShallow(h, n, c) ==
    [h EXCEPT ![c] = [h[n] EXCEPT !.refcnt = 1, !.reloc = FALSE], ![n].refcnt = @ - 1]

\* The copy of node n at place c takes over one reference to n.  The flag of
\* the copy is cleared.  A copied node has another reference left, so that the
\* decrement never frees it.
Duplicate(h, n, c) ==
    [a \in Places |->
        CASE a = c                       -> [h[n] EXCEPT !.refcnt = 1, !.reloc = FALSE]
          [] a = n                       -> [h[n] EXCEPT !.refcnt = @ - 1]
          [] a \in ToSet(h[n].child)     -> [h[a] EXCEPT !.refcnt = @ + 1]
          [] OTHER                       -> h[a]]

\* Mutant: the pointer to the other half is overwritten.
RedirectOther(tree, parent, d, n) ==
    IF parent = Nil
    THEN [tree EXCEPT !.root = n]
    ELSE [tree EXCEPT !.heap[parent].child[3 - d] = n]

\* *reference = dup: the reference is the root pointer or a child pointer
Redirect(tree, parent, d, n) ==
    IF parent = Nil
    THEN [tree EXCEPT !.root = n]
    ELSE [tree EXCEPT !.heap[parent].child[d] = n]

\* The copy of node n, the i-th of the path to f, at place c
CopyNode(tree, f, i, parent, n, c) ==
    Redirect([tree EXCEPT !.heap = Duplicate(tree.heap, n, c)],
             parent, IF i = 1 THEN 1 ELSE Direction(Path[f][i - 1], f), c)

\* Mutant: the loop ends before the leaf, which stays shared.
PrepareNodeInner(tree, f, i, ns) ==
    IF ns[i] = Nil \/ tree.heap[ns[i]].refcnt = 1 \/ i = Len(Path[f])
    THEN tree
    ELSE CopyNode(tree, f, i, IF i = 1 THEN Nil ELSE ns[i - 1], ns[i],
                  Malloc(tree.heap, Path[f][i]))

\* _cesk_static_tree_node_prepare_to_write on the i-th node of the path
PrepareNode(tree, f, i, ns) ==
    IF ns[i] = Nil \/ tree.heap[ns[i]].refcnt = 1
    THEN tree
    ELSE CopyNode(tree, f, i, IF i = 1 THEN Nil ELSE ns[i - 1], ns[i],
                  Malloc(tree.heap, Path[f][i]))

PrepareLevel(tree, f, i) == PrepareNode(tree, f, i, Nodes(tree.heap, tree.root, f))

\* _cesk_static_tree_prepare_to_write: from the root down to the leaf
PrepareToWrite(tree, f) ==
    LET after[i \in 0 .. Len(Path[f])] ==
            IF i = 0 THEN tree ELSE PrepareLevel(after[i - 1], f, i)
    IN  after[Len(Path[f])]

\* the nodes from the first missing one to the leaf, at places new[i]
NewNodes(f, p, first, new, v) ==
    [a \in {new[i] : i \in first .. Len(p)} |->
        LET i == CHOOSE j \in first .. Len(p) : new[j] = a
        IN  [refcnt |-> 1, reloc |-> FALSE,
             value |-> IF i = Len(p) THEN v ELSE {},
             child |-> [d \in 1 .. 2 |->
                 IF i < Len(p) /\ d = Direction(p[i], f) THEN new[i + 1] ELSE Nil]]]

AddNodes(tree, nodes) ==
    [tree EXCEPT !.heap = [a \in Places |->
        IF a \in DOMAIN nodes THEN nodes[a] ELSE tree.heap[a]]]

\* What _cesk_static_tree_insert creates below the existing part of the path:
\* ns are the nodes met on it, first the index of the first missing one.
Grow(tree, f, ns, first, new, v) ==
    Redirect(AddNodes(tree, NewNodes(f, Path[f], first, new, v)),
             IF first = 1 THEN Nil ELSE ns[first - 1],
             IF first = 1 THEN 1 ELSE Direction(Path[f][first - 1], f), new[first])

InsertBelow(tree, f, ns, v) ==
    Grow(tree, f, ns,
         CHOOSE i \in DOMAIN Path[f] : ns[i] = Nil /\ \A j \in 1 .. i - 1 : ns[j] # Nil,
         [i \in DOMAIN Path[f] |-> Malloc(tree.heap, Path[f][i])], v)

InsertWritable(tree, f, v) == InsertBelow(tree, f, Nodes(tree.heap, tree.root, f), v)

\* _cesk_static_tree_insert of a field that is not in the tree
Insert(tree, f, v) == InsertWritable(PrepareToWrite(tree, f), f, v)

\* cesk_static_table_get_ro with init: a missing field is created
GetRO(tree, f, dflt) ==
    IF Find(tree.heap, tree.root, f) # Nil THEN tree ELSE Insert(tree, f, {dflt})

\* cesk_static_table_get_rw with init: the path is made writable first
GetRW(tree, f, dflt) == GetRO(PrepareToWrite(tree, f), f, dflt)

\* the write through the slot that get_rw returned
Assign(tree, f, v) ==
    [tree EXCEPT !.heap[Find(tree.heap, tree.root, f)].value = v]

\* Mutant: an inner node takes the flag of the child on the path only.
PathFlagsAlone(h, f, ns, val) ==
    [a \in {ns[i] : i \in 1 .. Len(Path[f])} |-> val]

\* The flags of the path's nodes ns: the leaf gets val, and bottom up every
\* inner node the disjunction of its children.
PathFlags(h, f, ns, val) ==
    LET flag[i \in 1 .. Len(Path[f])] ==
            IF i = Len(Path[f]) THEN val
            ELSE \/ flag[i + 1]
                 \/ HasReloc(h, h[ns[i]].child[3 - Direction(Path[f][i], f)])
    IN  [a \in {ns[i] : i \in 1 .. Len(Path[f])} |->
            flag[CHOOSE i \in 1 .. Len(Path[f]) : ns[i] = a]]

SetFlags(tree, flags) ==
    [tree EXCEPT !.heap = [a \in Places |->
        IF a \in DOMAIN flags THEN [tree.heap[a] EXCEPT !.reloc = flags[a]] ELSE tree.heap[a]]]

\* cesk_static_table_update_relocated_flag of a writable path
UpdateRelocatedFlag(tree, f, val) ==
    SetFlags(tree, PathFlags(tree.heap, f, Nodes(tree.heap, tree.root, f), val))

\* _cesk_static_tree_node_decref: nodes that lose their last reference are
\* freed and give up their children, level by level.
Decref(h, r) ==
    LET lost[k \in 0 .. Depth] ==       \* the nodes that lose a reference at level k
            IF k = 0 THEN {r} \ {Nil}
            ELSE UNION {ToSet(h[n].child) \ {Nil} : n \in {m \in lost[k - 1] : h[m].refcnt = 1}}
        all == UNION {lost[k] : k \in 0 .. Depth}
    IN  [a \in Places |->
            IF a \notin all THEN h[a]
            ELSE IF h[a].refcnt = 1 THEN FreeNode
            ELSE [h[a] EXCEPT !.refcnt = @ - 1]]

-----------------------------------------------------------------------------
(* Hash codes.                                                             *)

\* Mutant: a default value counts.
FieldHashAll(f, v, dflt) == {<<f, v>>}

\* _cesk_static_field_hashcode: a default value does not count
FieldHash(f, v, dflt) == IF v = {dflt} THEN {} ELSE {<<f, v>>}

\* cesk_static_table_compute_hashcode
ComputeHash(h, r) ==
    UNION {FieldHash(f, h[Find(h, r, f)].value, default[f]) : f \in Initialised(h, r)}

-----------------------------------------------------------------------------
(* Operations.  Each action is one operation of a frame, with every call   *)
(* it makes on the table.                                                  *)

TreeOf(t) == Tree(heap, root[t])

\* cesk_static_field_query: the default is computed once
Query(f) == IF default[f] = Nil THEN DefaultValue(Literal[f]) ELSE default[f]

\* Copying the path to f drops a flag that was set.
DropsFlag(h, r, f) ==
    \E ns \in {Nodes(h, r, f)} : \E i, j \in DOMAIN Path[f] :
        /\ i <= j
        /\ ns[i] # Nil /\ h[ns[i]].refcnt > 1
        /\ HasReloc(h, ns[j])

SetTree(t, tree) ==
    /\ heap' = tree.heap
    /\ root' = [root EXCEPT ![t] = tree.root]

\* get_rw, the assignment, release_rw and update_relocated_flag, as
\* cesk_frame_static_load_from_register and the diff make them
Write(t, tree, f, v, dflt, flag) ==
    /\ SetTree(t, UpdateRelocatedFlag(Assign(GetRW(tree, f, dflt), f, v), f, flag))
    /\ hash' = [hash EXCEPT ![t] =
          SymDiff(SymDiff(@, IF Find(tree.heap, tree.root, f) = Nil
                             THEN {}
                             ELSE FieldHash(f, tree.heap[Find(tree.heap, tree.root, f)].value, dflt)),
                  FieldHash(f, v, dflt))]
    /\ view' = [view EXCEPT ![t][f] = v]
    /\ stale' = [stale EXCEPT ![t] = @ \/ flag # Relocated(v)]
    /\ UNCHANGED fault

\* get_ro of a field that may have to be created
Read(t, f, dflt) ==
    /\ SetTree(t, GetRO(TreeOf(t), f, dflt))
    /\ view' = [view EXCEPT ![t][f] = IF @ = Nil THEN {dflt} ELSE @]
    /\ stale' = [stale EXCEPT ![t] = @ \/ /\ Find(heap, root[t], f) = Nil
                                          /\ DropsFlag(heap, root[t], f)]
    /\ UNCHANGED <<hash, fault>>

\* The sget handler: the query, then register_load_from_static.
Sget(t, f) ==
    /\ ~fault /\ t \in Live
    /\ default' = [default EXCEPT ![f] = Query(f)]
    /\ default'[f] # Nil
    /\ Read(t, f, default'[f])

\* The result of _cesk_frame_set_ref, which the caller takes for the relocation
\* flag: the loop over the addresses never sets it.
SetRef(v) == FALSE

\* The sput handler: the query, then static_load_from_register.
Sput(t, f, v) ==
    /\ ~fault /\ t \in Live
    /\ default' = [default EXCEPT ![f] = Query(f)]
    /\ default'[f] # Nil
    /\ Write(t, TreeOf(t), f, v, default'[f], SetRef(v))

\* sput to a field whose initial value could not be parsed: get_rw has
\* already made the path writable when the initialisation fails.
SputFails(t, f) ==
    /\ ~fault /\ t \in Live
    /\ Query(f) = Nil
    /\ SetTree(t, PrepareToWrite(TreeOf(t), f))
    /\ stale' = [stale EXCEPT ![t] = @ \/ DropsFlag(heap, root[t], f)]
    /\ UNCHANGED <<default, hash, fault, view>>

\* What the field reloc of a node, one bit wide, keeps of a number
OneBit(n) == n % 2 = 1

\* cesk_frame_apply_diff on a static field: the reference pass and the
\* register section read the field first, and write it if the value differs.
\* The number of relocated addresses is passed for the flag.
ApplyDiff(t, f, v) ==
    /\ ~fault /\ t \in Live
    /\ default[f] # Nil
    /\ \/ /\ ValueOf(t, f) = v \/ (ValueOf(t, f) = Nil /\ v = {default[f]})
          /\ Read(t, f, default[f])
       \/ /\ ValueOf(t, f) # v /\ (ValueOf(t, f) = Nil => v # {default[f]})
          /\ Write(t, GetRO(TreeOf(t), f, default[f]), f, v, default[f],
                   OneBit(cesk_set_get_reloc(v)))
    /\ UNCHANGED default

\* cesk_frame_new: a table without any field
New(t) ==
    /\ ~fault /\ t \notin Live
    /\ root' = [root EXCEPT ![t] = Nil]
    /\ hash' = [hash EXCEPT ![t] = {}]
    /\ view' = [view EXCEPT ![t] = [f \in Fields |-> Nil]]
    /\ stale' = [stale EXCEPT ![t] = FALSE]
    /\ UNCHANGED <<default, heap, fault>>

Incref(h, r) == IF r = Nil THEN h ELSE [h EXCEPT ![r].refcnt = @ + 1]

\* cesk_frame_fork
Fork(s, t) ==
    /\ ~fault /\ s \in Live /\ t \notin Live
    /\ heap' = Incref(heap, root[s])
    /\ root' = [root EXCEPT ![t] = root[s]]
    /\ hash' = [hash EXCEPT ![t] = hash[s]]
    /\ view' = [view EXCEPT ![t] = view[s]]
    /\ stale' = [stale EXCEPT ![t] = stale[s]]
    /\ UNCHANGED <<default, fault>>

\* cesk_set_modify of every relocated address to the one the allocation table
\* gives for it
ResolveSet(v) == {IF a \in Reloc THEN AllocTab[a] ELSE a : a \in v}

\* One turn of the loop of cesk_frame_make_invocation_frame over the relocated fields.
\* x is the tree, the hash code and whether a null pointer was followed.
ResolveField(x, f, old) ==
    [tree |-> UpdateRelocatedFlag(Assign(PrepareToWrite(x.tree, f), f, ResolveSet(old)), f, FALSE),
     hash |-> SymDiff(SymDiff(x.hash, FieldHash(f, old, default[f])),
                      FieldHash(f, ResolveSet(old), default[f])),
     fault |-> FALSE]

ResolveNode(x, n) ==
    IF n = Nil
    THEN [x EXCEPT !.fault = TRUE]
    ELSE ResolveField(x, SegmentOf(n)[1], x.tree.heap[n].value)

ResolveStep(x) ==
    IF x.fault \/ ~HasReloc(x.tree.heap, x.tree.root)
    THEN x
    ELSE ResolveNode(x, FirstRelocNode(x.tree.heap, x.tree.root))

\* Every turn clears the flag of one leaf.
ResolveAll(x) ==
    LET turn[k \in 0 .. FieldCount] == IF k = 0 THEN x ELSE ResolveStep(turn[k - 1])
    IN  turn[FieldCount]

\* cesk_frame_make_invocation_frame: the callee's table is a fork in which the relocated
\* addresses are replaced.
ForkCallee(s, t) ==
    /\ ~fault /\ s \in Live /\ t \notin Live
    /\ \E x \in {ResolveAll([tree |-> Tree(Incref(heap, root[s]), root[s]),
                             hash |-> hash[s], fault |-> FALSE])} :
          /\ SetTree(t, x.tree)
          /\ hash' = [hash EXCEPT ![t] = x.hash]
          /\ fault' = x.fault
          /\ view' = [view EXCEPT ![t] = [f \in Fields |->
                IF view[s][f] = Nil THEN Nil
                ELSE IF stale[s] THEN x.tree.heap[Find(x.tree.heap, x.tree.root, f)].value
                ELSE ResolveSet(view[s][f])]]
    /\ stale' = [stale EXCEPT ![t] = stale[s]]
    /\ UNCHANGED default

\* cesk_static_table_free
Free(t) ==
    /\ ~fault /\ t \in Live
    /\ heap' = Decref(heap, root[t])
    /\ root' = [root EXCEPT ![t] = NoTable]
    /\ hash' = [hash EXCEPT ![t] = {}]
    /\ view' = [view EXCEPT ![t] = [f \in Fields |-> Nil]]
    /\ stale' = [stale EXCEPT ![t] = FALSE]
    /\ UNCHANGED <<default, fault>>

\* cesk_static_table_equal.  The right iterator stays on the first field that
\* has another value than its default.
TableEqual(t, u) ==
    LET written(x) == {f \in Fields : ValueOf(x, f) \notin {Nil, {default[f]}}}
        rset == CHOOSE f \in written(u) : \A g \in written(u) : f <= g
    IN  /\ hash[t] = hash[u]
        /\ \A laddr \in written(t) :
              written(u) # {} => laddr = rset /\ ValueOf(t, laddr) = ValueOf(u, rset)
        /\ written(u) = {}

-----------------------------------------------------------------------------
Init ==
    /\ default = [f \in Fields |-> Nil]
    /\ heap = [a \in Places |-> FreeNode]
    /\ root = [t \in Tables |-> NoTable]
    /\ hash = [t \in Tables |-> {}]
    /\ fault = FALSE
    /\ view = [t \in Tables |-> [f \in Fields |-> Nil]]
    /\ stale = [t \in Tables |-> FALSE]
    /\ ops = 0

Next ==
    /\ ops < MaxOps
    /\ \/ \E t \in Tables : New(t) \/ Free(t)
       \/ \E s, t \in Tables : Fork(s, t) \/ ForkCallee(s, t)
       \/ \E t \in Tables, f \in Fields : Sget(t, f) \/ SputFails(t, f)
       \/ \E t \in Tables, f \in Fields, v \in Inputs : Sput(t, f, v) \/ ApplyDiff(t, f, v)
    /\ ops' = IF UNCHANGED <<default, heap, root, view>> THEN ops ELSE ops + 1

Spec == Init /\ [][Next]_vars

-----------------------------------------------------------------------------
(* Properties.                                                             *)

\* Every node is a record of the tree's type, a root is a pointer to a node of
\* the whole range, and a value is a set of addresses (cesk_static.c:20).
TypeOK ==
    /\ default \in [Fields -> Addresses \cup {Nil}]
    /\ \A a \in Places :
          /\ heap[a].refcnt \in 0 .. Cardinality(Tables) + 1
          /\ heap[a].reloc \in BOOLEAN
          /\ heap[a].value \subseteq Addresses
          /\ \A d \in 1 .. 2 : heap[a].child[d] # Nil =>
                SegmentOf(heap[a].child[d]) = Half(SegmentOf(a), d)
    /\ \A t \in Live : root[t] # Nil => SegmentOf(root[t]) = <<0, FieldCount>>
    /\ fault \in BOOLEAN

\* The counter of a node is the number of pointers to it, from tables and from
\* living parents, and only a free node has none: copying a path, inserting
\* below it and freeing a table that shares subtrees neither leak a node nor
\* leave a pointer to a dead one (cesk_static.c:84-102, 179-199).
RefcntExact ==
    \A a \in Places :
        heap[a].refcnt = Cardinality({t \in Live : root[t] = a})
                         + Cardinality({p \in Places : heap[p].refcnt > 0
                                                       /\ a \in ToSet(heap[p].child)})

\* Every table shows exactly what was written through it or through the table
\* it was forked from before the fork: a write in one frame, also one that
\* only copies part of the path, is never seen by a frame that shares the
\* tree, and a callee sees no relocated address that its caller's flags
\* announced (cesk_static.c:204-240, cesk_frame.c:248-299).
ViewsExact ==
    \A t \in Live, f \in Fields : ~fault =>
        view[t][f] = ValueOf(t, f)

\* The incremental hash code of every table is the one computed from its
\* content, whatever mixture of reads that create fields, writes, diffs and
\* resolutions led to it: a table with a default value written back has the
\* hash code of one that never had the field (cesk_static.h:154-160).
HashExact == \A t \in Live : hash[t] = ComputeHash(heap, root[t])

\* The search for the next field finds the smallest initialised index at or
\* after the start, from every start and in every partly built tree: the
\* garbage collector that iterates with it skips no field
\* (cesk_static.c:385-421).
NextExact ==
    \A t \in Live, start \in 0 .. FieldCount :
        LET later == {f \in Initialised(heap, root[t]) : f >= start}
        IN  IF later = {} THEN TreeNext(heap, root[t], start) = Nil
            ELSE /\ TreeNext(heap, root[t], start) \in later
                 /\ \A f \in later : TreeNext(heap, root[t], start) <= f

ContainsReloc(t) == \E f \in Fields : view[t][f] # Nil /\ Relocated(view[t][f])

\* There are three ways to lose a flag: a read that creates a field, or an
\* sput that fails, copies a flagged node; an sput of relocated addresses
\* leaves the flag cleared; a diff with an even number of them clears it.  As
\* long as a table went none of them, the flags lead to a field with a
\* relocated address exactly when there is one: the loop that builds the
\* callee's table misses none (cesk_static.c:428-440, 652-707).
RelocFound ==
    \A t \in Live : ~stale[t] /\ ~fault =>
        /\ HasReloc(heap, root[t]) <=> ContainsReloc(t)
        /\ HasReloc(heap, root[t]) =>
              \E n \in {FirstRelocNode(heap, root[t])} :
                  n # Nil /\ Relocated(heap[n].value)

-----------------------------------------------------------------------------
(* What the comments say, and the code does not do.                        *)

\* The comment on the flag: it is set when the subtree contains any relocated
\* address (cesk_static.c:22).  It fails after an sput of a relocated address:
\* _cesk_frame_set_ref promises a positive result for one (cesk_frame.c:581)
\* and always returns zero.
RelocFlagExact ==
    \A t \in Live : ContainsReloc(t) => HasReloc(heap, root[t])

\* The same of the record of a diff alone (cesk_frame.c:858, 891): it marks the
\* leaf of a value that contains relocated addresses.  It fails for two of
\* them, because their number is stored in one bit.
DiffSetsFlag ==
    [][\A t \in Tables, f \in Fields, v \in Inputs :
          ApplyDiff(t, f, v) /\ ValueOf(t, f) # v /\ Relocated(v) =>
              HasReloc(heap', Find(heap', root'[t], f))]_vars

\* The contract of cesk_static_table_equal: two tables with the same value in
\* every field compare equal (cesk_static.h:146-152).  It fails for a table with a
\* field that was written, and its fork.
EqualWhenSame ==
    \A t, u \in Live : view[t] = view[u] => TableEqual(t, u)
=============================================================================
