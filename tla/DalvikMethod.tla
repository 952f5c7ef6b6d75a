----------------------------- MODULE DalvikMethod -----------------------------
(***************************************************************************)
(* The parser of the front end (src/src/dalvik/dalvik_method.c, with       *)
(* dalvik_label.c, dalvik_exception.c, the control-flow constructors of    *)
(* dalvik_instruction.c, and the methods of dalvik_class.c and             *)
(* dalvik_memberdict.c): a class is read statement by statement; every     *)
(* instruction goes to one pool that all methods share, a label is bound   *)
(* to the first instruction after it, and an instruction carries the       *)
(* exception handlers in force where it stands.                            *)
(*                                                                         *)
(* A class is a sequence of methods [key, body]; a key is [path, ret], the *)
(* class path, name and argument types, and the return type.  A statement  *)
(* is [op, labels, default]: "label" and "catch" (from, to, using) are     *)
(* read by the parser itself, everything else is an instruction; "bad" is  *)
(* one that no constructor accepts, "nop" any without an effect on the     *)
(* control flow; the parser reads "throw" like one of these.  "packed" and *)
(* "sparse" are the two switches; default is                               *)
(* the place of the pair (default l) in a sparse switch, or 0.  Statements *)
(* without an effect on this state (limit, line, annotation) are left out. *)
(***************************************************************************)
EXTENDS Integers, Sequences, FiniteSets, Functions

CONSTANTS
  Classes,    \* the class texts to read
  MaxCatch,   \* DALVIK_MAX_CATCH_BLOCK
  MaxStack,   \* DALVIK_METHOD_LABEL_STACK_SIZE
  Invalid     \* DALVIK_INSTRUCTION_INVALID; bound: the pool stays below it

Pseudo == {"label", "catch"}
Branching == {"goto", "if", "packed", "sparse"}

(* The statements that the constructors accept have as many labels as their *)
(* operands need                                                            *)
Sentence == [op : STRING, labels : Seq(Nat), default : Nat]
Complete(s) ==
  /\ s.op \in Pseudo \cup Branching => s.labels # <<>>
  /\ s.op = "catch" => Len(s.labels) = 3

(* The labels a body defines, and those its other statements refer to *)
Defined(body) == {body[k].labels[1] : k \in {j \in DOMAIN body : body[j].op = "label"}}
Mentioned(body) ==
  UNION {Range(body[k].labels) : k \in {j \in DOMAIN body : body[j].op # "label"}}

(* A method has an instruction, and refers to no label of another one *)
ASSUME ParserAssumption ==
  /\ MaxCatch \in Nat \ {0} /\ MaxStack \in Nat \ {0} /\ Invalid \in Nat \ {0}
  /\ \A c \in Classes :
       /\ c \in Seq(Range(c))
       /\ \A m \in DOMAIN c :
            /\ c[m].body \in Seq(Sentence)
            /\ \A k \in DOMAIN c[m].body : Complete(c[m].body[k])
            /\ \E k \in DOMAIN c[m].body : c[m].body[k].op \notin Pseudo
            /\ \A n \in DOMAIN c \ {m} : Mentioned(c[m].body) \cap Defined(c[n].body) = {}

VARIABLES
  text,     \* the class that is read
  meth,     \* the number of its method that is being read
  line,     \* the statement of the method that is read next
  pool,     \* dalvik_instruction_pool
  jump,     \* dalvik_label_jump_table, for the labels that are bound
  stack,    \* label_stack: labels that wait for an instruction
  catches,  \* the handlers of the method, with their from and to labels
            \* and label_st
  ehset,    \* current_ehset: the handler labels in force
  first,    \* the entry of the method, or Invalid
  methods   \* the member dictionary: key -> entry

pvars == <<text, meth, line, pool, jump, stack, catches, ehset, first, methods>>

Reading == meth <= Len(text)
Body == text[meth].body
Statement == Body[line]

(* The locals of dalvik_method_from_sexp at its start *)
Fresh ==
  /\ line' = 1
  /\ stack' = <<>> /\ catches' = <<>> /\ ehset' = <<>> /\ first' = Invalid

Init ==
  /\ text \in Classes
  /\ meth = 1 /\ line = 1
  /\ pool = <<>> /\ jump = <<>>
  /\ stack = <<>> /\ catches = <<>> /\ ehset = <<>> /\ first = Invalid
  /\ methods = <<>>

(* The ERR exits: the method is freed and the class is given up; its       *)
(* instructions stay in the pool, its labels in the table, and the methods *)
(* before it in the dictionary                                             *)
Reject ==
  /\ meth' = Len(text) + 1
  /\ Fresh
  /\ UNCHANGED <<text, pool, jump, methods>>

(* label_st after a label: 0 before the from label, 1 from there to the to *)
(* label, 2 behind it                                                      *)
Seen(c, l) ==
  [c EXCEPT !.st = IF l = c.from /\ @ = 0 THEN 1
                   ELSE IF l = c.to /\ @ = 1 THEN 2 ELSE @]

(* The members of a finite set of numbers, in increasing order *)
Sorted(S) ==
  [n \in 1 .. Cardinality(S) |-> CHOOSE x \in S : Cardinality({y \in S : y < x}) = n - 1]

(* Mutant: a handler stays in force behind its to label *)
HandlerSetOpen(cs) ==
  LET on == Sorted({k \in DOMAIN cs : cs[k].st # 0})
  IN  [n \in DOMAIN on |-> cs[on[n]].using]

(* dalvik_exception_new_handler_set: the handlers in force, in the order of *)
(* their catch statements                                                   *)
HandlerSet(cs) ==
  LET on == Sorted({k \in DOMAIN cs : cs[k].st = 1})
  IN  [n \in DOMAIN on |-> cs[on[n]].using]

(* (label l): a label that is bound already is an error; one too many for  *)
(* the stack is lost with a warning                                        *)
Label ==
  /\ Reading /\ line <= Len(Body) /\ Statement.op = "label"
  /\ LET l == Statement.labels[1]
     IN  /\ l \notin DOMAIN jump
         /\ stack' = IF Len(stack) < MaxStack THEN Append(stack, l) ELSE stack
         /\ catches' = [k \in DOMAIN catches |-> Seen(catches[k], l)]
         /\ ehset' = HandlerSet(catches')
  /\ line' = line + 1
  /\ UNCHANGED <<text, meth, pool, jump, first, methods>>

RedefinedLabel ==
  /\ Reading /\ line <= Len(Body) /\ Statement.op = "label"
  /\ Statement.labels[1] \in DOMAIN jump
  /\ Reject

(* (catch class from a to b using h): the handler is entered before the    *)
(* number of handlers is tested                                            *)
Catch ==
  /\ Reading /\ line <= Len(Body) /\ Statement.op = "catch"
  /\ Len(catches) < MaxCatch
  /\ catches' = Append(catches, [from |-> Statement.labels[1], to |-> Statement.labels[2],
                                 using |-> Statement.labels[3], st |-> 0])
  /\ line' = line + 1
  /\ UNCHANGED <<text, meth, pool, jump, stack, ehset, first, methods>>

TooManyCatches ==
  /\ Reading /\ line <= Len(Body) /\ Statement.op = "catch"
  /\ Len(catches) = MaxCatch
  /\ Reject

(* The label operands that the constructors make: GOTO and IF have one,    *)
(* PACKED a vector of labels, SPARSE a table that marks the default        *)
Single(s) == <<[label |-> s.labels[1], isDefault |-> FALSE]>>
LabelVector(s) == [k \in DOMAIN s.labels |-> [label |-> s.labels[k], isDefault |-> FALSE]]
SparseTable(s) == [k \in DOMAIN s.labels |-> [label |-> s.labels[k], isDefault |-> k = s.default]]

Operands(s) ==
  CASE s.op \in {"goto", "if"} -> Single(s)
    [] s.op = "packed" -> LabelVector(s)
    [] s.op = "sparse" -> SparseTable(s)
    [] OTHER -> <<>>

(* dalvik_instruction_new and the constructor: a new entry of the pool *)
NewInstruction(s, hs) == [op |-> s.op, operands |-> Operands(s), next |-> Invalid, handlers |-> hs]

(* Mutant: the labels are bound to the instruction behind the next one *)
BindNext(i) ==
  [l \in DOMAIN jump \cup Range(stack) |-> IF l \in Range(stack) THEN i + 1 ELSE jump[l]]

(* The labels on the stack are bound to instruction i *)
Bind(i) ==
  [l \in DOMAIN jump \cup Range(stack) |-> IF l \in Range(stack) THEN i ELSE jump[l]]

(* An instruction: link it to the one before it in the method, give it the *)
(* handlers in force, bind the labels before it                            *)
Instruction ==
  /\ Reading /\ line <= Len(Body) /\ Statement.op \notin Pseudo \cup {"bad"}
  /\ Len(pool) + 1 < Invalid
  /\ LET i == Len(pool) + 1
         linked == IF first = Invalid THEN pool ELSE [pool EXCEPT ![i - 1].next = i]
     IN  /\ pool' = Append(linked, NewInstruction(Statement, ehset))
         /\ first' = IF first = Invalid THEN i ELSE first
         /\ jump' = IF stack = <<>> THEN jump ELSE Bind(i)
  /\ stack' = <<>>
  /\ line' = line + 1
  /\ UNCHANGED <<text, meth, catches, ehset, methods>>

(* An instruction that no constructor accepts stays in the pool, unlinked *)
BadInstruction ==
  /\ Reading /\ line <= Len(Body) /\ Statement.op = "bad"
  /\ Len(pool) + 1 < Invalid
  /\ pool' = Append(pool, NewInstruction(Statement, <<>>))
  /\ meth' = Len(text) + 1
  /\ Fresh
  /\ UNCHANGED <<text, jump, methods>>

(* The end of a body: the method is registered, unless the dictionary has  *)
(* its key already, which gives up the class                               *)
EndMethod ==
  /\ Reading /\ line > Len(Body)
  /\ IF text[meth].key \in DOMAIN methods
     THEN meth' = Len(text) + 1 /\ methods' = methods
     ELSE /\ meth' = meth + 1
          /\ methods' = [k \in DOMAIN methods \cup {text[meth].key} |->
                           IF k = text[meth].key THEN first ELSE methods[k]]
  /\ Fresh
  /\ UNCHANGED <<text, pool, jump>>

Parse == Label \/ RedefinedLabel \/ Catch \/ TooManyCatches \/ Instruction
         \/ BadInstruction \/ EndMethod

-----------------------------------------------------------------------------
(***************************************************************************)
(* Properties.                                                             *)
(***************************************************************************)
(* The statements of method m that are instructions, in order *)
Code(m) == Sorted({k \in DOMAIN text[m].body : text[m].body[k].op \notin Pseudo})
Position(m, l) ==
  CHOOSE k \in DOMAIN text[m].body : text[m].body[k].op = "label" /\ text[m].body[k].labels[1] = l
Labels(m) == Defined(text[m].body)

(* Is the statement at position k of method m inside the range of catch c? *)
InRange(m, c, k) ==
  LET s == text[m].body[c].labels
  IN  /\ s[1] \in Labels(m) /\ c < Position(m, s[1]) /\ Position(m, s[1]) < k
      /\ s[2] \in Labels(m) => ~ (Position(m, s[1]) < Position(m, s[2]) /\ Position(m, s[2]) < k)

(* The handlers of every parsed instruction are those of the catch         *)
(* statements whose range it stands in, and every label leads to the       *)
(* instruction that follows it, however labels, ranges and methods are     *)
(* interleaved (dalvik_method.c: label_st, current_ehset and label_stack   *)
(* are updated at different statements)                                    *)
RangesExact ==
  \A m \in 1 .. meth - 1 :
    text[m].key \in DOMAIN methods /\ (\A n \in 1 .. m - 1 : text[n].key # text[m].key) =>
      LET at(n) == methods[text[m].key] + n - 1
      IN  \A n \in DOMAIN Code(m) :
            LET k == Code(m)[n]
            IN  /\ pool[at(n)].op = text[m].body[k].op
                /\ Range(pool[at(n)].handlers) =
                     {text[m].body[c].labels[3] :
                        c \in {d \in DOMAIN text[m].body :
                                 text[m].body[d].op = "catch" /\ InRange(m, d, k)}}
                /\ \A l \in Labels(m) :
                     (\A j \in Position(m, l) .. k - 1 : text[m].body[j].op \in Pseudo)
                       /\ Position(m, l) < k
                     => jump[l] = at(n)
=============================================================================
