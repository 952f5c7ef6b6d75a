---------------------------- MODULE MCCeskBlock ----------------------------
(***************************************************************************)
(* CeskBlock on three registers and one static field.  The code has an     *)
(* instruction of every kind; blocks are all its sequences.                *)
(***************************************************************************)
EXTENDS CeskBlock

CONSTANTS A, P, S    \* a new-instance, an object of the caller, a const-string

MCObjects == {A, P, S}
MCStrings == {S}

Sexp(op, mods, args) == [op |-> op, mods |-> mods, args |-> args]

MCCode ==
    <<Sexp("new", <<"instance">>, <<0, "C">>),
      Sexp("iput", <<>>, <<1, 0, "C", "f", "I">>),
      Sexp("iput", <<>>, <<0, 2, "C", "f", "I">>),
      Sexp("iget", <<>>, <<1, 2, "C", "f", "I">>),
      Sexp("sput", <<>>, <<0, "C", 1, "I">>),
      Sexp("sget", <<>>, <<2, "C", 1, "I">>),
      Sexp("move", <<"object">>, <<2, 0>>),
      Sexp("move", <<"result">>, <<1>>),
      Sexp("const", <<"4">>, <<0, <<-1, -1>>>>),
      Sexp("const", <<"string">>, <<0, "s">>),
      Sexp("sub", <<"int", "2addr">>, <<1, 0>>),
      Sexp("neg", <<"int">>, <<1, 0>>),
      Sexp("cmp", <<"long">>, <<2, 1, 0>>),
      Sexp("const", <<"class">>, <<0, "C">>),
      Sexp("instance", <<"of">>, <<1, 2, "C">>),
      Sexp("monitor", <<"enter">>, <<0>>)>>

\* Instructions of the forms that the code above leaves out, with the registers
\* they name
Samples ==
    <<<<Sexp("move", <<"wide", "from16">>, <<0, 1>>), <<0, 1>>>>,
      <<Sexp("move", <<"result", "wide">>, <<0>>), <<0>>>>,
      <<Sexp("move", <<"exception">>, <<2>>), <<2>>>>,
      <<Sexp("return", <<"void">>, <<>>), <<>>>>,
      <<Sexp("return", <<"wide">>, <<1>>), <<1>>>>,
      <<Sexp("const", <<"high16">>, <<0, <<-1, -1>>>>), <<0>>>>,
      <<Sexp("const", <<"wide", "32">>, <<0, <<5, 0>>>>), <<0>>>>,
      <<Sexp("cmpl", <<"double">>, <<2, 0, 1>>), <<2, 0, 1>>>>,
      <<Sexp("check", <<"cast">>, <<2, "C">>), <<2>>>>,
      <<Sexp("throw", <<>>, <<1>>), <<1>>>>,
      <<Sexp("iget", <<"wide">>, <<1, 2, "C", "f", "J">>), <<1, 2>>>>,
      <<Sexp("sput", <<"object">>, <<2, "C", 1, "LC;">>), <<2>>>>,
      <<Sexp("add", <<"int", "lit8">>, <<0, 1, <<7, 0>>>>), <<0, 1>>>>,
      <<Sexp("sub", <<"int", "2addr">>, <<0, 1>>), <<0, 0, 1>>>>,
      <<Sexp("ushr", <<"long">>, <<0, 1, 2>>), <<0, 1, 2>>>>,
      <<Sexp("int", <<"to", "char">>, <<0, 1>>), <<0, 1>>>>,
      <<Sexp("nop", <<>>, <<>>), <<>>>>>>

\* The decoder keeps the registers of an instruction, in order.
ASSUME DecoderAssumption ==
    \A i \in DOMAIN Samples :
        LET named == SelectSeq(Dalvik!Decode(Samples[i][1]).operands,
                         LAMBDA x : ~x.const /\ ~x.result /\ x.type \notin {"void", "exception"})
        IN  [k \in DOMAIN named |-> named[k].payload] = Samples[i][2]

\* The limits of invoke: 4 constants and at most 11 registers, or a range; and
\* the elements of array-data.
ASSUME InvokeAssumption ==
    LET call(n) == Dalvik!Decode(Sexp("invoke", <<"virtual">>,
                       <<[i \in 1 .. n |-> i - 1], "C", "m", <<"I">>, "V">>))
        range == Dalvik!Decode(Sexp("uinvoke", <<"static", "range">>,
                     <<7, [i \in 1 .. 40 |-> i], "C", "m", <<"I">>, "V">>))
        bytes(b) == [list |-> TRUE, bytes |-> b]
        data == Dalvik!Decode(Sexp("data", <<"array">>, <<bytes(<<255, 255>>), bytes(<<1, 2, 0>>)>>))
    IN  /\ \A n \in 0 .. 11 : Len(call(n).operands) = n + 4
        /\ call(12) = Dalvik!Invalid
        /\ Len(range.operands) = 6 /\ range.operands[6].payload = 40
        /\ data.operands[1].payload = <<-1, 513>>

MCSiteOf == [i \in DOMAIN MCCode |-> IF MCCode[i].op = "new" THEN A ELSE S]

\* Cells that are not given hold zero.
Filled(given, zero) == [c \in Cells |-> IF c \in DOMAIN given THEN given[c] ELSE zero]

Slot(val) == [reuse |-> FALSE, val |-> val, freuse |-> FALSE]

Program(p) == [o \in MCObjects |-> IF o \in DOMAIN p THEN p[o] ELSE <<>>]

Start(cells, store, values, fields) ==
    [frame |-> [cell |-> Filled(cells, {ZERO}), store |-> store, mapped |-> DOMAIN store],
     cell |-> Filled(values, Int32(0)), heap |-> Program(fields)]

\* after a call that returned a positive number
Blank == Start(Result :> {Number({"pos"})}, <<>>, Result :> Int32(1), <<>>)

\* again at the head of a loop that allocates
Loop == Start(General(0) :> {Ref(A)} @@ General(2) :> {Ref(A)}, A :> Slot({ZERO}),
              General(0) :> Object(A, 1) @@ General(2) :> Object(A, 1), A :> <<Int32(0)>>)

\* where two branches join, with an object of the caller
Join == Start(General(0) :> {Ref(P)} @@ General(2) :> {Ref(A), Ref(P)},
              A :> Slot({ZERO}) @@ P :> Slot({Number({"pos"})}),
              General(0) :> Object(P, 1) @@ General(2) :> Object(P, 1),
              A :> <<Int32(0)>> @@ P :> <<Int32(1)>>)

MCStarts == {Blank, Loop, Join}
=============================================================================
