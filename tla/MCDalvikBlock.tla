---------------------------- MODULE MCDalvikBlock ----------------------------
(***************************************************************************)
(* Small classes for DalvikBlock.  Every body over a few instructions, with *)
(* its labels at all places, follows a method of one instruction; single    *)
(* classes add the error exits of the parser.                               *)
(***************************************************************************)
EXTENDS DalvikBlock, SequencesExt

CONSTANTS MaxCode, MaxTry   \* instructions of a body without and with handlers

S(op, ls) == [op |-> op, labels |-> ls, default |-> 0]
L(l) == S("label", <<l>>)
Nop == S("nop", <<>>)
Call == S("invoke", <<>>)
Ret == S("return", <<>>)
Throw == S("throw", <<>>)

KP == [path |-> "p", ret |-> "int"]
KV == [path |-> "p", ret |-> "void"]
KQ == [path |-> "q", ret |-> "int"]
KM == [path |-> "m", ret |-> "int"]
KW == [path |-> "p", ret |-> "char"]
MCBucket == (KP :> 0) @@ (KV :> 1) @@ (KW :> 0) @@ (KQ :> 0) @@ (KM :> 1)

(* Code c with label l before instruction at[l] *)
Body1(c, at) ==
  FlattenSeq([n \in DOMAIN c |->
    SetToSeq({L(l) : l \in {m \in DOMAIN at : at[m] = n}}) \o <<c[n]>>])

Jumping == {Nop, Call, S("if", <<2>>), S("packed", <<1, 2>>), [S("sparse", <<1, 2>>) EXCEPT !.default = 1]}
Ending == {Ret, S("goto", <<2>>)}
Codes ==
  {Body1(Append(c, e), at) : c \in [1 .. MaxCode - 1 -> Jumping], e \in Ending,
                             at \in [1 .. 2 -> 1 .. MaxCode]}

(* Handlers: 3 for the range from 1 to 2, 1 for the range from 2 to 3 *)
Catches1 == <<S("catch", <<1, 2, 3>>)>>
Catches2 == <<S("catch", <<1, 2, 3>>), S("catch", <<2, 3, 1>>)>>
Tries ==
  {cs \o Body1(Append(c, Ret), at) : cs \in {Catches1, Catches2},
     c \in [1 .. MaxTry - 1 -> {Nop, Call, Throw, S("goto", <<3>>)}], at \in [1 .. 3 -> 1 .. MaxTry]}

Small == [key |-> KV, body |-> <<Ret>>]
Method(k, b) == [key |-> k, body |-> b]

(* A loop to the first instruction of the pool *)
LoopFirst == <<Method(KP, <<L(1), Nop, S("goto", <<1>>)>>)>>
(* Two catches too many, a label twice, a key twice, a label that is not bound, *)
(* code that ends without a return, a bad instruction, a handler that is    *)
(* bound, more keys than MaxKeys, two overloads in one bucket               *)
Odd == {
  <<Small, Method(KP, Catches2 \o Catches2 \o <<Ret>>), Method(KQ, <<Ret>>)>>,
  <<Small, Method(KP, <<L(1), L(2), L(3), Nop, L(1), Ret>>), Method(KQ, <<Ret>>)>>,
  <<Small, Method(KP, <<Call, Ret>>), Method(KP, <<Ret>>)>>,
  <<Small, Method(KP, <<Nop, S("goto", <<5>>)>>)>>,
  <<Small, Method(KP, <<L(1), Call, S("if", <<1>>)>>), Method(KQ, <<Call, Nop>>)>>,
  <<Small, Method(KP, <<Nop, S("bad", <<>>), Ret>>), Method(KQ, <<Ret>>)>>,
  <<Small, Method(KP, <<S("catch", <<1, 2, 5>>), S("catch", <<1, 2, 1>>), L(1), Call, L(2), Ret>>)>>,
  <<Method(KP, <<Call, Nop, Call, Call, Nop, Call, Call, Nop, Call, Ret>>), Method(KV, <<Ret>>), Method(KQ, <<Ret>>)>>,
  <<Method(KP, <<Call, Ret>>), Method(KV, <<Ret>>), Method(KW, <<Nop, Ret>>)>>}

MCClasses ==
  {<<Small, Method(KP, b)>> : b \in Codes \cup Tries} \cup Odd \cup {LoopFirst}
=============================================================================
