--------------------------- MODULE MCCeskArithmetic ---------------------------
(* CeskArithmetic for TLC: two registers, literals of every sign.          *)
EXTENDS CeskArithmetic

CONSTANTS v0, v1

Regs == {v0, v1}
Literals == {-2, -1, 0, 1, 3}
=============================================================================
