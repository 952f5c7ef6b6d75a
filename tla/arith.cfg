CONSTANTS
  v0 = v0
  v1 = v1
  Reg <- Regs
  Literal <- Literals
  Ops = {"neg", "add", "sub", "mul", "and", "or", "xor", "cmp", "not", "div", "rem", "cmpwide"}
  Bound = 4
SPECIFICATION Spec
CHECK_DEADLOCK FALSE
INVARIANT
  TypeOK
PROPERTY
  CoveredExceptGaps
