CONSTANTS
  Loc <- Locs
  Outer = {"x"}
  Val <- Vals
  Unop <- Negate
  Programs <- Loops
  MaxBlocks = 4
  MaxRear = 20
SPECIFICATION Spec
CHECK_DEADLOCK FALSE
INVARIANT
  TypeOK
  QueueExact
  InverseExact
  NoChangeMissed
PROPERTY
  Terminates
