CONSTANTS
  p1 = p1
  p2 = p2
  p3 = p3
  x1 = x1
  NoStore = NoStore
  NoVal = NoVal
  NoParam = NoParam
  Store = {s1, s2}
  NSlots = 2
  MaxBlocks = 1
  Block <- MCBlock
  Val <- MCVal
  Reloc = {}
  RelocMap <- RelocToZero
  Param = {p1, p2}
  Probe <- OneBlockProbe
  MaxHeld = 0
  MaxRegs = 1
  MaxRefs = 3
  MaxTotal = 5
  MaxWidth = 1
  ReuseBits = {}
  ConstParam = {}
  DupArgs = FALSE
SPECIFICATION Spec
SYMMETRY StoreSymmetry
VIEW Nameless
INVARIANTS RefcntExact HashExact CountExact CountsCover
PROPERTY Isolation
