CONSTANTS
  p1 = p1
  p2 = p2
  p3 = p3
  x1 = x1
  NoStore = NoStore
  NoVal = NoVal
  NoParam = NoParam
  Store = {s1, s2}
  NSlots = 1
  MaxBlocks = 1
  Block <- MCBlock
  Val <- MCVal
  Reloc = {x1}
  RelocMap <- RelocToZero
  Param = {p1}
  Probe <- OneSlotProbe
  MaxHeld = 2
  MaxRegs = 1
  MaxRefs = 2
  MaxTotal = 3
  MaxWidth = 2
  ReuseBits = {TRUE, FALSE}
  ConstParam = {}
  DupArgs = FALSE
SPECIFICATION Spec
SYMMETRY StoreSymmetry
VIEW Nameless
INVARIANTS TypeOK RelocNeverSkipped CountsCover
PROPERTY Isolation
