CONSTANTS
  p1 = p1
  p2 = p2
  p3 = p3
  x1 = x1
  NoStore = NoStore
  NoVal = NoVal
  NoParam = NoParam
  Store = {s1}
  NSlots = 1
  MaxBlocks = 3
  Block <- MCBlock
  Val <- MCVal
  Reloc = {}
  RelocMap <- RelocToZero
  Param = {p1, p2, p3}
  Probe <- OneSlotProbe
  MaxHeld = 0
  MaxRegs = 1
  MaxRefs = 2
  MaxTotal = 6
  MaxWidth = 1
  ReuseBits = {}
  ConstParam = {}
  DupArgs = FALSE
SPECIFICATION Spec
SYMMETRY ParamSymmetry
VIEW Nameless
INVARIANT CountsCover
