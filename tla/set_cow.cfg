CONSTANTS
  h1 = h1
  h2 = h2
  h3 = h3
  a1 = a1
  a2 = a2
  a3 = a3
  r1 = r1
  t1 = t1
  NoSet = NoSet
  Handle <- TwoHandles
  Addr <- Addrs
  RelocAddr <- Relocs
  Tag <- NoTags
  MaxIdx = 3
  MaxSize = 3
  AllowCollision = TRUE
SPECIFICATION Spec
SYMMETRY Symmetry
CHECK_DEADLOCK FALSE
INVARIANTS
  TypeOK
  RefcntExact
  EmptySetIntact
  RelocNeverMissed
PROPERTY
  Isolation
