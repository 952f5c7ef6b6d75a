SPECIFICATION Spec
CHECK_DEADLOCK FALSE
CONSTANTS
  Classes <- MCClasses
  MaxCatch = 2
  MaxStack = 3
  Invalid = 99
  MaxKeys = 12
  Bucket <- MCBucket
  MaxCode = 4
  MaxTry = 4
INVARIANTS
  TypeOK
  RangesExact
  GraphFaithful
  HeapExact
  LookupExact
