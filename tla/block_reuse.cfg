\* The marks of objects that stand for many are lost between blocks.
CONSTANTS
    A = A
    P = P
    S = S
    NRegs = 3
    NStatics = 1
    Objects <- MCObjects
    Strings <- MCStrings
    Code <- MCCode
    SiteOf <- MCSiteOf
    Starts <- MCStarts
    MaxSteps = 2
    MaxBlocks = 1
    MaxObjects = 2
    Bound = 2
SPECIFICATION Spec
CHECK_DEADLOCK FALSE
INVARIANTS
    ReuseKept
