SPECIFICATION Spec
CONSTANTS
    FieldCount = 4
    Tables = {t1, t2}
    Literal <- MCLiteral
    Reloc <- MCReloc
    AllocTab <- MCAllocTab
    Inputs <- MCInputs
    MaxOps = 6
    Nil = Nil
    NoTable = NoTable
SYMMETRY TableSymmetry
CHECK_DEADLOCK FALSE
INVARIANTS TypeOK RefcntExact ViewsExact HashExact NextExact RelocFound
