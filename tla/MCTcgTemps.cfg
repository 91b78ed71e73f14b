SPECIFICATION Spec
CONSTANTS
    MaxTemps = 10
    SymOffset = 100
    Types = {"I32", "I64", "I128"}
    Vals = {0, 1}
    None = None
CHECK_DEADLOCK FALSE
INVARIANTS
    TypeOK
    ExprPrivate
    FreeUnused
    ConstWhole
    HomesDistinct
