SPECIFICATION Spec
CONSTANTS
    Cpu = {c1, c2}
    Slot = {t1, t2}
    Pc = {p1, p2}
    MaxExit = 1
    Succ <- MCSucc
    None = None
    CountMod = 3
SYMMETRY Sym
INVARIANTS
    TypeOK
    RunsItsPc
    NoDangling
    RemovalSound
    ListsExact
    NoStaleJump
