SPECIFICATION FairSpec
CONSTANTS
    Readers = {r1, r2}
    Writers = {w1, w2}
    None = None
    MaxCtr = 5
    UIntMod = 8
    MaxDepth = 2
INVARIANTS
    TypeOK
    GracePeriod
    OneList
PROPERTY GracePeriodEnds
