SPECIFICATION MCSpec
CONSTANTS
    B = 1
    Temps = {r1, r2}
    t0 = t0
    t1 = t1
    Hosts <- MCHosts
    Words <- MCWords
    MaxOps = 2
CHECK_DEADLOCK FALSE
INVARIANTS
    TypeOK
    ExpansionExact
    HelpersExact
