SPECIFICATION FairSpec
CONSTANTS
    Cpus = {c1, c2, c3}
    NoCpu = NoCpu
    MaxNest = 2
INVARIANTS
    TypeOK
    Exclusion
    PendingExact
    CountedNeverSleeps
PROPERTIES
    ImplementsAbs
    ClaimEnters
    SleepersResume
