SPECIFICATION FairSpec
CONSTANTS
    SIG = {1, 2, 3}
    SIGSEGV = 2
    Unblockable = {2, 3}
    Sync = {2}
    CoreSigs = {2, 3}
    IgnoredSigs = {1}
    Masks <- MCMasks
    Actions <- MCActions
    WideMasks = FALSE
    BadFrames = TRUE
INVARIANTS
    TypeOK
    NothingForgotten
    SleepsUnsignalled
    PerformedOnce
    InterruptionHandled
PROPERTY SignalHandled
