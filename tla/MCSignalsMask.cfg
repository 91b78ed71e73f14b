SPECIFICATION Spec
CONSTANTS
    SIG = {1, 2, 3}
    SIGSEGV = 2
    Unblockable = {2, 3}
    Sync = {2}
    CoreSigs = {2, 3}
    IgnoredSigs = {1}
    Masks <- MCMasks
    Actions <- MCActions
    WideMasks = TRUE
    BadFrames = FALSE
INVARIANT PendingFlagTrue
