SPECIFICATION SpecAliased
CONSTANTS
    Inputs <- MCInputs
    Temps = {t1, t2}
    Addrs = {0, 1}
    W = 2
    Base = 2
    Lengths = {1, 2}
    Null = Null
    Consts <- MCConsts
    Ops1 = {"not", "neg"}
    OpsBefore = {"add", "sub"}
    OpsAfter = {"andc"}
    OpsComposite = {"orc"}
    Conds = {"ltu", "tstne"}
    Calls = {"parity"}
    Files <- MCFiles
    Sem1 <- MCSem1
    Sem2 <- MCSem2
    SemTest <- MCTest
    SemCall <- MCCall
    Helper1 <- MCSem1
    Helper2 <- MCHelper2
    HelperTest <- MCTest
    Cell <- MCCell
    Xor <- MCXor
    SignFill <- MCSignFill
CHECK_DEADLOCK FALSE
PROPERTY
    AliasedOperandsKept
