SPECIFICATION Spec
CONSTANTS
    N_INPUT_BLOCKS = 3
    N_OUTPUT_BLOCKS = 2
    U64 = 6
    Modes <- MCModes
    MayFail = TRUE
INVARIANTS
    OneBlockAfterStop
PROPERTIES
    FakeImplementsQueue
    ComesToRest
    BlocksKeepComing
