SPECIFICATION PipeSpec
CONSTANTS
    Nm = 2
    N_INPUT_BLOCKS = 3
    N_OUTPUT_BLOCKS = 2
    N_SOURCE_NODES = 38
    N_BEAMS = 19
    N_BORS = 1
    U32 = 64
    U64 = 8
    Mcnts = {0, 1, 2, 3, 4, 5, 6, 7, 8, 9, 10, 11}
    Sids = {1}
    Source = 1
    Duplicates = TRUE
    Starts = {0}
    Length = 12
    Restarts = 0
    Modes <- MCModes
    MayFail = TRUE
    MaxLost = 1
INVARIANTS
    PipeTypeOK
    NoSharedBlock
    LeftOversAreCounted
PROPERTIES
    ImplementsQueue
    EveryBlockComesOut
    AcquiresEventually
    FileMovesForward
