SPECIFICATION StreamSpec
CONSTANTS
    Nm = 4
    N_INPUT_BLOCKS = 4
    N_SOURCE_NODES = 38
    N_BEAMS = 19
    N_BORS = 1
    U32 = 128
    U64 = 8
    Mcnts = {}
    Sids = {1}
    Source = 1
    Duplicates = TRUE
    Starts = {0, 1, 2, 3, 4, 5, 6, 7, 8, 9, 10, 11, 12, 13, 14, 15, 16, 50, 51, 52, 53}
    Length = 40
    Restarts = 1
INVARIANT
    WholeAfterSync
PROPERTIES
    CatchesStream
    ResyncOnce
