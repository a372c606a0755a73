SPECIFICATION MCSpec
CONSTANTS
    Nm = 2
    N_INPUT_BLOCKS = 3
    N_SOURCE_NODES = 38
    N_BEAMS = 19
    N_BORS = 1
    U32 = 64
    U64 = 8
    Mcnts = {0, 1, 2, 3, 4, 5, 18, 19, 21}
    Sids = {1, 38}
    Duplicates = FALSE
    MaxPkts = 2
    MaxOutOfSeq = 3
    MaxMissed = 3
INVARIANT
    StatusNamesOneBlock
