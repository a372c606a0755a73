SPECIFICATION MCSpec
CONSTANTS
    Nm = 2
    N_INPUT_BLOCKS = 3
    N_SOURCE_NODES = 38
    N_BEAMS = 19
    N_BORS = 1
    U32 = 64
    U64 = 8
    Mcnts = {0, 1, 2, 3, 4, 5, 6, 7, 18, 19, 20, 21}
    Sids = {1}
    Duplicates = FALSE
    MaxPkts = 4
    MaxOutOfSeq = 3
    MaxMissed = 3
INVARIANTS
    MissedCountsTheGaps
    StatusNamesOneBlock
PROPERTY
    ReportsBeamsAndGaps
