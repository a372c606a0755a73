SPECIFICATION Spec
CONSTANTS
    Nm = 4
    N_INPUT_BLOCKS = 3
    N_BEAMS = 2
    VLEN = 6
    U32 = 64
    U64 = 8
    Starts = {0, 3, 17, 41}
    Length = 20
    Skew = 2
    MaxFaults = 1
INVARIANTS
    NetTypeOK
    HoldsWindow
    BeamGapsCounted
    WholeWithinSkew
    ReportsLastBlock
PROPERTIES
    LeavesFilledAlone
    TotalsAgree
    CatchesBeams
