SPECIFICATION FrameSpec
CONSTANTS
    NFRAMES = 6
    MaxBad = 0
INVARIANT
    TakenFramesAreQueued
PROPERTY
    KeepsProcessing
