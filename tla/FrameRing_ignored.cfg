SPECIFICATION FrameSpec
CONSTANTS
    NFRAMES = 3
    MaxBad = 1
PROPERTY
    KeepsProcessing
