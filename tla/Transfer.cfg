SPECIFICATION Spec
CONSTANTS
    WithHead = TRUE
    NodeCount = 2
    LogKinds = 1
    MaxPerSource = 2
    MaxFiles = 3
    MaxSize = 1
    MaxCrashes = 2
    MaxKills = 1
    MaxFails = 1
INVARIANTS
    OneInTransit
    MarkedIsCopied
PROPERTY
    EveryFileArrives
