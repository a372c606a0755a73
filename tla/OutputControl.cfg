SPECIFICATION Spec
CONSTANTS
    N_OUTPUT_BLOCKS = 2
    MaxCommands = 3
INVARIANTS
    ModesHoldAfterOneBlock
PROPERTIES
    DumpsOnlyOnRequest
    RequestIsServed
