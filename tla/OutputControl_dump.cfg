SPECIFICATION Spec
CONSTANTS
    N_OUTPUT_BLOCKS = 2
    MaxCommands = 2
INVARIANTS
    DumpIsMade
