SPECIFICATION Spec
CONSTANTS
    Procs = {p1, p2}
    NBlocks = 2
    GroupSize = 2
PROPERTY NoHalfFreeWritten
