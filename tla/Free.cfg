SPECIFICATION FairSpec
CONSTANTS
    Procs = {p1, p2}
    NBlocks = 4
    GroupSize = 2
INVARIANTS
    EveryBlockOnce
    LockSound
    ModifiedKnown
PROPERTIES
    ImplementsPool
    SleepersWake
