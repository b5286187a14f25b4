CONSTANTS
    Procs = {p1, p2}
    Bufs = {u1, u2}
    Blocks = {k1, k2, k3}
    Values = {v1, v2}
    Failing = {k1}
    MaxErr = 1
    Calls = {"getblk", "bread", "bflush"}
    NoProc = NoProc
    NoBuf = NoBuf
    NoBlock = NoBlock
    FreeList = FreeList
SPECIFICATION Spec
INVARIANTS
    FreeListExact
    QueueExact
    OneCopy
    ExclusiveUse
    NoLostWakeup
    ReadsCurrent
PROPERTY ImplementsStore
SYMMETRY Symmetry
