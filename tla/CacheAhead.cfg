CONSTANTS
    Procs = {p1, p2}
    Bufs = {u1, u2}
    Blocks = {k1, k2, k3, k4}
    Values = {v1}
    Failing = {}
    MaxErr = 1
    Calls = {"breada"}
    NoProc = NoProc
    NoBuf = NoBuf
    NoBlock = NoBlock
    FreeList = FreeList
SPECIFICATION Spec
INVARIANT NotAllAsleep
SYMMETRY Symmetry
CHECK_DEADLOCK FALSE
