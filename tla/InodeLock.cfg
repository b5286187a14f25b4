SPECIFICATION Spec
CONSTANTS
  Procs = {p1, p2}
  NoProc = NoProc
  NSlots = 2
  NInodes = 2
  PerBlock = 2
  ListSize = 2
  NFile = 2
  Failing = {}
  Calls = {"open", "close", "unlink", "creat"}
  Beyond = FALSE
  MaxCrashes = 0
SYMMETRY ProcSymmetry
INVARIANTS
  OneLocks
CHECK_DEADLOCK FALSE
