SPECIFICATION Spec
CONSTANTS
  Procs = {p1}
  NoProc = NoProc
  NSlots = 2
  NInodes = 3
  PerBlock = 2
  ListSize = 1
  NFile = 2
  Failing = {0}
  Calls = {"open", "close", "unlink", "creat", "sync"}
  Beyond = FALSE
  MaxCrashes = 1
SYMMETRY ProcSymmetry
INVARIANTS
  RefInv
CHECK_DEADLOCK FALSE
