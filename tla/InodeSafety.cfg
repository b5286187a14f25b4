SPECIFICATION Spec
CONSTANTS
  Procs = {p1, p2}
  NoProc = NoProc
  NSlots = 2
  NInodes = 2
  PerBlock = 2
  ListSize = 1
  NFile = 1
  Failing = {0}
  Calls = {"open", "close", "unlink", "creat", "sync"}
  MaxCrashes = 1
  Beyond = FALSE
SYMMETRY ProcSymmetry
INVARIANTS
  OneCopy
  RefCounts
  NamedAlive
  FreshInode
  WorksOnItsInode
CHECK_DEADLOCK FALSE
