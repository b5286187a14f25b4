SPECIFICATION Spec
CONSTANTS
  Procs = {p1}
  NoProc = NoProc
  Files = {f1}
  NBlocks = 3
  Direct = 1
  Single = 1
  Double = 1
  PerIndex = 2
  Lbns = {2, 4}
  MaxLost = 0
INVARIANT TablesRead
CHECK_DEADLOCK FALSE
