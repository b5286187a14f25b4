SPECIFICATION Spec
CONSTANTS
  NPROC = 4
  SwapBlocks = {1, 2}
  Memory = Memory
  NoProc = NoProc
  MaxPid = 4
  MayKill = {1, 2}
  MayCatch = {2}
PROPERTY BornQuiet
CHECK_DEADLOCK FALSE
