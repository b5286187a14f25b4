SPECIFICATION FairSpec
CONSTANTS
  NPROC = 4
  SwapBlocks = {1, 2}
  Memory = Memory
  NoProc = NoProc
  MaxPid = 4
  MayKill = {1, 2}
  MayCatch = {2}
INVARIANTS
  SwapExact
  WaitersHaveReason
  OrphansAdopted
PROPERTIES
  KilledEnds
CHECK_DEADLOCK FALSE
