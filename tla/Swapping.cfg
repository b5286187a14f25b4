SPECIFICATION Spec
CONSTANTS
  NPROC = 4
  NPages = 3
  NBlocks = 6
  Page = 2
  Sizes = {2, 3, 4}
  Files = {sh}
  TextSize = 2
  ExecSize = 3
  NoFile = NoFile
  NoProc = NoProc
INVARIANTS
  AreasExact
  TextCounts
  SleepersHaveReason
CHECK_DEADLOCK FALSE
