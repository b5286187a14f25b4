SPECIFICATION Spec
CONSTANTS
  Procs = {p1, p2}
  NoProc = NoProc
  MaxTime = 4
  MaxSleep = 3
  StimeTime = 1
  MayStime = FALSE
  MaySignal = FALSE
INVARIANTS
  AlarmAhead
CHECK_DEADLOCK FALSE
