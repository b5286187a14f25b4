SPECIFICATION FairSpec
CONSTANTS
  Procs = {p1, p2, p3}
  NoProc = NoProc
  MaxTime = 4
  MaxSleep = 3
  StimeTime = 1
  MayStime = TRUE
  MaySignal = TRUE
INVARIANTS
  AlarmAheadUnlessMissed
PROPERTIES
  SleepEnds
CHECK_DEADLOCK FALSE
