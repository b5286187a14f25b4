SPECIFICATION FairSpec
CONSTANTS
  Procs = {p1, p2}
  NoProc = NoProc
  Writers = {p1}
  Readers = {p1, p2}
  Syncers = {p1}
  Bytes = {a, b}
  NoByte = NoByte
  PIPSIZ = 2
  Block = 1
  MaxCount = 2
  NOFile = 2
  MaySignal = TRUE
INVARIANTS
  EndsCounted
  SleepersHaveReason
PROPERTIES
  IsFifo
  WritersEnd
CHECK_DEADLOCK FALSE
