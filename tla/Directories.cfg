SPECIFICATION Spec
CONSTANTS
  p1 = p1
  p2 = p2
  Procs = {p1, p2}
  Supers = {p1}
  NoProc = NoProc
  Inos = {root, i1, i2}
  Root = root
  NoIno = NoIno
  Beyond = FALSE
  Names = {a, b}
  Paths <- MCPaths
  a = a
  b = b
  MaxLink = 2
  PerBlock = 2
  NFile = 1
  Calls <- MCCalls
SYMMETRY MCSymmetry
INVARIANTS
  RefsExact
  NamesExact
  NoCircularWait
CHECK_DEADLOCK FALSE
