CONSTANTS
  p1 = p1
  p2 = p2
  p3 = p3
  Pids = {p1, p2, p3}
  Group = p1
  Start = 0
  Scans = 3
  MaxLast = 3
SPECIFICATION Spec
INVARIANTS
  NoWriterMissed
SYMMETRY Alike
CHECK_DEADLOCK FALSE
