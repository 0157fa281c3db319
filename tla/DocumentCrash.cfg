SPECIFICATION Spec
CONSTANTS
  c1 = c1
  c2 = c2
  c3 = c3
  p1 = p1
  p2 = p2
  Paths = {p1}
  Contents = {c1, c2, c3}
  Blank = c1
  Untitled = untitled
  None = None
  MaxHistoryDepth = 2
  MaxVersions = 2
  MaxSaves = 3
  MaxMishaps = 0
INVARIANTS
  NewerContentRecoverable
CHECK_DEADLOCK FALSE
