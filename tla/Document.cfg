SPECIFICATION Spec
CONSTANTS
  c1 = c1
  c2 = c2
  c3 = c3
  p1 = p1
  p2 = p2
  Paths = {p1, p2}
  Contents = {c1, c2, c3}
  Blank = c1
  Untitled = untitled
  None = None
  MaxHistoryDepth = 1
  MaxVersions = 2
  MaxSaves = 3
  MaxMishaps = 1
INVARIANTS
  FileIsSaved
  DirtyExact
  CrashKeepsContent
  VersionsReadable
PROPERTIES
  HistorySpec
SYMMETRY Interchangeable
CHECK_DEADLOCK FALSE
