SPECIFICATION Spec
CONSTANTS
  a = a
  b = b
  c = c
  t = t
  u = u
  v = v
  Instances = {a, b, c}
  Versions <- Releases
  Tokens = {t, u, v}
  Installation = Installation
  FixedPath = {a, b}
  None = None
INVARIANTS
  NothingLost
  GapIsExclusive
  InstallsLatestUpdate
SYMMETRY Symmetry
CHECK_DEADLOCK FALSE
