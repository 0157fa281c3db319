SPECIFICATION Spec
CONSTANTS
  p1 = p1
  p2 = p2
  Processes = {p1}
  Policy <- AlwaysOne
  MaxRestarts = 1
  MaxSpawns <- Two
  MaxLate = 1
  HeartbeatsAfterStop = TRUE
INVARIANTS
  StoppedStaysDown
CHECK_DEADLOCK FALSE
