SPECIFICATION FairSpec
CONSTANTS
  p1 = p1
  p2 = p2
  Processes = {p1, p2}
  Policy <- OneOfEach
  MaxRestarts = 1
  MaxSpawns <- ThreeAndTwo
  MaxLate = 1
  HeartbeatsAfterStop = FALSE
INVARIANTS
  StoppedStaysDown
  OneChild
  ChildIsWatched
  SilentIsGivenUp
PROPERTIES
  NothingOutlivesDrop
  AlwaysRestarted
CHECK_DEADLOCK FALSE
