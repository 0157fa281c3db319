SPECIFICATION FairSpec
CONSTANTS
  Entities = {e1, e2}
  ReleaseListened = {e1}
  MaxSubscribers = 2
  MaxUpdates = 2
  MaxCalls = 4
  CanShutDown = TRUE
  Handlers = TRUE
  CanPanic = TRUE
INVARIANTS
  ActiveObserversServed
  NotCalledForThePast
  OneFlushAtATime
PROPERTIES
  SettledOnReturn
  UpdatesReturn
CHECK_DEADLOCK FALSE
