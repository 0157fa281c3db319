SPECIFICATION FairSpec
CONSTANTS
  Handles = {h1, h2, h3, h4}
  Threads = {main, worker}
  Main = main
  MaxEntities = 2
INVARIANTS
  RefCountExact
  QueueIsTheUnreferenced
  HandleKeepsEntity
PROPERTIES
  NoResurrection
  UnreferencedReleased
  OwnershipSpec
CHECK_DEADLOCK FALSE
