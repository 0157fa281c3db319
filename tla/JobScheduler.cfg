SPECIFICATION FairSpec
CONSTANTS
  Jobs = {j1, j2}
  Threads = {t1, t2}
  Tokens = {k1}
  Priority <- OnePriority
  DependencyLists <- AnyDependencies
  MaxRetries = 1
  MaxConcurrent = 1
  MaxTracked = 2
  MaxCalls = 4
  WorkersPanic = TRUE
INVARIANTS
  NothingReadyAtRest
  SlotsAreCounted
  RunningIsWorkedOn
  PayloadsGivenBack
  NoDependencyCycle
  CompletedHasResult
PROPERTIES
  CallsReturn
  StartsAfterDependencies
CHECK_DEADLOCK FALSE
