SPECIFICATION Spec
CONSTANTS
  Jobs = {j1}
  Threads = {t1, t2}
  Tokens = {k1}
  Priority <- OnePriority
  DependencyLists <- NoDependencies
  MaxRetries = 0
  MaxConcurrent = 1
  MaxTracked = 1
  MaxCalls = 2
  WorkersPanic = FALSE
PROPERTIES
  TerminalIsFinal
CHECK_DEADLOCK FALSE
