\* One key, no nesting, callbacks that subscribe again.
SPECIFICATION Spec
CONSTANTS
  Keys = {k1}
  MaxSubscribers = 2
  MaxDepth = 1
INVARIANTS
  DroppedForgotten
CHECK_DEADLOCK FALSE
