SPECIFICATION Spec
CONSTANTS
  Keys = {k1, k2}
  MaxSubscribers = 3
  MaxDepth = 2
INVARIANTS
  TakenOnlyWhileDispatching
  NoSubscriberLost
  MarksConsumed
  DroppedForgottenInTurn
CHECK_DEADLOCK FALSE
