SPECIFICATION Spec
CONSTANTS
    t1 = t1
    t2 = t2
    Callers = {t1, t2}
    NoCaller = NoCaller
    Capacity = 2
    MaxRequests = 3
    MaxForgotten = 1
    MaxDrops = 1
    MaxProgress = 2
INVARIANTS AnswersAreOwn AnswerIsOnItsWay
PROPERTIES CallsReturn
CHECK_DEADLOCK FALSE
