CONSTANTS
    Sessions = {s1, s2}   MaxWorkers = 1   MaxCalls = 2   MaxForks = 3   MaxSpoken = 1
    Free = Free   None = None   s1 = s1   s2 = s2
SPECIFICATION LiveSpec
INVARIANTS NoToolOutlivesAbort AnswerIsOwn LiveWorkersBounded
PROPERTIES ImplementsLeases EverySlotAndStopReturns
CHECK_DEADLOCK FALSE
