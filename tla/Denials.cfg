SPECIFICATION LiveSpec
CONSTANTS
    Callers = {c1, c2}   c1 = c1   c2 = c2
    Serve = serve   Closer = closer   NoWindow = noWindow
    Burst = 1   Window = 1
    MaxClock = 2   MaxDenials = 4   MaxFailures = 1
INVARIANTS AllAccounted ClosedIsComplete
PROPERTIES ShutdownReturns
CHECK_DEADLOCK FALSE
