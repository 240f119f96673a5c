CONSTANTS
    Threads = {t1, t2}   Edits <- SomeEdits   MaxEdits = 2   MaxFailures = 1   MaxStarts = 2
    Missing = Missing   Corrupt = Corrupt   Unreadable = Unreadable
    NotAFile = NotAFile   None = None   t1 = t1   t2 = t2
SPECIFICATION LiveSpec
INVARIANTS NoLateEntry
PROPERTIES GateNeverUnhalts RuntimeFollowsFile ResumeReachesTheGate
