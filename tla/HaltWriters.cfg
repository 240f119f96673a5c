CONSTANTS
    Writers = {w1, w2}   Live = {w1}   Jobs <- AllJobs   Edits <- AllEdits   MaxEdits = 2
    Missing = Missing   Corrupt = Corrupt   Unreadable = Unreadable
    NotAFile = NotAFile   Free = Free   None = None   w1 = w1   w2 = w2   w3 = w3
SPECIFICATION StoreLiveSpec
INVARIANTS WrittenKillIsDurable
PROPERTIES KillIsSticky ConditionalWriteCompares LiveWritersReturn
