SPECIFICATION Spec
CONSTANTS
    Newline = Newline   Fragment = Fragment
    MaxAppends = 4   MaxFailures = 0   MaxCrashes = 2
INVARIANTS SeqIsNotReused
