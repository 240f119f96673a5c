SPECIFICATION Spec
CONSTANTS
    Newline = Newline   Fragment = Fragment
    MaxAppends = 4   MaxFailures = 2   MaxCrashes = 2
INVARIANTS AckedIsDurable AckedIsReadable AckedSeqsGrow
