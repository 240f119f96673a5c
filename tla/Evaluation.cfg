CONSTANTS
    ToolNames = {"echo.ping", "echo.pong"}   Identities = {"p1", "p2"}
    RequestIds = {"r1", "host.1.1", "unspecified"}   Prose = {"please run it"}
    CoaxKeys <- MCCoax   MaxBytes = 2   Oversized <- MCOversized   MaxDepth = 1   Now = 0
    Policies <- MCPolicies   Grants <- MCGrants   Records <- MCRecords
    Registry = {"echo.ping", "echo.pong"}
    Questions <- MCQuestions   Texts <- MCTexts
    Malformed = Malformed   None = None
SPECIFICATION Spec
INVARIANTS NonHolderLearnsNothing AllowIsEarned FormsAgree HostAcceptsWhatParses NestingIsCounted
CHECK_DEADLOCK FALSE
