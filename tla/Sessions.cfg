CONSTANTS
    Tools = {t1}   Digests = {d1}
    Lives <- TwoThenOne   MaxFailures = 1   MaxLines = 5
    None = None   Absent = Absent   Malformed = Malformed
    Unencodable = Unencodable   Cut = Cut
    t1 = t1  d1 = d1
SPECIFICATION Spec
INVARIANTS ConsistentAbsenceIsTrue ConsistentActionIsTrue HonestClaimStands ReplyIsOwn
CHECK_DEADLOCK FALSE
