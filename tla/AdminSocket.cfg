CONSTANTS
    Processes = {p1, p2}   Credentials <- TwoPeers   AllowLists <- AgentLists
    Conns = {c1}   Admins = {m1, m2}   Tools = {t1}   Grants = {g1, g2}   None = None
    p1 = p1  p2 = p2  c1 = c1  m1 = m1  m2 = m2  t1 = t1  g1 = g1  g2 = g2
SPECIFICATION LiveSpec
INVARIANTS RevokeAllCovers RefusedIsNoOperator
PROPERTIES AdminSlotsReturn
CHECK_DEADLOCK FALSE
