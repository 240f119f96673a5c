CONSTANTS
    Calls = {a1}   Completers = {c1}   Killers = {k1}   Grants = {g1}
    Principals = {p1}   Bindings = {b1}   Digests = {d1, d2}
    Requests <- ObservedRequests   GrantSpecs <- FrozenGrants
    MaxTime = 0   ObserverMayKill = TRUE   Free = Free   None = None
    a1 = a1  a2 = a2  c1 = c1  c2 = c2  k1 = k1  g1 = g1  g2 = g2
    p1 = p1  p2 = p2  b1 = b1  b2 = b2  d1 = d1  d2 = d2
SPECIFICATION LiveSpec
PROPERTIES ObserverKillReturns
CHECK_DEADLOCK FALSE
