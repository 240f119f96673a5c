CONSTANTS
    Calls = {a1, a2}   Completers = {c1, c2}   Killers = {k1}   Grants = {g1}
    Principals = {p1, p2}   Bindings = {b1, b2}   Digests = {d1}
    Requests <- CallerRequests   GrantSpecs <- PlainGrants
    MaxTime = 1   ObserverMayKill = FALSE   Free = Free   None = None
    a1 = a1  a2 = a2  c1 = c1  c2 = c2  k1 = k1  g1 = g1  g2 = g2
    p1 = p1  p2 = p2  b1 = b1  b2 = b2  d1 = d1  d2 = d2
SYMMETRY Threads
SPECIFICATION Spec
INVARIANTS OneEntryPerGrant KillLeavesNoGrant TicketOutlivesSuspend EntryMatchesGrant
PROPERTIES ImplementsAuthority
CHECK_DEADLOCK FALSE
