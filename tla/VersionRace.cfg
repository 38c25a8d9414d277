\* Two publishes in flight at once.
SPECIFICATION Spec
CONSTANTS
    c = c
    d = d
    m = m
    n = n
    x = x
    y = y
    t = t
    k = k
    r1 = r1
    r2 = r2
    MaxRoles = 2
    Codes = {c, d}
    Labels = {m}
    Perms = {x, y}
    Given <- Single
    Templates = {t}
    Contents = {k}
    Scanned <- ScannedTwice
    Bulk = 1
    Requests = {r1, r2}
    MaxRequests = 2
    MaxChanges = 0
    Policies = {"rules"}
    Clients = {FALSE}
    Features = {}
INVARIANTS
    OneVersionPerHash
CHECK_DEADLOCK FALSE
