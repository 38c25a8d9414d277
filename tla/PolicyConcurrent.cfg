\* Two requests, faults of every call, crashes, restarts of OPA.
SPECIFICATION Spec
CONSTANTS
    c = c
    d = d
    m = m
    n = n
    x = x
    y = y
    t = t
    k = k
    r1 = r1
    r2 = r2
    MaxRoles = 2
    Codes = {c, d}
    Labels = {m, n}
    Perms = {x, y}
    Given <- Single
    Templates = {t}
    Contents = {k}
    Scanned <- ScannedTwice
    Bulk = 1
    Requests = {r1, r2}
    MaxRequests = 3
    MaxChanges = 2
    Policies = {"none", "foreign"}
    Clients = {FALSE}
    Features = {"fncRoles", "failures", "opaRestart", "crash"}
SYMMETRY Symmetry
CONSTRAINT Bound
INVARIANTS
    TypeOK
    OpaFollowsFile
    RepeatsOnlyFromRaces
    OnlyGranted
PROPERTIES
    Registered
CHECK_DEADLOCK FALSE
