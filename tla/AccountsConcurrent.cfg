\* Two requests, faults of Keycloak and of commits, and crashes.
SPECIFICATION Spec
CONSTANTS
    u1 = u1
    u2 = u2
    e1 = e1
    e2 = e2
    p1 = p1
    t1 = t1
    r1 = r1
    r2 = r2
    code1 = code1
    Users = {u1, u2}
    Emails = {e1, e2}
    Matches <- ExactMatch
    Passwords = {p1}
    RoleRefs = {code1}
    Resolves = {}
    Tokens = {t1}
    Requests = {r1, r2}
    MaxRequests = 4
    AuthStrategy = "both"
    Statuses = {"active", "inactive"}
    JwtLife = 2
    RecordLife = 0
    MaxTime = 1
    Features = {"update", "change", "delete", "role", "logout", "authChange", "tokens", "failures", "crash"}
SYMMETRY Symmetry
INVARIANTS
    TypeOK
    KeysUnique
    PasswordsAgree
PROPERTIES
    EndedStaysEnded
CHECK_DEADLOCK FALSE
