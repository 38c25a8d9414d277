\* One request at a time, and crashes within it: a ticket with two sessions, and a
\* ticket with another plan.
SPECIFICATION Spec
CONSTANTS
    i1 = i1
    i2 = i2
    s1 = s1
    s2 = s2
    m1 = m1
    m2 = m2
    r1 = r1
    Router = Router
    Camera = Camera
    Imports = {i1, i2}
    Sessions = {s1, s2}
    Uploads = {}
    Macs = {m1, m2}
    Requests = {r1}
    Models = {Router, Camera}
    Features = {"update", "delete", "close", "status", "remove", "crash"}
    ModelOf <- OneCamera
    Plans <- PlansEachOrNone
    Batches <- Pairs
    MaxScans = 2
    MaxImported = 4
SYMMETRY Symmetry
INVARIANTS
    CountCoversStock
    LinesAddUp
    InventoryFollowsCount
    CompletedIsStocked
CHECK_DEADLOCK FALSE
