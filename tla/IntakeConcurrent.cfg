\* Two requests on two sessions of one ticket, and on an uploaded file.
SPECIFICATION FileSpec
CONSTANTS
    i1 = i1
    s1 = s1
    s2 = s2
    m1 = m1
    m2 = m2
    r1 = r1
    r2 = r2
    u1 = u1
    Router = Router
    Imports = {i1}
    Sessions = {s1, s2}
    Uploads = {u1}
    Macs = {m1, m2}
    Requests = {r1, r2}
    Models = {Router}
    Features = {"status", "remove", "crash", "delete"}
    ModelOf <- AllRouters
    Plans <- PlansOne
    Batches <- Singles
    Sheets <- Pairs
    Modes = {"insert", "upsert", "ticket"}
    MaxScans = 2
    MaxImported = 2
CONSTRAINT Bound
SYMMETRY Symmetry
INVARIANTS
    TypeOK
    ScannedMatchesDetails
    StockedFromPublished
    StockedOnce
CHECK_DEADLOCK FALSE
