\* Two requests on one ticket and one session, every write path of a ticket, and
\* crashes.
SPECIFICATION Spec
CONSTANTS
    Exports = {e1}
    Sessions = {s1}
    Macs = {m1, m2}
    Requests = {r1, r2}
    e1 = e1
    s1 = s1
    m1 = m1
    m2 = m2
    r1 = r1
    r2 = r2
    Router = Router
    Camera = Camera
    Models = {Router, Camera}
    Serials <- MacsAsSerials
    SerialOf <- MacIsSerial
    ModelOf <- AllRouters
    InitialDevices <- AllReady
    Moves <- NoMoves
    Plans <- PlansTwo
    Batches <- Singles
    ClientCounts = {2}
    Features = {"confirm", "patch", "delete", "addItems", "crash"}
    MaxItems = 2
    MaxDrift = 0
SYMMETRY MacSymmetry
INVARIANTS
    TypeOK
    ExportCountMatchesItems
    ApprovedBeforeExport
\* The ids of an instance run out, and a rejected ticket is left as it is.
CHECK_DEADLOCK FALSE
