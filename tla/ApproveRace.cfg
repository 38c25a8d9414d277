\* Two approvals for the same stock.
SPECIFICATION Spec
CONSTANTS
    Exports = {e1, e2}
    Sessions = {s1}
    Macs = {m1}
    Requests = {r1, r2}
    e1 = e1
    e2 = e2
    s1 = s1
    m1 = m1
    r1 = r1
    r2 = r2
    Router = Router
    Camera = Camera
    Models = {Router, Camera}
    Serials <- MacsAsSerials
    SerialOf <- MacIsSerial
    ModelOf <- AllRouters
    InitialDevices <- AllReady
    Moves <- NoMoves
    Plans <- PlansOne
    Batches <- NoBatches
    ClientCounts = {}
    Features = {}
    MaxItems = 4
    MaxDrift = 1
PROPERTIES
    NoOverReservation
\* The ids of an instance run out, and a rejected ticket is left as it is.
CHECK_DEADLOCK FALSE
