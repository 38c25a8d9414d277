\* A device transferred away between its scan and the completion, one request at a
\* time.
SPECIFICATION Spec
CONSTANTS
    Exports = {e1}
    Sessions = {s1}
    Macs = {m1}
    Requests = {r1}
    e1 = e1
    s1 = s1
    m1 = m1
    r1 = r1
    Router = Router
    Camera = Camera
    Models = {Router, Camera}
    Serials <- MacsAsSerials
    SerialOf <- MacIsSerial
    ModelOf <- AllRouters
    InitialDevices <- AllReady
    Moves <- QcMoves
    Plans <- PlansOne
    Batches <- NoBatches
    ClientCounts = {}
    Features = {"transfer"}
    MaxItems = 4
    MaxDrift = 1
PROPERTIES
    SoldFromReady
\* The ids of an instance run out, and a rejected ticket is left as it is.
CHECK_DEADLOCK FALSE
