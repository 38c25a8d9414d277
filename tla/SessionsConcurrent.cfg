\* Two requests on two sessions of one ticket, and crashes.
SPECIFICATION Spec
CONSTANTS
    Exports = {e1}
    Sessions = {s1, s2}
    Macs = {m1, m2}
    Requests = {r1, r2}
    e1 = e1
    s1 = s1
    s2 = s2
    m1 = m1
    m2 = m2
    r1 = r1
    r2 = r2
    Router = Router
    Camera = Camera
    Models = {Router, Camera}
    Serials <- MacsAsSerials
    SerialOf <- MacIsSerial
    ModelOf <- AllRouters
    InitialDevices <- AllReady
    Moves <- NoMoves
    Plans <- PlansTwo
    Batches <- NoBatches
    ClientCounts = {}
    Features = {"delete", "crash"}
    MaxItems = 4
    MaxDrift = 0
SYMMETRY MacSymmetry
INVARIANTS
    CompletedMeansFull
    SoldIsListed
\* The ids of an instance run out, and a rejected ticket is left as it is.
CHECK_DEADLOCK FALSE
