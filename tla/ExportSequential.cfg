\* One request at a time: two tickets and two sessions competing for devices that
\* move between the warehouses.
SPECIFICATION Spec
CONSTANTS
    Exports = {e1, e2}
    Sessions = {s1, s2}
    Macs = {m1, m2}
    Requests = {r1}
    e1 = e1
    e2 = e2
    s1 = s1
    s2 = s2
    m1 = m1
    m2 = m2
    r1 = r1
    Router = Router
    Camera = Camera
    Models = {Router, Camera}
    Serials <- MacsAsSerials
    SerialOf <- MacIsSerial
    ModelOf <- OneCamera
    InitialDevices <- ReadyOrNot
    Moves <- QcMoves
    Plans <- PlansEachOrNone
    Batches <- Pairs
    ClientCounts = {}
    Features = {"confirm", "reject", "remove", "bulk", "transfer"}
    MaxItems = 4
    MaxDrift = 0
INVARIANTS
    CheckedMatchesItems
    AtMostOneHolder
    ExportedOnce
    ValidatedIsScannable
PROPERTIES
    StatusTransitionsAllowed
    NoOverReservation
    ClosedSessionIsFixed
    MovesFollowRules
    KeepsCustody
\* The ids of an instance run out, and a rejected ticket is left as it is.
CHECK_DEADLOCK FALSE
