--------------------------- MODULE ExportCustody ---------------------------
(***************************************************************************)
(* What the scanning of devices into export sessions promises: a device is *)
(* free, or held by one session, or shipped.  A session takes free devices *)
(* and gives them back one by one until it ships all it holds, and what    *)
(* was shipped stays shipped.                                              *)
(***************************************************************************)
CONSTANTS Devices, Sessions

VARIABLES holder,   \* who has each device
          closed    \* the sessions that have shipped

Free    == "free"
Shipped == "shipped"

HeldBy(s) == {d \in Devices : holder[d] = s}

CustodyInit == /\ holder = [d \in Devices |-> Free]
               /\ closed = {}

Take(s, taken) ==
    /\ s \notin closed
    /\ taken # {}
    /\ \A d \in taken : holder[d] = Free
    /\ holder' = [d \in Devices |-> IF d \in taken THEN s ELSE holder[d]]
    /\ UNCHANGED closed

GiveBack(s, d) ==
    /\ holder[d] = s
    /\ holder' = [holder EXCEPT ![d] = Free]
    /\ UNCHANGED closed

Ship(s) ==
    /\ s \notin closed
    /\ HeldBy(s) # {}
    /\ holder' = [d \in Devices |-> IF d \in HeldBy(s) THEN Shipped ELSE holder[d]]
    /\ closed' = closed \cup {s}

CustodyNext ==
    \E s \in Sessions : \/ \E taken \in SUBSET Devices : Take(s, taken)
                        \/ \E d \in Devices : GiveBack(s, d)
                        \/ Ship(s)

CustodySpec == CustodyInit /\ [][CustodyNext]_<<holder, closed>>

=============================================================================
