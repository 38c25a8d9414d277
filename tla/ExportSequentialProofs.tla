----------------------- MODULE ExportSequentialProofs ----------------------
(***************************************************************************)
(* What the export side guarantees where one request is served at a time,  *)
(* for every set of tickets, sessions and devices, and what the totals of  *)
(* completed tickets guarantee in every interleaving.  Each theorem names  *)
(* the condition it needs: the runs ScanRace, ApproveRace and              *)
(* SoldFromElsewhere show what happens without.                            *)
(***************************************************************************)
EXTENDS DeviceValidation, ExportFlowProofs

(* At most one request is in flight.                                       *)
OneAtATime == \A q, r \in Requests : q = r

(* Every device carries its mac as serial.                                 *)
MacsAreSerials == \A m \in Macs : SerialOf[m] = m

(* Under OneAtATime a request that moves is the only one there is.         *)
LEMMA Alone ==
  ASSUME OneAtATime, TypeInv, NEW r \in Requests, NEW step, NEW l, Goto(r, step, l)
  PROVE  \A q \in Requests : pc'[q] = step /\ loc'[q] = l
  BY DEF OneAtATime, TypeInv, TypeOK, Goto

(* The batch of a scan is a list without repetition, of one mac or sent.   *)
LEMMA ScanBatch ==
  ASSUME NEW r \in Requests, ScanSerial(r) \/ ScanBulk(r)
  PROVE  \E s \in Sessions, batch \in Seq(Macs) :
            /\ IsInjective(batch)
            /\ batch # <<>>
            /\ ScanSession(r, s, batch)
  <1>1. ASSUME NEW m \in Macs
        PROVE  <<m>> \in Seq(Macs) /\ IsInjective(<<m>>) /\ <<m>> # <<>>
    BY DEF IsInjective
  <1>2. CASE ScanSerial(r)
    BY <1>1, <1>2 DEF ScanSerial
  <1>3. CASE ScanBulk(r)
    BY <1>3, BatchAssumption DEF ScanBulk
  <1> QED BY <1>2, <1>3

(* The handlers of a ticket go to calls of their own.                      *)
TicketSteps == {"Idle", "AddItems", "Submit", "Reject", "ApproveStock",
                "ApproveReserve", "Approve", "ConfirmMove", "ConfirmWrite"}

LEMMA TicketGoes ==
  ASSUME TypeInv, NEW r \in Requests, TicketStart(r) \/ TicketStep(r)
  PROVE  pc'[r] \in TicketSteps
  <1> USE DEF TicketSteps, Goto, Finish, TypeInv, TypeOK
  <1>1. CASE TicketStart(r)
    BY <1>1 DEF TicketStart, AddItemsRead, SubmitRead, RejectRead, ApproveRead,
                ConfirmRead
  <1>2. CASE TicketStep(r)
    BY <1>2 DEF TicketStep, AddItemsWrite, SubmitWrite, RejectWrite, ApproveStock,
                ApproveReserve, ApproveWrite, ConfirmMove, ConfirmWrite
  <1> QED BY <1>1, <1>2

-----------------------------------------------------------------------------
(***************************************************************************)
(* What was read still holds when it is used.  A scan, a removal and a     *)
(* completion write a session they saw in progress, create inserts an id   *)
(* it saw free, and a transfer saves a device still where it was read.     *)
(***************************************************************************)
OpenCalls == {"ScanExport", "ScanDevices", "ScanCheck", "ScanPush", "Remove",
              "CompletePush", "CompleteMove", "CompleteClose"}

StoreAsRead(r) ==
    LET l == loc[r] IN
    /\ pc[r] \in OpenCalls => ses[l.ses].status = "IN_PROGRESS"
    /\ pc[r] = "SessionInsert" => ses[l.ses].status = "ABSENT"
    /\ pc[r] = "TransferSave" => /\ Head(l.batch) \in Macs
                                 /\ <<dev[Head(l.batch)].wh, l.move.wh>> \in DOMAIN Moves

ReadInv == \A r \in Requests : StoreAsRead(r)

(* No request is in flight at the start.                                   *)
LEMMA ReadInit == Init => ReadInv
  <1> SUFFICES ASSUME Init, NEW r \in Requests PROVE StoreAsRead(r)
    BY DEF ReadInv
  <1>1. pc[r] = "Idle"
    BY DEF Init
  <1> QED BY <1>1 DEF StoreAsRead, OpenCalls

(* The request goes on to a call whose reads hold.                         *)
LEMMA GoAsRead ==
  ASSUME OneAtATime, TypeInv, NEW r \in Requests, NEW step, NEW l, Goto(r, step, l),
         step \in OpenCalls => ses'[l.ses].status = "IN_PROGRESS",
         step = "SessionInsert" => ses'[l.ses].status = "ABSENT",
         step # "TransferSave"
  PROVE  ReadInv'
  BY Alone DEF ReadInv, StoreAsRead

LEMMA EndAsRead ==
  ASSUME OneAtATime, TypeInv, NEW r \in Requests, Finish(r)
  PROVE  ReadInv'
  BY GoAsRead DEF Finish, OpenCalls

(* Ticket handlers and the documents they write hold no session.           *)
LEMMA TicketAsRead ==
  ASSUME OneAtATime, TypeInv, NEW r \in Requests, TicketStart(r) \/ TicketStep(r)
  PROVE  ReadInv'
  <1>1. \A q \in Requests : pc'[q] \in TicketSteps
    BY TicketGoes DEF OneAtATime
  <1> QED BY <1>1 DEF TicketSteps, ReadInv, StoreAsRead, OpenCalls

LEMMA SessionAsRead ==
  ASSUME OneAtATime, TypeInv, ReadInv, NEW r \in Requests,
         SessionStart(r) \/ SessionStep(r)
  PROVE  ReadInv'
  <1> USE DEF OpenCalls
  <1>0. StoreAsRead(r) /\ ses \in [Sessions -> SessionRec]
    BY DEF ReadInv, TypeInv, TypeOK
  <1>1. CASE SessionRead(r)
    <2>1. PICK e \in Exports, s \in Sessions :
            /\ FreshSession(s)
            /\ Goto(r, "SessionInsert", [Blank EXCEPT !.exp = e, !.ses = s,
                                                      !.status = exp[e].status])
      BY <1>1 DEF SessionRead
    <2> QED BY <1>1, <2>1, GoAsRead DEF SessionRead, FreshSession, Blank
  <1>2. CASE ScanSerial(r) \/ ScanBulk(r)
    <2>1. PICK s \in Sessions, batch \in Seq(Macs) : ScanSession(r, s, batch)
      BY <1>2, ScanBatch
    <2> QED BY <2>1, GoAsRead DEF ScanSession, Blank
  <1>3. CASE RemoveRead(r)
    BY <1>3, GoAsRead DEF RemoveRead, Blank
  <1>4. CASE CompleteRead(r)
    BY <1>4, GoAsRead DEF CompleteRead, Blank
  <1>5. CASE SessionInsert(r)
    BY <1>5, EndAsRead, GoAsRead DEF SessionInsert
  <1>6. CASE SessionMark(r) \/ ScanPush(r) \/ RemovePull(r) \/ CompleteWrite(r)
    BY <1>6, EndAsRead DEF SessionMark, ScanPush, RemovePull, CompleteWrite
  <1>7. CASE ScanExport(r) \/ ScanDevices(r) \/ ScanCheck(r)
    BY <1>0, <1>7, EndAsRead, GoAsRead
    DEF ScanExport, ScanDevices, ScanCheck, StoreAsRead, Blank, TypeInv, TypeOK, LocRec
  <1>8. CASE CompletePush(r) \/ CompleteMove(r)
    BY <1>0, <1>8, GoAsRead
    DEF CompletePush, CompleteMove, StoreAsRead, TypeInv, TypeOK, LocRec
  <1>9. CASE CompleteClose(r)
    BY <1>9, GoAsRead DEF CompleteClose
  <1>10. CASE CompleteTotal(r)
    BY <1>10, EndAsRead, GoAsRead DEF CompleteTotal
  <1> QED
    BY <1>1, <1>2, <1>3, <1>4, <1>5, <1>6, <1>7, <1>8, <1>9, <1>10
    DEF SessionStart, SessionStep

(* ReadInv is inductive when requests are served one at a time.            *)
LEMMA ReadStep ==
  ASSUME OneAtATime, TypeInv, ReadInv, [Next]_vars PROVE ReadInv'
  <1>1. CASE UNCHANGED vars
    BY <1>1 DEF vars, ReadInv, StoreAsRead
  <1>2. ASSUME NEW e \in Exports, TicketDocument(e) PROVE ReadInv'
    BY <1>2 DEF TicketDocument, CreateTicket, PatchTicket, DeleteTicket, ReadInv,
                StoreAsRead
  <1>3. ASSUME NEW r \in Requests, TransferRead(r) PROVE ReadInv'
    <2>1. PICK m \in Macs, to \in Warehouses :
            /\ <<dev[m].wh, to>> \in DOMAIN Moves
            /\ Goto(r, "TransferSave",
                    [Blank EXCEPT !.batch = <<m>>,
                                  !.move = [wh |-> to,
                                            qc |-> QcAfter(Moves[<<dev[m].wh, to>>])]])
            /\ UNCHANGED dev
      BY <1>3 DEF TransferRead
    <2> DEFINE l == [Blank EXCEPT !.batch = <<m>>,
                                  !.move = [wh |-> to,
                                            qc |-> QcAfter(Moves[<<dev[m].wh, to>>])]]
    <2>2. Head(l.batch) = m /\ l.move.wh = to
      BY DEF Blank
    <2>3. \A q \in Requests : pc'[q] = "TransferSave" /\ loc'[q] = l
      BY <2>1, Alone
    <2> HIDE DEF l
    <2> QED BY <2>1, <2>2, <2>3 DEF ReadInv, StoreAsRead, OpenCalls
  <1>4. ASSUME NEW r \in Requests, TransferSave(r) PROVE ReadInv'
    BY <1>4, EndAsRead DEF TransferSave
  <1>5. ASSUME NEW r \in Requests,
               TicketStart(r) \/ SessionStart(r) \/ TicketStep(r) \/ SessionStep(r)
        PROVE  ReadInv'
    BY <1>5, TicketAsRead, SessionAsRead
  <1>6. CASE Crash
    BY <1>6 DEF Crash, ReadInv, StoreAsRead, OpenCalls
  <1> QED BY <1>1, <1>2, <1>3, <1>4, <1>5, <1>6 DEF Next, Step

(* The actions that change a session, and those that change a device.      *)
LEMMA SessionWriters ==
  ASSUME [Next]_vars
  PROVE  \/ ses' = ses
         \/ \E r \in Requests : \/ SessionInsert(r) \/ ScanPush(r)
                                \/ RemovePull(r) \/ CompleteClose(r)
  <1>1. CASE UNCHANGED vars \/ Crash
    BY <1>1 DEF vars, Crash
  <1>2. ASSUME NEW e \in Exports, TicketDocument(e) PROVE ses' = ses
    BY <1>2 DEF TicketDocument, CreateTicket, PatchTicket, DeleteTicket
  <1>3. ASSUME NEW r \in Requests,
               TicketStart(r) \/ SessionStart(r) \/ TransferRead(r) \/ TransferSave(r)
        PROVE  ses' = ses
    BY <1>3 DEF TicketStart, AddItemsRead, SubmitRead, RejectRead, ApproveRead,
                ConfirmRead, SessionStart, SessionRead, ScanSerial, ScanBulk,
                ScanSession, RemoveRead, CompleteRead, TransferRead, TransferSave
  <1>4. ASSUME NEW r \in Requests, TicketStep(r) PROVE ses' = ses
    BY <1>4 DEF TicketStep, AddItemsWrite, SubmitWrite, RejectWrite, ApproveStock,
                ApproveReserve, ApproveWrite, ConfirmMove, ConfirmWrite
  <1>5. ASSUME NEW r \in Requests, SessionStep(r)
        PROVE  \/ ses' = ses
               \/ SessionInsert(r) \/ ScanPush(r) \/ RemovePull(r) \/ CompleteClose(r)
    BY <1>5 DEF SessionStep, SessionMark, ScanExport, ScanDevices, ScanCheck,
                CompletePush, CompleteMove, CompleteTotal, CompleteWrite
  <1> QED BY <1>1, <1>2, <1>3, <1>4, <1>5 DEF Next, Step

LEMMA DeviceWriters ==
  ASSUME [Next]_vars
  PROVE  \/ UNCHANGED <<dev, soldFor>>
         \/ \E r \in Requests : TransferSave(r) \/ ConfirmMove(r) \/ CompleteMove(r)
  <1>1. CASE UNCHANGED vars \/ Crash
    BY <1>1 DEF vars, Crash
  <1>2. ASSUME NEW e \in Exports, TicketDocument(e) PROVE UNCHANGED <<dev, soldFor>>
    BY <1>2 DEF TicketDocument, CreateTicket, PatchTicket, DeleteTicket
  <1>3. ASSUME NEW r \in Requests, TicketStart(r) \/ SessionStart(r) \/ TransferRead(r)
        PROVE  UNCHANGED <<dev, soldFor>>
    BY <1>3 DEF TicketStart, AddItemsRead, SubmitRead, RejectRead, ApproveRead,
                ConfirmRead, SessionStart, SessionRead, ScanSerial, ScanBulk,
                ScanSession, RemoveRead, CompleteRead, TransferRead
  <1>4. ASSUME NEW r \in Requests, TicketStep(r)
        PROVE  UNCHANGED <<dev, soldFor>> \/ ConfirmMove(r)
    BY <1>4 DEF TicketStep, AddItemsWrite, SubmitWrite, RejectWrite, ApproveStock,
                ApproveReserve, ApproveWrite, ConfirmWrite
  <1>5. ASSUME NEW r \in Requests, SessionStep(r)
        PROVE  UNCHANGED <<dev, soldFor>> \/ CompleteMove(r)
    BY <1>5 DEF SessionStep, SessionInsert, SessionMark, ScanExport, ScanDevices,
                ScanCheck, ScanPush, RemovePull, CompletePush, CompleteClose,
                CompleteTotal, CompleteWrite
  <1> QED BY <1>1, <1>2, <1>3, <1>4, <1>5 DEF Next, Step

(* A session that is closed is not scanned into, pulled from or inserted   *)
(* again by a request that read it before: the items of a completed        *)
(* session, which are what was put on its ticket, stay.                    *)
THEOREM ClosedSessionsStay ==
  ASSUME OneAtATime PROVE Spec => ClosedSessionIsFixed
  <1>1. Init => TypeInv /\ ReadInv
    BY TypeInit, ReadInit
  <1>2. TypeInv /\ ReadInv /\ [Next]_vars => (TypeInv /\ ReadInv)'
    BY TypeStep, ReadStep
  <1>3. TypeInv /\ ReadInv /\ [Next]_vars =>
          [\A s \in Sessions :
             ses[s].status = "COMPLETED" => ses'[s].items = ses[s].items]_vars
    <2> SUFFICES ASSUME TypeInv, ReadInv, [Next]_vars,
                        NEW s \in Sessions, ses[s].status = "COMPLETED"
                 PROVE  ses'[s].items = ses[s].items
      OBVIOUS
    <2>1. ASSUME NEW r \in Requests,
                 \/ SessionInsert(r) \/ ScanPush(r) \/ RemovePull(r)
                 \/ CompleteClose(r)
          PROVE  ses'[s] = ses[s]
      <3>1. StoreAsRead(r) /\ ses \in [Sessions -> SessionRec]
        BY DEF ReadInv, TypeInv, TypeOK
      <3>2. loc[r].ses # s
        BY <2>1, <3>1 DEF StoreAsRead, OpenCalls, SessionInsert, ScanPush, RemovePull,
                          CompleteClose
      <3> QED
        BY <2>1, <3>1, <3>2 DEF SessionInsert, ScanPush, RemovePull, CompleteClose
    <2> QED BY <2>1, SessionWriters
  <1> QED BY <1>1, <1>2, <1>3, PTL DEF Spec, ClosedSessionIsFixed

(* A device moves along a rule that starts where the device is, or is      *)
(* sold: no transfer saves a warehouse chosen for another starting point.  *)
THEOREM TransfersFollowRules ==
  ASSUME OneAtATime PROVE Spec => MovesFollowRules
  <1>1. Init => TypeInv /\ ReadInv
    BY TypeInit, ReadInit
  <1>2. TypeInv /\ ReadInv /\ [Next]_vars => (TypeInv /\ ReadInv)'
    BY TypeStep, ReadStep
  <1>3. TypeInv /\ ReadInv /\ [Next]_vars =>
          [\A m \in Macs : dev'[m].wh \notin {dev[m].wh, "SOLD"} =>
             <<dev[m].wh, dev'[m].wh>> \in DOMAIN Moves]_vars
    <2> SUFFICES ASSUME TypeInv, ReadInv, [Next]_vars, NEW m \in Macs,
                        dev'[m].wh \notin {dev[m].wh, "SOLD"}
                 PROVE  <<dev[m].wh, dev'[m].wh>> \in DOMAIN Moves
      OBVIOUS
    <2>0. dev \in [Macs -> DeviceRec]
      BY DEF TypeInv, TypeOK
    <2>1. ASSUME NEW r \in Requests, ConfirmMove(r) \/ CompleteMove(r)
          PROVE  dev'[m].wh \in {dev[m].wh, "SOLD"}
      BY <2>0, <2>1 DEF ConfirmMove, CompleteMove, MoveToSoldWarehouse, DeviceRec
    <2>2. ASSUME NEW r \in Requests, TransferSave(r)
          PROVE  <<dev[m].wh, dev'[m].wh>> \in DOMAIN Moves
      <3>1. StoreAsRead(r)
        BY DEF ReadInv
      <3> QED BY <2>0, <2>2, <3>1 DEF TransferSave, StoreAsRead
    <2> QED BY <2>1, <2>2, DeviceWriters
  <1> QED BY <1>1, <1>2, <1>3, PTL DEF Spec, MovesFollowRules

-----------------------------------------------------------------------------
(***************************************************************************)
(* Lists of devices: what a scan takes off its batch and puts on a list.   *)
(***************************************************************************)
Disjoint(list, other) == ToSet(list) \cap ToSet(other) = {}

(* Where serials are macs, an item is stored when it is on the list.       *)
LEMMA StoresMac ==
  ASSUME MacsAreSerials, NEW items \in Seq(Macs)
  PROVE  /\ SerialsOf(items) = ToSet(items)
         /\ \A serial : Stores(items, serial) <=> serial \in ToSet(items)
  BY ToSetType DEF MacsAreSerials, SerialsOf, Stores

LEMMA HeadTail ==
  ASSUME NEW S, NEW list \in Seq(S), list # <<>>, IsInjective(list)
  PROVE  /\ Head(list) \in S
         /\ Head(list) \in ToSet(list)
         /\ Tail(list) \in Seq(S)
         /\ IsInjective(Tail(list))
         /\ ToSet(Tail(list)) = ToSet(list) \ {Head(list)}
         /\ Len(list) > 1 => Tail(list) # <<>>
  <1>1. /\ Head(list) = list[1] /\ 1 \in DOMAIN list /\ list[1] \in S
        /\ Tail(list) \in Seq(S)
        /\ Len(Tail(list)) = Len(list) - 1
        /\ \A i \in DOMAIN Tail(list) : /\ Tail(list)[i] = list[i + 1]
                                        /\ i + 1 \in DOMAIN list
                                        /\ i + 1 # 1
    OBVIOUS
  <1>2. IsInjective(Tail(list))
    <2> SUFFICES ASSUME NEW i \in DOMAIN Tail(list), NEW j \in DOMAIN Tail(list),
                        Tail(list)[i] = Tail(list)[j]
                 PROVE  i = j
      BY DEF IsInjective
    <2>1. i + 1 = j + 1
      BY <1>1 DEF IsInjective
    <2>2. i \in Nat /\ j \in Nat
      BY <1>1
    <2> QED BY <2>1, <2>2
  <1>3. ToSet(Tail(list)) \subseteq ToSet(list) \ {Head(list)}
    <2> SUFFICES ASSUME NEW i \in DOMAIN Tail(list)
                 PROVE  Tail(list)[i] \in ToSet(list) \ {Head(list)}
      BY DEF ToSet
    <2> QED BY <1>1 DEF IsInjective, ToSet
  <1>4. ToSet(list) \ {Head(list)} \subseteq ToSet(Tail(list))
    <2> SUFFICES ASSUME NEW i \in DOMAIN list, list[i] # Head(list)
                 PROVE  list[i] \in ToSet(Tail(list))
      BY DEF ToSet
    <2>1. i # 1 /\ i - 1 \in DOMAIN Tail(list) /\ (i - 1) + 1 = i
      BY <1>1
    <2>2. Tail(list)[i - 1] = list[i]
      BY <1>1, <2>1
    <2> QED BY <2>1, <2>2 DEF ToSet
  <1>5. ASSUME Len(list) > 1, Tail(list) = <<>> PROVE FALSE
    <2>1. Len(list) \in Nat /\ Len(list) - 1 = 0
      BY <1>1, <1>5
    <2>2. Len(list) = 1
      BY <2>1
    <2> QED BY <1>5, <2>2
  <1> QED BY <1>1, <1>2, <1>3, <1>4, <1>5 DEF ToSet

LEMMA AppendFacts ==
  ASSUME NEW S, NEW list \in Seq(S), NEW x \in S
  PROVE  /\ Append(list, x) \in Seq(S)
         /\ Append(list, x) # <<>>
         /\ ToSet(Append(list, x)) = ToSet(list) \cup {x}
         /\ IsInjective(list) /\ x \notin ToSet(list) => IsInjective(Append(list, x))
  <1> DEFINE n == Len(list) + 1
  <1>1. /\ Append(list, x) \in Seq(S)
        /\ Append(list, x) # <<>>
        /\ DOMAIN Append(list, x) = DOMAIN list \cup {n}
        /\ n \notin DOMAIN list
        /\ Append(list, x)[n] = x
        /\ \A i \in DOMAIN list : Append(list, x)[i] = list[i]
    OBVIOUS
  <1> HIDE DEF n
  <1>2. ToSet(Append(list, x)) = ToSet(list) \cup {x}
    BY <1>1 DEF ToSet
  <1>3. ASSUME IsInjective(list), x \notin ToSet(list)
        PROVE  IsInjective(Append(list, x))
    BY <1>1, <1>3 DEF IsInjective, ToSet
  <1> QED BY <1>1, <1>2, <1>3

LEMMA ConcatOnce ==
  ASSUME NEW S, NEW list \in Seq(S), NEW other \in Seq(S),
         IsInjective(list), IsInjective(other), Disjoint(list, other)
  PROVE  IsInjective(list \o other)
  <1>1. \A i \in DOMAIN (list \o other) :
           \/ i \in DOMAIN list /\ (list \o other)[i] = list[i]
           \/ i - Len(list) \in DOMAIN other /\ (list \o other)[i] = other[i - Len(list)]
    OBVIOUS
  <1>2. \A i \in DOMAIN list, j \in DOMAIN other : list[i] # other[j]
    BY DEF Disjoint, ToSet
  <1> SUFFICES ASSUME NEW i \in DOMAIN (list \o other), NEW j \in DOMAIN (list \o other),
                      (list \o other)[i] = (list \o other)[j]
               PROVE  i = j
    BY DEF IsInjective
  <1>3. CASE i \in DOMAIN list /\ (list \o other)[i] = list[i]
    <2>1. CASE j \in DOMAIN list /\ (list \o other)[j] = list[j]
      BY <1>3, <2>1 DEF IsInjective
    <2> QED BY <1>1, <1>2, <1>3, <2>1
  <1>4. CASE /\ i - Len(list) \in DOMAIN other
             /\ (list \o other)[i] = other[i - Len(list)]
    <2>1. CASE /\ j - Len(list) \in DOMAIN other
               /\ (list \o other)[j] = other[j - Len(list)]
      <3>1. i - Len(list) = j - Len(list)
        BY <1>4, <2>1 DEF IsInjective
      <3> QED BY <3>1
    <2> QED BY <1>1, <1>2, <1>4, <2>1
  <1> QED BY <1>1, <1>3, <1>4

(* A pull of a listed device takes one item off a list without repetition. *)
LEMMA PullOne ==
  ASSUME MacsAreSerials, NEW items \in Seq(Macs), IsInjective(items),
         NEW m \in ToSet(items)
  PROVE  /\ Pull(items, m) \in Seq(Macs)
         /\ IsInjective(Pull(items, m))
         /\ ToSet(Pull(items, m)) = ToSet(items) \ {m}
         /\ Len(Pull(items, m)) = Len(items) - 1
  <1> DEFINE kept == {i \in DOMAIN items : SerialOf[items[i]] # m}
  <1>1. PICK k \in DOMAIN items : items[k] = m
    BY DEF ToSet
  <1>2. \A i \in DOMAIN items : SerialOf[items[i]] = items[i]
    BY DEF MacsAreSerials
  <1>3. kept = (1 .. Len(items)) \ {k}
    BY <1>1, <1>2 DEF IsInjective
  <1>4. Cardinality(kept) = Len(items) - 1
    <2>1. IsFiniteSet(1 .. Len(items)) /\ Cardinality(1 .. Len(items)) = Len(items)
      BY FS_Interval
    <2>2. k \in 1 .. Len(items)
      BY <1>1
    <2>3. Cardinality((1 .. Len(items)) \ {k}) = Len(items) - 1
      BY <2>1, <2>2, FS_RemoveElement
    <2> QED BY <1>3, <2>3
  <1>5. {i \in ToSet(items) : SerialOf[i] # m} = ToSet(items) \ {m}
    BY ToSetType DEF MacsAreSerials
  <1> QED BY <1>4, <1>5, PullFacts

-----------------------------------------------------------------------------
(***************************************************************************)
(* Sessions and scans.  A session lists a device once and counts what it   *)
(* lists, and sessions in progress share none; a scan holds the list of    *)
(* its session as it is, and has judged good only devices that no session  *)
(* in progress lists.                                                      *)
(***************************************************************************)
ScanSteps == {"ScanExport", "ScanDevices", "ScanCheck", "ScanPush", "Remove"}

ListsOnce(doc) == /\ IsInjective(doc.items)
                  /\ doc.serialChecked = Len(doc.items)
                  /\ doc.status = "ABSENT" => doc.items = <<>>

SessionsListOnce == \A s \in Sessions : ListsOnce(ses[s])

(* No session in progress, s apart, lists a device of the list.            *)
UnlistedBut(list, s) ==
    \A t \in Sessions \ {s} :
        ses[t].status = "IN_PROGRESS" => Disjoint(list, ses[t].items)

(* No two sessions in progress share a device: s against the others.       *)
HoldsAlone == \A s \in Sessions : ses[s].status = "IN_PROGRESS" =>
                                     UnlistedBut(ses[s].items, s)

ScanAsRead(r) ==
    LET l == loc[r] IN
    /\ pc[r] \in {"ScanExport", "ScanDevices", "ScanCheck"} =>
          /\ l.items = ses[l.ses].items
          /\ IsInjective(l.batch)
          /\ l.batch # <<>>
    /\ pc[r] \in {"ScanExport", "ScanDevices"} => l.ok = <<>>
    /\ pc[r] = "ScanCheck" => Disjoint(l.ok, l.batch)
    /\ pc[r] \in {"ScanCheck", "ScanPush"} =>
          /\ IsInjective(l.ok)
          /\ Disjoint(l.ok, ses[l.ses].items)
          /\ UnlistedBut(l.ok, l.ses)
    /\ pc[r] = "ScanPush" => l.ok # <<>>
    /\ pc[r] = "Remove" => l.serial \in ToSet(ses[l.ses].items)

ScanInv == /\ SessionsListOnce
           /\ HoldsAlone
           /\ \A r \in Requests : ScanAsRead(r)

LEMMA ScanInit == Init => ScanInv
  <1> SUFFICES ASSUME Init PROVE ScanInv
    OBVIOUS
  <1>1. \A s \in Sessions : ses[s] = NoSession
    BY DEF Init
  <1>2. \A r \in Requests : pc[r] = "Idle"
    BY DEF Init
  <1>3. IsInjective(<<>>) /\ Len(<<>>) = 0
    BY DEF IsInjective
  <1>4. SessionsListOnce
    BY <1>1, <1>3 DEF SessionsListOnce, ListsOnce, NoSession
  <1>5. HoldsAlone
    BY <1>1 DEF HoldsAlone, NoSession
  <1> QED BY <1>2, <1>4, <1>5 DEF ScanInv, ScanAsRead

(* A step that leaves the sessions alone and ends outside a scan.          *)
LEMMA ScanQuiet ==
  ASSUME ScanInv, ses' = ses, \A q \in Requests : pc'[q] \notin ScanSteps
  PROVE  ScanInv'
  BY DEF ScanInv, SessionsListOnce, HoldsAlone, UnlistedBut, ScanAsRead, ScanSteps

(* A step of a scan that only reads.                                       *)
LEMMA ScanReads ==
  ASSUME OneAtATime, TypeInv, ScanInv, NEW r \in Requests, NEW step, NEW l,
         Goto(r, step, l), ses' = ses,
         step \in {"ScanExport", "ScanDevices", "ScanCheck"} =>
           l.items = ses[l.ses].items /\ IsInjective(l.batch) /\ l.batch # <<>>,
         step \in {"ScanExport", "ScanDevices"} => l.ok = <<>>,
         step = "ScanCheck" => Disjoint(l.ok, l.batch),
         step \in {"ScanCheck", "ScanPush"} =>
           /\ IsInjective(l.ok)
           /\ Disjoint(l.ok, ses[l.ses].items)
           /\ UnlistedBut(l.ok, l.ses),
         step = "ScanPush" => l.ok # <<>>,
         step = "Remove" => l.serial \in ToSet(ses[l.ses].items)
  PROVE  ScanInv'
  <1>1. \A q \in Requests : pc'[q] = step /\ loc'[q] = l
    BY Alone
  <1>2. SessionsListOnce' /\ HoldsAlone'
    BY DEF ScanInv, SessionsListOnce, HoldsAlone, UnlistedBut
  <1>3. \A s : UnlistedBut(l.ok, s) => UnlistedBut(l.ok, s)'
    BY DEF UnlistedBut
  <1>4. \A q \in Requests : ScanAsRead(q)'
    BY <1>1, <1>3 DEF ScanAsRead
  <1> QED BY <1>2, <1>4 DEF ScanInv

(* The judgement of one device keeps what was judged good unlisted.        *)
LEMMA CheckedUnlisted ==
  ASSUME MacsAreSerials, TypeInv, NEW l \in LocRec, NEW m \in Macs, ValidScan(l, m),
         l.items = ses[l.ses].items,
         IsInjective(l.ok), m \notin ToSet(l.ok),
         Disjoint(l.ok, ses[l.ses].items), UnlistedBut(l.ok, l.ses)
  PROVE  /\ IsInjective(Append(l.ok, m))
         /\ Disjoint(Append(l.ok, m), ses[l.ses].items)
         /\ UnlistedBut(Append(l.ok, m), l.ses)
  <1>1. l.ok \in Seq(Macs) /\ l.items \in Seq(Macs)
    BY DEF LocRec
  <1>2. \A t \in Sessions : ses[t].items \in Seq(Macs)
    BY DEF TypeInv, TypeOK, SessionRec
  <1>3. m \notin ToSet(l.items)
    BY <1>1, StoresMac DEF ValidScan
  <1>4. \A t \in Sessions \ {l.ses} :
           ses[t].status = "IN_PROGRESS" => m \notin ToSet(ses[t].items)
    BY <1>2, StoresMac DEF ValidScan, LockedElsewhere
  <1>5. /\ ToSet(Append(l.ok, m)) = ToSet(l.ok) \cup {m}
        /\ IsInjective(Append(l.ok, m))
    BY <1>1, AppendFacts
  <1> QED BY <1>3, <1>4, <1>5 DEF Disjoint, UnlistedBut

LEMMA ScanCheckScan ==
  ASSUME OneAtATime, MacsAreSerials, TypeInv, ScanInv, NEW r \in Requests, ScanCheck(r)
  PROVE  ScanInv'
  <1> DEFINE l == loc[r]
             scanned == Head(l.batch)
             ok == IF ValidScan(l, scanned) THEN Append(l.ok, scanned) ELSE l.ok
  <1>1. l \in LocRec /\ l.batch \in Seq(Macs) /\ l.ok \in Seq(Macs)
    BY DEF TypeInv, TypeOK, LocRec
  <1>2. /\ l.items = ses[l.ses].items
        /\ IsInjective(l.batch) /\ l.batch # <<>> /\ Disjoint(l.ok, l.batch)
        /\ IsInjective(l.ok) /\ Disjoint(l.ok, ses[l.ses].items) /\ UnlistedBut(l.ok, l.ses)
    BY DEF ScanCheck, ScanInv, ScanAsRead
  <1>3. /\ scanned \in Macs /\ scanned \in ToSet(l.batch)
        /\ IsInjective(Tail(l.batch))
        /\ ToSet(Tail(l.batch)) = ToSet(l.batch) \ {scanned}
        /\ Len(l.batch) > 1 => Tail(l.batch) # <<>>
    BY <1>1, <1>2, HeadTail
  <1>4. scanned \notin ToSet(l.ok)
    BY <1>2, <1>3 DEF Disjoint
  <1>5. ToSet(ok) \subseteq ToSet(l.ok) \cup {scanned}
    BY <1>1, <1>3, AppendFacts
  <1>6. IsInjective(ok) /\ Disjoint(ok, ses[l.ses].items) /\ UnlistedBut(ok, l.ses)
    BY <1>1, <1>2, <1>3, <1>4, CheckedUnlisted
  <1>7. Disjoint(ok, Tail(l.batch))
    BY <1>2, <1>3, <1>5 DEF Disjoint
  <1>8. /\ ses' = ses
        /\ \/ Len(l.batch) > 1
              /\ Goto(r, "ScanCheck", [l EXCEPT !.ok = ok, !.batch = Tail(@)])
           \/ Finish(r)
           \/ /\ ok # <<>>
              /\ Goto(r, "ScanPush", [Blank EXCEPT !.ses = l.ses, !.exp = l.exp, !.ok = ok])
    BY DEF ScanCheck
  <1> HIDE DEF ok, scanned
  <1>9. CASE Len(l.batch) > 1
              /\ Goto(r, "ScanCheck", [l EXCEPT !.ok = ok, !.batch = Tail(@)])
    <2> DEFINE next == [l EXCEPT !.ok = ok, !.batch = Tail(@)]
    <2>1. next.ok = ok /\ next.batch = Tail(l.batch) /\ next.items = l.items
             /\ next.ses = l.ses
      BY <1>1 DEF LocRec
    <2> HIDE DEF next, l
    <2> QED BY <1>2, <1>3, <1>6, <1>7, <1>8, <1>9, <2>1, ScanReads DEF next
  <1>10. CASE Finish(r)
    BY <1>8, <1>10, ScanReads DEF Finish
  <1>11. CASE /\ ok # <<>>
              /\ Goto(r, "ScanPush", [Blank EXCEPT !.ses = l.ses, !.exp = l.exp, !.ok = ok])
    <2> DEFINE next == [Blank EXCEPT !.ses = l.ses, !.exp = l.exp, !.ok = ok]
    <2>1. next.ok = ok /\ next.ses = l.ses
      BY DEF Blank
    <2> HIDE DEF next, l
    <2> QED BY <1>6, <1>8, <1>11, <2>1, ScanReads DEF next
  <1> QED BY <1>8, <1>9, <1>10, <1>11

(* A session is written: its own list and its place among the others.      *)
LEMMA SessionScan ==
  ASSUME OneAtATime, TypeInv, ScanInv, NEW s \in Sessions, NEW doc,
         ses' = [ses EXCEPT ![s] = doc], ListsOnce(doc),
         doc.status = "IN_PROGRESS" => UnlistedBut(doc.items, s),
         \A q \in Requests : pc'[q] \notin ScanSteps
  PROVE  ScanInv'
  <1>1. \A t \in Sessions : ses'[t] = IF t = s THEN doc ELSE ses[t]
    BY DEF TypeInv, TypeOK
  <1>2. SessionsListOnce'
    BY <1>1 DEF ScanInv, SessionsListOnce
  <1>3. HoldsAlone'
    BY <1>1 DEF ScanInv, HoldsAlone, UnlistedBut, Disjoint
  <1> QED BY <1>2, <1>3 DEF ScanInv, ScanAsRead, ScanSteps

LEMMA SessionWriteScan ==
  ASSUME OneAtATime, MacsAreSerials, TypeInv, ReadInv, ScanInv, NEW r \in Requests,
         \/ SessionInsert(r) \/ ScanPush(r)
         \/ RemovePull(r) \/ CompleteClose(r)
  PROVE  ScanInv'
  <1> DEFINE l == loc[r]
             s == l.ses
             old == ses[s]
  <1>1. /\ s \in Sessions /\ StoreAsRead(r) /\ ScanAsRead(r) /\ ListsOnce(old)
        /\ l \in LocRec /\ old \in SessionRec
    BY DEF TypeInv, TypeOK, HoldsOK, HoldsSession, SessionCalls, SessionInsert, ScanPush,
           RemovePull, CompleteClose, ReadInv, ScanInv, SessionsListOnce
  <1>2. old.items \in Seq(Macs) /\ l.ok \in Seq(Macs) /\ Len(old.items) \in Nat
    BY <1>1 DEF SessionRec, LocRec
  <1>3. old.status = "IN_PROGRESS" => UnlistedBut(old.items, s)
    BY <1>1 DEF ScanInv, HoldsAlone
  <1>4. CASE SessionInsert(r)
    <2> DEFINE doc == [NoSession EXCEPT !.status = "IN_PROGRESS", !.exp = l.exp]
    <2>1. doc.items = <<>> /\ doc.serialChecked = 0 /\ doc.status = "IN_PROGRESS"
      BY DEF NoSession
    <2>2. ListsOnce(doc) /\ UnlistedBut(doc.items, s)
      BY <2>1 DEF ListsOnce, IsInjective, UnlistedBut, Disjoint, ToSet
    <2>3. ses' = [ses EXCEPT ![s] = doc]
      BY <1>4 DEF SessionInsert
    <2>4. pc' = [pc EXCEPT ![r] = "SessionMark"] \/ pc' = [pc EXCEPT ![r] = "Idle"]
      BY <1>4 DEF SessionInsert, Goto, Finish
    <2>5. \A q \in Requests : pc'[q] \notin ScanSteps
      BY <2>4 DEF OneAtATime, ScanSteps, TypeInv, TypeOK
    <2> HIDE DEF doc
    <2> QED BY <1>1, <2>2, <2>3, <2>5, SessionScan
  <1>5. CASE ScanPush(r)
    <2> DEFINE doc == [old EXCEPT !.items = @ \o l.ok, !.serialChecked = @ + Len(l.ok)]
    <2>1. /\ doc.items = old.items \o l.ok
          /\ doc.serialChecked = old.serialChecked + Len(l.ok)
          /\ doc.status = old.status
      BY <1>1 DEF SessionRec
    <2>2. /\ old.status = "IN_PROGRESS"
          /\ IsInjective(l.ok) /\ Disjoint(l.ok, old.items) /\ UnlistedBut(l.ok, s)
      BY <1>1, <1>5 DEF ScanPush, StoreAsRead, OpenCalls, ScanAsRead
    <2>3. /\ Len(old.items \o l.ok) = Len(old.items) + Len(l.ok)
          /\ ToSet(old.items \o l.ok) = ToSet(old.items) \cup ToSet(l.ok)
      BY <1>2, ToSetConcat
    <2>4. IsInjective(old.items \o l.ok)
      BY <1>1, <1>2, <2>2, ConcatOnce DEF ListsOnce, Disjoint
    <2>5. ListsOnce(doc)
      BY <1>1, <2>1, <2>2, <2>3, <2>4 DEF ListsOnce
    <2>6. UnlistedBut(doc.items, s)
      BY <1>3, <2>1, <2>2, <2>3 DEF UnlistedBut, Disjoint
    <2>7. ses' = [ses EXCEPT ![s] = doc]
      BY <1>5 DEF ScanPush
    <2>8. \A q \in Requests : pc'[q] \notin ScanSteps
      BY <1>5, Alone DEF ScanPush, Finish, ScanSteps
    <2> HIDE DEF doc
    <2> QED BY <1>1, <2>5, <2>6, <2>7, <2>8, SessionScan
  <1>6. CASE RemovePull(r)
    <2> DEFINE doc == [old EXCEPT !.items = Pull(@, l.serial), !.serialChecked = @ - 1]
    <2>1. /\ doc.items = Pull(old.items, l.serial)
          /\ doc.serialChecked = old.serialChecked - 1
          /\ doc.status = old.status
      BY <1>1 DEF SessionRec
    <2>2. old.status = "IN_PROGRESS" /\ l.serial \in ToSet(old.items)
      BY <1>1, <1>6 DEF RemovePull, StoreAsRead, OpenCalls, ScanAsRead
    <2>3. /\ IsInjective(Pull(old.items, l.serial))
          /\ ToSet(Pull(old.items, l.serial)) = ToSet(old.items) \ {l.serial}
          /\ Len(Pull(old.items, l.serial)) = Len(old.items) - 1
      BY <1>1, <1>2, <2>2, PullOne DEF ListsOnce
    <2>4. ListsOnce(doc)
      BY <1>1, <2>1, <2>2, <2>3 DEF ListsOnce
    <2>5. UnlistedBut(doc.items, s)
      BY <1>3, <2>1, <2>2, <2>3 DEF UnlistedBut, Disjoint
    <2>6. ses' = [ses EXCEPT ![s] = doc]
      BY <1>6 DEF RemovePull
    <2>7. \A q \in Requests : pc'[q] \notin ScanSteps
      BY <1>6, Alone DEF RemovePull, Finish, ScanSteps
    <2> HIDE DEF doc
    <2> QED BY <1>1, <2>4, <2>5, <2>6, <2>7, SessionScan
  <1>7. CASE CompleteClose(r)
    <2> DEFINE doc == [old EXCEPT !.status = "COMPLETED"]
    <2>1. /\ doc.items = old.items
          /\ doc.serialChecked = old.serialChecked
          /\ doc.status = "COMPLETED"
      BY <1>1 DEF SessionRec
    <2>2. ListsOnce(doc)
      BY <1>1, <2>1 DEF ListsOnce
    <2>3. ses' = [ses EXCEPT ![s] = doc]
      BY <1>7 DEF CompleteClose
    <2>4. \A q \in Requests : pc'[q] \notin ScanSteps
      BY <1>7, Alone DEF CompleteClose, ScanSteps
    <2> HIDE DEF doc
    <2> QED BY <1>1, <2>1, <2>2, <2>3, <2>4, SessionScan
  <1> QED BY <1>4, <1>5, <1>6, <1>7

LEMMA SessionReadScan ==
  ASSUME OneAtATime, MacsAreSerials, TypeInv, ScanInv, NEW r \in Requests,
         \/ SessionStart(r) \/ SessionMark(r) \/ ScanExport(r) \/ ScanDevices(r)
         \/ CompletePush(r) \/ CompleteMove(r) \/ CompleteTotal(r) \/ CompleteWrite(r)
  PROVE  ScanInv'
  <1> DEFINE l == loc[r]
  <1>1. ScanAsRead(r) /\ l \in LocRec
    BY DEF ScanInv, TypeInv, TypeOK
  <1>2. CASE ScanSerial(r) \/ ScanBulk(r)
    <2>1. PICK s \in Sessions, batch \in Seq(Macs) :
             IsInjective(batch) /\ batch # <<>> /\ ScanSession(r, s, batch)
      BY <1>2, ScanBatch
    <2> DEFINE next == [Blank EXCEPT !.ses = s, !.exp = ses[s].exp,
                                     !.items = ses[s].items, !.batch = batch]
    <2>2. next.ses = s /\ next.items = ses[s].items /\ next.batch = batch /\ next.ok = <<>>
      BY DEF Blank
    <2>3. Goto(r, "ScanExport", next) /\ ses' = ses
      BY <2>1 DEF ScanSession
    <2> HIDE DEF next
    <2> QED BY <2>1, <2>2, <2>3, ScanReads
  <1>3. CASE RemoveRead(r)
    <2>0. PICK s \in Sessions : \E serial \in SerialsOf(ses[s].items) :
             Goto(r, "Remove", [Blank EXCEPT !.ses = s, !.serial = serial])
      BY <1>3 DEF RemoveRead
    <2>1. PICK serial \in SerialsOf(ses[s].items) :
             Goto(r, "Remove", [Blank EXCEPT !.ses = s, !.serial = serial])
      BY <2>0
    <2> DEFINE next == [Blank EXCEPT !.ses = s, !.serial = serial]
    <2>2. next.ses = s /\ next.serial = serial
      BY DEF Blank
    <2>3. serial \in ToSet(ses[s].items)
      <3>1. ses[s].items \in Seq(Macs)
        BY DEF TypeInv, TypeOK, SessionRec
      <3> QED BY <3>1, StoresMac
    <2>4. Goto(r, "Remove", next) /\ ses' = ses
      BY <1>3, <2>1 DEF RemoveRead
    <2> HIDE DEF next
    <2> QED BY <2>2, <2>3, <2>4, ScanReads
  <1>4. CASE ScanExport(r)
    <2>1. \/ Goto(r, "ScanDevices", [l EXCEPT !.models = DOMAIN exp[l.exp].plan])
          \/ Finish(r)
      BY <1>4 DEF ScanExport
    <2> DEFINE next == [l EXCEPT !.models = DOMAIN exp[l.exp].plan]
    <2>2. /\ next.ses = l.ses /\ next.items = l.items /\ next.batch = l.batch
          /\ next.ok = l.ok
      BY <1>1 DEF LocRec
    <2>3. /\ l.items = ses[l.ses].items /\ IsInjective(l.batch) /\ l.batch # <<>>
          /\ l.ok = <<>> /\ ses' = ses
      BY <1>1, <1>4 DEF ScanExport, ScanAsRead
    <2>4. CASE Goto(r, "ScanDevices", next)
      <3> HIDE DEF next, l
      <3> QED BY <2>2, <2>3, <2>4, ScanReads
    <2>5. CASE Finish(r)
      BY <2>3, <2>5, ScanReads DEF Finish
    <2> QED BY <2>1, <2>4, <2>5
  <1>5. CASE ScanDevices(r)
    <2> DEFINE next == [l EXCEPT !.ready = {m \in ToSet(l.batch) :
                                              dev[m].wh = "READY_TO_EXPORT"}]
    <2>1. Goto(r, "ScanCheck", next) /\ ses' = ses
      BY <1>5 DEF ScanDevices
    <2>2. /\ next.ses = l.ses /\ next.items = l.items /\ next.batch = l.batch
          /\ next.ok = l.ok
      BY <1>1 DEF LocRec
    <2>3. /\ l.items = ses[l.ses].items /\ IsInjective(l.batch) /\ l.batch # <<>>
          /\ l.ok = <<>>
      BY <1>1, <1>5 DEF ScanDevices, ScanAsRead
    <2>4. IsInjective(<<>>) /\ ToSet(<<>>) = {}
      BY DEF IsInjective, ToSet
    <2>5. /\ Disjoint(next.ok, next.batch) /\ Disjoint(next.ok, ses[next.ses].items)
          /\ UnlistedBut(next.ok, next.ses) /\ IsInjective(next.ok)
      BY <2>2, <2>3, <2>4 DEF Disjoint, UnlistedBut
    <2> HIDE DEF next, l
    <2> QED BY <2>1, <2>2, <2>3, <2>5, ScanReads
  <1>6. CASE \/ SessionRead(r) \/ CompleteRead(r) \/ SessionMark(r) \/ CompletePush(r)
             \/ CompleteMove(r) \/ CompleteTotal(r) \/ CompleteWrite(r)
    <2>1. /\ ses' = ses
          /\ pc'[r] \in {"SessionInsert", "CompletePush", "Idle", "CompleteMove",
                         "CompleteClose", "CompleteWrite"}
      BY <1>6 DEF SessionRead, CompleteRead, SessionMark, CompletePush, CompleteMove,
                  CompleteTotal, CompleteWrite, Goto, Finish, TypeInv, TypeOK
    <2>2. \A q \in Requests : pc'[q] \notin ScanSteps
      BY <2>1 DEF OneAtATime, ScanSteps
    <2> QED BY <2>1, <2>2, ScanQuiet
  <1> QED BY <1>2, <1>3, <1>4, <1>5, <1>6 DEF SessionStart

(* ScanInv is inductive when requests are served one at a time.            *)
LEMMA ScanStep ==
  ASSUME OneAtATime, MacsAreSerials, TypeInv, ReadInv, ScanInv, [Next]_vars
  PROVE  ScanInv'
  <1>1. CASE UNCHANGED vars
    BY <1>1 DEF vars, ScanInv, SessionsListOnce, HoldsAlone, UnlistedBut, ScanAsRead
  <1>2. ASSUME NEW e \in Exports, TicketDocument(e) PROVE ScanInv'
    <2>1. UNCHANGED <<ses, pc, loc>>
      BY <1>2 DEF TicketDocument, CreateTicket, PatchTicket, DeleteTicket
    <2> QED BY <2>1 DEF ScanInv, SessionsListOnce, HoldsAlone, UnlistedBut, ScanAsRead
  <1>3. ASSUME NEW r \in Requests, TicketStart(r) \/ TicketStep(r) PROVE ScanInv'
    <2>1. ses' = ses
      BY <1>3 DEF TicketStart, AddItemsRead, SubmitRead, RejectRead, ApproveRead,
                  ConfirmRead, TicketStep, AddItemsWrite, SubmitWrite, RejectWrite,
                  ApproveStock, ApproveReserve, ApproveWrite, ConfirmMove, ConfirmWrite
    <2>2. \A q \in Requests : pc'[q] \in TicketSteps
      BY <1>3, TicketGoes DEF OneAtATime
    <2> QED BY <2>1, <2>2, ScanQuiet DEF TicketSteps, ScanSteps
  <1>4. ASSUME NEW r \in Requests, TransferRead(r) \/ TransferSave(r) PROVE ScanInv'
    <2>1. ses' = ses /\ pc'[r] \in {"TransferSave", "Idle"}
      BY <1>4 DEF TransferRead, TransferSave, Goto, Finish, TypeInv, TypeOK
    <2>2. \A q \in Requests : pc'[q] \notin ScanSteps
      BY <2>1 DEF OneAtATime, ScanSteps
    <2> QED BY <2>1, <2>2, ScanQuiet
  <1>5. ASSUME NEW r \in Requests, SessionStart(r) \/ SessionStep(r) PROVE ScanInv'
    BY <1>5, SessionReadScan, SessionWriteScan, ScanCheckScan DEF SessionStep
  <1>6. CASE Crash
    BY <1>6, ScanQuiet DEF Crash, ScanSteps
  <1> QED BY <1>1, <1>2, <1>3, <1>4, <1>5, <1>6 DEF Next, Step

(* The three parts together, as an invariant of the specification.         *)
LEMMA ScanInvariant ==
  ASSUME OneAtATime, MacsAreSerials PROVE Spec => [](TypeInv /\ ReadInv /\ ScanInv)
  <1>1. Init => TypeInv /\ ReadInv /\ ScanInv
    BY TypeInit, ReadInit, ScanInit
  <1>2. TypeInv /\ ReadInv /\ ScanInv /\ [Next]_vars => (TypeInv /\ ReadInv /\ ScanInv)'
    BY TypeStep, ReadStep, ScanStep
  <1> QED BY <1>1, <1>2, PTL DEF Spec

(* serialChecked counts the items of the session, through every $push and  *)
(* $pull, and no session lists a device twice.                             *)
THEOREM CheckedIsCount ==
  ASSUME OneAtATime, MacsAreSerials
  PROVE  Spec => []CheckedMatchesItems /\ []ScannedOnce
  <1>1. ScanInv => CheckedMatchesItems /\ ScannedOnce
    BY DEF ScanInv, SessionsListOnce, ListsOnce, CheckedMatchesItems, ScannedOnce
  <1> QED BY <1>1, ScanInvariant, PTL

(* A device is scanned into one session in progress only: the check of the *)
(* other sessions and the push are one request's.                          *)
THEOREM OneHolder ==
  ASSUME OneAtATime, MacsAreSerials PROVE Spec => []AtMostOneHolder
  <1>1. ScanInv => AtMostOneHolder
    BY DEF ScanInv, HoldsAlone, UnlistedBut, Disjoint, AtMostOneHolder
  <1> QED BY <1>1, ScanInvariant, PTL

-----------------------------------------------------------------------------
(***************************************************************************)
(* Sales.  A device that was sold is in the SOLD warehouse and no session  *)
(* in progress lists it; what tickets list is sold, but for what the       *)
(* completion under way has pushed and not moved yet.  This needs requests *)
(* that run to their end, no items given by clients and no way back from   *)
(* SOLD: a device a customer returns may be sold again.                    *)
(***************************************************************************)
NothingReturns == \A mv \in DOMAIN Moves : mv[1] # "SOLD"
NoDetours == {"crash", "addItems", "clientItems"} \cap Features = {}

Sold(m)    == soldFor[m] # {}
Closing(s) == \E r \in Requests : pc[r] = "CompleteClose" /\ loc[r].ses = s
Moving(m)  == \E r \in Requests : pc[r] = "CompleteMove" /\ m \in ToSet(loc[r].items)

SoldIsGone == \A m \in Macs : Sold(m) => dev[m].wh = "SOLD"

HeldIsUnsold == \A s \in Sessions : ses[s].status = "IN_PROGRESS" /\ ~ Closing(s) =>
                   \A m \in ToSet(ses[s].items) : ~ Sold(m)

ListedIsSold == \A e \in Exports : \A m \in ToSet(exp[e].items) : Sold(m) \/ Moving(m)

SaleSteps == {"ScanCheck", "ScanPush", "CompletePush", "CompleteMove",
              "CompleteClose", "ConfirmMove", "AddItems"}

SaleAsRead(r) ==
    LET l == loc[r] IN
    /\ pc[r] = "ScanCheck" => \A m \in l.ready : ~ Sold(m)
    /\ pc[r] \in {"ScanCheck", "ScanPush"} => \A m \in ToSet(l.ok) : ~ Sold(m)
    /\ pc[r] \in {"CompletePush", "CompleteMove"} => l.items = ses[l.ses].items
    /\ pc[r] \in {"CompletePush", "CompleteMove", "CompleteClose"} =>
          ses[l.ses].items # <<>>
    /\ pc[r] = "CompleteClose" => \A m \in ToSet(ses[l.ses].items) : Sold(m)
    /\ pc[r] = "ConfirmMove" => \A m \in ToSet(l.items) : Sold(m)
    /\ pc[r] # "AddItems"

CustodyInv == /\ SoldIsGone
              /\ HeldIsUnsold
              /\ ListedIsSold
              /\ ExportedOnce
              /\ \A r \in Requests : SaleAsRead(r)

LEMMA CustodyInit == Init => CustodyInv
  <1> SUFFICES ASSUME Init PROVE CustodyInv
    OBVIOUS
  <1>1. /\ \A e \in Exports : exp[e].items = <<>>
        /\ \A s \in Sessions : ses[s].items = <<>>
        /\ \A m \in Macs : soldFor[m] = {}
        /\ \A r \in Requests : pc[r] = "Idle"
    BY DEF Init, NoTicket, NoSession
  <1>2. ToSet(<<>>) = {} /\ DOMAIN <<>> = {}
    BY DEF ToSet
  <1> QED
    BY <1>1, <1>2 DEF CustodyInv, SoldIsGone, HeldIsUnsold, ListedIsSold, ExportedOnce,
                      SaleAsRead, Sold

(* Tickets keep or lose their items, and nothing is sold or scanned.       *)
LEMMA ItemsKept ==
  ASSUME CustodyInv, UNCHANGED <<ses, dev, soldFor>>,
         \A e \in Exports : exp'[e].items \in {exp[e].items, <<>>},
         \A q \in Requests : /\ pc[q] \in {"CompleteMove", "CompleteClose"} =>
                                  pc'[q] = pc[q] /\ loc'[q] = loc[q]
                             /\ SaleAsRead(q)'
  PROVE  CustodyInv'
  <1>1. ToSet(<<>>) = {} /\ DOMAIN <<>> = {}
    BY DEF ToSet
  <1>2. \A m : (Sold(m) => Sold(m)') /\ (Moving(m) => Moving(m)')
    BY DEF Sold, Moving
  <1>3. \A s : Closing(s) => Closing(s)'
    BY DEF Closing
  <1>4. SoldIsGone' /\ HeldIsUnsold'
    BY <1>3 DEF CustodyInv, SoldIsGone, HeldIsUnsold, Sold
  <1>5. ListedIsSold'
    BY <1>1, <1>2 DEF CustodyInv, ListedIsSold
  <1>6. ExportedOnce'
    BY <1>1 DEF CustodyInv, ExportedOnce
  <1> QED BY <1>4, <1>5, <1>6 DEF CustodyInv

(* The same, when the one request goes on to a call that sells nothing.    *)
LEMMA CustodyQuiet ==
  ASSUME OneAtATime, CustodyInv, UNCHANGED <<ses, dev, soldFor>>,
         \A e \in Exports : exp'[e].items \in {exp[e].items, <<>>},
         NEW r \in Requests, pc[r] \notin {"CompleteMove", "CompleteClose"},
         pc'[r] \notin SaleSteps
  PROVE  CustodyInv'
  <1>1. \A q \in Requests : SaleAsRead(q)'
    BY DEF SaleAsRead, SaleSteps, OneAtATime
  <1> QED BY <1>1, ItemsKept DEF OneAtATime

(* A session is written; while it is in progress it lists nothing sold.    *)
LEMMA CustodySession ==
  ASSUME OneAtATime, TypeInv, CustodyInv, UNCHANGED <<exp, dev, soldFor>>,
         NEW s \in Sessions, NEW doc, ses' = [ses EXCEPT ![s] = doc],
         doc.status = "IN_PROGRESS" => \A m \in ToSet(doc.items) : ~ Sold(m),
         NEW r \in Requests, pc[r] # "CompleteMove",
         pc[r] = "CompleteClose" => loc[r].ses = s,
         pc'[r] \notin SaleSteps
  PROVE  CustodyInv'
  <1>1. \A t \in Sessions : ses'[t] = IF t = s THEN doc ELSE ses[t]
    BY DEF TypeInv, TypeOK
  <1>2. \A m : (Sold(m) <=> Sold(m)') /\ ~ Moving(m)
    BY DEF Sold, Moving, OneAtATime
  <1>3. \A t \in Sessions \ {s} : ~ Closing(t)
    BY DEF Closing, OneAtATime
  <1>4. HeldIsUnsold'
    BY <1>1, <1>2, <1>3 DEF CustodyInv, HeldIsUnsold
  <1>5. \A q \in Requests : SaleAsRead(q)'
    BY DEF SaleAsRead, SaleSteps, OneAtATime
  <1>6. ListedIsSold'
    BY <1>2 DEF CustodyInv, ListedIsSold
  <1>7. ExportedOnce' /\ SoldIsGone'
    BY DEF CustodyInv, ExportedOnce, SoldIsGone, Sold
  <1> QED BY <1>4, <1>5, <1>6, <1>7 DEF CustodyInv

(* An update of a ticket that writes no items.                             *)
LEMMA ItemsWritten ==
  ASSUME TypeInv, NEW e, NEW doc, WriteTicket(e, doc), doc.items = exp[e].items
  PROVE  \A f \in Exports : exp'[f].items = exp[f].items
  BY DEF WriteTicket, TypeInv, TypeOK

LEMMA StatusItems ==
  ASSUME TypeInv, NEW e \in Exports, NEW status, WriteTicket(e, WithStatus(exp[e], status))
  PROVE  \A f \in Exports : exp'[f].items = exp[f].items
  <1>1. WithStatus(exp[e], status).items = exp[e].items
    BY DEF WithStatus, TypeInv, TypeOK, TicketRec
  <1> QED BY <1>1, ItemsWritten

LEMMA CustodyDocument ==
  ASSUME NoDetours, TypeInv, CustodyInv, NEW e \in Exports, TicketDocument(e)
  PROVE  CustodyInv'
  <1>0. exp \in [Exports -> TicketRec] /\ ClientItems = {}
    BY DEF TypeInv, TypeOK, ClientItems, NoDetours
  <1>1. UNCHANGED <<ses, dev, soldFor, pc, loc>>
    BY DEF TicketDocument, CreateTicket, PatchTicket, DeleteTicket
  <1>2. \A f \in Exports : exp'[f].items \in {exp[f].items, <<>>}
    <2>1. CASE CreateTicket(e)
      <3>1. PICK status \in {"DRAFT", "PENDING_APPROVAL"}, plan \in Plans,
                 quantity \in Totals, count \in ClientCounts \cup {0} :
               exp' = [exp EXCEPT ![e] =
                      WithBody(NoTicket, status, plan, quantity, <<>>, count)]
        BY <1>0, <2>1 DEF CreateTicket
      <3> QED BY <1>0, <3>1, BodyFields, BlankType
    <2>2. CASE PatchTicket(e)
      <3>1. PICK status \in {exp[e].status, "DRAFT", "PENDING_APPROVAL"},
                 plan \in Plans \cup {exp[e].plan},
                 quantity \in Totals \cup {exp[e].totalQuantity},
                 items \in ClientItems \cup {exp[e].items},
                 count \in ClientCounts \cup {exp[e].totalItems} :
               exp' = [exp EXCEPT ![e] =
                      WithBody(exp[e], status, plan, quantity, items, count)]
        BY <2>2 DEF PatchTicket
      <3> QED BY <1>0, <3>1, BodyFields
    <2>3. CASE DeleteTicket(e)
      BY <1>0, <2>3 DEF DeleteTicket, NoTicket
    <2> QED BY <2>1, <2>2, <2>3 DEF TicketDocument
  <1>3. \A q \in Requests : SaleAsRead(q)'
    BY <1>1 DEF CustodyInv, SaleAsRead, Sold
  <1> QED BY <1>1, <1>2, <1>3, ItemsKept

(* The handlers of a ticket: only confirm sells, and only what is sold.    *)
LEMMA CustodyTicket ==
  ASSUME OneAtATime, MacsAreSerials, NoDetours, TypeInv, CustodyInv,
         NEW r \in Requests, TicketStart(r) \/ TicketStep(r)
  PROVE  CustodyInv'
  <1> DEFINE l == loc[r]
  <1>0. /\ pc \in [Requests -> Steps] /\ l \in LocRec /\ SaleAsRead(r)
        /\ pc[r] \in TicketCalls => l.exp \in Exports
    BY DEF TypeInv, TypeOK, HoldsOK, HoldsTicket, CustodyInv
  <1>1. CASE ConfirmRead(r)
    <2>1. PICK e \in Exports :
             Goto(r, "ConfirmMove", [Blank EXCEPT !.exp = e, !.items = exp[e].items])
      BY <1>1 DEF ConfirmRead
    <2>2. UNCHANGED <<exp, ses, dev, soldFor>> /\ pc[r] = "Idle"
      BY <1>1 DEF ConfirmRead, Start
    <2>3. \A q \in Requests : pc'[q] = "ConfirmMove" /\ loc'[q].items = exp[e].items
      <3> DEFINE next == [Blank EXCEPT !.exp = e, !.items = exp[e].items]
      <3>1. next.items = exp[e].items
        BY DEF Blank
      <3>2. Goto(r, "ConfirmMove", next)
        BY <2>1
      <3> HIDE DEF next
      <3> QED BY <3>1, <3>2, Alone
    <2>4. \A m : ~ Moving(m)
      BY <2>2 DEF Moving, OneAtATime
    <2>5. \A m \in ToSet(exp[e].items) : Sold(m)'
      BY <2>2, <2>4 DEF CustodyInv, ListedIsSold, Sold
    <2>6. \A q \in Requests : SaleAsRead(q)'
      BY <2>3, <2>5 DEF SaleAsRead
    <2> QED BY <2>2, <2>6, ItemsKept DEF OneAtATime
  <1>2. CASE ConfirmMove(r)
    <2>1. l.exp \in Exports /\ ToSet(l.items) \subseteq Macs /\ SerialsOf(l.items) = ToSet(l.items)
      BY <1>0, <1>2, StoresMac, ToSetType DEF ConfirmMove, TicketCalls, LocRec
    <2>2. \A m \in ToSet(l.items) : Sold(m) /\ dev[m].wh = "SOLD"
      BY <1>0, <1>2, <2>1 DEF ConfirmMove, SaleAsRead, CustodyInv, SoldIsGone
    <2>3. /\ dev' = [m \in Macs |-> IF m \in ToSet(l.items)
                                    THEN [dev[m] EXCEPT !.wh = "SOLD"] ELSE dev[m]]
          /\ soldFor' = [m \in Macs |-> IF m \in ToSet(l.items)
                                        THEN soldFor[m] \cup {l.exp} ELSE soldFor[m]]
          /\ UNCHANGED <<exp, ses>>
      BY <1>2, <2>1 DEF ConfirmMove, MoveToSoldWarehouse
    <2>4. \A q \in Requests : pc[q] = "ConfirmMove" /\ pc'[q] = "ConfirmWrite"
      BY <1>2, Alone DEF ConfirmMove, OneAtATime
    <2>5. \A m \in Macs : Sold(m)' <=> Sold(m)
      BY <2>2, <2>3 DEF Sold
    <2>6. \A m \in Macs : dev'[m].wh = dev[m].wh
      <3>1. dev \in [Macs -> DeviceRec]
        BY DEF TypeInv, TypeOK
      <3> QED BY <2>2, <2>3, <3>1 DEF DeviceRec
    <2>7. SoldIsGone'
      BY <2>5, <2>6 DEF CustodyInv, SoldIsGone
    <2>8. \A s \in Sessions : ToSet(ses[s].items) \subseteq Macs
      BY ToSetType DEF TypeInv, TypeOK, SessionRec
    <2>9. \A e \in Exports : ToSet(exp[e].items) \subseteq Macs
      BY ToSetType DEF TypeInv, TypeOK, TicketRec
    <2>10. HeldIsUnsold'
      BY <2>3, <2>4, <2>5, <2>8 DEF CustodyInv, HeldIsUnsold, Closing
    <2>11. ListedIsSold'
      BY <2>3, <2>4, <2>5, <2>9 DEF CustodyInv, ListedIsSold, Moving
    <2>12. ExportedOnce'
      BY <2>3 DEF CustodyInv, ExportedOnce
    <2>13. \A q \in Requests : SaleAsRead(q)'
      BY <2>4 DEF SaleAsRead
    <2> QED BY <2>7, <2>10, <2>11, <2>12, <2>13 DEF CustodyInv
  <1>3. CASE AddItemsRead(r) \/ AddItemsWrite(r)
    BY <1>0, <1>3 DEF AddItemsRead, AddItemsWrite, SaleAsRead, NoDetours
  <1>4. CASE \/ SubmitRead(r) \/ RejectRead(r) \/ ApproveRead(r) \/ ApproveStock(r)
             \/ ApproveReserve(r)
    <2>1. /\ UNCHANGED <<exp, ses, dev, soldFor>>
          /\ pc[r] \in {"Idle", "ApproveStock", "ApproveReserve"}
          /\ pc'[r] \in {"Idle", "Submit", "Reject", "ApproveStock", "ApproveReserve",
                         "Approve"}
      BY <1>0, <1>4 DEF SubmitRead, RejectRead, ApproveRead, ApproveStock,
                        ApproveReserve, Start, Goto, Finish
    <2> QED BY <2>1, CustodyQuiet DEF SaleSteps
  <1>5. CASE SubmitWrite(r) \/ RejectWrite(r) \/ ApproveWrite(r) \/ ConfirmWrite(r)
    <2>1. /\ l.exp \in Exports
          /\ pc[r] \in {"Submit", "Reject", "Approve", "ConfirmWrite"}
          /\ pc'[r] = "Idle" /\ UNCHANGED <<ses, dev, soldFor>>
      BY <1>0, <1>5 DEF SubmitWrite, RejectWrite, ApproveWrite, ConfirmWrite, Finish, Goto,
                        TicketCalls
    <2>2. \A e \in Exports : exp'[e].items = exp[e].items
      <3>1. ASSUME NEW status, WriteTicket(l.exp, WithStatus(exp[l.exp], status))
            PROVE  \A e \in Exports : exp'[e].items = exp[e].items
        BY <2>1, <3>1, StatusItems
      <3>2. CASE SubmitWrite(r) \/ RejectWrite(r) \/ ConfirmWrite(r)
        BY <3>1, <3>2 DEF SubmitWrite, RejectWrite, ConfirmWrite
      <3>3. CASE ApproveWrite(r)
        <4> DEFINE doc == [WithStatus(exp[l.exp], "APPROVED") EXCEPT !.approved = TRUE]
        <4>1. doc.items = exp[l.exp].items
          BY <2>1 DEF WithStatus, TypeInv, TypeOK, TicketRec
        <4>2. WriteTicket(l.exp, doc)
          BY <3>3 DEF ApproveWrite
        <4> HIDE DEF doc
        <4> QED BY <4>1, <4>2, ItemsWritten
      <3> QED BY <1>5, <3>2, <3>3
    <2> QED BY <2>1, <2>2, CustodyQuiet DEF SaleSteps
  <1> QED BY <1>1, <1>2, <1>3, <1>4, <1>5 DEF TicketStart, TicketStep

(* The reads and checks of the session handlers sell nothing.              *)
LEMMA CustodyReads ==
  ASSUME OneAtATime, NoDetours, TypeInv, ScanInv, CustodyInv, NEW r \in Requests,
         \/ SessionStart(r) \/ SessionMark(r) \/ ScanExport(r) \/ ScanDevices(r)
         \/ ScanCheck(r) \/ CompleteTotal(r) \/ CompleteWrite(r)
  PROVE  CustodyInv'
  <1> DEFINE l == loc[r]
  <1>0. /\ pc \in [Requests -> Steps] /\ l \in LocRec /\ SaleAsRead(r)
        /\ pc[r] \in TicketCalls => l.exp \in Exports
    BY DEF TypeInv, TypeOK, HoldsOK, HoldsTicket, CustodyInv
  <1>1. CASE \/ SessionRead(r) \/ ScanSerial(r) \/ ScanBulk(r) \/ RemoveRead(r)
             \/ ScanExport(r) \/ CompleteTotal(r)
    <2>1. /\ UNCHANGED <<exp, ses, dev, soldFor>>
          /\ pc[r] \in {"Idle", "ScanExport", "CompleteTotal"}
          /\ pc'[r] \in {"Idle", "SessionInsert", "ScanExport", "Remove", "ScanDevices",
                         "CompleteWrite"}
      BY <1>0, <1>1 DEF SessionRead, ScanSerial, ScanBulk, ScanSession, RemoveRead,
                        ScanExport, CompleteTotal, Start, Goto, Finish
    <2> QED BY <2>1, CustodyQuiet DEF SaleSteps
  <1>2. CASE SessionMark(r) \/ CompleteWrite(r)
    <2>1. /\ l.exp \in Exports /\ pc[r] \in {"SessionMark", "CompleteWrite"}
          /\ pc'[r] = "Idle" /\ UNCHANGED <<ses, dev, soldFor>>
      BY <1>0, <1>2 DEF SessionMark, CompleteWrite, Finish, Goto, TicketCalls
    <2>2. \A e \in Exports : exp'[e].items = exp[e].items
      BY <1>2, <2>1, StatusItems DEF SessionMark, CompleteWrite
    <2> QED BY <2>1, <2>2, CustodyQuiet DEF SaleSteps
  <1>3. CASE CompleteRead(r)
    <2>1. PICK s \in Sessions :
            /\ ses[s].status = "IN_PROGRESS" /\ ses[s].items # <<>>
            /\ Goto(r, "CompletePush", [Blank EXCEPT !.ses = s, !.exp = ses[s].exp,
                                                     !.items = ses[s].items])
      BY <1>3 DEF CompleteRead
    <2> DEFINE next == [Blank EXCEPT !.ses = s, !.exp = ses[s].exp,
                                     !.items = ses[s].items]
    <2>2. next.ses = s /\ next.items = ses[s].items
      BY DEF Blank
    <2>3. /\ Goto(r, "CompletePush", next) /\ pc[r] = "Idle"
          /\ UNCHANGED <<exp, ses, dev, soldFor>>
      BY <1>3, <2>1 DEF CompleteRead, Start
    <2> HIDE DEF next
    <2>4. \A q \in Requests : pc'[q] = "CompletePush" /\ loc'[q] = next
      BY <2>3, Alone
    <2>5. \A q \in Requests : SaleAsRead(q)'
      BY <2>1, <2>2, <2>3, <2>4 DEF SaleAsRead
    <2> QED BY <2>3, <2>5, ItemsKept DEF OneAtATime
  <1>4. CASE ScanDevices(r)
    <2> DEFINE next == [l EXCEPT !.ready = {m \in ToSet(l.batch) :
                                              dev[m].wh = "READY_TO_EXPORT"}]
    <2>1. /\ Goto(r, "ScanCheck", next) /\ pc[r] = "ScanDevices"
          /\ UNCHANGED <<exp, ses, dev, soldFor>>
      BY <1>4 DEF ScanDevices
    <2>2. /\ next.ready = {m \in ToSet(l.batch) : dev[m].wh = "READY_TO_EXPORT"}
          /\ next.ok = l.ok
      BY <1>0 DEF LocRec
    <2>3. ToSet(l.batch) \subseteq Macs
      BY <1>0, ToSetType DEF LocRec
    <2> HIDE DEF next
    <2>4. \A q \in Requests : pc'[q] = "ScanCheck" /\ loc'[q] = next
      BY <2>1, Alone
    <2>5. \A m \in next.ready : ~ Sold(m)
      BY <2>2, <2>3 DEF CustodyInv, SoldIsGone
    <2>6. l.ok = <<>> /\ ToSet(<<>>) = {}
      BY <2>1 DEF ScanInv, ScanAsRead, ToSet
    <2>7. \A q \in Requests : SaleAsRead(q)'
      BY <2>1, <2>2, <2>4, <2>5, <2>6 DEF SaleAsRead, Sold
    <2> QED BY <2>1, <2>7, ItemsKept DEF OneAtATime
  <1>5. CASE ScanCheck(r)
    <2> DEFINE scanned == Head(l.batch)
               ok == IF ValidScan(l, scanned) THEN Append(l.ok, scanned) ELSE l.ok
    <2>1. /\ pc[r] = "ScanCheck" /\ UNCHANGED <<exp, ses, dev, soldFor>>
          /\ \/ Goto(r, "ScanCheck", [l EXCEPT !.ok = ok, !.batch = Tail(@)])
             \/ Finish(r)
             \/ Goto(r, "ScanPush", [Blank EXCEPT !.ses = l.ses, !.exp = l.exp, !.ok = ok])
      BY <1>5 DEF ScanCheck
    <2>2. /\ l.ok \in Seq(Macs) /\ l.batch \in Seq(Macs) /\ l.batch # <<>>
          /\ IsInjective(l.batch)
      BY <1>0, <2>1 DEF LocRec, ScanInv, ScanAsRead
    <2>3. scanned \in Macs
      BY <2>2, HeadTail
    <2>4. ToSet(Append(l.ok, scanned)) = ToSet(l.ok) \cup {scanned}
      BY <2>2, <2>3, AppendFacts
    <2>5. \A m \in ToSet(ok) : ~ Sold(m)
      BY <1>0, <2>1, <2>4 DEF SaleAsRead, ValidScan
    <2> HIDE DEF ok, scanned
    <2>6. CASE Goto(r, "ScanCheck", [l EXCEPT !.ok = ok, !.batch = Tail(@)])
      <3> DEFINE next == [l EXCEPT !.ok = ok, !.batch = Tail(@)]
      <3>1. next.ok = ok /\ next.ready = l.ready
        BY <1>0 DEF LocRec
      <3>2. Goto(r, "ScanCheck", next)
        BY <2>6
      <3> HIDE DEF next
      <3>3. \A q \in Requests : pc'[q] = "ScanCheck" /\ loc'[q] = next
        BY <3>2, Alone
      <3>4. \A q \in Requests : SaleAsRead(q)'
        BY <1>0, <2>1, <2>5, <3>1, <3>3 DEF SaleAsRead, Sold
      <3> QED BY <2>1, <3>4, ItemsKept DEF OneAtATime
    <2>7. CASE Finish(r)
      <3>1. pc'[r] = "Idle"
        BY <1>0, <2>7 DEF Finish, Goto
      <3> QED BY <2>1, <3>1, CustodyQuiet DEF SaleSteps
    <2>8. CASE Goto(r, "ScanPush", [Blank EXCEPT !.ses = l.ses, !.exp = l.exp, !.ok = ok])
      <3> DEFINE next == [Blank EXCEPT !.ses = l.ses, !.exp = l.exp, !.ok = ok]
      <3>1. next.ok = ok
        BY DEF Blank
      <3>2. Goto(r, "ScanPush", next)
        BY <2>8
      <3> HIDE DEF next
      <3>3. \A q \in Requests : pc'[q] = "ScanPush" /\ loc'[q] = next
        BY <3>2, Alone
      <3>4. \A q \in Requests : SaleAsRead(q)'
        BY <2>1, <2>5, <3>1, <3>3 DEF SaleAsRead, Sold
      <3> QED BY <2>1, <3>4, ItemsKept DEF OneAtATime
    <2> QED BY <2>1, <2>6, <2>7, <2>8
  <1> QED BY <1>1, <1>2, <1>3, <1>4, <1>5 DEF SessionStart

LEMMA CustodyWrites ==
  ASSUME OneAtATime, MacsAreSerials, TypeInv, ScanInv, CustodyInv, NEW r \in Requests,
         SessionInsert(r) \/ ScanPush(r) \/ RemovePull(r) \/ CompleteClose(r)
  PROVE  CustodyInv'
  <1> DEFINE l == loc[r]
             s == l.ses
             old == ses[s]
  <1>1. /\ s \in Sessions /\ SaleAsRead(r) /\ ScanAsRead(r) /\ ListsOnce(old)
        /\ l \in LocRec /\ old \in SessionRec /\ pc \in [Requests -> Steps]
    BY DEF TypeInv, TypeOK, HoldsOK, HoldsSession, SessionCalls, SessionInsert, ScanPush,
           RemovePull, CompleteClose, CustodyInv, ScanInv, SessionsListOnce
  <1>2. old.items \in Seq(Macs) /\ l.ok \in Seq(Macs)
    BY <1>1 DEF SessionRec, LocRec
  <1>3. /\ UNCHANGED <<exp, dev, soldFor>>
        /\ pc[r] \in {"SessionInsert", "ScanPush", "Remove", "CompleteClose"}
        /\ pc'[r] \in {"Idle", "SessionMark", "CompleteTotal"}
    BY <1>1 DEF SessionInsert, ScanPush, RemovePull, CompleteClose, Finish, Goto
  <1>4. pc[r] # "CompleteClose" /\ old.status = "IN_PROGRESS" =>
           \A m \in ToSet(old.items) : ~ Sold(m)
    BY <1>1 DEF OneAtATime, Closing, CustodyInv, HeldIsUnsold
  <1> SUFFICES ASSUME NEW doc, ses' = [ses EXCEPT ![s] = doc],
                      doc.status = "IN_PROGRESS" => \A m \in ToSet(doc.items) : ~ Sold(m)
               PROVE  CustodyInv'
    <2>1. CASE SessionInsert(r)
      <3> DEFINE doc == [NoSession EXCEPT !.status = "IN_PROGRESS", !.exp = l.exp]
      <3>1. doc.items = <<>> /\ ToSet(<<>>) = {}
        BY DEF NoSession, ToSet
      <3> QED BY <2>1, <3>1 DEF SessionInsert
    <2>2. CASE ScanPush(r)
      <3> DEFINE doc == [old EXCEPT !.items = @ \o l.ok, !.serialChecked = @ + Len(l.ok)]
      <3>1. doc.items = old.items \o l.ok /\ doc.status = old.status
        BY <1>1 DEF SessionRec
      <3>2. ToSet(old.items \o l.ok) = ToSet(old.items) \cup ToSet(l.ok)
        BY <1>2, ToSetConcat
      <3>3. \A m \in ToSet(l.ok) : ~ Sold(m)
        BY <1>1, <2>2 DEF ScanPush, SaleAsRead
      <3>4. ses' = [ses EXCEPT ![s] = doc] /\ pc[r] # "CompleteClose"
        BY <2>2 DEF ScanPush
      <3> HIDE DEF doc
      <3> QED BY <1>4, <3>1, <3>2, <3>3, <3>4
    <2>3. CASE RemovePull(r)
      <3> DEFINE doc == [old EXCEPT !.items = Pull(@, l.serial), !.serialChecked = @ - 1]
      <3>1. doc.items = Pull(old.items, l.serial) /\ doc.status = old.status
        BY <1>1 DEF SessionRec
      <3>2. ToSet(Pull(old.items, l.serial)) \subseteq ToSet(old.items)
        BY <1>2, PullFacts
      <3>3. ses' = [ses EXCEPT ![s] = doc] /\ pc[r] # "CompleteClose"
        BY <2>3 DEF RemovePull
      <3> HIDE DEF doc
      <3> QED BY <1>4, <3>1, <3>2, <3>3
    <2>4. CASE CompleteClose(r)
      <3> DEFINE doc == [old EXCEPT !.status = "COMPLETED"]
      <3>1. doc.status = "COMPLETED"
        BY <1>1 DEF SessionRec
      <3>2. ses' = [ses EXCEPT ![s] = doc]
        BY <2>4 DEF CompleteClose
      <3> HIDE DEF doc
      <3> QED BY <3>1, <3>2
    <2> QED BY <2>1, <2>2, <2>3, <2>4
  <1>5. pc[r] # "CompleteMove" /\ pc'[r] \notin SaleSteps
    BY <1>3 DEF SaleSteps
  <1> HIDE DEF s, old
  <1> QED BY <1>1, <1>3, <1>5, CustodySession DEF s

(* ExportedOnce is one fact about each ticket and one about each two.      *)
LEMMA OnceApart ==
  ASSUME ExportedOnce
  PROVE  /\ \A e \in Exports : IsInjective(exp[e].items)
         /\ \A e, f \in Exports : e # f => Disjoint(exp[e].items, exp[f].items)
  <1>1. \A e \in Exports : IsInjective(exp[e].items)
    BY DEF ExportedOnce, IsInjective
  <1>2. \A e, f \in Exports : e # f => Disjoint(exp[e].items, exp[f].items)
    BY DEF ExportedOnce, Disjoint, ToSet
  <1> QED BY <1>1, <1>2

LEMMA ApartOnce ==
  ASSUME NEW store, \A e \in Exports : IsInjective(store[e].items),
         \A e, f \in Exports : e # f => Disjoint(store[e].items, store[f].items),
         NEW e \in Exports, NEW f \in Exports,
         NEW i \in DOMAIN store[e].items, NEW j \in DOMAIN store[f].items,
         store[e].items[i] = store[f].items[j]
  PROVE  e = f /\ i = j
  <1>1. store[e].items[i] \in ToSet(store[e].items) \cap ToSet(store[f].items)
    BY DEF ToSet
  <1>2. e = f
    BY <1>1 DEF Disjoint
  <1> QED BY <1>2 DEF IsInjective

(* The push of completeSession puts unsold devices on the ticket, which no *)
(* ticket lists, and which are then moved before anything else happens.    *)
LEMMA CustodyPush ==
  ASSUME OneAtATime, TypeInv, ReadInv, ScanInv, CustodyInv, NEW r \in Requests,
         CompletePush(r)
  PROVE  CustodyInv'
  <1> DEFINE l == loc[r]
  <1>1. /\ l \in LocRec /\ l.ses \in Sessions /\ l.exp \in Exports
        /\ ses[l.ses].status = "IN_PROGRESS" /\ IsInjective(ses[l.ses].items)
        /\ l.items = ses[l.ses].items /\ l.items # <<>> /\ l.items \in Seq(Macs)
        /\ exp \in [Exports -> TicketRec]
    BY DEF CompletePush, TypeInv, TypeOK, HoldsOK, HoldsTicket, HoldsSession, TicketCalls,
           SessionCalls, ReadInv, StoreAsRead, OpenCalls, ScanInv, SessionsListOnce,
           ListsOnce, CustodyInv, SaleAsRead, LocRec
  <1>2. /\ UNCHANGED <<ses, dev, soldFor>>
        /\ pc[r] = "CompletePush" /\ Goto(r, "CompleteMove", l)
    BY DEF CompletePush
  <1>3. \A q \in Requests : pc'[q] = "CompleteMove" /\ loc'[q] = l /\ q = r
    BY <1>2, Alone DEF OneAtATime
  <1>4. /\ \A t \in Sessions : ~ Closing(t)
        /\ \A m : ~ Moving(m)
        /\ \A m : Moving(m)' <=> m \in ToSet(l.items)
        /\ \A m : Sold(m)' <=> Sold(m)
    BY <1>2, <1>3 DEF Closing, Moving, Sold
  <1>5. \A m \in ToSet(l.items) : ~ Sold(m)
    BY <1>1, <1>4 DEF CustodyInv, HeldIsUnsold
  <1>6. \A e \in Exports : Disjoint(exp[e].items, l.items)
    BY <1>4, <1>5 DEF CustodyInv, ListedIsSold, Disjoint
  <1>7. \A e \in Exports : \/ exp'[e].items = exp[e].items
                           \/ e = l.exp /\ exp'[e].items = exp[e].items \o l.items
    <2> DEFINE doc == [exp[l.exp] EXCEPT !.items = @ \o l.items,
                                         !.totalItems = @ + Len(l.items)]
    <2>1. doc.items = exp[l.exp].items \o l.items
      <3>1. ASSUME NEW ticket \in TicketRec, NEW more, NEW sum
            PROVE  [ticket EXCEPT !.items = @ \o more, !.totalItems = sum].items
                     = ticket.items \o more
        BY ONLY DEF TicketRec
      <3>2. exp[l.exp] \in TicketRec
        BY <1>1
      <3> QED BY <3>1, <3>2
    <2>2. WriteTicket(l.exp, doc)
      BY DEF CompletePush
    <2> HIDE DEF doc, l
    <2> QED BY <1>1, <2>1, <2>2 DEF WriteTicket
  <1> HIDE DEF l
  <1>8. \A e \in Exports : exp[e].items \in Seq(Macs)
    BY <1>1 DEF TicketRec
  <1>9. \A e \in Exports : /\ ToSet(exp[e].items \o l.items)
                                = ToSet(exp[e].items) \cup ToSet(l.items)
                           /\ IsInjective(exp[e].items)
                           /\ IsInjective(exp[e].items \o l.items)
    BY <1>1, <1>6, <1>8, ToSetConcat, ConcatOnce, OnceApart DEF CustodyInv
  <1>10. ListedIsSold'
    BY <1>4, <1>7, <1>9 DEF CustodyInv, ListedIsSold
  <1>11. ExportedOnce'
    <2>1. \A e, f \in Exports : e # f => Disjoint(exp[e].items, exp[f].items)
      BY OnceApart DEF CustodyInv
    <2>2. \A e \in Exports : IsInjective(exp'[e].items)
      BY <1>7, <1>9
    <2>3. \A e, f \in Exports : e # f => Disjoint(exp'[e].items, exp'[f].items)
      BY <1>6, <1>7, <1>9, <2>1 DEF Disjoint
    <2> QED BY <2>2, <2>3, ApartOnce DEF ExportedOnce
  <1>12. SoldIsGone' /\ HeldIsUnsold'
    BY <1>2, <1>4 DEF CustodyInv, SoldIsGone, HeldIsUnsold
  <1>13. \A q \in Requests : SaleAsRead(q)'
    BY <1>1, <1>2, <1>3 DEF SaleAsRead
  <1> QED BY <1>10, <1>11, <1>12, <1>13 DEF CustodyInv

(* The move sells the devices of the session and no other session's.       *)
LEMMA CustodyMove ==
  ASSUME OneAtATime, MacsAreSerials, TypeInv, ReadInv, ScanInv, CustodyInv,
         NEW r \in Requests, CompleteMove(r)
  PROVE  CustodyInv'
  <1> DEFINE l == loc[r]
             s == l.ses
             moved == ToSet(l.items)
  <1>1. /\ l \in LocRec /\ s \in Sessions /\ ses[s].status = "IN_PROGRESS"
        /\ l.items = ses[s].items /\ ses[s].items # <<>> /\ l.items \in Seq(Macs)
        /\ dev \in [Macs -> DeviceRec]
    BY DEF CompleteMove, TypeInv, TypeOK, HoldsOK, HoldsSession, SessionCalls, ReadInv,
           StoreAsRead, OpenCalls, CustodyInv, SaleAsRead, LocRec
  <1>2. moved \subseteq Macs /\ SerialsOf(l.items) = moved
    BY <1>1, StoresMac, ToSetType
  <1>3. /\ dev' = [m \in Macs |-> IF m \in moved
                                  THEN [dev[m] EXCEPT !.wh = "SOLD"] ELSE dev[m]]
        /\ soldFor' = [m \in Macs |-> IF m \in moved
                                      THEN soldFor[m] \cup {l.exp} ELSE soldFor[m]]
        /\ UNCHANGED <<exp, ses>>
        /\ pc[r] = "CompleteMove"
    BY <1>2 DEF CompleteMove, MoveToSoldWarehouse
  <1>4. \A q \in Requests : pc'[q] = "CompleteClose" /\ loc'[q].ses = s /\ q = r
    <2> DEFINE next == [l EXCEPT !.items = <<>>]
    <2>1. next.ses = s
      BY <1>1 DEF LocRec
    <2>2. Goto(r, "CompleteClose", next)
      BY DEF CompleteMove
    <2> HIDE DEF next
    <2> QED BY <2>1, <2>2, Alone DEF OneAtATime
  <1> HIDE DEF l, s
  <1>5. \A m \in Macs : Sold(m)' <=> m \in moved \/ Sold(m)
    BY <1>3 DEF Sold
  <1>6. /\ \A t \in Sessions : Closing(t)' <=> t = s
        /\ \A t \in Sessions : ~ Closing(t)
        /\ \A m : Moving(m) => m \in moved
    BY <1>3, <1>4 DEF Closing, Moving, l
  <1>7. SoldIsGone'
    <2>1. \A m \in Macs : dev'[m].wh = IF m \in moved THEN "SOLD" ELSE dev[m].wh
      BY <1>1, <1>3 DEF DeviceRec
    <2> QED BY <1>5, <2>1 DEF CustodyInv, SoldIsGone
  <1>8. HeldIsUnsold'
    <2>1. \A t \in Sessions : ToSet(ses[t].items) \subseteq Macs
      BY ToSetType DEF TypeInv, TypeOK, SessionRec
    <2>2. \A t \in Sessions \ {s} : ses[t].status = "IN_PROGRESS" =>
             ToSet(ses[t].items) \cap moved = {}
      BY <1>1 DEF ScanInv, HoldsAlone, UnlistedBut, Disjoint
    <2> QED BY <1>3, <1>5, <1>6, <2>1, <2>2 DEF CustodyInv, HeldIsUnsold
  <1>9. ListedIsSold'
    <2>1. \A e \in Exports : ToSet(exp[e].items) \subseteq Macs
      BY ToSetType DEF TypeInv, TypeOK, TicketRec
    <2> QED BY <1>3, <1>5, <1>6, <2>1 DEF CustodyInv, ListedIsSold
  <1>10. ExportedOnce'
    BY <1>3 DEF CustodyInv, ExportedOnce
  <1>11. \A m \in ToSet(ses[s].items) : Sold(m)'
    BY <1>1, <1>2, <1>5
  <1>12. \A q \in Requests : SaleAsRead(q)'
    BY <1>1, <1>3, <1>4, <1>11 DEF SaleAsRead
  <1> QED BY <1>7, <1>8, <1>9, <1>10, <1>12 DEF CustodyInv

(* No transfer brings a sold device back.                                  *)
LEMMA CustodyTransfer ==
  ASSUME OneAtATime, NothingReturns, TypeInv, ReadInv, CustodyInv,
         NEW r \in Requests, TransferRead(r) \/ TransferSave(r)
  PROVE  CustodyInv'
  <1>1. CASE TransferRead(r)
    <2>1. pc[r] = "Idle" /\ pc'[r] = "TransferSave" /\ UNCHANGED <<exp, ses, dev, soldFor>>
      BY <1>1 DEF TransferRead, Start, Goto, TypeInv, TypeOK
    <2> QED BY <2>1, CustodyQuiet DEF SaleSteps
  <1>2. CASE TransferSave(r)
    <2> DEFINE m == Head(loc[r].batch)
    <2>1. m \in Macs /\ dev[m].wh # "SOLD"
      BY <1>2 DEF TransferSave, ReadInv, StoreAsRead, NothingReturns
    <2>2. /\ UNCHANGED <<exp, ses, soldFor>> /\ pc[r] = "TransferSave"
          /\ \A n \in Macs \ {m} : dev'[n] = dev[n]
      BY <1>2 DEF TransferSave, TypeInv, TypeOK
    <2>3. \A q \in Requests : pc'[q] = "Idle" /\ pc[q] = "TransferSave"
      BY <1>2, <2>2, Alone DEF TransferSave, Finish, OneAtATime
    <2> HIDE DEF m
    <2>4. SoldIsGone'
      BY <2>1, <2>2 DEF CustodyInv, SoldIsGone, Sold
    <2>5. HeldIsUnsold' /\ ListedIsSold' /\ ExportedOnce'
      BY <2>2, <2>3 DEF CustodyInv, HeldIsUnsold, ListedIsSold, ExportedOnce, Closing,
                        Moving, Sold
    <2>6. \A q \in Requests : SaleAsRead(q)'
      BY <2>3 DEF SaleAsRead
    <2> QED BY <2>4, <2>5, <2>6 DEF CustodyInv
  <1> QED BY <1>1, <1>2

(* CustodyInv is inductive.                                                *)
LEMMA CustodyStep ==
  ASSUME OneAtATime, MacsAreSerials, NothingReturns, NoDetours,
         TypeInv, ReadInv, ScanInv, CustodyInv, [Next]_vars
  PROVE  CustodyInv'
  <1>1. CASE UNCHANGED vars
    <2>1. \A q \in Requests : SaleAsRead(q)'
      BY <1>1 DEF vars, CustodyInv, SaleAsRead, Sold
    <2> QED BY <1>1, <2>1, ItemsKept DEF vars
  <1>2. ASSUME NEW r \in Requests, SessionStep(r) PROVE CustodyInv'
    BY <1>2, CustodyReads, CustodyWrites, CustodyPush, CustodyMove DEF SessionStep
  <1>3. CASE Crash
    BY <1>3 DEF Crash, NoDetours
  <1> QED BY <1>1, <1>2, <1>3, CustodyDocument, CustodyTicket, CustodyReads,
             CustodyTransfer DEF Next, Step

LEMMA CustodyInvariant ==
  ASSUME OneAtATime, MacsAreSerials, NothingReturns, NoDetours
  PROVE  Spec => [](TypeInv /\ ReadInv /\ ScanInv /\ CustodyInv)
  <1>1. Init => TypeInv /\ ReadInv /\ ScanInv /\ CustodyInv
    BY TypeInit, ReadInit, ScanInit, CustodyInit
  <1>2. TypeInv /\ ReadInv /\ ScanInv /\ CustodyInv /\ [Next]_vars =>
          (TypeInv /\ ReadInv /\ ScanInv /\ CustodyInv)'
    BY TypeStep, ReadStep, ScanStep, CustodyStep
  <1> QED BY <1>1, <1>2, PTL DEF Spec

(* A device is put on one ticket, once: what is scanned was not sold, what *)
(* is listed is, and the two requests that could tell them apart too late  *)
(* do not overlap.                                                         *)
THEOREM ListedOnce ==
  ASSUME OneAtATime, MacsAreSerials, NothingReturns, NoDetours
  PROVE  Spec => []ExportedOnce
  <1>1. CustodyInv => ExportedOnce
    BY DEF CustodyInv
  <1> QED BY <1>1, CustodyInvariant, PTL

-----------------------------------------------------------------------------
(***************************************************************************)
(* The sessions keep the custody ExportCustody promises: a push takes free *)
(* devices, a pull gives one back, the close of a session ships what it    *)
(* holds, and every other step changes no custody.                         *)
(***************************************************************************)
SessionsAreIds == Sessions \cap {"free", "shipped"} = {}

(* The holder of a device, as a function of the documents.                 *)
HoldersIn(store, m) == {s \in Sessions : /\ store[s].status = "IN_PROGRESS"
                                         /\ Stores(store[s].items, m)}
HolderIn(store, sold, m) ==
    IF HoldersIn(store, m) # {} THEN CHOOSE s \in HoldersIn(store, m) : TRUE
    ELSE IF sold[m] # {} THEN "shipped" ELSE "free"
ClosedIn(store) == {s \in Sessions : store[s].status = "COMPLETED"}

ListsApart(store) ==
    /\ \A s \in Sessions : store[s].items \in Seq(Macs)
    /\ \A s \in Sessions, t \in Sessions :
          /\ s # t /\ store[s].status = "IN_PROGRESS" /\ store[t].status = "IN_PROGRESS"
          => Disjoint(store[s].items, store[t].items)

LEMMA HolderFacts ==
  ASSUME MacsAreSerials, NEW store, ListsApart(store), NEW sold, NEW m
  PROVE  /\ \A s \in Sessions :
              store[s].status = "IN_PROGRESS" /\ m \in ToSet(store[s].items) =>
                 HolderIn(store, sold, m) = s
         /\ (\A s \in Sessions :
              store[s].status = "IN_PROGRESS" => m \notin ToSet(store[s].items)) =>
                 HolderIn(store, sold, m) = IF sold[m] # {} THEN "shipped" ELSE "free"
  <1>0. \A s \in Sessions : Stores(store[s].items, m) <=> m \in ToSet(store[s].items)
    BY StoresMac DEF ListsApart
  <1>1. ASSUME NEW s \in Sessions, store[s].status = "IN_PROGRESS",
               m \in ToSet(store[s].items)
        PROVE  HolderIn(store, sold, m) = s
    <2>1. HoldersIn(store, m) = {s}
      BY <1>0, <1>1 DEF HoldersIn, ListsApart, Disjoint
    <2>2. (CHOOSE t \in {s} : TRUE) = s
      OBVIOUS
    <2> QED BY <2>1, <2>2 DEF HolderIn
  <1>2. ASSUME \A s \in Sessions :
                 store[s].status = "IN_PROGRESS" => m \notin ToSet(store[s].items)
        PROVE  HolderIn(store, sold, m) = IF sold[m] # {} THEN "shipped" ELSE "free"
    <2>1. HoldersIn(store, m) = {}
      BY <1>0, <1>2 DEF HoldersIn
    <2> QED BY <2>1 DEF HolderIn
  <1> QED BY <1>1, <1>2

LEMMA ScanApart == ASSUME TypeInv, ScanInv PROVE ListsApart(ses)
  BY DEF TypeInv, TypeOK, SessionRec, ScanInv, HoldsAlone, UnlistedBut, ListsApart

(* The steps of the abstract specification, in terms of the documents.     *)
LEMMA TakeMeans ==
  ASSUME NEW s \in Sessions, NEW taken \in SUBSET Macs, taken # {},
         s \notin ClosedIn(ses), ClosedIn(ses') = ClosedIn(ses),
         \A m \in taken : HolderIn(ses, soldFor, m) = "free",
         \A m \in Macs : HolderIn(ses', soldFor', m)
                           = IF m \in taken THEN s ELSE HolderIn(ses, soldFor, m)
  PROVE  Custody!CustodyNext
  <1>1. Custody!Take(s, taken)
    BY DEF Custody!Take, Custody!Free, ClosedIn, HolderIn, HoldersIn,
           Holders
  <1> QED BY <1>1 DEF Custody!CustodyNext

LEMMA GiveBackMeans ==
  ASSUME NEW s \in Sessions, NEW d \in Macs, ClosedIn(ses') = ClosedIn(ses),
         HolderIn(ses, soldFor, d) = s,
         \A m \in Macs : HolderIn(ses', soldFor', m)
                           = IF m = d THEN "free" ELSE HolderIn(ses, soldFor, m)
  PROVE  Custody!CustodyNext
  <1>1. Custody!GiveBack(s, d)
    BY DEF Custody!GiveBack, Custody!Free, ClosedIn, HolderIn, HoldersIn,
           Holders
  <1> QED BY <1>1 DEF Custody!CustodyNext

LEMMA ShipMeans ==
  ASSUME NEW s \in Sessions, s \notin ClosedIn(ses),
         ClosedIn(ses') = ClosedIn(ses) \cup {s},
         \E m \in Macs : HolderIn(ses, soldFor, m) = s,
         \A m \in Macs : HolderIn(ses', soldFor', m)
                           = IF HolderIn(ses, soldFor, m) = s THEN "shipped"
                             ELSE HolderIn(ses, soldFor, m)
  PROVE  Custody!CustodyNext
  <1>1. Custody!Ship(s)
    BY DEF Custody!Ship, Custody!HeldBy, Custody!Shipped, ClosedIn,
           HolderIn, HoldersIn, Holders
  <1> QED BY <1>1 DEF Custody!CustodyNext

HolderOf == [m \in Macs |-> IF Holders(m) # {} THEN CHOOSE s \in Holders(m) : TRUE
                            ELSE IF soldFor[m] # {} THEN "shipped" ELSE "free"]
ClosedOnes == {s \in Sessions : ses[s].status = "COMPLETED"}

LEMMA SameMeans ==
  ASSUME ClosedIn(ses') = ClosedIn(ses),
         \A m \in Macs : HolderIn(ses', soldFor', m) = HolderIn(ses, soldFor, m)
  PROVE  UNCHANGED <<HolderOf, ClosedOnes>>
  BY DEF HolderOf, ClosedOnes, ClosedIn, HolderIn, HoldersIn, Holders

(* A step that writes no session changes the custody of no device: confirm *)
(* sells what is sold, and a completion moves what its session still has.  *)
LEMMA SalesKeepCustody ==
  ASSUME OneAtATime, MacsAreSerials, TypeInv, ReadInv, ScanInv, CustodyInv,
         [Next]_vars, ses' = ses
  PROVE  UNCHANGED <<HolderOf, ClosedOnes>>
  <1>1. ASSUME \A m \in Macs :
                 HolderIn(ses, soldFor', m) = HolderIn(ses, soldFor, m)
        PROVE  UNCHANGED <<HolderOf, ClosedOnes>>
    BY <1>1, SameMeans
  <1>2. CASE soldFor' = soldFor
    BY <1>1, <1>2
  <1>3. ASSUME NEW r \in Requests, ConfirmMove(r)
        PROVE  UNCHANGED <<HolderOf, ClosedOnes>>
    <2>1. loc[r].items \in Seq(Macs) /\ SaleAsRead(r)
      BY DEF TypeInv, TypeOK, LocRec, CustodyInv
    <2>2. \A m \in SerialsOf(loc[r].items) : soldFor[m] # {}
      BY <1>3, <2>1, StoresMac DEF ConfirmMove, SaleAsRead, Sold
    <2>3. \A m \in Macs : soldFor'[m] # {} <=> soldFor[m] # {}
      BY <1>3, <2>2 DEF ConfirmMove, MoveToSoldWarehouse
    <2> QED BY <1>1, <2>3 DEF HolderIn
  <1>4. ASSUME NEW r \in Requests, CompleteMove(r)
        PROVE  UNCHANGED <<HolderOf, ClosedOnes>>
    <2> DEFINE s == loc[r].ses
    <2>1. /\ s \in Sessions /\ ses[s].status = "IN_PROGRESS"
          /\ loc[r].items = ses[s].items /\ loc[r].items \in Seq(Macs)
      BY <1>4 DEF CompleteMove, TypeInv, TypeOK, HoldsOK, HoldsSession, SessionCalls,
                  ReadInv, StoreAsRead, OpenCalls, CustodyInv, SaleAsRead, LocRec
    <2> HIDE DEF s
    <2>2. \A m \in Macs : m \notin ToSet(ses[s].items) => soldFor'[m] = soldFor[m]
      BY <1>4, <2>1, StoresMac DEF CompleteMove, MoveToSoldWarehouse
    <2>3. \A m \in Macs : m \in ToSet(ses[s].items) =>
             HolderIn(ses, soldFor', m) = s /\ HolderIn(ses, soldFor, m) = s
      BY <2>1, ScanApart, HolderFacts
    <2> QED BY <1>1, <2>2, <2>3 DEF HolderIn
  <1>5. ASSUME NEW r \in Requests, TransferSave(r) PROVE soldFor' = soldFor
    BY <1>5 DEF TransferSave
  <1> QED BY <1>2, <1>3, <1>4, <1>5, DeviceWriters

(* The steps that write a session.                                         *)
LEMMA WritesKeepCustody ==
  ASSUME OneAtATime, MacsAreSerials, SessionsAreIds, TypeInv, ReadInv, ScanInv,
         CustodyInv, TypeInv', ScanInv', NEW r \in Requests,
         \/ SessionInsert(r) \/ ScanPush(r)
         \/ RemovePull(r) \/ CompleteClose(r)
  PROVE  Custody!CustodyNext \/ UNCHANGED <<HolderOf, ClosedOnes>>
  <1> DEFINE l == loc[r]
             s == l.ses
             items == ses[s].items
             new == ses'[s].items
             H(m) == HolderIn(ses, soldFor, m)
             N(m) == HolderIn(ses', soldFor', m)
             open(t) == ses[t].status = "IN_PROGRESS"
  <1>1. /\ s \in Sessions /\ StoreAsRead(r) /\ ScanAsRead(r) /\ SaleAsRead(r)
        /\ l \in LocRec /\ ses \in [Sessions -> SessionRec]
        /\ soldFor' = soldFor
        /\ \A t \in Sessions : t # s => ses'[t] = ses[t]
    BY DEF TypeInv, TypeOK, HoldsOK, HoldsSession, SessionCalls, SessionInsert, ScanPush,
           RemovePull, CompleteClose, CustodyInv, ScanInv, ReadInv
  <1>2. ListsApart(ses) /\ ListsApart(ses')
    <2>1. ListsApart(ses)
      BY ScanApart
    <2>2. ListsApart(ses')
      BY DEF TypeInv, TypeOK, SessionRec, ScanInv, HoldsAlone, UnlistedBut, ListsApart,
             Disjoint
    <2> QED BY <2>1, <2>2
  <1>3. \A m : /\ \A t \in Sessions : open(t) /\ m \in ToSet(ses[t].items) => H(m) = t
               /\ (\A t \in Sessions : open(t) => m \notin ToSet(ses[t].items)) =>
                     H(m) = IF soldFor[m] # {} THEN "shipped" ELSE "free"
    BY <1>2, HolderFacts
  <1>4. \A m : /\ \A t \in Sessions :
                     ses'[t].status = "IN_PROGRESS" /\ m \in ToSet(ses'[t].items) =>
                        N(m) = t
               /\ (\A t \in Sessions :
                     ses'[t].status = "IN_PROGRESS" => m \notin ToSet(ses'[t].items)) =>
                     N(m) = IF soldFor[m] # {} THEN "shipped" ELSE "free"
    BY <1>1, <1>2, HolderFacts
  <1>5. ToSet(items) \subseteq Macs /\ ToSet(new) \subseteq Macs
    BY <1>1, ToSetType DEF TypeInv, TypeOK, SessionRec
  <1>6. /\ ToSet(<<>>) = {}
        /\ \A m \in ToSet(items), t \in Sessions \ {s} :
              open(s) /\ open(t) => m \notin ToSet(ses[t].items)
    <2>1. ToSet(<<>>) = {}
      BY DEF ToSet
    <2> QED BY <1>1, <1>2, <2>1 DEF ListsApart, Disjoint
  <1>7. CASE SessionInsert(r)
    <2>1. /\ ses[s].status = "ABSENT"
          /\ ses'[s].status = "IN_PROGRESS" /\ new = <<>>
      BY <1>1, <1>7 DEF SessionInsert, StoreAsRead, NoSession
    <2>2. \A m \in Macs : N(m) = H(m)
      <3> SUFFICES ASSUME NEW m \in Macs PROVE N(m) = H(m)
        OBVIOUS
      <3>1. CASE \E t \in Sessions : open(t) /\ m \in ToSet(ses[t].items)
        <4>1. PICK t \in Sessions : open(t) /\ m \in ToSet(ses[t].items)
          BY <3>1
        <4>2. t # s /\ ses'[t] = ses[t]
          BY <1>1, <2>1, <4>1
        <4> QED BY <1>3, <1>4, <4>1, <4>2
      <3>2. CASE \A t \in Sessions : open(t) => m \notin ToSet(ses[t].items)
        <4>1. \A t \in Sessions :
                 ses'[t].status = "IN_PROGRESS" => m \notin ToSet(ses'[t].items)
          BY <1>1, <1>6, <2>1, <3>2
        <4> QED BY <1>3, <1>4, <3>2, <4>1
      <3> QED BY <3>1, <3>2
    <2>3. ClosedIn(ses') = ClosedIn(ses)
      BY <1>1, <2>1 DEF ClosedIn
    <2> QED BY <2>2, <2>3, SameMeans
  <1>8. CASE ScanPush(r)
    <2> DEFINE taken == ToSet(l.ok)
    <2>1. /\ open(s) /\ ses'[s].status = "IN_PROGRESS"
          /\ new = items \o l.ok
          /\ l.ok # <<>> /\ Disjoint(l.ok, items) /\ UnlistedBut(l.ok, s)
          /\ \A m \in taken : ~ Sold(m)
          /\ l.ok \in Seq(Macs) /\ items \in Seq(Macs)
      <3>1. pc[r] = "ScanPush" /\ new = items \o l.ok /\ ses'[s].status = ses[s].status
        <4>1. /\ pc[r] = "ScanPush"
              /\ ses' = [ses EXCEPT ![s].items = @ \o l.ok,
                                    ![s].serialChecked = @ + Len(l.ok)]
          BY <1>8 DEF ScanPush
        <4>2. ses[s] \in SessionRec /\ DOMAIN ses = Sessions /\ s \in Sessions
          BY <1>1
        <4> HIDE DEF s
        <4> QED BY <4>1, <4>2 DEF SessionRec
      <3>2. l.ok \in Seq(Macs) /\ items \in Seq(Macs)
        BY <1>1 DEF LocRec, SessionRec
      <3>3. open(s)
        BY <1>1, <3>1 DEF StoreAsRead, OpenCalls
      <3>4. l.ok # <<>> /\ Disjoint(l.ok, items) /\ UnlistedBut(l.ok, s)
        BY <1>1, <3>1 DEF ScanAsRead
      <3>5. \A m \in taken : ~ Sold(m)
        BY <1>1, <3>1 DEF SaleAsRead
      <3> QED BY <3>1, <3>2, <3>3, <3>4, <3>5
    <2>2. ToSet(new) = ToSet(items) \cup taken /\ taken \subseteq Macs /\ taken # {}
      <3>1. ToSet(new) = ToSet(items) \cup taken
        BY <2>1, ToSetConcat
      <3>2. taken # {}
        <4>1. 1 \in DOMAIN l.ok
          BY <2>1
        <4> QED BY <4>1 DEF ToSet
      <3> QED BY <2>1, <3>1, <3>2, ToSetType
    <2>3. \A m \in taken : H(m) = "free"
      <3>1. \A m \in taken, t \in Sessions : open(t) => m \notin ToSet(ses[t].items)
        BY <2>1 DEF Disjoint, UnlistedBut
      <3> QED BY <1>3, <2>1, <3>1 DEF Sold
    <2>4. \A m \in Macs : N(m) = IF m \in taken THEN s ELSE H(m)
      <3> SUFFICES ASSUME NEW m \in Macs PROVE N(m) = IF m \in taken THEN s ELSE H(m)
        OBVIOUS
      <3>1. CASE m \in taken
        BY <1>1, <1>4, <2>1, <2>2, <3>1
      <3>2. CASE m \notin taken
        <4>1. \A t \in Sessions : /\ ses'[t].status = ses[t].status
                                  /\ m \in ToSet(ses'[t].items) <=> m \in ToSet(ses[t].items)
          BY <1>1, <2>1, <2>2, <3>2
        <4> QED BY <1>3, <1>4, <3>2, <4>1
      <3> QED BY <3>1, <3>2
    <2>5. ClosedIn(ses') = ClosedIn(ses) /\ s \notin ClosedIn(ses)
      BY <1>1, <2>1 DEF ClosedIn
    <2> HIDE DEF taken, s
    <2> QED BY <1>1, <2>2, <2>3, <2>4, <2>5, TakeMeans
  <1>9. CASE RemovePull(r)
    <2> DEFINE d == l.serial
    <2>1. /\ open(s) /\ ses'[s].status = "IN_PROGRESS" /\ d \in ToSet(items)
          /\ new = Pull(items, d)
          /\ items \in Seq(Macs) /\ IsInjective(items)
      <3>1. pc[r] = "Remove" /\ new = Pull(items, d) /\ ses'[s].status = ses[s].status
        BY <1>1, <1>9 DEF RemovePull, SessionRec
      <3>2. items \in Seq(Macs) /\ IsInjective(items)
        BY <1>1 DEF SessionRec, ScanInv, SessionsListOnce, ListsOnce
      <3>3. open(s)
        BY <1>1, <3>1 DEF StoreAsRead, OpenCalls
      <3>4. d \in ToSet(items)
        BY <1>1, <3>1 DEF ScanAsRead
      <3> QED BY <3>1, <3>2, <3>3, <3>4
    <2>2. ToSet(new) = ToSet(items) \ {d} /\ d \in Macs
      BY <1>5, <2>1, PullOne
    <2>3. ~ Sold(d)
      <3>1. ~ Closing(s)
        BY <1>9 DEF RemovePull, Closing, OneAtATime
      <3> QED BY <1>1, <2>1, <3>1 DEF CustodyInv, HeldIsUnsold
    <2>4. H(d) = s
      BY <1>1, <1>3, <2>1
    <2>5. \A m \in Macs : N(m) = IF m = d THEN "free" ELSE H(m)
      <3> SUFFICES ASSUME NEW m \in Macs PROVE N(m) = IF m = d THEN "free" ELSE H(m)
        OBVIOUS
      <3>1. CASE m = d
        <4>1. \A t \in Sessions :
                 ses'[t].status = "IN_PROGRESS" => m \notin ToSet(ses'[t].items)
          BY <1>1, <1>6, <2>1, <2>2, <3>1
        <4> QED BY <1>4, <2>3, <3>1, <4>1 DEF Sold
      <3>2. CASE m # d
        <4>1. \A t \in Sessions : /\ ses'[t].status = ses[t].status
                                  /\ m \in ToSet(ses'[t].items) <=> m \in ToSet(ses[t].items)
          BY <1>1, <2>1, <2>2, <3>2
        <4> QED BY <1>3, <1>4, <3>2, <4>1
      <3> QED BY <3>1, <3>2
    <2>6. ClosedIn(ses') = ClosedIn(ses)
      BY <1>1, <2>1 DEF ClosedIn
    <2> HIDE DEF d, s
    <2> QED BY <1>1, <2>2, <2>4, <2>5, <2>6, GiveBackMeans
  <1>10. CASE CompleteClose(r)
    <2>1. /\ open(s) /\ ses'[s].status = "COMPLETED"
          /\ items # <<>> /\ \A m \in ToSet(items) : Sold(m)
          /\ items \in Seq(Macs)
      BY <1>1, <1>10 DEF CompleteClose, StoreAsRead, OpenCalls, SaleAsRead, SessionRec
    <2>2. \A m : H(m) = s <=> m \in ToSet(items)
      <3> SUFFICES ASSUME NEW m PROVE H(m) = s <=> m \in ToSet(items)
        OBVIOUS
      <3>1. CASE \E t \in Sessions : open(t) /\ m \in ToSet(ses[t].items)
        <4>1. PICK t \in Sessions : open(t) /\ m \in ToSet(ses[t].items)
          BY <3>1
        <4> QED BY <1>1, <1>3, <2>1, <4>1
      <3>2. CASE \A t \in Sessions : open(t) => m \notin ToSet(ses[t].items)
        <4>1. H(m) \in {"shipped", "free"}
          BY <1>3, <3>2
        <4> QED BY <1>1, <2>1, <3>2, <4>1 DEF SessionsAreIds
      <3> QED BY <3>1, <3>2
    <2>3. \A m \in Macs : N(m) = IF H(m) = s THEN "shipped" ELSE H(m)
      <3> SUFFICES ASSUME NEW m \in Macs
                   PROVE  N(m) = IF H(m) = s THEN "shipped" ELSE H(m)
        OBVIOUS
      <3>1. CASE m \in ToSet(items)
        <4>1. \A t \in Sessions :
                 ses'[t].status = "IN_PROGRESS" => m \notin ToSet(ses'[t].items)
          BY <1>1, <1>6, <2>1, <3>1
        <4> QED BY <1>4, <2>1, <2>2, <3>1, <4>1 DEF Sold
      <3>2. CASE m \notin ToSet(items)
        <4>1. \A t \in Sessions \ {s} : ses'[t] = ses[t]
          BY <1>1
        <4>2. CASE \E t \in Sessions : open(t) /\ m \in ToSet(ses[t].items)
          BY <1>3, <1>4, <2>2, <3>2, <4>1, <4>2
        <4>3. CASE \A t \in Sessions : open(t) => m \notin ToSet(ses[t].items)
          BY <1>3, <1>4, <2>1, <2>2, <3>2, <4>1, <4>3
        <4> QED BY <4>2, <4>3
      <3> QED BY <3>1, <3>2
    <2>4. ClosedIn(ses') = ClosedIn(ses) \cup {s} /\ s \notin ClosedIn(ses)
      BY <1>1, <2>1 DEF ClosedIn
    <2>5. \E m \in Macs : H(m) = s
      <3>1. 1 \in DOMAIN items
        BY <2>1
      <3>2. items[1] \in ToSet(items)
        BY <3>1 DEF ToSet
      <3> QED BY <1>5, <2>2, <3>2
    <2> HIDE DEF s
    <2> QED BY <1>1, <2>3, <2>4, <2>5, ShipMeans
  <1> QED BY <1>7, <1>8, <1>9, <1>10

(* One request at a time, the sessions implement ExportCustody.            *)
THEOREM CustodyKept ==
  ASSUME OneAtATime, MacsAreSerials, NothingReturns, NoDetours, SessionsAreIds
  PROVE  Spec => KeepsCustody
  <1> DEFINE Inv == TypeInv /\ ReadInv /\ ScanInv /\ CustodyInv
  <1>1. Init => Custody!CustodyInit
    <2> SUFFICES ASSUME Init PROVE Custody!CustodyInit
      OBVIOUS
    <2>1. \A m \in Macs : Holders(m) = {} /\ soldFor[m] = {}
      BY DEF Init, Holders, NoSession
    <2>2. \A s \in Sessions : ses[s].status # "COMPLETED"
      BY DEF Init, NoSession
    <2> QED BY <2>1, <2>2 DEF Custody!CustodyInit, Custody!Free
  <1>2. Inv /\ Inv' /\ [Next]_vars => [Custody!CustodyNext]_<<HolderOf, ClosedOnes>>
    <2> SUFFICES ASSUME Inv, Inv', [Next]_vars
                 PROVE  Custody!CustodyNext \/ UNCHANGED <<HolderOf, ClosedOnes>>
      OBVIOUS
    <2>1. CASE ses' = ses
      BY <2>1, SalesKeepCustody
    <2>2. CASE ses' # ses
      BY <2>2, SessionWriters, WritesKeepCustody
    <2> QED BY <2>1, <2>2
  <1>3. Spec => []Inv
    BY CustodyInvariant
  <1>4. Inv /\ Inv' /\ [Next]_vars
          => [Custody!CustodyNext]_<<[m \in Macs |->
                 IF Holders(m) # {} THEN CHOOSE s \in Holders(m) : TRUE
                 ELSE IF soldFor[m] # {} THEN "shipped" ELSE "free"],
               {s \in Sessions : ses[s].status = "COMPLETED"}>>
    BY <1>2 DEF HolderOf, ClosedOnes
  <1> QED BY <1>1, <1>3, <1>4, PTL DEF Spec, KeepsCustody, Custody!CustodySpec

-----------------------------------------------------------------------------
(***************************************************************************)
(* The life of a ticket.  A request writes the status of a ticket it read  *)
(* in the status the move starts from, or finds it deleted; a ticket with  *)
(* items or with a session in progress was started, unless its first       *)
(* session is about to mark it.                                            *)
(***************************************************************************)
NoReversals == {"crash", "patch", "clientItems"} \cap Features = {}

Started == {"IN_PROGRESS", "COMPLETED"}

(* The ticket is in one of the statuses, or was deleted meanwhile.         *)
Still(e, statuses) == exp[e].status \in statuses \cup {"DELETED"}

StatusAsRead(r) ==
    LET l == loc[r] IN
    /\ pc[r] \in {"AddItems", "SessionInsert"} => /\ l.status \in Reserving
                                                  /\ Still(l.exp, {l.status})
    /\ pc[r] = "Submit" => Still(l.exp, {"DRAFT"})
    /\ pc[r] \in {"Reject", "ApproveStock", "ApproveReserve", "Approve"} =>
          Still(l.exp, {"PENDING_APPROVAL"})
    /\ pc[r] \in {"ConfirmMove", "ConfirmWrite"} => Still(l.exp, {"IN_PROGRESS"})
    /\ pc[r] = "SessionMark" => Still(l.exp, {"APPROVED"})
    /\ pc[r] \in {"CompletePush", "CompleteMove", "CompleteClose", "CompleteTotal",
                  "CompleteWrite"} => Still(l.exp, Started)

Marking(e) == \E r \in Requests : pc[r] = "SessionMark" /\ loc[r].exp = e

ListedIsStarted == \A e \in Exports : exp[e].items # <<>> => exp[e].status \in Started

OpenIsStarted ==
    \A s \in Sessions : ses[s].status = "IN_PROGRESS" =>
        Still(ses[s].exp, Started) \/ Marking(ses[s].exp)

StatusInv == /\ ListedIsStarted
             /\ OpenIsStarted
             /\ \A r \in Requests : StatusAsRead(r)

(* StatusTransitionsAllowed, of one step.                                  *)
MovesAlong == \A e \in Exports : StatusChanges(e) =>
                 exp'[e].status \in AllowedTransitions[exp[e].status]

LEMMA StatusInit == Init => StatusInv
  <1> SUFFICES ASSUME Init PROVE StatusInv
    OBVIOUS
  <1>1. /\ \A e \in Exports : exp[e].items = <<>>
        /\ \A s \in Sessions : ses[s].status = "ABSENT"
        /\ \A r \in Requests : pc[r] = "Idle"
    BY DEF Init, NoTicket, NoSession
  <1> QED BY <1>1 DEF StatusInv, ListedIsStarted, OpenIsStarted, StatusAsRead

(* A step that writes no ticket and opens no session.                      *)
LEMMA StatusReads ==
  ASSUME StatusInv, exp' = exp,
         \A s \in Sessions : ses'[s].status = "IN_PROGRESS" =>
            ses[s].status = "IN_PROGRESS" /\ ses'[s].exp = ses[s].exp,
         \A q \in Requests : /\ pc[q] = "SessionMark" =>
                                   pc'[q] = pc[q] /\ loc'[q] = loc[q]
                             /\ StatusAsRead(q)'
  PROVE  StatusInv' /\ MovesAlong
  <1>1. \A e : Marking(e) => Marking(e)'
    BY DEF Marking
  <1>2. ListedIsStarted' /\ OpenIsStarted'
    BY <1>1 DEF StatusInv, ListedIsStarted, OpenIsStarted, Still
  <1> QED BY <1>2 DEF StatusInv, MovesAlong, StatusChanges

(* The one request goes on to a call that relies on no status.             *)
StatusSteps == {"AddItems", "SessionInsert", "Submit", "Reject", "ApproveStock",
                "ApproveReserve", "Approve", "ConfirmMove", "ConfirmWrite", "SessionMark",
                "CompletePush", "CompleteMove", "CompleteClose", "CompleteTotal",
                "CompleteWrite"}

LEMMA StatusQuiet ==
  ASSUME OneAtATime, StatusInv, exp' = exp,
         \A s \in Sessions : ses'[s].status = "IN_PROGRESS" =>
            ses[s].status = "IN_PROGRESS" /\ ses'[s].exp = ses[s].exp,
         NEW r \in Requests, pc[r] # "SessionMark", pc'[r] \notin StatusSteps
  PROVE  StatusInv' /\ MovesAlong
  <1>1. \A q \in Requests : StatusAsRead(q)'
    BY DEF StatusAsRead, StatusSteps, OneAtATime
  <1> QED BY <1>1, StatusReads DEF OneAtATime

(* The request goes on, with the ticket it holds in the status it needs.   *)
LEMMA StatusGoes ==
  ASSUME OneAtATime, TypeInv, StatusInv, NEW r \in Requests, NEW step, NEW l,
         Goto(r, step, l), pc[r] # "SessionMark", exp' = exp,
         \A s \in Sessions : ses'[s].status = "IN_PROGRESS" =>
            ses[s].status = "IN_PROGRESS" /\ ses'[s].exp = ses[s].exp,
         step \in {"AddItems", "SessionInsert"} =>
            l.status \in Reserving /\ Still(l.exp, {l.status}),
         step = "Submit" => Still(l.exp, {"DRAFT"}),
         step \in {"Reject", "ApproveStock", "ApproveReserve", "Approve"} =>
            Still(l.exp, {"PENDING_APPROVAL"}),
         step \in {"ConfirmMove", "ConfirmWrite"} => Still(l.exp, {"IN_PROGRESS"}),
         step = "SessionMark" => Still(l.exp, {"APPROVED"}),
         step \in {"CompletePush", "CompleteMove", "CompleteClose", "CompleteTotal",
                   "CompleteWrite"} => Still(l.exp, Started)
  PROVE  StatusInv' /\ MovesAlong
  <1>1. \A q \in Requests : pc'[q] = step /\ loc'[q] = l /\ q = r
    BY Alone DEF OneAtATime
  <1>2. \A q \in Requests : StatusAsRead(q)'
    BY <1>1 DEF StatusAsRead, Still
  <1> QED BY <1>1, <1>2, StatusReads

(* findByIdAndUpdate, in terms of every ticket.                            *)
LEMMA WriteEffect ==
  ASSUME TypeInv, NEW e \in Exports, NEW doc, WriteTicket(e, doc)
  PROVE  \A f \in Exports : exp'[f] = IF f = e /\ Exists(e) THEN doc ELSE exp[f]
  BY DEF WriteTicket, TypeInv, TypeOK

(* A request writes the ticket it holds, from a status the move starts at. *)
LEMMA StatusWrites ==
  ASSUME TypeInv, StatusInv, NEW e \in Exports, NEW doc, WriteTicket(e, doc),
         ses' = ses, NEW from \in SUBSET TicketStatuses, Still(e, from),
         \A old \in from : /\ doc.status # old =>
                                 doc.status \in AllowedTransitions[old]
                           /\ old \in Started => doc.status \in Started,
         doc.items = exp[e].items \/ doc.status \in Started,
         \A q \in Requests : /\ pc[q] = "SessionMark" =>
                                   loc[q].exp = e /\ doc.status \in Started
                             /\ StatusAsRead(q)'
  PROVE  StatusInv' /\ MovesAlong
  <1>1. \A f \in Exports : exp'[f] = IF f = e /\ Exists(e) THEN doc ELSE exp[f]
    BY WriteEffect
  <1>2. ~ Exists(e) => exp[e].status = "DELETED"
    BY DEF Still, Exists
  <1>3. Exists(e) => exp[e].status \in from
    BY DEF Still, Exists, TicketStatuses
  <1>4. ListedIsStarted'
    BY <1>1, <1>3 DEF StatusInv, ListedIsStarted
  <1>5. \A s \in Sessions : ses[s].status = "IN_PROGRESS" => ses[s].exp \in Exports
    BY DEF TypeInv, SessionsOK
  <1>6. \A f \in Exports : Still(f, Started) => Still(f, Started)'
    BY <1>1, <1>3 DEF Still, TicketStatuses
  <1>7. \A f \in Exports : Marking(f) => Still(f, Started)'
    BY <1>1, <1>2 DEF Marking, Still
  <1>8. OpenIsStarted'
    BY <1>5, <1>6, <1>7 DEF StatusInv, OpenIsStarted
  <1>9. MovesAlong
    BY <1>1, <1>3 DEF MovesAlong, StatusChanges
  <1> QED BY <1>4, <1>8, <1>9 DEF StatusInv

LEMMA StatusFinishes ==
  ASSUME OneAtATime, TypeInv, NEW r \in Requests, Finish(r)
  PROVE  \A q \in Requests : StatusAsRead(q)'
  <1>1. \A q \in Requests : pc'[q] = "Idle"
    BY Alone DEF Finish
  <1> QED BY <1>1 DEF StatusAsRead

LEMMA StatusDocument ==
  ASSUME NoReversals, TypeInv, StatusInv, NEW e \in Exports, TicketDocument(e)
  PROVE  StatusInv' /\ MovesAlong
  <1>1. UNCHANGED <<ses, pc, loc>> /\ exp \in [Exports -> TicketRec]
    BY DEF TicketDocument, CreateTicket, PatchTicket, DeleteTicket, TypeInv, TypeOK
  <1>2. \/ exp[e].status = "ABSENT" /\ exp'[e].items = <<>>
        \/ exp'[e].status = "DELETED" /\ exp'[e].items = <<>>
    <2>1. CASE CreateTicket(e)
      <3>1. PICK status \in {"DRAFT", "PENDING_APPROVAL"}, plan \in Plans,
                 quantity \in Totals, count \in ClientCounts \cup {0} :
               exp' = [exp EXCEPT ![e] =
                      WithBody(NoTicket, status, plan, quantity, <<>>, count)]
        BY <2>1 DEF CreateTicket, ClientItems, NoReversals
      <3> QED BY <1>1, <2>1, <3>1, BodyFields, BlankType DEF CreateTicket
    <2>2. CASE DeleteTicket(e)
      BY <1>1, <2>2 DEF DeleteTicket, NoTicket
    <2> QED BY <2>1, <2>2 DEF TicketDocument, PatchTicket, NoReversals
  <1>3. \A f \in Exports : f # e => exp'[f] = exp[f]
    BY <1>1 DEF TicketDocument, CreateTicket, PatchTicket, DeleteTicket
  <1>4. \A f \in Exports, statuses \in SUBSET TicketStatuses :
           Still(f, statuses) => Still(f, statuses)'
    BY <1>2, <1>3 DEF Still, TicketStatuses
  <1>5. \A q \in Requests : StatusAsRead(q)'
    <2> SUFFICES ASSUME NEW q \in Requests PROVE StatusAsRead(q)'
      OBVIOUS
    <2>1. /\ pc' = pc /\ loc' = loc /\ StatusAsRead(q)
          /\ pc[q] \in TicketCalls => loc[q].exp \in Exports
      BY <1>1 DEF StatusInv, TypeInv, HoldsOK, HoldsTicket
    <2>2. {loc[q].status} \in SUBSET TicketStatuses \/ loc[q].status \notin Reserving
      BY DEF Reserving, TicketStatuses
    <2>3. {{"DRAFT"}, {"PENDING_APPROVAL"}, {"IN_PROGRESS"}, {"APPROVED"}, Started}
             \subseteq SUBSET TicketStatuses
      BY DEF Started, TicketStatuses
    <2> HIDE DEF Still
    <2> QED BY <1>4, <2>1, <2>2, <2>3 DEF StatusAsRead, TicketCalls
  <1>6. ListedIsStarted'
    BY <1>2, <1>3 DEF StatusInv, ListedIsStarted
  <1>7. OpenIsStarted'
    <2>1. \A s \in Sessions : ses[s].status = "IN_PROGRESS" => ses[s].exp \in Exports
      BY DEF TypeInv, SessionsOK
    <2>2. Started \in SUBSET TicketStatuses
      BY DEF Started, TicketStatuses
    <2>3. \A f : Marking(f) <=> Marking(f)'
      BY <1>1 DEF Marking
    <2> QED BY <1>1, <1>4, <2>1, <2>2, <2>3 DEF StatusInv, OpenIsStarted
  <1>8. MovesAlong
    BY <1>2, <1>3 DEF MovesAlong, StatusChanges, Exists, TicketStatuses
  <1> QED BY <1>5, <1>6, <1>7, <1>8 DEF StatusInv

(* The status and items of a ticket given a new status.                    *)
LEMMA StatusGiven ==
  ASSUME TypeInv, NEW e \in Exports, NEW status
  PROVE  /\ WithStatus(exp[e], status).status = status
         /\ WithStatus(exp[e], status).items = exp[e].items
  BY DEF WithStatus, TypeInv, TypeOK, TicketRec

LEMMA StatusTicketReads ==
  ASSUME OneAtATime, NoReversals, TypeInv, StatusInv, NEW r \in Requests,
         \/ TicketStart(r) \/ ApproveStock(r) \/ ApproveReserve(r) \/ ConfirmMove(r)
  PROVE  StatusInv' /\ MovesAlong
  <1> DEFINE l == loc[r]
  <1>0. /\ l \in LocRec /\ StatusAsRead(r) /\ exp' = exp /\ ses' = ses
        /\ pc[r] # "SessionMark"
    BY DEF TypeInv, TypeOK, StatusInv, TicketStart, AddItemsRead, SubmitRead, RejectRead,
           ApproveRead, ConfirmRead, ApproveStock, ApproveReserve, ConfirmMove, Start
  <1> SUFFICES ASSUME NEW step, NEW next, Goto(r, step, next),
                      step \in {"Idle", "AddItems", "Submit", "Reject", "ApproveStock",
                                "ApproveReserve", "Approve", "ConfirmMove", "ConfirmWrite"},
                      step = "AddItems" =>
                         next.status \in Reserving /\ Still(next.exp, {next.status}),
                      step = "Submit" => Still(next.exp, {"DRAFT"}),
                      step \in {"Reject", "ApproveStock", "ApproveReserve", "Approve"} =>
                         Still(next.exp, {"PENDING_APPROVAL"}),
                      step \in {"ConfirmMove", "ConfirmWrite"} =>
                         Still(next.exp, {"IN_PROGRESS"})
               PROVE  StatusInv' /\ MovesAlong
    <2>1. CASE AddItemsRead(r)
      <3>1. PICK e \in Exports, batch \in Batches :
              /\ exp[e].status \in Reserving
              /\ Goto(r, "AddItems", [Blank EXCEPT !.exp = e, !.status = exp[e].status,
                                                   !.items = exp[e].items,
                                                   !.batch = batch])
        BY <2>1 DEF AddItemsRead
      <3> DEFINE next == [Blank EXCEPT !.exp = e, !.status = exp[e].status,
                                       !.items = exp[e].items, !.batch = batch]
      <3>2. next.exp = e /\ next.status = exp[e].status
        BY DEF Blank
      <3>3. Goto(r, "AddItems", next)
        BY <3>1
      <3> HIDE DEF next
      <3> QED BY <3>1, <3>2, <3>3 DEF Still
    <2>2. CASE SubmitRead(r) \/ RejectRead(r)
      <3>1. PICK e \in Exports :
              \/ /\ exp[e].status = "DRAFT"
                 /\ Goto(r, "Submit", [Blank EXCEPT !.exp = e])
              \/ /\ exp[e].status = "PENDING_APPROVAL"
                 /\ Goto(r, "Reject", [Blank EXCEPT !.exp = e])
        BY <2>2 DEF SubmitRead, RejectRead
      <3> DEFINE next == [Blank EXCEPT !.exp = e]
      <3>2. next.exp = e
        BY DEF Blank
      <3>3. \/ exp[e].status = "DRAFT" /\ Goto(r, "Submit", next)
            \/ exp[e].status = "PENDING_APPROVAL" /\ Goto(r, "Reject", next)
        BY <3>1
      <3> HIDE DEF next
      <3> QED BY <3>2, <3>3 DEF Still
    <2>3. CASE ApproveRead(r)
      <3>1. PICK e \in Exports :
              /\ exp[e].status = "PENDING_APPROVAL"
              /\ Goto(r, IF DOMAIN exp[e].plan = {} THEN "Approve" ELSE "ApproveStock",
                      [Blank EXCEPT !.exp = e, !.plan = exp[e].plan,
                                    !.models = DOMAIN exp[e].plan])
        BY <2>3 DEF ApproveRead
      <3> DEFINE next == [Blank EXCEPT !.exp = e, !.plan = exp[e].plan,
                                       !.models = DOMAIN exp[e].plan]
      <3>2. next.exp = e
        BY DEF Blank
      <3>3. Goto(r, "Approve", next) \/ Goto(r, "ApproveStock", next)
        BY <3>1
      <3> HIDE DEF next
      <3> QED BY <3>1, <3>2, <3>3 DEF Still
    <2>4. CASE ConfirmRead(r)
      <3>1. PICK e \in Exports :
              /\ exp[e].status # "COMPLETED" /\ exp[e].items # <<>>
              /\ Goto(r, "ConfirmMove", [Blank EXCEPT !.exp = e, !.items = exp[e].items])
        BY <2>4 DEF ConfirmRead
      <3> DEFINE next == [Blank EXCEPT !.exp = e, !.items = exp[e].items]
      <3>2. next.exp = e
        BY DEF Blank
      <3>3. Goto(r, "ConfirmMove", next)
        BY <3>1
      <3>4. exp[e].status = "IN_PROGRESS"
        BY <3>1 DEF StatusInv, ListedIsStarted, Started
      <3> HIDE DEF next
      <3> QED BY <3>2, <3>3, <3>4 DEF Still
    <2>5. CASE ApproveStock(r)
      <3>1. PICK model \in l.models :
              Goto(r, "ApproveReserve", [l EXCEPT !.stock = CountReadyToExport(model),
                                                  !.models = @ \ {model},
                                                  !.checking = model])
        BY <2>5 DEF ApproveStock
      <3> DEFINE next == [l EXCEPT !.stock = CountReadyToExport(model),
                                   !.models = @ \ {model}, !.checking = model]
      <3>2. next.exp = l.exp
        BY <1>0 DEF LocRec
      <3>3. Goto(r, "ApproveReserve", next)
        BY <3>1
      <3>4. Still(l.exp, {"PENDING_APPROVAL"})
        BY <1>0, <2>5 DEF ApproveStock, StatusAsRead
      <3> HIDE DEF next
      <3> QED BY <3>2, <3>3, <3>4
    <2>6. CASE ApproveReserve(r)
      <3> DEFINE next == [l EXCEPT !.stock = 0, !.checking = None]
      <3>1. Finish(r) \/ Goto(r, "Approve", next) \/ Goto(r, "ApproveStock", next)
        BY <2>6 DEF ApproveReserve
      <3>2. next.exp = l.exp
        BY <1>0 DEF LocRec
      <3>3. Still(l.exp, {"PENDING_APPROVAL"})
        BY <1>0, <2>6 DEF ApproveReserve, StatusAsRead
      <3> HIDE DEF next
      <3> QED BY <3>1, <3>2, <3>3 DEF Finish
    <2>7. CASE ConfirmMove(r)
      <3> DEFINE next == [l EXCEPT !.items = <<>>]
      <3>1. Goto(r, "ConfirmWrite", next)
        BY <2>7 DEF ConfirmMove
      <3>2. next.exp = l.exp
        BY <1>0 DEF LocRec
      <3>3. Still(l.exp, {"IN_PROGRESS"})
        BY <1>0, <2>7 DEF ConfirmMove, StatusAsRead
      <3> HIDE DEF next
      <3> QED BY <3>1, <3>2, <3>3
    <2> QED BY <2>1, <2>2, <2>3, <2>4, <2>5, <2>6, <2>7 DEF TicketStart
  <1> HIDE DEF l
  <1> QED BY <1>0, StatusGoes

LEMMA StatusTicketWrites ==
  ASSUME OneAtATime, TypeInv, StatusInv, NEW r \in Requests,
         \/ AddItemsWrite(r) \/ SubmitWrite(r) \/ RejectWrite(r) \/ ApproveWrite(r)
         \/ ConfirmWrite(r) \/ SessionMark(r) \/ CompleteWrite(r)
  PROVE  StatusInv' /\ MovesAlong
  <1> DEFINE e == loc[r].exp
  <1> USE DEF Started, Reserving, AllowedTransitions, TicketStatuses
  <1>0. /\ e \in Exports /\ StatusAsRead(r) /\ ses' = ses
        /\ exp \in [Exports -> TicketRec]
        /\ \A q \in Requests : q = r /\ StatusAsRead(q)'
    BY StatusFinishes
    DEF OneAtATime, AddItemsWrite, SubmitWrite, RejectWrite, ApproveWrite, ConfirmWrite,
        SessionMark, CompleteWrite, TypeInv, TypeOK, HoldsOK, HoldsTicket, TicketCalls,
        StatusInv
  <1>1. CASE AddItemsWrite(r)
    <2> DEFINE l == loc[r]
               filled == [exp[e] EXCEPT !.items = l.items \o l.batch,
                                        !.totalItems = Len(l.items) + Len(l.batch),
                                        !.given = FALSE]
               doc == IF l.status = "APPROVED" THEN WithStatus(filled, "IN_PROGRESS")
                      ELSE filled
    <2>1. pc[r] = "AddItems" /\ l.status \in Reserving /\ Still(e, {l.status})
             /\ WriteTicket(e, doc)
      BY <1>0, <1>1 DEF AddItemsWrite, StatusAsRead
    <2>2. CASE exp[e].status = "DELETED"
      <3>1. \A f \in Exports : exp'[f] = exp[f]
        <4> HIDE DEF doc
        <4> QED BY <1>0, <2>1, <2>2, WriteEffect DEF Exists
      <3>2. exp' = exp
        BY <1>0, <2>1, <2>2 DEF WriteTicket, Exists
      <3> QED BY <1>0, <2>1, <3>2, StatusReads
    <2>3. CASE exp[e].status = l.status
      <3>1. doc.status = "IN_PROGRESS"
        BY <1>0, <2>1, <2>3 DEF WithStatus, TicketRec
      <3> HIDE DEF doc, e
      <3> QED BY <1>0, <2>1, <3>1, StatusWrites
    <2> QED BY <2>1, <2>2, <2>3 DEF Still
  <1>2. CASE SubmitWrite(r)
    <2>1. /\ pc[r] = "Submit" /\ Still(e, {"DRAFT"})
          /\ WriteTicket(e, WithStatus(exp[e], "PENDING_APPROVAL"))
      BY <1>0, <1>2 DEF SubmitWrite, StatusAsRead
    <2> HIDE DEF e
    <2> QED BY <1>0, <2>1, StatusGiven, StatusWrites
  <1>3. CASE RejectWrite(r)
    <2>1. /\ pc[r] = "Reject" /\ Still(e, {"PENDING_APPROVAL"})
          /\ WriteTicket(e, WithStatus(exp[e], "REJECTED"))
      BY <1>0, <1>3 DEF RejectWrite, StatusAsRead
    <2> HIDE DEF e
    <2> QED BY <1>0, <2>1, StatusGiven, StatusWrites
  <1>4. CASE ApproveWrite(r)
    <2> DEFINE doc == [WithStatus(exp[e], "APPROVED") EXCEPT !.approved = TRUE]
    <2>1. /\ pc[r] = "Approve" /\ Still(e, {"PENDING_APPROVAL"})
          /\ WriteTicket(e, doc)
      BY <1>0, <1>4 DEF ApproveWrite, StatusAsRead
    <2>2. doc.status = "APPROVED" /\ doc.items = exp[e].items
      BY <1>0 DEF WithStatus, TicketRec
    <2> HIDE DEF doc, e
    <2> QED BY <1>0, <2>1, <2>2, StatusWrites
  <1>5. CASE ConfirmWrite(r)
    <2>1. /\ pc[r] = "ConfirmWrite" /\ Still(e, {"IN_PROGRESS"})
          /\ WriteTicket(e, WithStatus(exp[e], "COMPLETED"))
      BY <1>0, <1>5 DEF ConfirmWrite, StatusAsRead
    <2> HIDE DEF e
    <2> QED BY <1>0, <2>1, StatusGiven, StatusWrites
  <1>6. CASE SessionMark(r)
    <2>1. /\ pc[r] = "SessionMark" /\ Still(e, {"APPROVED"}) /\ loc[r].exp = e
          /\ WriteTicket(e, WithStatus(exp[e], "IN_PROGRESS"))
      BY <1>0, <1>6 DEF SessionMark, StatusAsRead
    <2> HIDE DEF e
    <2> QED BY <1>0, <2>1, StatusGiven, StatusWrites
  <1>7. CASE CompleteWrite(r)
    <2>1. /\ pc[r] = "CompleteWrite" /\ Still(e, Started)
          /\ WriteTicket(e, WithStatus(exp[e], "COMPLETED"))
      BY <1>0, <1>7 DEF CompleteWrite, StatusAsRead
    <2> HIDE DEF e
    <2> QED BY <1>0, <2>1, StatusGiven, StatusWrites
  <1> QED BY <1>1, <1>2, <1>3, <1>4, <1>5, <1>6, <1>7

LEMMA StatusSession ==
  ASSUME OneAtATime, TypeInv, ReadInv, StatusInv, NEW r \in Requests,
         SessionStart(r) \/ SessionStep(r)
  PROVE  StatusInv' /\ MovesAlong
  <1> DEFINE l == loc[r]
  <1>0. /\ l \in LocRec /\ StatusAsRead(r) /\ StoreAsRead(r)
        /\ pc[r] \in TicketCalls => l.exp \in Exports
        /\ pc[r] \in SessionCalls => l.ses \in Sessions
        /\ pc \in [Requests -> Steps]
        /\ ses \in [Sessions -> SessionRec]
    BY DEF TypeInv, TypeOK, HoldsOK, HoldsTicket, HoldsSession, StatusInv, ReadInv
  <1>1. CASE SessionRead(r)
    <2>1. PICK e \in Exports, s \in Sessions :
            /\ exp[e].status \in {"APPROVED", "IN_PROGRESS"}
            /\ Goto(r, "SessionInsert", [Blank EXCEPT !.exp = e, !.ses = s,
                                                      !.status = exp[e].status])
      BY <1>1 DEF SessionRead
    <2> DEFINE next == [Blank EXCEPT !.exp = e, !.ses = s, !.status = exp[e].status]
    <2>2. next.exp = e /\ next.status = exp[e].status
      BY DEF Blank
    <2>3. Goto(r, "SessionInsert", next) /\ UNCHANGED <<exp, ses>> /\ pc[r] = "Idle"
      BY <1>1, <2>1 DEF SessionRead, Start
    <2> HIDE DEF next
    <2>4. next.status \in Reserving /\ Still(next.exp, {next.status})
      BY <2>1, <2>2 DEF Still, Reserving
    <2> QED BY <2>3, <2>4, StatusGoes
  <1>2. CASE CompleteRead(r)
    <2>1. PICK s \in Sessions :
            /\ ses[s].status = "IN_PROGRESS"
            /\ Goto(r, "CompletePush", [Blank EXCEPT !.ses = s, !.exp = ses[s].exp,
                                                     !.items = ses[s].items])
      BY <1>2 DEF CompleteRead
    <2> DEFINE next == [Blank EXCEPT !.ses = s, !.exp = ses[s].exp,
                                     !.items = ses[s].items]
    <2>2. next.exp = ses[s].exp
      BY DEF Blank
    <2>3. Goto(r, "CompletePush", next) /\ UNCHANGED <<exp, ses>> /\ pc[r] = "Idle"
      BY <1>2, <2>1 DEF CompleteRead, Start
    <2>4. Still(next.exp, Started)
      <3>1. ~ Marking(ses[s].exp)
        BY <2>3 DEF Marking, OneAtATime
      <3> QED BY <2>1, <2>2, <3>1 DEF StatusInv, OpenIsStarted
    <2> HIDE DEF next
    <2> QED BY <2>3, <2>4, StatusGoes
  <1>3. CASE SessionInsert(r)
    <2>1. /\ l.ses \in Sessions /\ l.exp \in Exports
          /\ l.status \in Reserving /\ Still(l.exp, {l.status})
          /\ ses' = [ses EXCEPT ![l.ses] = [NoSession EXCEPT !.status = "IN_PROGRESS",
                                                             !.exp = l.exp]]
          /\ exp' = exp /\ pc[r] = "SessionInsert"
          /\ IF l.status = "APPROVED" THEN Goto(r, "SessionMark", l) ELSE Finish(r)
      BY <1>0, <1>3 DEF SessionInsert, StatusAsRead, TicketCalls, SessionCalls
    <2>2. PICK e \in Exports : e = l.exp
      BY <2>1
    <2>3. /\ ses'[l.ses].exp = e
          /\ \A s \in Sessions : s # l.ses => ses'[s] = ses[s]
      BY <1>0, <2>1, <2>2 DEF NoSession
    <2>4. /\ \A q \in Requests : StatusAsRead(q)'
          /\ Still(e, Started)' \/ Marking(e)'
      <3>1. CASE l.status = "APPROVED"
        <4>1. \A q \in Requests : pc'[q] = "SessionMark" /\ loc'[q] = l
          BY <2>1, <3>1, Alone
        <4>2. Marking(e)'
          BY <2>2, <4>1 DEF Marking
        <4> QED BY <2>1, <3>1, <4>1, <4>2 DEF StatusAsRead, Still
      <3>2. CASE l.status # "APPROVED"
        <4>1. \A q \in Requests : StatusAsRead(q)'
          BY <2>1, <3>2, StatusFinishes
        <4> QED BY <2>1, <2>2, <3>2, <4>1 DEF Still, Reserving, Started
      <3> QED BY <3>1, <3>2
    <2>5. OpenIsStarted'
      <3>1. \A f : ~ Marking(f)
        BY <2>1 DEF Marking, OneAtATime
      <3>2. \A f : Still(f, Started) => Still(f, Started)'
        BY <2>1 DEF Still
      <3> QED BY <2>3, <2>4, <3>1, <3>2 DEF StatusInv, OpenIsStarted
    <2>6. ListedIsStarted' /\ MovesAlong
      BY <2>1 DEF StatusInv, ListedIsStarted, MovesAlong, StatusChanges
    <2> QED BY <2>4, <2>5, <2>6 DEF StatusInv
  <1>4. CASE \/ ScanSerial(r) \/ ScanBulk(r) \/ RemoveRead(r) \/ ScanExport(r)
             \/ ScanDevices(r) \/ ScanCheck(r) \/ ScanPush(r) \/ RemovePull(r)
    <2>1. /\ exp' = exp
          /\ pc[r] \in {"Idle", "ScanExport", "ScanDevices", "ScanCheck", "ScanPush",
                        "Remove"}
          /\ pc'[r] \in {"Idle", "ScanExport", "ScanDevices", "ScanCheck", "ScanPush",
                         "Remove"}
      BY <1>0, <1>4 DEF ScanSerial, ScanBulk, ScanSession, RemoveRead, ScanExport,
                        ScanDevices, ScanCheck, ScanPush, RemovePull, Start, Goto, Finish
    <2>2. \A s \in Sessions : ses'[s].status = ses[s].status /\ ses'[s].exp = ses[s].exp
      <3>1. CASE ScanPush(r)
        BY <1>0, <3>1 DEF ScanPush, SessionRec, SessionCalls
      <3>2. CASE RemovePull(r)
        BY <1>0, <3>2 DEF RemovePull, SessionRec, SessionCalls
      <3>3. CASE ses' = ses
        BY <3>3
      <3> QED
        BY <1>4, <3>1, <3>2, <3>3 DEF ScanSerial, ScanBulk, ScanSession, RemoveRead,
                                      ScanExport, ScanDevices, ScanCheck
    <2> QED BY <2>1, <2>2, StatusQuiet DEF StatusSteps
  <1>5. CASE CompletePush(r)
    <2> DEFINE e == l.exp
               doc == [exp[e] EXCEPT !.items = @ \o l.items, !.totalItems = @ + Len(l.items)]
    <2>1. /\ e \in Exports /\ pc[r] = "CompletePush" /\ Still(e, Started)
          /\ WriteTicket(e, doc) /\ ses' = ses /\ Goto(r, "CompleteMove", l)
      BY <1>0, <1>5 DEF CompletePush, TicketCalls, StatusAsRead
    <2>2. doc.status = exp[e].status
      BY <2>1 DEF TypeInv, TypeOK, TicketRec
    <2>3. CASE exp[e].status = "DELETED"
      <3>1. exp' = exp
        BY <2>1, <2>3 DEF WriteTicket, Exists, TicketStatuses
      <3> HIDE DEF l
      <3> QED BY <2>1, <3>1, StatusGoes
    <2>4. CASE exp[e].status \in Started
      <3> HIDE DEF doc
      <3>1. exp'[e].status \in Started
        BY <2>1, <2>2, <2>4, WriteEffect
      <3>2. \A q \in Requests : q = r /\ pc'[q] = "CompleteMove" /\ loc'[q] = l
        BY <2>1, Alone DEF OneAtATime
      <3>3. \A q \in Requests : StatusAsRead(q)'
        BY <3>1, <3>2 DEF StatusAsRead, Still
      <3>4. {exp[e].status} \in SUBSET TicketStatuses /\ Still(e, {exp[e].status})
        BY <2>4 DEF Started, TicketStatuses, Still
      <3> HIDE DEF l, e
      <3> QED BY <2>1, <2>2, <2>4, <3>2, <3>3, <3>4, StatusWrites
    <2> QED BY <2>1, <2>3, <2>4 DEF Still
  <1>6. CASE CompleteMove(r) \/ CompleteClose(r) \/ CompleteTotal(r)
    <2>1. /\ exp' = exp /\ pc[r] \in {"CompleteMove", "CompleteClose", "CompleteTotal"}
          /\ Still(l.exp, Started)
      BY <1>0, <1>6 DEF CompleteMove, CompleteClose, CompleteTotal, StatusAsRead
    <2>2. \A s \in Sessions : ses'[s].status = "IN_PROGRESS" =>
             ses[s].status = "IN_PROGRESS" /\ ses'[s].exp = ses[s].exp
      BY <1>0, <1>6 DEF CompleteMove, CompleteClose, CompleteTotal, SessionRec
    <2>3. PICK step, next :
            /\ Goto(r, step, next)
            /\ step \in {"CompleteClose", "CompleteTotal", "CompleteWrite", "Idle"}
            /\ next.exp = l.exp \/ step = "Idle"
      <3>1. \/ Goto(r, "CompleteClose", [l EXCEPT !.items = <<>>])
            \/ Goto(r, "CompleteTotal", [l EXCEPT !.ses = None])
            \/ Goto(r, "CompleteWrite", l)
            \/ Goto(r, "Idle", Blank)
        BY <1>6 DEF CompleteMove, CompleteClose, CompleteTotal, Finish
      <3>2. [l EXCEPT !.items = <<>>].exp = l.exp /\ [l EXCEPT !.ses = None].exp = l.exp
        BY <1>0 DEF LocRec
      <3> HIDE DEF l
      <3> QED BY <3>1, <3>2
    <2> HIDE DEF l
    <2> QED BY <2>1, <2>2, <2>3, StatusGoes
  <1>7. CASE SessionMark(r) \/ CompleteWrite(r)
    BY <1>7, StatusTicketWrites
  <1> QED BY <1>1, <1>2, <1>3, <1>4, <1>5, <1>6, <1>7 DEF SessionStart, SessionStep

LEMMA StatusStep ==
  ASSUME OneAtATime, NoReversals, TypeInv, ReadInv, StatusInv, [Next]_vars
  PROVE  StatusInv' /\ MovesAlong
  <1>1. CASE UNCHANGED vars
    <2>1. \A q \in Requests : StatusAsRead(q)'
      BY <1>1 DEF vars, StatusInv, StatusAsRead, Still
    <2> QED BY <1>1, <2>1, StatusReads DEF vars
  <1>2. ASSUME NEW r \in Requests, TransferRead(r) \/ TransferSave(r)
        PROVE  StatusInv' /\ MovesAlong
    <2>1. /\ UNCHANGED <<exp, ses>> /\ pc[r] \in {"Idle", "TransferSave"}
          /\ pc'[r] \in {"Idle", "TransferSave"}
      BY <1>2 DEF TransferRead, TransferSave, Start, Goto, Finish, TypeInv, TypeOK
    <2> QED BY <2>1, StatusQuiet DEF StatusSteps
  <1>3. CASE Crash
    BY <1>3 DEF Crash, NoReversals
  <1>4. ASSUME NEW r \in Requests, TicketStart(r) \/ TicketStep(r)
        PROVE  StatusInv' /\ MovesAlong
    BY <1>4, StatusTicketReads, StatusTicketWrites DEF TicketStep
  <1> QED BY <1>1, <1>2, <1>3, <1>4, StatusDocument, StatusSession DEF Next, Step

(* A ticket moves only along the documented state machine: a request that  *)
(* checked a status writes while the ticket is still in it.                *)
THEOREM StatusesFollow ==
  ASSUME OneAtATime, NoReversals PROVE Spec => StatusTransitionsAllowed
  <1>1. Init => TypeInv /\ ReadInv /\ StatusInv
    BY TypeInit, ReadInit, StatusInit
  <1>2. TypeInv /\ ReadInv /\ StatusInv /\ [Next]_vars => (TypeInv /\ ReadInv /\ StatusInv)'
    BY TypeStep, ReadStep, StatusStep
  <1>3. TypeInv /\ ReadInv /\ StatusInv /\ [Next]_vars =>
          [\A e \in Exports : StatusChanges(e) =>
              exp'[e].status \in AllowedTransitions[exp[e].status]]_vars
    BY StatusStep DEF MovesAlong
  <1> QED BY <1>1, <1>2, <1>3, PTL DEF Spec, StatusTransitionsAllowed

-----------------------------------------------------------------------------
(***************************************************************************)
(* Reservations.  While a ticket is being approved its plan stays, nobody  *)
(* else is approved and nothing leaves the ready warehouse: each model     *)
(* checked so far is still covered when the approval is written.  A patch  *)
(* of the plan meanwhile would not be seen, hence the hypothesis.          *)
(***************************************************************************)
NoPatch == "patch" \notin Features

ApproveSteps == {"ApproveStock", "ApproveReserve", "Approve"}

Covered(model, more) == Reserved(model) + more <= CountReadyToExport(model)

(* The models the request has found covered.                               *)
Checked(r) == {model \in DOMAIN loc[r].plan \ loc[r].models :
                  pc[r] = "ApproveReserve" => model # loc[r].checking}

ApprovalAsRead(r) ==
    LET l == loc[r] IN
    /\ pc[r] \in ApproveSteps =>
          /\ \/ exp[l.exp].status = "DELETED"
             \/ exp[l.exp].status = "PENDING_APPROVAL" /\ exp[l.exp].plan = l.plan
          /\ l.models \subseteq DOMAIN l.plan
          /\ \A model \in Checked(r) : Covered(model, l.plan[model])
    /\ pc[r] = "ApproveReserve" =>
          l.checking \in DOMAIN l.plan /\ l.stock = CountReadyToExport(l.checking)
    /\ pc[r] = "Approve" => l.models = {}

(* Only finitely many tickets were ever created.                           *)
FiniteTickets == IsFiniteSet({e \in Exports : exp[e].status # "ABSENT"})

ReservationInv == FiniteTickets /\ \A r \in Requests : ApprovalAsRead(r)

(* What is reserved, as a function of the tickets.                         *)
Active(store, model) == {e \in Exports : /\ store[e].status \in Reserving
                                         /\ model \in DOMAIN store[e].plan}
Quantities(store, model) == [e \in Active(store, model) |-> store[e].plan[model]]
ReservedIn(store, model) == SumFunctionOnSet(Quantities(store, model),
                                             Active(store, model))

LEMMA ReservedMeans == \A model : Reserved(model) = ReservedIn(exp, model)
  BY DEF Reserved, ReservedIn, Quantities, Active, SumFunction

LEMMA QuantityType ==
  ASSUME NEW plan \in AllPlans PROVE \A model \in DOMAIN plan : plan[model] \in Nat
  BY PlanAssumption DEF AllPlans, NoPlan

(* Tickets that reserve the same reserve the same sum.                     *)
LEMMA ReservedSame ==
  ASSUME NEW store, NEW later, NEW model,
         \A e \in Exports : /\ store[e].status \in Reserving
                                 <=> later[e].status \in Reserving
                            /\ store[e].plan = later[e].plan
  PROVE  ReservedIn(later, model) = ReservedIn(store, model)
  <1>1. Active(later, model) = Active(store, model)
    BY DEF Active
  <1>2. \A e \in Active(later, model) : later[e].plan = store[e].plan
    BY DEF Active
  <1>3. Quantities(later, model) = Quantities(store, model)
    BY <1>1, <1>2 DEF Quantities
  <1> QED BY <1>1, <1>3 DEF ReservedIn

(* A ticket that starts to reserve adds its quantity.                      *)
LEMMA ReservedMore ==
  ASSUME NEW store, NEW later, NEW model, NEW e \in Exports,
         IsFiniteSet(Active(later, model)),
         \A f \in Exports : later[f].plan \in AllPlans,
         e \notin Active(store, model), e \in Active(later, model),
         \A f \in Exports : f # e => later[f] = store[f]
  PROVE  /\ ReservedIn(later, model) = later[e].plan[model] + ReservedIn(store, model)
         /\ ReservedIn(store, model) \in Nat
         /\ later[e].plan[model] \in Nat
  <1> DEFINE A == Active(later, model)
             B == Active(store, model)
             f == Quantities(later, model)
             g == Quantities(store, model)
  <1>1. A \ {e} = B
    BY DEF Active
  <1>2. \A x \in A : f[x] \in Nat
    BY QuantityType DEF Quantities, Active
  <1>3. f[e] = later[e].plan[model] /\ \A x \in B : f[x] = g[x]
    BY <1>1 DEF Quantities, Active
  <1>4. IsFiniteSet(B)
    BY <1>1, FS_RemoveElement
  <1>5. \A x \in B : g[x] \in Nat
    BY <1>1, <1>2, <1>3
  <1> HIDE DEF A, B, f, g
  <1>6. SumFunctionOnSet(f, A) = f[e] + SumFunctionOnSet(f, B)
    BY <1>1, <1>2, SumByMember DEF A
  <1>7. SumFunctionOnSet(f, B) = SumFunctionOnSet(g, B)
    BY <1>3, <1>4, SumOfSame
  <1>8. SumFunctionOnSet(g, B) \in Nat
    BY <1>4, <1>5, SumType
  <1>9. f[e] \in Nat
    BY <1>2 DEF A
  <1> QED BY <1>3, <1>6, <1>7, <1>8, <1>9 DEF ReservedIn, A, B, f, g

LEMMA ActiveFinite ==
  ASSUME NEW store, IsFiniteSet({e \in Exports : store[e].status # "ABSENT"}), NEW model
  PROVE  IsFiniteSet(Active(store, model))
  <1>1. Active(store, model) \subseteq {e \in Exports : store[e].status # "ABSENT"}
    BY DEF Active, Reserving
  <1> QED BY <1>1, FS_Subset

(* The actions that change a ticket.                                       *)
OtherStatuses == {"PENDING_APPROVAL", "REJECTED", "IN_PROGRESS", "COMPLETED"}

LEMMA TicketWriters ==
  ASSUME TypeInv, [Next]_vars
  PROVE  \/ exp' = exp
         \/ \E e \in Exports : TicketDocument(e)
         \/ \E r \in Requests : ApproveWrite(r)
         \/ \E r \in Requests : \E doc :
               /\ loc[r].exp \in Exports
               /\ WriteTicket(loc[r].exp, doc)
               /\ doc.status \in {exp[loc[r].exp].status} \cup OtherStatuses
  <1> DEFINE Written(r) == \E doc :
               /\ loc[r].exp \in Exports
               /\ WriteTicket(loc[r].exp, doc)
               /\ doc.status \in {exp[loc[r].exp].status} \cup OtherStatuses
  <1>1. CASE UNCHANGED vars \/ Crash
    BY <1>1 DEF vars, Crash
  <1>2. ASSUME NEW r \in Requests,
               TicketStart(r) \/ SessionStart(r) \/ TransferRead(r) \/ TransferSave(r)
        PROVE  exp' = exp
    BY <1>2 DEF TicketStart, AddItemsRead, SubmitRead, RejectRead, ApproveRead,
                ConfirmRead, SessionStart, SessionRead, ScanSerial, ScanBulk,
                ScanSession, RemoveRead, CompleteRead, TransferRead, TransferSave
  <1>3. ASSUME NEW r \in Requests, NEW status \in OtherStatuses,
               loc[r].exp \in Exports,
               WriteTicket(loc[r].exp, WithStatus(exp[loc[r].exp], status))
        PROVE  Written(r)
    <2>1. WithStatus(exp[loc[r].exp], status).status = status
      BY <1>3, StatusGiven
    <2> QED BY <1>3, <2>1
  <1>4. ASSUME NEW r \in Requests, TicketStep(r)
        PROVE  exp' = exp \/ ApproveWrite(r) \/ Written(r)
    <2>1. pc[r] \in TicketCalls => loc[r].exp \in Exports
      BY DEF TypeInv, HoldsOK, HoldsTicket
    <2>2. CASE AddItemsWrite(r)
      <3> DEFINE l == loc[r]
                 filled == [exp[l.exp] EXCEPT !.items = l.items \o l.batch,
                                              !.totalItems = Len(l.items) + Len(l.batch),
                                              !.given = FALSE]
                 doc == IF l.status = "APPROVED" THEN WithStatus(filled, "IN_PROGRESS")
                        ELSE filled
      <3>1. l.exp \in Exports /\ WriteTicket(l.exp, doc)
        BY <2>1, <2>2 DEF AddItemsWrite, TicketCalls
      <3>2. doc.status \in {exp[l.exp].status} \cup OtherStatuses
        BY <3>1 DEF WithStatus, TypeInv, TypeOK, TicketRec, OtherStatuses
      <3> HIDE DEF doc
      <3> QED BY <3>1, <3>2
    <2>3. CASE SubmitWrite(r) \/ RejectWrite(r) \/ ConfirmWrite(r)
      <3>1. PICK status \in OtherStatuses :
               WriteTicket(loc[r].exp, WithStatus(exp[loc[r].exp], status))
        BY <2>3 DEF SubmitWrite, RejectWrite, ConfirmWrite, OtherStatuses
      <3>2. loc[r].exp \in Exports
        BY <2>1, <2>3 DEF SubmitWrite, RejectWrite, ConfirmWrite, TicketCalls
      <3> QED BY <1>3, <3>1, <3>2
    <2>4. CASE ApproveStock(r) \/ ApproveReserve(r) \/ ConfirmMove(r)
      BY <2>4 DEF ApproveStock, ApproveReserve, ConfirmMove
    <2> QED BY <1>4, <2>2, <2>3, <2>4 DEF TicketStep
  <1>5. ASSUME NEW r \in Requests, SessionStep(r) PROVE exp' = exp \/ Written(r)
    <2>1. pc[r] \in TicketCalls => loc[r].exp \in Exports
      BY DEF TypeInv, HoldsOK, HoldsTicket
    <2>2. CASE SessionMark(r) \/ CompleteWrite(r)
      <3>1. PICK status \in OtherStatuses :
               WriteTicket(loc[r].exp, WithStatus(exp[loc[r].exp], status))
        BY <2>2 DEF SessionMark, CompleteWrite, OtherStatuses
      <3>2. loc[r].exp \in Exports
        BY <2>1, <2>2 DEF SessionMark, CompleteWrite, TicketCalls
      <3> QED BY <1>3, <3>1, <3>2
    <2>3. CASE CompletePush(r)
      <3> DEFINE l == loc[r]
                 doc == [exp[l.exp] EXCEPT !.items = @ \o l.items,
                                           !.totalItems = @ + Len(l.items)]
      <3>1. l.exp \in Exports /\ WriteTicket(l.exp, doc)
        BY <2>1, <2>3 DEF CompletePush, TicketCalls
      <3>2. doc.status = exp[l.exp].status
        BY <3>1 DEF TypeInv, TypeOK, TicketRec
      <3> HIDE DEF doc
      <3> QED BY <3>1, <3>2
    <2> QED BY <1>5, <2>2, <2>3 DEF SessionStep, SessionInsert, ScanExport, ScanDevices,
               ScanCheck, ScanPush, RemovePull, CompleteMove, CompleteClose, CompleteTotal
  <1> HIDE DEF Written
  <1> QED BY <1>1, <1>2, <1>4, <1>5 DEF Next, Step, Written

LEMMA ReservationInit == Init => ReservationInv
  <1> SUFFICES ASSUME Init PROVE ReservationInv
    OBVIOUS
  <1>1. {e \in Exports : exp[e].status # "ABSENT"} = {}
    BY DEF Init, NoTicket
  <1>2. FiniteTickets
    BY <1>1, FS_EmptySet DEF FiniteTickets
  <1>3. \A r \in Requests : ApprovalAsRead(r)
    BY DEF Init, ApprovalAsRead, ApproveSteps
  <1> QED BY <1>2, <1>3 DEF ReservationInv

(* At most one ticket is created in a step.                                *)
LEMMA FiniteStep ==
  ASSUME TypeInv, FiniteTickets, [Next]_vars PROVE FiniteTickets'
  <1> DEFINE Old == {f \in Exports : exp[f].status # "ABSENT"}
             New == {f \in Exports : exp'[f].status # "ABSENT"}
  <1> SUFFICES ASSUME NEW e \in Exports, \A f \in Exports \ {e} : exp'[f] = exp[f]
               PROVE  FiniteTickets'
    <2>1. CASE exp' = exp
      BY <2>1 DEF FiniteTickets
    <2>2. ASSUME NEW e \in Exports, TicketDocument(e)
          PROVE  \A f \in Exports \ {e} : exp'[f] = exp[f]
      BY <2>2 DEF TicketDocument, CreateTicket, PatchTicket, DeleteTicket, TypeInv, TypeOK
    <2>3. ASSUME NEW r \in Requests, NEW doc, loc[r].exp \in Exports,
                 WriteTicket(loc[r].exp, doc)
          PROVE  \A f \in Exports \ {loc[r].exp} : exp'[f] = exp[f]
      BY <2>3, WriteEffect
    <2>4. ASSUME NEW r \in Requests, ApproveWrite(r)
          PROVE  /\ loc[r].exp \in Exports
                 /\ \A f \in Exports \ {loc[r].exp} : exp'[f] = exp[f]
      <3>1. loc[r].exp \in Exports
        BY <2>4 DEF ApproveWrite, TypeInv, HoldsOK, HoldsTicket, TicketCalls
      <3> QED BY <2>3, <2>4, <3>1 DEF ApproveWrite
    <2> QED BY <2>1, <2>2, <2>3, <2>4, TicketWriters
  <1>1. New \subseteq Old \cup {e}
    OBVIOUS
  <1>2. IsFiniteSet(Old \cup {e})
    BY FS_AddElement DEF FiniteTickets
  <1>3. IsFiniteSet(New)
    BY <1>1, <1>2, FS_Subset
  <1> QED BY <1>3 DEF FiniteTickets

(* Create and delete do not add to what is reserved.                       *)
LEMMA DocumentReserves ==
  ASSUME NoPatch, TypeInv, FiniteTickets, NEW e \in Exports, TicketDocument(e), NEW model
  PROVE  /\ Reserved(model) \in Int /\ Reserved(model)' \in Int
         /\ Reserved(model)' <= Reserved(model)
  <1>0. /\ exp \in [Exports -> TicketRec]
        /\ \A f \in Exports : exp[f].plan \in AllPlans
    BY DEF TypeInv, TypeOK, TicketRec
  <1>1. \A f \in Exports : f # e => exp'[f] = exp[f]
    BY <1>0 DEF TicketDocument, CreateTicket, PatchTicket, DeleteTicket
  <1>2. exp'[e].status \notin Reserving
    <2>1. CASE CreateTicket(e)
      BY <1>0, <2>1, BodyFields, BlankType DEF CreateTicket, Reserving
    <2>2. CASE DeleteTicket(e)
      BY <1>0, <2>2 DEF DeleteTicket, NoTicket, Reserving
    <2> QED BY <2>1, <2>2 DEF TicketDocument, PatchTicket, NoPatch
  <1>3. IsFiniteSet(Active(exp, model))
    BY ActiveFinite DEF FiniteTickets
  <1>4. e \notin Active(exp', model)
    BY <1>2 DEF Active
  <1>5. Reserved(model) = ReservedIn(exp, model) /\ Reserved(model)' = ReservedIn(exp', model)
    BY ReservedMeans DEF Reserved, ReservedIn, Quantities, Active, SumFunction
  <1>6. CASE e \in Active(exp, model)
    <2>1. /\ ReservedIn(exp, model) = exp[e].plan[model] + ReservedIn(exp', model)
          /\ ReservedIn(exp', model) \in Nat
          /\ exp[e].plan[model] \in Nat
      BY <1>0, <1>1, <1>3, <1>4, <1>6, ReservedMore
    <2> QED BY <1>5, <2>1
  <1>7. CASE e \notin Active(exp, model)
    <2>1. Active(exp', model) = Active(exp, model)
      BY <1>1, <1>4, <1>7 DEF Active
    <2>2. \A f \in Active(exp', model) : exp'[f] = exp[f]
      BY <1>1, <1>4 DEF Active
    <2>3. Quantities(exp', model) = Quantities(exp, model)
      BY <2>1, <2>2 DEF Quantities
    <2>4. \A f \in Active(exp, model) : Quantities(exp, model)[f] \in Nat
      BY <1>0, QuantityType DEF Quantities, Active
    <2>5. ReservedIn(exp, model) \in Nat
      BY <1>3, <2>4, SumType DEF ReservedIn
    <2>6. ReservedIn(exp', model) = ReservedIn(exp, model)
      BY <2>1, <2>3 DEF ReservedIn
    <2> QED BY <1>5, <2>5, <2>6
  <1> QED BY <1>6, <1>7

(* What is reserved is a number.                                           *)
LEMMA ReservedType ==
  ASSUME TypeInv, FiniteTickets, NEW model PROVE Reserved(model) \in Nat
  <1>1. \A f \in Exports : exp[f].plan \in AllPlans
    BY DEF TypeInv, TypeOK, TicketRec
  <1>2. IsFiniteSet(Active(exp, model))
    BY ActiveFinite DEF FiniteTickets
  <1>3. \A f \in Active(exp, model) : Quantities(exp, model)[f] \in Nat
    BY <1>1, QuantityType DEF Quantities, Active
  <1> QED BY <1>2, <1>3, SumType, ReservedMeans DEF ReservedIn

LEMMA ApprovalDocument ==
  ASSUME NoPatch, TypeInv, ReservationInv, NEW e \in Exports, TicketDocument(e)
  PROVE  \A r \in Requests : ApprovalAsRead(r)'
  <1> SUFFICES ASSUME NEW r \in Requests PROVE ApprovalAsRead(r)'
    OBVIOUS
  <1>1. UNCHANGED <<dev, pc, loc>> /\ ApprovalAsRead(r)
    BY DEF TicketDocument, CreateTicket, PatchTicket, DeleteTicket, ReservationInv
  <1>2. CountReadyToExport(loc[r].checking)' = CountReadyToExport(loc[r].checking)
    BY <1>1 DEF CountReadyToExport
  <1>3. Checked(r)' = Checked(r)
    BY <1>1 DEF Checked
  <1>4. pc[r] \in ApproveSteps => \A model \in Checked(r) :
           Covered(model, loc[r].plan[model])'
    <2> SUFFICES ASSUME pc[r] \in ApproveSteps, NEW model \in Checked(r)
                 PROVE  Covered(model, loc[r].plan[model])'
      OBVIOUS
    <2>1. Covered(model, loc[r].plan[model])
      BY <1>1 DEF ApprovalAsRead
    <2>2. /\ Reserved(model) \in Int /\ Reserved(model)' \in Int
          /\ Reserved(model)' <= Reserved(model)
      BY DocumentReserves DEF ReservationInv
    <2>3. loc[r].plan[model] \in Nat
      <3>1. loc[r].plan \in AllPlans
        BY DEF TypeInv, TypeOK, LocRec
      <3> QED BY <3>1, QuantityType DEF Checked
    <2>4. CountReadyToExport(model)' = CountReadyToExport(model)
      BY <1>1 DEF CountReadyToExport
    <2>5. CountReadyToExport(model) \in Nat
      BY CountType
    <2> QED BY <1>1, <2>1, <2>2, <2>3, <2>4, <2>5 DEF Covered
  <1>5. pc[r] \in ApproveSteps =>
           \/ exp'[loc[r].exp].status = "DELETED"
           \/ /\ exp'[loc[r].exp].status = "PENDING_APPROVAL"
              /\ exp'[loc[r].exp].plan = loc[r].plan
    <2> SUFFICES ASSUME pc[r] \in ApproveSteps PROVE
           \/ exp'[loc[r].exp].status = "DELETED"
           \/ /\ exp'[loc[r].exp].status = "PENDING_APPROVAL"
              /\ exp'[loc[r].exp].plan = loc[r].plan
      OBVIOUS
    <2>1. loc[r].exp \in Exports
      BY DEF ApproveSteps, TypeInv, HoldsOK, HoldsTicket, TicketCalls
    <2>2. exp \in [Exports -> TicketRec]
      BY DEF TypeInv, TypeOK
    <2>3. exp'[e].status = "DELETED" \/ exp[e].status = "ABSENT"
      BY <2>2 DEF TicketDocument, CreateTicket, PatchTicket, DeleteTicket, NoPatch, NoTicket
    <2>4. \A f \in Exports \ {e} : exp'[f] = exp[f]
      BY <2>2 DEF TicketDocument, CreateTicket, PatchTicket, DeleteTicket
    <2> QED BY <1>1, <2>1, <2>3, <2>4 DEF ApprovalAsRead
  <1> QED BY <1>1, <1>2, <1>3, <1>4, <1>5 DEF ApprovalAsRead

(* The reads of an approval: a model that is passed is covered.            *)
LEMMA ApprovalReads ==
  ASSUME OneAtATime, TypeInv, ReservationInv, NEW r \in Requests,
         ApproveRead(r) \/ ApproveStock(r) \/ ApproveReserve(r)
  PROVE  \A q \in Requests : ApprovalAsRead(q)'
  <1> DEFINE l == loc[r]
  <1>0. /\ l \in LocRec /\ l.plan \in AllPlans /\ ApprovalAsRead(r)
        /\ UNCHANGED <<exp, dev>>
    BY DEF TypeInv, TypeOK, LocRec, ReservationInv, ApproveRead, ApproveStock,
           ApproveReserve
  <1>1. /\ \A model : CountReadyToExport(model)' = CountReadyToExport(model)
        /\ \A model, more : Covered(model, more)' <=> Covered(model, more)
    <2>1. \A model : CountReadyToExport(model)' = CountReadyToExport(model)
      BY <1>0 DEF CountReadyToExport
    <2>2. \A model : Reserved(model)' = Reserved(model)
      BY <1>0 DEF Reserved
    <2> QED BY <2>1, <2>2 DEF Covered
  <1>2. ASSUME NEW step, NEW next, Goto(r, step, next), step \in ApproveSteps,
               \/ exp[next.exp].status = "DELETED"
               \/ exp[next.exp].status = "PENDING_APPROVAL" /\ exp[next.exp].plan = next.plan,
               \A model \in DOMAIN next.plan \ next.models :
                  \/ Covered(model, next.plan[model])
                  \/ step = "ApproveReserve" /\ model = next.checking,
               step = "ApproveReserve" =>
                  /\ next.checking \in DOMAIN next.plan
                  /\ next.stock = CountReadyToExport(next.checking),
               step = "Approve" => next.models = {},
               next.models \subseteq DOMAIN next.plan
        PROVE  \A q \in Requests : ApprovalAsRead(q)'
    <2>1. \A q \in Requests : pc'[q] = step /\ loc'[q] = next
      BY <1>2, Alone
    <2> QED BY <1>0, <1>1, <1>2, <2>1 DEF ApprovalAsRead, Checked
  <1>3. CASE ApproveRead(r)
    <2>1. PICK e \in Exports :
            /\ exp[e].status = "PENDING_APPROVAL"
            /\ Goto(r, IF DOMAIN exp[e].plan = {} THEN "Approve" ELSE "ApproveStock",
                    [Blank EXCEPT !.exp = e, !.plan = exp[e].plan,
                                  !.models = DOMAIN exp[e].plan])
      BY <1>3 DEF ApproveRead
    <2> DEFINE next == [Blank EXCEPT !.exp = e, !.plan = exp[e].plan,
                                     !.models = DOMAIN exp[e].plan]
    <2>2. /\ next.exp = e /\ next.plan = exp[e].plan
          /\ next.models = DOMAIN exp[e].plan
      BY DEF Blank
    <2>3. \/ Goto(r, "Approve", next) /\ DOMAIN exp[e].plan = {}
          \/ Goto(r, "ApproveStock", next)
      BY <2>1
    <2> HIDE DEF next
    <2> QED BY <1>2, <2>1, <2>2, <2>3 DEF ApproveSteps
  <1>4. CASE ApproveStock(r)
    <2>1. PICK model \in l.models :
            Goto(r, "ApproveReserve", [l EXCEPT !.stock = CountReadyToExport(model),
                                                !.models = @ \ {model},
                                                !.checking = model])
      BY <1>4 DEF ApproveStock
    <2> DEFINE next == [l EXCEPT !.stock = CountReadyToExport(model),
                                 !.models = @ \ {model}, !.checking = model]
    <2>2. /\ next.exp = l.exp /\ next.plan = l.plan /\ next.checking = model
          /\ next.models = l.models \ {model}
          /\ next.stock = CountReadyToExport(model)
      BY <1>0 DEF LocRec
    <2>3. Goto(r, "ApproveReserve", next) /\ pc[r] = "ApproveStock"
      BY <1>4, <2>1 DEF ApproveStock
    <2>4. model \in DOMAIN l.plan /\ next.models \subseteq DOMAIN next.plan
      BY <1>0, <2>1, <2>2, <2>3 DEF ApprovalAsRead, ApproveSteps
    <2>5. \A m \in DOMAIN l.plan \ l.models : Covered(m, l.plan[m])
      BY <1>0, <2>3 DEF ApprovalAsRead, ApproveSteps, Checked
    <2> HIDE DEF next, l
    <2> QED BY <1>0, <1>2, <2>2, <2>3, <2>4, <2>5 DEF ApproveSteps, ApprovalAsRead, l
  <1>5. CASE ApproveReserve(r)
    <2>1. /\ pc[r] = "ApproveReserve" /\ l.checking \in DOMAIN l.plan
          /\ l.stock = CountReadyToExport(l.checking)
          /\ \/ Finish(r)
             \/ /\ ~ (Available(l.stock, l.checking) < l.plan[l.checking])
                /\ Goto(r, IF l.models = {} THEN "Approve" ELSE "ApproveStock",
                        [l EXCEPT !.stock = 0, !.checking = None])
      BY <1>0, <1>5 DEF ApproveReserve, ApprovalAsRead
    <2>2. CASE Finish(r)
      <3>1. \A q \in Requests : pc'[q] = "Idle"
        BY <2>2, Alone DEF Finish
      <3> QED BY <3>1 DEF ApprovalAsRead, ApproveSteps
    <2>3. CASE /\ ~ (Available(l.stock, l.checking) < l.plan[l.checking])
               /\ Goto(r, IF l.models = {} THEN "Approve" ELSE "ApproveStock",
                       [l EXCEPT !.stock = 0, !.checking = None])
      <3> DEFINE next == [l EXCEPT !.stock = 0, !.checking = None]
      <3>1. next.exp = l.exp /\ next.plan = l.plan /\ next.models = l.models
        BY <1>0 DEF LocRec
      <3>2. Covered(l.checking, l.plan[l.checking])
        <4>1. l.plan[l.checking] \in Nat \ {0}
          BY <1>0, <2>1, PlanAssumption DEF AllPlans, NoPlan
        <4>2. Reserved(l.checking) \in Nat /\ l.stock \in Nat
          BY <2>1, CountType, ReservedType DEF ReservationInv
        <4> QED BY <2>1, <2>3, <4>1, <4>2 DEF Available, Covered
      <3>3. \A m \in DOMAIN l.plan \ l.models : Covered(m, l.plan[m])
        BY <1>0, <2>1, <3>2 DEF ApprovalAsRead, ApproveSteps, Checked
      <3>5. l.models \subseteq DOMAIN l.plan
        BY <1>0, <2>1 DEF ApprovalAsRead, ApproveSteps
      <3>4. \/ Goto(r, "Approve", next) /\ l.models = {}
            \/ Goto(r, "ApproveStock", next)
        BY <2>3
      <3> HIDE DEF next, l
      <3> QED BY <1>0, <1>2, <2>1, <3>1, <3>3, <3>4, <3>5 DEF ApproveSteps, ApprovalAsRead, l
    <2> QED BY <2>1, <2>2, <2>3
  <1> QED BY <1>3, <1>4, <1>5

(* Every other step leaves no approval under way.                          *)
LEMMA ApprovalOver ==
  ASSUME TypeInv, NEW r \in Requests,
         \/ SessionStart(r) \/ SessionStep(r) \/ TransferRead(r) \/ TransferSave(r)
         \/ TicketStart(r) /\ ~ ApproveRead(r)
         \/ TicketStep(r) /\ ~ ApproveStock(r) /\ ~ ApproveReserve(r)
  PROVE  pc'[r] \notin ApproveSteps
  <1> USE DEF ApproveSteps, Goto, Finish, TypeInv, TypeOK
  <1>1. CASE SessionStart(r) \/ TransferRead(r) \/ TransferSave(r)
    BY <1>1 DEF SessionStart, SessionRead, ScanSerial, ScanBulk, ScanSession,
                RemoveRead, CompleteRead, TransferRead, TransferSave
  <1>2. CASE SessionStep(r)
    BY <1>2 DEF SessionStep, SessionInsert, SessionMark, ScanExport, ScanDevices,
                ScanCheck, ScanPush, RemovePull, CompletePush, CompleteMove,
                CompleteClose, CompleteTotal, CompleteWrite
  <1>3. CASE TicketStart(r) /\ ~ ApproveRead(r)
    BY <1>3 DEF TicketStart, AddItemsRead, SubmitRead, RejectRead, ConfirmRead
  <1>4. CASE TicketStep(r) /\ ~ ApproveStock(r) /\ ~ ApproveReserve(r)
    BY <1>4 DEF TicketStep, AddItemsWrite, SubmitWrite, RejectWrite, ApproveWrite,
                ConfirmMove, ConfirmWrite
  <1> QED BY <1>1, <1>2, <1>3, <1>4

LEMMA ReservationStep ==
  ASSUME OneAtATime, NoPatch, TypeInv, ReservationInv, [Next]_vars
  PROVE  ReservationInv'
  <1>1. FiniteTickets'
    BY FiniteStep DEF ReservationInv
  <1>2. \A q \in Requests : ApprovalAsRead(q)'
    <2>1. CASE UNCHANGED vars
      <3>1. \A model : /\ CountReadyToExport(model)' = CountReadyToExport(model)
                       /\ Reserved(model)' = Reserved(model)
        BY <2>1 DEF vars, CountReadyToExport, Reserved
      <3>2. \A model, more : Covered(model, more)' <=> Covered(model, more)
        BY <3>1 DEF Covered
      <3>3. \A q \in Requests : Checked(q)' = Checked(q)
        BY <2>1 DEF vars, Checked
      <3> QED BY <2>1, <3>1, <3>2, <3>3 DEF vars, ReservationInv, ApprovalAsRead
    <2>2. CASE Crash
      BY <2>2 DEF Crash, ApprovalAsRead, ApproveSteps
    <2>3. ASSUME NEW e \in Exports, TicketDocument(e)
          PROVE  \A q \in Requests : ApprovalAsRead(q)'
      BY <2>3, ApprovalDocument
    <2>4. ASSUME NEW r \in Requests,
                 ApproveRead(r) \/ ApproveStock(r) \/ ApproveReserve(r)
          PROVE  \A q \in Requests : ApprovalAsRead(q)'
      BY <2>4, ApprovalReads
    <2>5. ASSUME NEW r \in Requests, pc'[r] \notin ApproveSteps
          PROVE  \A q \in Requests : ApprovalAsRead(q)'
      <3>1. \A q \in Requests : pc'[q] \notin ApproveSteps
        BY <2>5 DEF OneAtATime
      <3> QED BY <3>1 DEF ApprovalAsRead, ApproveSteps
    <2>6. ASSUME NEW r \in Requests,
                 TicketStart(r) \/ SessionStart(r) \/ TransferRead(r) \/ Step(r)
          PROVE  \A q \in Requests : ApprovalAsRead(q)'
      BY <2>4, <2>5, <2>6, ApprovalOver DEF Step
    <2> QED BY <2>1, <2>2, <2>3, <2>6 DEF Next
  <1> QED BY <1>1, <1>2 DEF ReservationInv

(* Only the write of an approval makes a ticket APPROVED, and by then each *)
(* model of its plan was found covered.                                    *)
LEMMA ApprovalCovers ==
  ASSUME OneAtATime, NoPatch, TypeInv, ReservationInv, [Next]_vars,
         NEW e \in Exports, StatusChanges(e), exp'[e].status = "APPROVED",
         NEW model \in DOMAIN exp[e].plan
  PROVE  Reserved(model)' <= CountReadyToExport(model)'
  <1>0. exp \in [Exports -> TicketRec] /\ exp[e].status \in TicketStatuses
    BY DEF TypeInv, TypeOK, StatusChanges, Exists
  <1>1. PICK r \in Requests : ApproveWrite(r) /\ loc[r].exp = e
    <2>1. ~ (exp' = exp)
      BY DEF StatusChanges
    <2>2. ASSUME NEW f \in Exports, TicketDocument(f) PROVE FALSE
      <3>1. /\ \A g \in Exports \ {f} : exp'[g] = exp[g]
            /\ exp'[f].status = "DELETED" \/ exp[f].status = "ABSENT"
        BY <1>0, <2>2 DEF TicketDocument, CreateTicket, PatchTicket, DeleteTicket,
                          NoPatch, NoTicket
      <3> QED BY <1>0, <3>1 DEF StatusChanges, TicketStatuses
    <2>3. ASSUME NEW r \in Requests, NEW doc, loc[r].exp \in Exports,
                 WriteTicket(loc[r].exp, doc),
                 doc.status \in {exp[loc[r].exp].status} \cup OtherStatuses
          PROVE  FALSE
      BY <1>0, <2>3 DEF WriteTicket, StatusChanges, OtherStatuses
    <2>4. ASSUME NEW r \in Requests, ApproveWrite(r) PROVE loc[r].exp = e
      <3>1. loc[r].exp \in Exports
        BY <2>4 DEF ApproveWrite, TypeInv, HoldsOK, HoldsTicket, TicketCalls
      <3> QED BY <1>0, <2>4, <3>1 DEF ApproveWrite, WriteTicket, StatusChanges
    <2> QED BY <2>1, <2>2, <2>3, <2>4, TicketWriters
  <1> DEFINE doc == [WithStatus(exp[e], "APPROVED") EXCEPT !.approved = TRUE]
  <1>2. /\ exp[e].status = "PENDING_APPROVAL"
        /\ exp[e].plan = loc[r].plan
        /\ Checked(r) = DOMAIN loc[r].plan
        /\ \A m \in Checked(r) : Covered(m, loc[r].plan[m])
    <2>1. pc[r] = "Approve" /\ ApprovalAsRead(r)
      BY <1>1 DEF ApproveWrite, ReservationInv
    <2> QED BY <1>0, <1>1, <2>1 DEF ApprovalAsRead, ApproveSteps, Checked, TicketStatuses
  <1>3. exp' = [exp EXCEPT ![e] = doc] /\ dev' = dev
    BY <1>0, <1>1 DEF ApproveWrite, WriteTicket, Exists
  <1>4. doc.status = "APPROVED" /\ doc.plan = exp[e].plan
    BY <1>0 DEF WithStatus, TicketRec
  <1> HIDE DEF doc
  <1>5. \A f \in Exports : f # e => exp'[f] = exp[f]
    BY <1>0, <1>3
  <1>6. exp'[e] = doc
    BY <1>0, <1>3
  <1>7. \A f \in Exports : exp'[f].plan \in AllPlans
    BY <1>0, <1>4, <1>5, <1>6 DEF TicketRec
  <1>8. IsFiniteSet(Active(exp', model))
    <2>1. IsFiniteSet({f \in Exports : exp'[f].status # "ABSENT"})
      BY FiniteStep DEF ReservationInv, FiniteTickets
    <2> QED BY <2>1, ActiveFinite
  <1>9. e \in Active(exp', model) /\ e \notin Active(exp, model)
    BY <1>2, <1>4, <1>6 DEF Active, Reserving
  <1>10. ReservedIn(exp', model) = doc.plan[model] + ReservedIn(exp, model)
         /\ ReservedIn(exp, model) \in Nat /\ doc.plan[model] \in Nat
    BY <1>5, <1>6, <1>7, <1>8, <1>9, ReservedMore
  <1>11. Reserved(model)' = ReservedIn(exp', model) /\ Reserved(model) = ReservedIn(exp, model)
    BY ReservedMeans DEF Reserved, ReservedIn, Quantities, Active, SumFunction
  <1>12. Covered(model, exp[e].plan[model])
    BY <1>2
  <1>13. CountReadyToExport(model)' = CountReadyToExport(model)
    BY <1>3 DEF CountReadyToExport
  <1>14. CountReadyToExport(model) \in Nat
    BY CountType
  <1> QED BY <1>4, <1>10, <1>11, <1>12, <1>13, <1>14 DEF Covered

(* One request at a time, an approval never promises more than there is:   *)
(* approve() subtracts what the tickets approved and under way reserve     *)
(* from the devices ready for export.                                      *)
THEOREM ApprovalsAreCovered ==
  ASSUME OneAtATime, NoPatch
  PROVE  Spec => NoOverReservation
  <1>1. Init => TypeInv /\ ReservationInv
    BY TypeInit, ReservationInit
  <1>2. TypeInv /\ ReservationInv /\ [Next]_vars => (TypeInv /\ ReservationInv)'
    BY TypeStep, ReservationStep
  <1>3. TypeInv /\ ReservationInv /\ [Next]_vars =>
          [\A e \in Exports :
              StatusChanges(e) /\ exp'[e].status = "APPROVED" =>
                 \A model \in DOMAIN exp[e].plan :
                     Reserved(model)' <= CountReadyToExport(model)']_vars
    BY ApprovalCovers
  <1> QED BY <1>1, <1>2, <1>3, PTL DEF Spec, NoOverReservation

-----------------------------------------------------------------------------
(***************************************************************************)
(* Completed tickets, whatever requests do at the same time.  Sessions     *)
(* only ever add to a ticket and its total is the one it was created with, *)
(* so a ticket found full stays full.  Confirm completes a ticket without  *)
(* looking at its total, a patch replaces the total and addItems writes a  *)
(* list it read earlier: the hypothesis leaves those three out.            *)
(***************************************************************************)
OnlySessionsFill == {"confirm", "patch", "addItems"} \cap Features = {}

Full(e) == exp[e].totalItems >= exp[e].totalQuantity

FullAsRead(r) ==
    /\ pc[r] \notin {"AddItems", "ConfirmMove", "ConfirmWrite"}
    /\ pc[r] = "CompleteWrite" => /\ exp[loc[r].exp].status # "ABSENT"
                                  /\ Exists(loc[r].exp) => Full(loc[r].exp)

FullInv == CompletedMeansFull /\ \A r \in Requests : FullAsRead(r)

LEMMA TotalType == Totals \subseteq Nat
  <1> SUFFICES ASSUME NEW plan \in AllPlans PROVE TotalOf(plan) \in Nat
    BY DEF Totals
  <1>1. IsFiniteSet(DOMAIN plan)
    BY PlanAssumption, FS_EmptySet DEF AllPlans, NoPlan
  <1>2. SumFunctionOnSet(plan, DOMAIN plan) \in Nat
    BY <1>1, QuantityType, SumType
  <1> QED BY <1>2 DEF TotalOf, SumFunction

LEMMA FullInit == Init => FullInv
  BY DEF Init, NoTicket, FullInv, CompletedMeansFull, FullAsRead

(* What a step may do to a ticket: nothing shrinks, and only CompleteWrite *)
(* completes.                                                              *)
LEMMA TicketFills ==
  ASSUME OnlySessionsFill, TypeInv, FullInv, [Next]_vars, NEW e \in Exports
  PROVE  /\ exp[e].status # "ABSENT" =>
               /\ exp'[e].status # "ABSENT"
               /\ Exists(e)' => /\ Exists(e)
                                /\ exp'[e].totalItems >= exp[e].totalItems
                                /\ exp'[e].totalQuantity = exp[e].totalQuantity
         /\ exp'[e].status = "COMPLETED" =>
               \/ exp[e].status = "COMPLETED"
               \/ \E r \in Requests : pc[r] = "CompleteWrite" /\ loc[r].exp = e
  <1> DEFINE Fills ==
        /\ exp[e].status # "ABSENT" =>
              /\ exp'[e].status # "ABSENT"
              /\ Exists(e)' => /\ Exists(e)
                               /\ exp'[e].totalItems >= exp[e].totalItems
                               /\ exp'[e].totalQuantity = exp[e].totalQuantity
        /\ exp'[e].status = "COMPLETED" =>
              \/ exp[e].status = "COMPLETED"
              \/ \E r \in Requests : pc[r] = "CompleteWrite" /\ loc[r].exp = e
  <1> SUFFICES Fills
    OBVIOUS
  <1>0. /\ exp \in [Exports -> TicketRec] /\ exp[e] \in TicketRec
        /\ exp[e].totalItems \in Nat /\ exp[e].totalQuantity \in Nat
    BY TotalType DEF TypeInv, TypeOK, TicketRec
  <1>1. CASE exp' = exp
    BY <1>0, <1>1 DEF Exists
  <1>2. ASSUME NEW f \in Exports, TicketDocument(f) PROVE Fills
    <2>1. CASE CreateTicket(f)
      BY <1>0, <2>1, BodyFields, BlankType DEF CreateTicket, Exists
    <2>2. CASE DeleteTicket(f)
      BY <1>0, <2>2 DEF DeleteTicket, NoTicket, Exists, TicketStatuses
    <2> QED BY <1>2, <2>1, <2>2 DEF TicketDocument, PatchTicket, OnlySessionsFill
  <1>3. ASSUME NEW r \in Requests, NEW status \in TicketStatuses,
               WriteTicket(loc[r].exp, WithStatus(exp[loc[r].exp], status)),
               status = "COMPLETED" => pc[r] = "CompleteWrite"
        PROVE  Fills
    <2>1. \/ exp' = exp
          \/ exp' = [exp EXCEPT ![loc[r].exp] = WithStatus(exp[loc[r].exp], status)]
             /\ Exists(loc[r].exp)
      BY <1>3 DEF WriteTicket
    <2>2. CASE loc[r].exp = e
      <3>1. /\ WithStatus(exp[e], status).status = status
            /\ WithStatus(exp[e], status).totalItems = exp[e].totalItems
            /\ WithStatus(exp[e], status).totalQuantity = exp[e].totalQuantity
        BY <1>0 DEF WithStatus, TicketRec
      <3> QED BY <1>0, <1>1, <1>3, <2>1, <2>2, <3>1 DEF Exists, TicketStatuses
    <2>3. CASE loc[r].exp # e
      BY <1>0, <1>1, <2>1, <2>3 DEF Exists
    <2> QED BY <2>2, <2>3
  <1>4. ASSUME NEW r \in Requests, TicketStep(r) PROVE Fills
    <2>1. pc[r] \notin {"AddItems", "ConfirmMove", "ConfirmWrite"}
      BY DEF FullInv, FullAsRead
    <2>2. CASE SubmitWrite(r) \/ RejectWrite(r)
      BY <1>3, <2>2 DEF SubmitWrite, RejectWrite, TicketStatuses
    <2>3. CASE ApproveWrite(r)
      <3> DEFINE f == loc[r].exp
                 doc == [WithStatus(exp[f], "APPROVED") EXCEPT !.approved = TRUE]
      <3>1. \/ exp' = exp
            \/ exp' = [exp EXCEPT ![f] = doc] /\ Exists(f)
        BY <2>3 DEF ApproveWrite, WriteTicket
      <3>2. CASE f = e
        <4>1. /\ doc.status = "APPROVED"
              /\ doc.totalItems = exp[e].totalItems
              /\ doc.totalQuantity = exp[e].totalQuantity
          BY <1>0, <3>2 DEF WithStatus, TicketRec
        <4> HIDE DEF doc, f
        <4> QED BY <1>0, <1>1, <3>1, <3>2, <4>1 DEF Exists, TicketStatuses
      <3>3. CASE f # e
        BY <1>0, <1>1, <3>1, <3>3 DEF Exists
      <3> QED BY <3>2, <3>3
    <2>4. CASE ApproveStock(r) \/ ApproveReserve(r)
      BY <1>1, <2>4 DEF ApproveStock, ApproveReserve
    <2> QED BY <1>4, <2>1, <2>2, <2>3, <2>4 DEF TicketStep, AddItemsWrite,
               ConfirmMove, ConfirmWrite
  <1>5. ASSUME NEW r \in Requests, SessionStep(r) PROVE Fills
    <2>1. CASE SessionMark(r) \/ CompleteWrite(r)
      BY <1>3, <2>1 DEF SessionMark, CompleteWrite, TicketStatuses
    <2>2. CASE CompletePush(r)
      <3> DEFINE f == loc[r].exp
                 n == Len(loc[r].items)
                 doc == [exp[f] EXCEPT !.items = @ \o loc[r].items,
                                       !.totalItems = @ + n]
      <3>1. \/ exp' = exp
            \/ exp' = [exp EXCEPT ![f] = doc] /\ Exists(f)
        BY <2>2 DEF CompletePush, WriteTicket
      <3>2. CASE f = e
        <4>1. /\ doc.status = exp[e].status
              /\ doc.totalItems = exp[e].totalItems + n
              /\ doc.totalQuantity = exp[e].totalQuantity
          BY <1>0, <3>2 DEF TicketRec
        <4>2. n \in Nat
          BY DEF TypeInv, TypeOK, LocRec
        <4> HIDE DEF doc, f, n
        <4> QED BY <1>0, <1>1, <3>1, <3>2, <4>1, <4>2 DEF Exists, TicketStatuses
      <3>3. CASE f # e
        BY <1>0, <1>1, <3>1, <3>3 DEF Exists
      <3> QED BY <3>2, <3>3
    <2>3. CASE ~ (SessionMark(r) \/ CompleteWrite(r) \/ CompletePush(r))
      <3>1. exp' = exp
        BY <1>5, <2>3 DEF SessionStep, SessionInsert, ScanExport, ScanDevices, ScanCheck,
              ScanPush, RemovePull, CompleteMove, CompleteClose, CompleteTotal
      <3> QED BY <1>1, <3>1
    <2> QED BY <2>1, <2>2, <2>3
  <1>6. ASSUME \/ UNCHANGED vars \/ Crash
               \/ \E r \in Requests : \/ TicketStart(r) \/ SessionStart(r)
                                      \/ TransferRead(r) \/ TransferSave(r)
        PROVE  exp' = exp
    BY <1>6 DEF vars, Crash, TicketStart, AddItemsRead, SubmitRead, RejectRead,
                ApproveRead, ConfirmRead, SessionStart, SessionRead, ScanSerial,
                ScanBulk, ScanSession, RemoveRead, CompleteRead, TransferRead,
                TransferSave
  <1> HIDE DEF Fills
  <1> QED BY <1>1, <1>2, <1>4, <1>5, <1>6 DEF Next, Step

LEMMA FullStep ==
  ASSUME OnlySessionsFill, TypeInv, FullInv, [Next]_vars PROVE FullInv'
  <1>0. \A e \in Exports : /\ exp[e].totalItems \in Nat /\ exp'[e].totalItems \in Nat
                           /\ exp[e].totalQuantity \in Nat
                           /\ exp'[e].totalQuantity \in Nat
    <2>1. TypeInv'
      BY TypeStep
    <2> QED BY <2>1, TotalType DEF TypeInv, TypeOK, TicketRec
  <1>1. ASSUME NEW e \in Exports, exp[e].status # "ABSENT",
               Exists(e) => Full(e)
        PROVE  exp'[e].status # "ABSENT" /\ (Exists(e)' => Full(e)')
    BY <1>0, <1>1, TicketFills DEF Full
  <1>2. CompletedMeansFull'
    <2> SUFFICES ASSUME NEW e \in Exports, exp'[e].status = "COMPLETED" PROVE Full(e)'
      BY DEF CompletedMeansFull, Full
    <2>1. \/ exp[e].status = "COMPLETED" /\ Full(e)
          \/ exp[e].status # "ABSENT" /\ (Exists(e) => Full(e))
      BY TicketFills DEF FullInv, FullAsRead, CompletedMeansFull, Full
    <2> QED BY <1>1, <2>1 DEF Exists, TicketStatuses
  <1>3. \A r \in Requests : FullAsRead(r)'
    <2> SUFFICES ASSUME NEW r \in Requests PROVE FullAsRead(r)'
      OBVIOUS
    <2>0. pc \in [Requests -> Steps] /\ loc \in [Requests -> LocRec] /\ FullAsRead(r)
      BY DEF TypeInv, TypeOK, FullInv
    <2>1. CASE pc'[r] = pc[r] /\ loc'[r] = loc[r]
      <3>1. pc[r] = "CompleteWrite" => loc[r].exp \in Exports
        BY DEF TypeInv, HoldsOK, HoldsTicket, TicketCalls
      <3> QED BY <1>1, <2>0, <2>1, <3>1 DEF FullAsRead, Exists
    <2>2. CASE pc'[r] \notin {"AddItems", "ConfirmMove", "ConfirmWrite", "CompleteWrite"}
      BY <2>2 DEF FullAsRead
    <2>3. CASE CompleteTotal(r)
      <3>1. pc[r] = "CompleteTotal" /\ exp' = exp /\ loc[r].exp \in Exports
        BY <2>3 DEF CompleteTotal, TypeInv, HoldsOK, HoldsTicket, TicketCalls
      <3>2. \/ pc'[r] = "Idle"
            \/ /\ pc'[r] = "CompleteWrite" /\ loc'[r] = loc[r]
               /\ Exists(loc[r].exp)
               /\ Full(loc[r].exp)
        BY <2>0, <2>3 DEF CompleteTotal, Goto, Finish, Full
      <3> QED BY <3>1, <3>2 DEF FullAsRead, Exists, TicketStatuses, Full
    <2>4. ASSUME NEW q \in Requests,
                 TicketStart(q) \/ SessionStart(q) \/ TransferRead(q) \/ Step(q)
          PROVE  FullAsRead(r)'
      <3>0. FullAsRead(q)
        BY DEF FullInv
      <3>1. CASE q # r
        <4>1. pc'[r] = pc[r] /\ loc'[r] = loc[r]
          BY <2>0, <2>4, <3>1 DEF Goto, Finish, Step,
             TicketStart, AddItemsRead, SubmitRead, RejectRead, ApproveRead, ConfirmRead,
             SessionStart, SessionRead, ScanSerial, ScanBulk, ScanSession, RemoveRead,
             CompleteRead, TransferRead, TransferSave,
             TicketStep, AddItemsWrite, SubmitWrite, RejectWrite, ApproveStock,
             ApproveReserve, ApproveWrite, ConfirmMove, ConfirmWrite,
             SessionStep, SessionInsert, SessionMark, ScanExport, ScanDevices, ScanCheck,
             ScanPush, RemovePull, CompletePush, CompleteMove, CompleteClose,
             CompleteTotal, CompleteWrite
        <4> QED BY <2>1, <4>1
      <3>2. CASE q = r /\ (TicketStart(q) \/ SessionStart(q) \/ TransferRead(q))
        BY <2>0, <2>2, <2>4, <3>2 DEF Goto, OnlySessionsFill,
           TicketStart, AddItemsRead, SubmitRead, RejectRead, ApproveRead, ConfirmRead,
           SessionStart, SessionRead, ScanSerial, ScanBulk, ScanSession, RemoveRead,
           CompleteRead, TransferRead
      <3>3. CASE q = r /\ (TicketStep(q) \/ TransferSave(q))
        BY <2>0, <2>2, <2>4, <3>0, <3>3 DEF Goto, Finish, FullAsRead, TransferSave,
           TicketStep, AddItemsWrite, SubmitWrite, RejectWrite, ApproveStock,
           ApproveReserve, ApproveWrite, ConfirmMove, ConfirmWrite
      <3>4. CASE q = r /\ SessionStep(q)
        BY <2>0, <2>2, <2>3, <2>4, <3>4 DEF Goto, Finish,
           SessionStep, SessionInsert, SessionMark, ScanExport, ScanDevices, ScanCheck,
           ScanPush, RemovePull, CompletePush, CompleteMove, CompleteClose,
           CompleteWrite
      <3> QED BY <2>4, <3>1, <3>2, <3>3, <3>4 DEF Step
    <2>5. CASE UNCHANGED vars \/ Crash \/ \E e \in Exports : TicketDocument(e)
      <3>1. \/ pc'[r] = pc[r] /\ loc'[r] = loc[r]
            \/ pc'[r] = "Idle"
        BY <2>5 DEF vars, Crash, TicketDocument, CreateTicket, PatchTicket, DeleteTicket
      <3> QED BY <2>1, <2>2, <3>1
    <2> QED BY <2>4, <2>5 DEF Next
  <1> QED BY <1>2, <1>3 DEF FullInv

(* completeSession completes a ticket only when it holds what it asks for, *)
(* in any interleaving of the requests and over any crash.                 *)
THEOREM CompletedIsFull ==
  ASSUME OnlySessionsFill
  PROVE  Spec => []CompletedMeansFull
  <1>1. Init => TypeInv /\ FullInv
    BY TypeInit, FullInit
  <1>2. TypeInv /\ FullInv /\ [Next]_vars => (TypeInv /\ FullInv)'
    BY TypeStep, FullStep
  <1>3. FullInv => CompletedMeansFull
    BY DEF FullInv
  <1> QED BY <1>1, <1>2, <1>3, PTL DEF Spec

-----------------------------------------------------------------------------
(* A mac that validate-macs finds valid for export is accepted by a scan   *)
(* whenever no session in progress has it, and the other way round.        *)
THEOREM ValidMacsScan == Spec => []ValidatedIsScannable
  <1>1. TypeInv => ValidatedIsScannable
    <2> SUFFICES ASSUME TypeInv, NEW s \in Sessions, ses[s].status = "IN_PROGRESS",
                        NEW mac \in Macs, NEW model \in DOMAIN exp[ses[s].exp].plan
                 PROVE  /\ \A other \in Macs \cup {None} :
                             /\ mac \in ValidMacs(<<mac, other>>, model,
                                                  "READY_TO_EXPORT")
                             /\ ~ Held(mac)
                             => ValidScan(ScanNow(s), mac)
                        /\ ValidScan(ScanNow(s), mac) =>
                             mac \in ValidMacs(<<mac>>, ModelOf[mac], "READY_TO_EXPORT")
      BY DEF ValidatedIsScannable
    <2>1. /\ ScanNow(s).ses = s
          /\ ScanNow(s).items = ses[s].items
          /\ ScanNow(s).models = DOMAIN exp[ses[s].exp].plan
          /\ ScanNow(s).ready = {m \in Macs : dev[m].wh = "READY_TO_EXPORT"}
      BY DEF ScanNow, Blank
    <2>2. ASSUME NEW other \in Macs \cup {None}, ~ Held(mac),
                 mac \in ValidMacs(<<mac, other>>, model, "READY_TO_EXPORT")
          PROVE  ValidScan(ScanNow(s), mac)
      <3>1. ModelOf[mac] = model /\ dev[mac].wh = "READY_TO_EXPORT"
        BY <2>2 DEF ValidMacs
      <3>2. ~ Stores(ses[s].items, mac) /\ ~ LockedElsewhere(mac, s)
        BY <2>2 DEF Held, LockedElsewhere
      <3> QED BY <2>1, <3>1, <3>2 DEF ValidScan
    <2>3. ASSUME ValidScan(ScanNow(s), mac)
          PROVE  mac \in ValidMacs(<<mac>>, ModelOf[mac], "READY_TO_EXPORT")
      <3>1. dev[mac].wh = "READY_TO_EXPORT"
        BY <2>1, <2>3 DEF ValidScan
      <3>2. ~ Repeated(<<mac>>, mac)
        <4>1. {i \in DOMAIN <<mac>> : <<mac>>[i] = mac} = {1}
          OBVIOUS
        <4> QED BY <4>1, FS_Singleton DEF Repeated
      <3>3. mac \in ToSet(<<mac>>)
        BY DEF ToSet
      <3> QED BY <3>1, <3>2, <3>3 DEF ValidMacs
    <2> QED BY <2>2, <2>3
  <1> QED BY <1>1, TypeInvariant, PTL

=============================================================================
