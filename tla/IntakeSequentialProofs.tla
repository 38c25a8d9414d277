----------------------- MODULE IntakeSequentialProofs ----------------------
(***************************************************************************)
(* What the intake side guarantees where one request is served at a time,  *)
(* crashes included, for every set of tickets, sessions and devices: the   *)
(* progress of a ticket covers the stock it brought, agrees with its lines *)
(* and its inventory status, and a completed session is in stock.          *)
(***************************************************************************)
EXTENDS IntakeProofs

(* At most one request is in flight.                                       *)
OneAtATime == \A q, r \in Requests : q = r

(* No client puts progress in the body of an update.                       *)
NoClientProgress == "clientProgress" \notin Features

-----------------------------------------------------------------------------
(***************************************************************************)
(* What was read still holds when it is used.  A ticket that has sessions  *)
(* is no draft any more: update and delete work on others.                 *)
(***************************************************************************)
Begun(i) == Exists(i) /\ ~ Draft(i)

AsRead(r) ==
    LET l == loc[r] IN
    /\ pc[r] \in {"UpdateImport", "DeleteImport"} => Draft(l.imp)
    /\ pc[r] \in {"CloseSessions", "CloseImport"} =>
          Exists(l.imp) /\ imp[l.imp].imported >= imp[l.imp].total
    /\ pc[r] = "SessionInsert" => Begun(l.imp) /\ ses[l.ses].status = "ABSENT"
    /\ pc[r] \in OpenCalls => Open(l.ses)
    /\ pc[r] \in CompleteCalls => /\ l.imp = ses[l.ses].imp
                                  /\ l.details = ses[l.ses].details
                                  /\ l.scanned = Len(l.details)
    /\ pc[r] \in {"CompleteInsert", "CompleteProgress", "CompleteCount"} =>
          l.imported = imp[l.imp].imported
    /\ pc[r] = "CompleteCount" => l.ticket = Counted(imp[l.imp], l)

SessionTickets == \A s \in Sessions : Allocated(s) => Begun(ses[s].imp)

ReadInv == SessionTickets /\ \A r \in Requests : AsRead(r)

(* The request that moves is the only one there is.                        *)
LEMMA Alone ==
  ASSUME OneAtATime, TypeInv, NEW r \in Requests, NEW step, NEW l, Goto(r, step, l)
  PROVE  \A q \in Requests : pc'[q] = step /\ loc'[q] = l
  BY DEF OneAtATime, TypeInv, TypeOK, Goto

LEMMA OpenIsAllocated == \A s : Open(s) => Allocated(s)
  BY DEF Open, Allocated, SessionStatuses

(* A completion works on the ticket of its session, which has begun.       *)
LEMMA CompletesBegun ==
  ASSUME TypeInv, ReadInv, NEW r \in Requests, pc[r] \in CompleteCalls
  PROVE  /\ loc[r].ses \in Sessions /\ loc[r].imp \in Imports
         /\ loc[r].imp = ses[loc[r].ses].imp
         /\ Begun(loc[r].imp)
  <1>1. AsRead(r) /\ Holds(pc[r], loc[r])
    BY DEF ReadInv, TypeInv, HoldsOK
  <1> QED BY <1>1, OpenIsAllocated DEF AsRead, Holds, OpenCalls, ImportCalls, ReadInv,
             SessionTickets

(* What a step does to a ticket: it is made or emptied, it is a draft that *)
(* gets another status, it is closed, or a completed session counts.       *)
Emptied(i) == /\ imp[i].status \in {"ABSENT", "DRAFT"}
              /\ imp'[i].imported = 0
              /\ imp'[i].lines = NoLines
Restated(i) == /\ Draft(i)
               /\ imp'[i].imported = imp[i].imported
               /\ imp'[i].lines = imp[i].lines
               /\ imp'[i].plan = imp[i].plan
               /\ imp'[i].total = imp[i].total
               /\ imp'[i].inventory = imp[i].inventory
Closed(i) == /\ Exists(i)
             /\ imp[i].imported >= imp[i].total
             /\ imp'[i].inventory = "completed"
             /\ imp'[i].status = imp[i].status
             /\ imp'[i].imported = imp[i].imported
             /\ imp'[i].lines = imp[i].lines
             /\ imp'[i].plan = imp[i].plan
             /\ imp'[i].total = imp[i].total
CountedFor(i, r) ==
    LET l == loc[r] IN
    /\ CompleteCount(r) /\ l.imp = i
    /\ Exists(i)
    /\ imp'[i].status = imp[i].status
    /\ imp'[i].imported = imp[i].imported + Len(l.details)
    /\ imp'[i].inventory = Inventory(imp[i], imp'[i].imported)
    /\ imp'[i].plan = imp[i].plan
    /\ imp'[i].total = imp[i].total
    /\ imp'[i].lines = [m \in Models |-> IF m \in DOMAIN imp[i].plan
                          THEN imp[i].lines[m] + ScannedOf(l.details, m)
                          ELSE imp[i].lines[m]]

LEMMA CreateMoves ==
  ASSUME TypeInv, NEW j \in Imports, CreateImport(j), NEW i \in Imports
  PROVE  imp'[i] = imp[i] \/ Emptied(i)
  <1>1. PICK status \in ImportStatuses, plan \in Plans :
           imp' = [imp EXCEPT ![j] = [WithPlan(NoImport, plan) EXCEPT
                                        !.status = status,
                                        !.published = status = "PUBLIC"]]
    BY DEF CreateImport
  <1> DEFINE doc == [WithPlan(NoImport, plan) EXCEPT !.status = status,
                                                     !.published = status = "PUBLIC"]
  <1>2. doc.imported = 0 /\ doc.lines = NoLines
    BY DEF WithPlan, NoImport
  <1>3. imp'[i] = IF i = j THEN doc ELSE imp[i]
    BY <1>1 DEF TypeInv, TypeOK
  <1>4. imp[j].status = "ABSENT"
    BY DEF CreateImport
  <1> HIDE DEF doc
  <1> QED BY <1>2, <1>3, <1>4 DEF Emptied

LEMMA UpdateMoves ==
  ASSUME NoClientProgress, TypeInv, ReadInv, NEW r \in Requests, UpdateImportWrite(r),
         NEW i \in Imports
  PROVE  imp'[i] = imp[i] \/ Emptied(i) \/ Restated(i)
  <1> DEFINE j == loc[r].imp
  <1>1. j \in Imports /\ Draft(j) /\ imp[j] \in ImportRec
    BY DEF UpdateImportWrite, TypeInv, TypeOK, HoldsOK, Holds, ImportCalls, ReadInv, AsRead
  <1>2. PICK status \in {imp[j].status} \cup UpdatedStatuses,
             progress \in ClientProgress \cup {<<imp[j].imported, imp[j].inventory>>} :
          LET doc == [imp[j] EXCEPT !.status = status,
                                    !.imported = progress[1],
                                    !.inventory = progress[2]]
          IN  \/ WriteImport(j, doc)
              \/ \E plan \in Plans : WriteImport(j, WithPlan(doc, plan))
    BY DEF UpdateImportWrite
  <1>a. progress[1] = imp[j].imported /\ progress[2] = imp[j].inventory
    BY DEF ClientProgress, NoClientProgress
  <1> DEFINE doc == [imp[j] EXCEPT !.status = status,
                                   !.imported = progress[1],
                                   !.inventory = progress[2]]
  <1>3. /\ doc.imported = imp[j].imported /\ doc.lines = imp[j].lines
        /\ doc.plan = imp[j].plan /\ doc.total = imp[j].total
        /\ doc.inventory = imp[j].inventory
        /\ doc \in ImportRec
    BY <1>1, <1>a DEF ImportRec
  <1>4. WriteImport(j, doc) \/ \E plan \in Plans : WriteImport(j, WithPlan(doc, plan))
    BY <1>2
  <1> HIDE DEF doc
  <1>5. CASE WriteImport(j, doc)
    <2> DEFINE new == [doc EXCEPT !.published = @ \/ doc.status = "PUBLIC"]
    <2>1. /\ new.imported = doc.imported /\ new.lines = doc.lines /\ new.plan = doc.plan
          /\ new.total = doc.total /\ new.inventory = doc.inventory
      BY <1>3 DEF ImportRec
    <2>2. imp' = [imp EXCEPT ![j] = new]
      BY <1>1, <1>5 DEF WriteImport, Draft, Exists, UpdatedStatuses, ImportStatuses
    <2> HIDE DEF new
    <2>3. imp'[i] = IF i = j THEN new ELSE imp[i]
      BY <2>2 DEF TypeInv, TypeOK
    <2> QED BY <1>1, <1>3, <2>1, <2>3 DEF Restated
  <1>6. ASSUME NEW plan \in Plans, WriteImport(j, WithPlan(doc, plan))
        PROVE  imp'[i] = imp[i] \/ Emptied(i)
    <2> DEFINE listed == WithPlan(doc, plan)
               new == [listed EXCEPT !.published = @ \/ listed.status = "PUBLIC"]
    <2>1. new.imported = 0 /\ new.lines = NoLines
      BY <1>3 DEF WithPlan, ImportRec
    <2>2. imp' = [imp EXCEPT ![j] = new]
      BY <1>1, <1>6 DEF WriteImport, Draft, Exists, UpdatedStatuses, ImportStatuses
    <2> HIDE DEF new
    <2>3. imp'[i] = IF i = j THEN new ELSE imp[i]
      BY <2>2 DEF TypeInv, TypeOK
    <2> QED BY <1>1, <2>1, <2>3 DEF Emptied, Draft
  <1> QED BY <1>4, <1>5, <1>6

LEMMA DeleteMoves ==
  ASSUME TypeInv, ReadInv, NEW r \in Requests, DeleteImportWrite(r), NEW i \in Imports
  PROVE  imp'[i] = imp[i] \/ Emptied(i)
  <1> DEFINE j == loc[r].imp
             new == [NoImport EXCEPT !.status = "DELETED", !.published = @ \/ imp[j].published]
  <1>1. Draft(j)
    BY DEF DeleteImportWrite, ReadInv, AsRead
  <1>2. imp' = imp \/ imp' = [imp EXCEPT ![j] = new]
    BY DEF DeleteImportWrite
  <1>3. new.imported = 0 /\ new.lines = NoLines
    BY DEF NoImport
  <1> HIDE DEF new
  <1>4. imp'[i] = imp[i] \/ (i = j /\ imp'[i] = new)
    BY <1>2 DEF TypeInv, TypeOK
  <1> QED BY <1>1, <1>3, <1>4 DEF Emptied, Draft

LEMMA CloseMoves ==
  ASSUME TypeInv, ReadInv, NEW r \in Requests, CloseWrite(r), NEW i \in Imports
  PROVE  imp'[i] = imp[i] \/ Closed(i)
  <1> DEFINE j == loc[r].imp
             doc == [imp[j] EXCEPT !.inventory = "completed"]
             new == [doc EXCEPT !.published = @ \/ doc.status = "PUBLIC"]
  <1>1. /\ j \in Imports /\ imp[j] \in ImportRec
        /\ Exists(j) /\ imp[j].imported >= imp[j].total
    BY DEF CloseWrite, ReadInv, AsRead, TypeInv, TypeOK, HoldsOK, Holds, ImportCalls
  <1>2. imp' = [imp EXCEPT ![j] = new]
    BY <1>1 DEF CloseWrite, WriteImport
  <1>3. /\ new.inventory = "completed" /\ new.status = imp[j].status
        /\ new.imported = imp[j].imported /\ new.lines = imp[j].lines
        /\ new.plan = imp[j].plan /\ new.total = imp[j].total
    BY <1>1 DEF ImportRec
  <1> HIDE DEF new
  <1>4. imp'[i] = IF i = j THEN new ELSE imp[i]
    BY <1>2 DEF TypeInv, TypeOK
  <1> QED BY <1>1, <1>3, <1>4 DEF Closed

LEMMA CountMoves ==
  ASSUME TypeInv, ReadInv, NEW r \in Requests, CompleteCount(r), NEW i \in Imports
  PROVE  IF i = loc[r].imp THEN CountedFor(i, r) ELSE imp'[i] = imp[i]
  <1> DEFINE l == loc[r]
             j == l.imp
             doc == [imp[j] EXCEPT !.imported = l.ticket.imported,
                                   !.inventory = l.ticket.inventory,
                                   !.plan = l.ticket.plan,
                                   !.lines = l.ticket.lines]
             new == [doc EXCEPT !.published = @ \/ doc.status = "PUBLIC"]
  <1>0. pc[r] = "CompleteCount"
    BY DEF CompleteCount
  <1>1. j \in Imports /\ imp[j] \in ImportRec /\ Exists(j)
    BY <1>0, CompletesBegun DEF CompleteCalls, Begun, TypeInv, TypeOK
  <1>2. /\ l.ticket = Counted(imp[j], l)
        /\ l.imported + l.scanned = imp[j].imported + Len(l.details)
    BY <1>0 DEF CompleteCalls, ReadInv, AsRead
  <1>3. /\ l.ticket.imported = imp[j].imported + Len(l.details)
        /\ l.ticket.inventory = Inventory(imp[j], imp[j].imported + Len(l.details))
        /\ l.ticket.plan = imp[j].plan
        /\ l.ticket.lines = [m \in Models |-> IF m \in DOMAIN imp[j].plan
                               THEN imp[j].lines[m] + ScannedOf(l.details, m)
                               ELSE imp[j].lines[m]]
    BY <1>1, <1>2 DEF Counted, ImportRec
  <1>4. imp' = [imp EXCEPT ![j] = new]
    BY <1>1 DEF CompleteCount, WriteImport
  <1>5. /\ new.status = imp[j].status /\ new.total = imp[j].total
        /\ new.imported = l.ticket.imported /\ new.inventory = l.ticket.inventory
        /\ new.plan = l.ticket.plan /\ new.lines = l.ticket.lines
    BY <1>1 DEF ImportRec
  <1> HIDE DEF new
  <1>6. imp'[i] = IF i = j THEN new ELSE imp[i]
    BY <1>4 DEF TypeInv, TypeOK
  <1> QED BY <1>1, <1>3, <1>5, <1>6 DEF CountedFor

LEMMA TicketMoves ==
  ASSUME NoClientProgress, TypeInv, ReadInv, [Next]_vars, NEW i \in Imports
  PROVE  \/ imp'[i] = imp[i]
         \/ Emptied(i)
         \/ Restated(i)
         \/ Closed(i)
         \/ \E r \in Requests : CountedFor(i, r)
  <1>1. ASSUME NEW r \in Requests, StartRequest(r) PROVE imp' = imp
    BY <1>1 DEF StartRequest, UpdateImportRead, DeleteImportRead, CloseRead,
                SessionRead, ScanRead, UpdateSessionRead, RemoveRead, CompleteRead
  <1>2. ASSUME NEW r \in Requests, Step(r)
        PROVE  \/ imp' = imp \/ CompleteCount(r)
               \/ UpdateImportWrite(r) \/ DeleteImportWrite(r) \/ CloseWrite(r)
    BY <1>2 DEF Step, CloseSessions, SessionInsert, ScanPush, UpdateSessionWrite,
                RemoveSave, CompleteCheck, CompleteTicket, CompleteInsert,
                CompleteProgress, CompleteCommit
  <1>3. CASE UNCHANGED vars \/ Crash
    BY <1>3 DEF vars, Crash
  <1> QED BY <1>1, <1>2, <1>3, CreateMoves, UpdateMoves, DeleteMoves, CloseMoves,
             CountMoves DEF Next

(* A ticket that has begun stays so.                                       *)
LEMMA BegunStays ==
  ASSUME NoClientProgress, TypeInv, ReadInv, [Next]_vars, NEW i \in Imports, Begun(i)
  PROVE  Begun(i)'
  <1>1. imp'[i].status = imp[i].status
    BY TicketMoves DEF Begun, Draft, Exists, UpdatedStatuses, ImportStatuses, Emptied,
                       Restated, Closed, CountedFor
  <1> QED BY <1>1 DEF Begun, Draft, Exists

LEMMA TicketsStep ==
  ASSUME NoClientProgress, TypeInv, ReadInv, [Next]_vars PROVE SessionTickets'
  <1> SUFFICES ASSUME NEW s \in Sessions, Allocated(s)' PROVE Begun(ses[s].imp)'
    BY DEF SessionTickets
  <1>1. PICK i \in Imports : ses'[s].imp = i /\ Begun(i)
    <2>1. CASE Allocated(s) /\ ses'[s].imp = ses[s].imp
      BY <2>1 DEF ReadInv, SessionTickets, TypeInv, SessionsOK
    <2>2. ASSUME NEW r \in Requests, pc[r] = "SessionInsert", ses'[s].imp = loc[r].imp
          PROVE  \E i \in Imports : ses'[s].imp = i /\ Begun(i)
      BY <2>2 DEF ReadInv, AsRead, TypeInv, HoldsOK, Holds, ImportCalls
    <2> QED BY <2>1, <2>2, SessionsFollow
  <1>2. Begun(i)'
    BY <1>1, BegunStays
  <1> QED BY <1>1, <1>2 DEF Begun, Exists, Draft

LEMMA ReadInit == Init => ReadInv
  BY DEF Init, ReadInv, SessionTickets, AsRead, Allocated, SessionStatuses, NoSession,
         OpenCalls, CompleteCalls

(* The last step of a handler leaves nothing to rely on.                   *)
LEMMA EndAsRead ==
  ASSUME OneAtATime, TypeInv, NEW r \in Requests, Finish(r)
  PROVE  \A q \in Requests : AsRead(q)'
  <1>1. \A q \in Requests : pc'[q] = "Idle"
    BY Alone DEF Finish
  <1> QED BY <1>1 DEF AsRead, OpenCalls, CompleteCalls

(* The first call of a handler reads what the later ones rely on.          *)
LEMMA StartAsRead ==
  ASSUME OneAtATime, TypeInv, ScannedMatchesDetails, NEW r \in Requests, StartRequest(r)
  PROVE  \A q \in Requests : AsRead(q)'
  <1>0. UNCHANGED <<imp, ses>>
    BY DEF StartRequest, UpdateImportRead, DeleteImportRead, CloseRead,
                SessionRead, ScanRead, UpdateSessionRead, RemoveRead, CompleteRead
  <1>1. CASE UpdateImportRead(r) \/ DeleteImportRead(r)
    <2>1. PICK i \in Imports, step \in {"UpdateImport", "DeleteImport"} :
             Draft(i) /\ Goto(r, step, [Blank EXCEPT !.imp = i])
      BY <1>1 DEF UpdateImportRead, DeleteImportRead
    <2>2. PICK next : next = [Blank EXCEPT !.imp = i]
      OBVIOUS
    <2>3. next.imp = i
      BY <2>2 DEF Blank
    <2>4. \A q \in Requests : pc'[q] = step /\ loc'[q] = next
      BY <2>1, <2>2, Alone
    <2> QED BY <1>0, <2>1, <2>3, <2>4 DEF AsRead, OpenCalls, CompleteCalls, Draft
  <1>2. CASE CloseRead(r)
    <2>1. PICK i \in Imports :
             /\ Exists(i) /\ imp[i].imported >= imp[i].total
             /\ Goto(r, "CloseSessions", [Blank EXCEPT !.imp = i])
      BY <1>2 DEF CloseRead
    <2>2. PICK next : next = [Blank EXCEPT !.imp = i]
      OBVIOUS
    <2>3. next.imp = i
      BY <2>2 DEF Blank
    <2>4. \A q \in Requests : pc'[q] = "CloseSessions" /\ loc'[q] = next
      BY <2>1, <2>2, Alone
    <2> QED BY <1>0, <2>1, <2>3, <2>4 DEF AsRead, OpenCalls, CompleteCalls, Exists
  <1>3. CASE SessionRead(r)
    <2>1. PICK i \in Imports, s \in Sessions :
             /\ Countable(i) /\ FreshSession(s)
             /\ Goto(r, "SessionInsert", [Blank EXCEPT !.imp = i, !.ses = s])
      BY <1>3 DEF SessionRead
    <2>2. PICK next : next = [Blank EXCEPT !.imp = i, !.ses = s]
      OBVIOUS
    <2>3. next.imp = i /\ next.ses = s
      BY <2>2 DEF Blank
    <2>4. \A q \in Requests : pc'[q] = "SessionInsert" /\ loc'[q] = next
      BY <2>1, <2>2, Alone
    <2>5. Begun(i) /\ ses[s].status = "ABSENT"
      BY <2>1 DEF Countable, FreshSession, Begun, Exists, Draft, UpdatedStatuses,
                  ImportStatuses
    <2> QED BY <1>0, <2>3, <2>4, <2>5 DEF AsRead, OpenCalls, CompleteCalls, Begun, Exists,
               Draft
  <1>4. CASE ScanRead(r) \/ UpdateSessionRead(r) \/ RemoveRead(r)
    <2>1. PICK s \in Sessions, step \in {"ScanPush", "UpdateSession", "RemoveSave"} :
             /\ Open(s)
             /\ \E next : next.ses = s /\ Goto(r, step, next)
      <3>1. ASSUME NEW s \in Sessions, NEW batch, NEW status
            PROVE  /\ [Blank EXCEPT !.ses = s, !.details = batch].ses = s
                   /\ [Blank EXCEPT !.ses = s, !.status = status].ses = s
        BY DEF Blank
      <3>2. CASE ScanRead(r)
        BY <3>1, <3>2 DEF ScanRead
      <3>3. CASE UpdateSessionRead(r)
        BY <3>1, <3>3 DEF UpdateSessionRead
      <3>4. CASE RemoveRead(r)
        BY <3>1, <3>4 DEF RemoveRead
      <3> QED BY <1>4, <3>2, <3>3, <3>4
    <2>2. PICK next : next.ses = s /\ Goto(r, step, next)
      BY <2>1
    <2>4. \A q \in Requests : pc'[q] = step /\ loc'[q] = next
      BY <2>2, Alone
    <2> QED BY <1>0, <2>1, <2>2, <2>4 DEF AsRead, OpenCalls, CompleteCalls, Open
  <1>5. CASE CompleteRead(r)
    <2>1. PICK s \in Sessions :
             /\ Open(s)
             /\ Goto(r, "CompleteCheck", [Blank EXCEPT !.ses = s, !.imp = ses[s].imp,
                                                       !.details = ses[s].details,
                                                       !.scanned = ses[s].total])
      BY <1>5 DEF CompleteRead
    <2>2. PICK next : next = [Blank EXCEPT !.ses = s, !.imp = ses[s].imp,
                                           !.details = ses[s].details,
                                           !.scanned = ses[s].total]
      OBVIOUS
    <2>3. /\ next.ses = s /\ next.imp = ses[s].imp /\ next.details = ses[s].details
          /\ next.scanned = Len(next.details)
      BY <2>2 DEF Blank, ScannedMatchesDetails
    <2>4. \A q \in Requests : pc'[q] = "CompleteCheck" /\ loc'[q] = next
      BY <2>1, <2>2, Alone
    <2> QED BY <1>0, <2>1, <2>3, <2>4 DEF AsRead, OpenCalls, CompleteCalls, Open
  <1> QED BY <1>1, <1>2, <1>3, <1>4, <1>5 DEF StartRequest

(* The calls of a handler go on with what they read.                       *)
LEMMA StepAsRead ==
  ASSUME OneAtATime, TypeInv, ReadInv, NEW r \in Requests, Step(r)
  PROVE  \A q \in Requests : AsRead(q)'
  <1>0. AsRead(r) /\ loc[r] \in LocRec
    BY DEF ReadInv, TypeInv, TypeOK
  <1>1. CASE Finish(r)
    BY <1>1, EndAsRead
  <1>2. CASE CloseSessions(r) /\ ~ Finish(r)
    <2>1. /\ pc[r] = "CloseSessions" /\ Goto(r, "CloseImport", loc[r])
          /\ UNCHANGED <<imp, ses>>
      BY <1>2 DEF CloseSessions
    <2>2. \A q \in Requests : pc'[q] = "CloseImport" /\ loc'[q] = loc[r]
      BY <2>1, Alone
    <2> QED BY <1>0, <2>1, <2>2 DEF AsRead, OpenCalls, CompleteCalls, Exists
  <1>3. CASE CompleteCheck(r) /\ ~ Finish(r)
    <2>1. /\ pc[r] = "CompleteCheck" /\ Goto(r, "CompleteTicket", loc[r])
          /\ UNCHANGED <<imp, ses>>
      BY <1>3 DEF CompleteCheck
    <2>2. \A q \in Requests : pc'[q] = "CompleteTicket" /\ loc'[q] = loc[r]
      BY <2>1, Alone
    <2> QED BY <1>0, <2>1, <2>2 DEF AsRead, OpenCalls, CompleteCalls, Open
  <1>4. CASE CompleteTicket(r) /\ ~ Finish(r)
    <2>1. PICK next : next = [loc[r] EXCEPT !.imported = imp[loc[r].imp].imported]
      OBVIOUS
    <2>2. PICK step \in {"CompleteProgress", "CompleteInsert"} : Goto(r, step, next)
      BY <1>4, <2>1 DEF CompleteTicket
    <2>3. pc[r] = "CompleteTicket" /\ UNCHANGED <<imp, ses>>
      BY <1>4 DEF CompleteTicket
    <2>4. /\ next.imported = imp[next.imp].imported
          /\ next.imp = loc[r].imp /\ next.ses = loc[r].ses
          /\ next.details = loc[r].details /\ next.scanned = loc[r].scanned
      BY <1>0, <2>1 DEF LocRec
    <2>5. \A q \in Requests : pc'[q] = step /\ loc'[q] = next
      BY <2>2, Alone
    <2> QED BY <1>0, <2>3, <2>4, <2>5 DEF AsRead, OpenCalls, CompleteCalls, Open
  <1>5. CASE CompleteInsert(r) /\ ~ Finish(r)
    <2>1. /\ pc[r] = "CompleteInsert" /\ Goto(r, "CompleteProgress", loc[r])
          /\ UNCHANGED <<imp, ses>>
      BY <1>5 DEF CompleteInsert
    <2>2. \A q \in Requests : pc'[q] = "CompleteProgress" /\ loc'[q] = loc[r]
      BY <2>1, Alone
    <2> QED BY <1>0, <2>1, <2>2 DEF AsRead, OpenCalls, CompleteCalls, Open
  <1>6. CASE CompleteProgress(r) /\ ~ Finish(r)
    <2>1. PICK ticket : ticket = Counted(imp[loc[r].imp], loc[r])
      OBVIOUS
    <2>2. PICK next : next = [loc[r] EXCEPT !.ticket = ticket]
      OBVIOUS
    <2>3. /\ pc[r] = "CompleteProgress" /\ Goto(r, "CompleteCount", next)
          /\ UNCHANGED <<imp, ses>>
      BY <1>6, <2>1, <2>2 DEF CompleteProgress
    <2>4. /\ next.imported = loc[r].imported /\ next.ticket = ticket
          /\ next.imp = loc[r].imp /\ next.ses = loc[r].ses
          /\ next.details = loc[r].details /\ next.scanned = loc[r].scanned
      BY <1>0, <2>2 DEF LocRec
    <2>5. next.ticket = Counted(imp[next.imp], next)
      BY <2>1, <2>4 DEF Counted
    <2>6. \A q \in Requests : pc'[q] = "CompleteCount" /\ loc'[q] = next
      BY <2>3, Alone
    <2>7. Counted(imp[next.imp], next)' = Counted(imp[next.imp], next)
      BY <2>3 DEF Counted
    <2> QED BY <1>0, <2>3, <2>4, <2>5, <2>6, <2>7 DEF AsRead, OpenCalls, CompleteCalls, Open
  <1>7. CASE CompleteCount(r) /\ ~ Finish(r)
    <2>1. PICK next : next = [loc[r] EXCEPT !.ticket = NoImport]
      OBVIOUS
    <2>2. /\ pc[r] = "CompleteCount" /\ Goto(r, "CompleteCommit", next)
          /\ UNCHANGED ses
      BY <1>7, <2>1 DEF CompleteCount
    <2>3. /\ next.imp = loc[r].imp /\ next.ses = loc[r].ses
          /\ next.details = loc[r].details /\ next.scanned = loc[r].scanned
      BY <1>0, <2>1 DEF LocRec
    <2>4. \A q \in Requests : pc'[q] = "CompleteCommit" /\ loc'[q] = next
      BY <2>2, Alone
    <2> QED BY <1>0, <2>2, <2>3, <2>4 DEF AsRead, OpenCalls, CompleteCalls, Open
  <1> QED BY <1>1, <1>2, <1>3, <1>4, <1>5, <1>6, <1>7 DEF Step, UpdateImportWrite,
             DeleteImportWrite, CloseWrite, SessionInsert, ScanPush,
             UpdateSessionWrite, RemoveSave, CompleteCommit

(* A ticket that is created was read by nobody.                            *)
LEMMA CreateAsRead ==
  ASSUME TypeInv, ReadInv, NEW i \in Imports, CreateImport(i)
  PROVE  \A q \in Requests : AsRead(q)'
  <1> SUFFICES ASSUME NEW q \in Requests PROVE AsRead(q)'
    OBVIOUS
  <1>1. UNCHANGED <<ses, pc, loc>> /\ AsRead(q) /\ Holds(pc[q], loc[q])
    BY DEF CreateImport, ReadInv, TypeInv, HoldsOK
  <1>2. imp[i].status = "ABSENT" /\ \A j \in Imports \ {i} : imp'[j] = imp[j]
    BY DEF CreateImport, TypeInv, TypeOK
  <1>3. pc[q] \in ImportCalls \ {"CompleteCheck", "CompleteTicket"} =>
           loc[q].imp \in Imports \ {i}
    <2>1. pc[q] \in CompleteCalls => Begun(loc[q].imp)
      BY CompletesBegun
    <2> QED BY <1>1, <1>2, <2>1 DEF AsRead, Holds, ImportCalls, Begun, Exists, Draft,
               UpdatedStatuses, ImportStatuses
  <1>4. pc[q] \in ImportCalls \ {"CompleteCheck", "CompleteTicket"} =>
           imp'[loc[q].imp] = imp[loc[q].imp]
    BY <1>2, <1>3
  <1>5. pc[q] = "CompleteCount" =>
           Counted(imp[loc[q].imp], loc[q])' = Counted(imp[loc[q].imp], loc[q])
    BY <1>1, <1>4 DEF Counted, ImportCalls, CompleteCalls
  <1> QED BY <1>1, <1>4, <1>5 DEF AsRead, OpenCalls, ImportCalls, CompleteCalls, Open,
             Begun, Exists, Draft

LEMMA ReadStep ==
  ASSUME OneAtATime, NoClientProgress, TypeInv, ScannedMatchesDetails, ReadInv, [Next]_vars
  PROVE  ReadInv'
  <1>1. SessionTickets'
    BY TicketsStep
  <1>2. CASE UNCHANGED vars
    <2>1. \A q \in Requests : Counted(imp[loc[q].imp], loc[q])'
                                = Counted(imp[loc[q].imp], loc[q])
      BY <1>2 DEF vars, Counted
    <2>2. \A q \in Requests : AsRead(q)'
      BY <1>2, <2>1 DEF vars, ReadInv, AsRead, Open, Begun, Exists, Draft
    <2> QED BY <1>1, <2>2 DEF ReadInv
  <1>3. CASE Crash
    <2>1. \A q \in Requests : AsRead(q)'
      BY <1>3 DEF Crash, AsRead, OpenCalls, CompleteCalls
    <2> QED BY <1>1, <2>1 DEF ReadInv
  <1> QED BY <1>1, <1>2, <1>3, StartAsRead, StepAsRead, CreateAsRead DEF Next, ReadInv

-----------------------------------------------------------------------------
(* The progress of a ticket. *)

LEMMA TotalType == Totals \subseteq Nat
  <1> SUFFICES ASSUME NEW plan \in Plans PROVE TotalOf(plan) \in Nat
    BY DEF Totals
  <1>1. IsFiniteSet(DOMAIN plan) /\ \A m \in DOMAIN plan : plan[m] \in Nat
    BY IntakeAssumption
  <1>2. SumFunctionOnSet(plan, DOMAIN plan) \in Nat
    BY <1>1, SumType
  <1> QED BY <1>2 DEF TotalOf, SumFunction

LEMMA InventoryStep ==
  ASSUME NoClientProgress, TypeInv, ReadInv, InventoryFollowsCount, [Next]_vars
  PROVE  InventoryFollowsCount'
  <1> SUFFICES ASSUME NEW i \in Imports, Exists(i)', imp'[i].imported > 0
               PROVE  imp'[i].imported >= imp'[i].total <=> imp'[i].inventory = "completed"
    BY DEF InventoryFollowsCount
  <1>1. /\ imp[i].imported \in Nat /\ imp[i].total \in Nat /\ imp'[i].imported \in Nat
    <2>1. TypeInv'
      BY TypeStep
    <2> QED BY <2>1, TotalType DEF TypeInv, TypeOK, ImportRec
  <1>2. Exists(i) /\ imp[i].imported > 0 =>
           (imp[i].imported >= imp[i].total <=> imp[i].inventory = "completed")
    BY DEF InventoryFollowsCount
  <1>3. CASE imp'[i] = imp[i]
    BY <1>2, <1>3 DEF Exists
  <1>4. CASE Emptied(i)
    BY <1>4 DEF Emptied
  <1>5. CASE Restated(i)
    BY <1>2, <1>5 DEF Restated, Draft, Exists, UpdatedStatuses, ImportStatuses
  <1>6. CASE Closed(i)
    BY <1>6 DEF Closed
  <1>7. ASSUME NEW r \in Requests, CountedFor(i, r)
        PROVE  imp'[i].imported >= imp'[i].total <=> imp'[i].inventory = "completed"
    BY <1>1, <1>7 DEF CountedFor, Inventory
  <1> QED BY <1>3, <1>4, <1>5, <1>6, <1>7, TicketMoves

(* One request at a time, the inventory status of a ticket with scans says *)
(* whether its total is reached: updateProgress derives it from the count  *)
(* it writes, and complete() closes full tickets only.                     *)
THEOREM InventoryFollows ==
  ASSUME OneAtATime, NoClientProgress
  PROVE  Spec => []InventoryFollowsCount
  <1> DEFINE Inv == TypeInv /\ ScannedMatchesDetails /\ ReadInv /\ InventoryFollowsCount
  <1>1. Init => Inv
    <2>1. Init => InventoryFollowsCount /\ ScannedMatchesDetails
      BY DEF Init, InventoryFollowsCount, Exists, NoImport, UpdatedStatuses,
             ImportStatuses, ScannedMatchesDetails, NoSession
    <2> QED BY <2>1, TypeInit, ReadInit
  <1>2. Inv /\ [Next]_vars => Inv'
    BY TypeStep, ScannedStep, ReadStep, InventoryStep
  <1>3. Inv => InventoryFollowsCount
    OBVIOUS
  <1> QED BY <1>1, <1>2, <1>3, PTL DEF Spec

(* The scans of all models together are all scans.                         *)
LEMMA ScannedAddUp ==
  ASSUME NEW details, NEW n \in Nat, IsFiniteSet(Models), DOMAIN details = 1 .. n,
         \A i \in DOMAIN details : details[i] \in Macs
  PROVE  SumFunctionOnSet([m \in Models |-> ScannedOf(details, m)], Models) = n
  <1> DEFINE D == DOMAIN details
             kind == [i \in D |-> ModelOf[details[i]]]
             f == [m \in Models |-> ScannedOf(details, m)]
  <1>1. IsFiniteSet(D) /\ Cardinality(D) = n
    <2>1. IsFiniteSet(1 .. n) /\ Cardinality(1 .. n) = n
      BY FS_Interval
    <2> QED BY <2>1
  <1>2. f = CountsOf(D, kind, Models)
    <2>1. \A m \in Models :
             OfKinds(D, kind, {m}) = {i \in DOMAIN details : ModelOf[details[i]] = m}
      BY DEF OfKinds
    <2> QED BY <2>1 DEF CountsOf, ScannedOf
  <1>3. \A i \in D : kind[i] \in Models
    BY IntakeAssumption
  <1> HIDE DEF D, kind
  <1>4. SumFunctionOnSet(CountsOf(D, kind, Models), Models) = Cardinality(D)
    BY <1>1, <1>3, CountsAddUp
  <1> QED BY <1>1, <1>2, <1>4

LEMMA LinesStep ==
  ASSUME NoClientProgress, TypeInv, ReadInv, LinesAddUp, [Next]_vars
  PROVE  LinesAddUp'
  <1> SUFFICES ASSUME NEW i \in Imports, Exists(i)', DOMAIN imp'[i].plan = Models
               PROVE  imp'[i].imported = TotalOf(imp'[i].lines)
    BY DEF LinesAddUp
  <1>1. /\ imp[i] \in ImportRec /\ imp'[i] \in ImportRec
        /\ imp[i].lines \in [Models -> Nat] /\ imp'[i].lines \in [Models -> Nat]
    <2>1. TypeInv'
      BY TypeStep
    <2> QED BY <2>1 DEF TypeInv, TypeOK, ImportRec
  <1>2. IsFiniteSet(Models)
    <2>1. imp'[i].plan \in Plans \cup {NoPlan}
      BY <1>1 DEF ImportRec
    <2> QED BY <2>1, IntakeAssumption, FS_EmptySet DEF NoPlan
  <1>3. Exists(i) /\ DOMAIN imp[i].plan = Models =>
           imp[i].imported = TotalOf(imp[i].lines)
    BY DEF LinesAddUp
  <1>4. CASE imp'[i] = imp[i]
    BY <1>3, <1>4 DEF Exists
  <1>5. CASE Emptied(i)
    <2>1. SumFunctionOnSet(NoLines, Models) = 0
      BY <1>2, SumOfZeros DEF NoLines
    <2> QED BY <1>5, <2>1 DEF Emptied, TotalOf, SumFunction, NoLines
  <1>6. CASE Restated(i)
    BY <1>3, <1>6 DEF Restated, Draft, Exists, UpdatedStatuses, ImportStatuses
  <1>7. CASE Closed(i)
    BY <1>3, <1>7 DEF Closed
  <1>8. ASSUME NEW r \in Requests, CountedFor(i, r)
        PROVE  imp'[i].imported = TotalOf(imp'[i].lines)
    <2> DEFINE f == imp[i].lines
               d == loc[r].details
               g == [m \in Models |-> ScannedOf(d, m)]
               h == imp'[i].lines
    <2>1. d \in Seq(Macs)
      BY DEF TypeInv, TypeOK, LocRec
    <2>2. \A m \in Models : f[m] \in Nat /\ g[m] \in Nat /\ h[m] = f[m] + g[m]
      BY <1>1, <1>8, <2>1, ScannedType DEF CountedFor
    <2>3. SumFunctionOnSet(g, Models) = Len(d)
      <3>1. /\ Len(d) \in Nat /\ DOMAIN d = 1 .. Len(d)
            /\ \A k \in DOMAIN d : d[k] \in Macs
        BY <2>1
      <3> HIDE DEF d
      <3> QED BY <1>2, <3>1, ScannedAddUp
    <2>4. imp[i].imported = SumFunctionOnSet(f, Models)
      <3>1. imp[i].imported = TotalOf(imp[i].lines)
        BY <1>3, <1>8 DEF CountedFor
      <3> QED BY <1>1, <3>1 DEF TotalOf, SumFunction
    <2>5. TotalOf(h) = SumFunctionOnSet(h, Models)
      BY <1>1 DEF TotalOf, SumFunction
    <2>6. imp'[i].imported = imp[i].imported + Len(d)
      BY <1>8 DEF CountedFor
    <2> HIDE DEF f, g, h, d
    <2>7. SumFunctionOnSet(h, Models)
            = SumFunctionOnSet(f, Models) + SumFunctionOnSet(g, Models)
      BY <1>2, <2>2, SumOfSums
    <2>8. imp'[i].imported = TotalOf(h)
      BY <2>3, <2>4, <2>5, <2>6, <2>7
    <2> QED BY <2>8 DEF h
  <1> QED BY <1>4, <1>5, <1>6, <1>7, <1>8, TicketMoves

(* One request at a time, the lines of a ticket add up to its count: the   *)
(* scans completeSession adds to the count are those it adds to the lines. *)
THEOREM LinesFollow ==
  ASSUME OneAtATime, NoClientProgress
  PROVE  Spec => []LinesAddUp
  <1> DEFINE Inv == TypeInv /\ ScannedMatchesDetails /\ ReadInv /\ LinesAddUp
  <1>1. Init => Inv
    <2>1. Init => LinesAddUp /\ ScannedMatchesDetails
      BY DEF Init, LinesAddUp, Exists, NoImport, UpdatedStatuses,
             ImportStatuses, ScannedMatchesDetails, NoSession
    <2> QED BY <2>1, TypeInit, ReadInit
  <1>2. Inv /\ [Next]_vars => Inv'
    BY TypeStep, ScannedStep, ReadStep, LinesStep
  <1>3. Inv => LinesAddUp
    OBVIOUS
  <1> QED BY <1>1, <1>2, <1>3, PTL DEF Spec

-----------------------------------------------------------------------------
(***************************************************************************)
(* Completed sessions.  Only a commit completes a session, with the        *)
(* details it has, and only an open session is written.                    *)
(***************************************************************************)
Completed(s) == ses[s].status = "completed"

Reworked(s) == /\ ~ Completed(s) /\ ~ Completed(s)'
               /\ Allocated(s) => ses'[s].imp = ses[s].imp

Commits(r) ==
    LET l == loc[r] IN
    /\ CompleteCommit(r)
    /\ from' = [m \in Macs |-> IF m \in ToSet(l.details) THEN from[m] \cup {l.ses}
                                                         ELSE from[m]]
    /\ ses'[l.ses].details = l.details
    /\ ses'[l.ses].imp = l.imp
    /\ \A s \in Sessions \ {l.ses} : ses'[s] = ses[s]

LEMMA SessionMoves ==
  ASSUME TypeInv, ReadInv, [Next]_vars
  PROVE  \/ \E r \in Requests : Commits(r)
         \/ /\ UNCHANGED from
            /\ \A s \in Sessions : ses'[s] = ses[s] \/ Reworked(s)
  <1> SUFFICES ASSUME NEW r \in Requests, SessionWrite(r)
               PROVE  \/ Commits(r)
                      \/ /\ UNCHANGED from
                         /\ \A s \in Sessions : ses'[s] = ses[s] \/ Reworked(s)
    BY StepKinds
  <1> DEFINE w == loc[r].ses
             old == ses[w]
  <1>1. AsRead(r) /\ Holds(pc[r], loc[r]) /\ loc[r] \in LocRec
    BY DEF ReadInv, TypeInv, TypeOK, HoldsOK
  <1>2. ASSUME NEW doc, w \in Sessions, ses' = [ses EXCEPT ![w] = doc],
               ~ Completed(w), doc.status # "completed",
               Allocated(w) => doc.imp = ses[w].imp
        PROVE  \A s \in Sessions : ses'[s] = ses[s] \/ Reworked(s)
    BY <1>2 DEF Completed, Reworked, TypeInv, TypeOK
  <1>3. CASE SessionInsert(r)
    <2> DEFINE doc == [NoSession EXCEPT !.status = "processing", !.imp = loc[r].imp]
    <2>1. ses' = [ses EXCEPT ![w] = doc] /\ pc[r] = "SessionInsert" /\ UNCHANGED from
      BY <1>3 DEF SessionInsert
    <2>2. doc.status # "completed"
      BY DEF NoSession
    <2>3. w \in Sessions /\ ~ Completed(w) /\ ~ Allocated(w)
      BY <1>1, <2>1 DEF AsRead, Holds, Completed, Allocated, SessionStatuses
    <2> HIDE DEF doc, w
    <2> QED BY <1>2, <2>1, <2>2, <2>3
  <1>4. ASSUME ~ SessionInsert(r)
        PROVE  w \in Sessions /\ ~ Completed(w) /\ old \in SessionRec /\ old.status # "completed"
    <2>1. pc[r] \in OpenCalls
      BY <1>4 DEF SessionWrite, ScanPush, UpdateSessionWrite, RemoveSave, CompleteCommit,
                  OpenCalls, CompleteCalls
    <2> QED BY <1>1, <2>1 DEF AsRead, Holds, Open, Completed, TypeInv, TypeOK
  <1>5. CASE ScanPush(r)
    <2> DEFINE doc == Pushed(old, loc[r].details)
    <2>1. ses' = [ses EXCEPT ![w] = doc] /\ pc[r] = "ScanPush" /\ UNCHANGED from
      BY <1>5 DEF ScanPush, WriteSession
    <2>2. ~ SessionInsert(r)
      BY <2>1 DEF SessionInsert
    <2>3. doc.status # "completed" /\ doc.imp = ses[w].imp
      BY <1>4, <2>2 DEF Pushed, SessionRec
    <2>4. w \in Sessions /\ ~ Completed(w)
      BY <1>4, <2>2
    <2> HIDE DEF doc, w
    <2> QED BY <1>2, <2>1, <2>3, <2>4
  <1>6. CASE UpdateSessionWrite(r)
    <2> DEFINE doc == [old EXCEPT !.status = loc[r].status]
    <2>1. ses' = [ses EXCEPT ![w] = doc] /\ pc[r] = "UpdateSession" /\ UNCHANGED from
      BY <1>6 DEF UpdateSessionWrite, WriteSession
    <2>2. ~ SessionInsert(r)
      BY <2>1 DEF SessionInsert
    <2>3. doc.status # "completed" /\ doc.imp = ses[w].imp
      BY <1>1, <1>4, <2>1, <2>2 DEF Holds, SessionRec
    <2>4. w \in Sessions /\ ~ Completed(w)
      BY <1>4, <2>2
    <2> HIDE DEF doc, w
    <2> QED BY <1>2, <2>1, <2>3, <2>4
  <1>7. CASE RemoveSave(r)
    <2> DEFINE doc == [old EXCEPT !.details = loc[r].details, !.total = Len(loc[r].details)]
    <2>1. /\ ses' = ses \/ ses' = [ses EXCEPT ![w] = doc]
          /\ pc[r] = "RemoveSave" /\ UNCHANGED from
      BY <1>7 DEF RemoveSave, WriteSession
    <2>2. ~ SessionInsert(r)
      BY <2>1 DEF SessionInsert
    <2>3. doc.status # "completed" /\ doc.imp = ses[w].imp
      BY <1>4, <2>2 DEF SessionRec
    <2>4. w \in Sessions /\ ~ Completed(w)
      BY <1>4, <2>2
    <2> HIDE DEF doc, w
    <2> QED BY <1>2, <2>1, <2>3, <2>4
  <1>8. CASE CompleteCommit(r)
    <2> DEFINE doc == [old EXCEPT !.status = "completed"]
    <2>1. pc[r] = "CompleteCommit"
      BY <1>8 DEF CompleteCommit
    <2>2. ~ SessionInsert(r)
      BY <2>1 DEF SessionInsert
    <2>3. CASE UNCHANGED <<ses, from>>
      BY <2>3
    <2>4. CASE ~ UNCHANGED <<ses, from>>
      <3>1. /\ ses' = [ses EXCEPT ![w] = doc]
            /\ from' = [m \in Macs |-> IF m \in ToSet(loc[r].details) THEN from[m] \cup {w}
                                                                     ELSE from[m]]
        BY <1>8, <2>4 DEF CompleteCommit, WriteSession
      <3>2. doc.details = loc[r].details /\ doc.imp = loc[r].imp
        BY <1>1, <1>4, <2>1, <2>2 DEF AsRead, CompleteCalls, SessionRec
      <3>3. w \in Sessions
        BY <1>4, <2>2
      <3> HIDE DEF doc
      <3>4. ses'[w] = doc /\ \A s \in Sessions \ {w} : ses'[s] = ses[s]
        BY <3>1, <3>3 DEF TypeInv, TypeOK
      <3> QED BY <1>8, <3>1, <3>2, <3>4 DEF Commits
    <2> QED BY <2>3, <2>4
  <1> QED BY <1>3, <1>5, <1>6, <1>7, <1>8 DEF SessionWrite

LEMMA CompletedStep ==
  ASSUME TypeInv, ReadInv, OnceInv, CompletedIsStocked, [Next]_vars
  PROVE  CompletedIsStocked'
  <1>1. CASE /\ UNCHANGED from
             /\ \A s \in Sessions : ses'[s] = ses[s] \/ Reworked(s)
    BY <1>1 DEF CompletedIsStocked, Reworked, Completed
  <1>2. ASSUME NEW r \in Requests, Commits(r) PROVE CompletedIsStocked'
    <2>1. /\ ToSet(loc[r].details) \subseteq Macs
          /\ \A m \in ToSet(loc[r].details) : from[m] = {}
      <3>1. Adding(r) = ToSet(loc[r].details)
        BY <1>2 DEF Commits, CompleteCommit, Adding, TxnSteps
      <3>2. ToSet(loc[r].details) \subseteq Macs
        BY DEF TypeInv, TypeOK, LocRec, ToSet
      <3> QED BY <3>1, <3>2 DEF OnceInv
    <2>2. \A m \in ToSet(loc[r].details) : from'[m] = {loc[r].ses}
      BY <1>2, <2>1 DEF Commits
    <2>3. ASSUME NEW s \in Sessions \ {loc[r].ses}, ses'[s].status = "completed",
                 NEW m \in ToSet(ses'[s].details)
          PROVE  from'[m] = {s}
      <3>1. ses'[s] = ses[s] /\ from[m] = {s}
        BY <1>2, <2>3 DEF Commits, CompletedIsStocked
      <3>2. m \in Macs
        BY <3>1 DEF TypeInv, TypeOK, SessionRec, ToSet
      <3> QED BY <1>2, <2>1, <3>1, <3>2 DEF Commits
    <2> QED BY <1>2, <2>2, <2>3 DEF Commits, CompletedIsStocked
  <1> QED BY <1>1, <1>2, SessionMoves

(* One request at a time, all that a completed session lists is in stock   *)
(* and came by that session: completeSession inserts the details the       *)
(* session has when it is marked, and nothing writes to it afterwards.     *)
THEOREM CompletedAreStocked ==
  ASSUME OneAtATime, NoClientProgress
  PROVE  Spec => []CompletedIsStocked
  <1> DEFINE Inv == /\ TypeInv /\ ScannedMatchesDetails /\ ReadInv
                    /\ OnceInv /\ CompletedIsStocked
  <1>1. Init => Inv
    <2>1. Init => CompletedIsStocked /\ ScannedMatchesDetails /\ OnceInv
      BY DEF Init, CompletedIsStocked, ScannedMatchesDetails, NoSession, OnceInv, Adding,
             TxnSteps
    <2> QED BY <2>1, TypeInit, ReadInit
  <1>2. Inv /\ [Next]_vars => Inv'
    BY TypeStep, ScannedStep, ReadStep, OnceStep, CompletedStep
  <1>3. Inv => CompletedIsStocked
    OBVIOUS
  <1> QED BY <1>1, <1>2, <1>3, PTL DEF Spec

-----------------------------------------------------------------------------
(***************************************************************************)
(* The count covers the stock.  Stock comes by sessions, and a completion  *)
(* has counted what it will commit.                                        *)
(***************************************************************************)
CommitCovered(r) ==
    LET l == loc[r] IN
    pc[r] = "CompleteCommit" =>
       imp[l.imp].imported >= Cardinality(StockOf(l.imp)) + Len(l.details)

StockInv ==
    /\ \A m \in Macs : \A s \in from[m] : s \in Sessions /\ Allocated(s)
    /\ IsFiniteSet({m \in Macs : from[m] # {}})

CoverInv == StockInv /\ CountCoversStock /\ \A r \in Requests : CommitCovered(r)

(* A list has no more members than positions.                              *)
LEMMA ListedFew ==
  ASSUME NEW details \in Seq(Macs)
  PROVE  /\ IsFiniteSet(ToSet(details))
         /\ Cardinality(ToSet(details)) <= Len(details)
         /\ Len(details) \in Nat
  <1> DEFINE n == Len(details)
  <1>1. n \in Nat /\ details \in [1 .. n -> Macs]
    OBVIOUS
  <1>2. IsFiniteSet(1 .. n) /\ Cardinality(1 .. n) = n
    BY <1>1, FS_Interval
  <1>3. details \in Surjection(1 .. n, ToSet(details))
    BY <1>1 DEF ToSet, Surjection
  <1> QED BY <1>1, <1>2, <1>3, FS_Surjection

LEMMA StockIsFinite ==
  ASSUME StockInv, NEW i
  PROVE  IsFiniteSet(StockOf(i)) /\ Cardinality(StockOf(i)) \in Nat
  <1>1. StockOf(i) \subseteq {m \in Macs : from[m] # {}}
    BY DEF StockOf
  <1> QED BY <1>1, FS_Subset, FS_CardinalityType DEF StockInv

(* A session keeps its ticket.                                             *)
LEMMA TicketStays ==
  ASSUME TypeInv, ReadInv, [Next]_vars, NEW s \in Sessions, Allocated(s)
  PROVE  ses'[s].imp = ses[s].imp
  <1>1. ASSUME NEW r \in Requests, Commits(r) PROVE ses'[s].imp = ses[s].imp
    BY <1>1 DEF Commits, CompleteCommit, ReadInv, AsRead, CompleteCalls
  <1> QED BY <1>1, SessionMoves DEF Reworked

(* The stock of a ticket changes only when a session of it is committed,   *)
(* by what that session lists.                                             *)
LEMMA StockMoves ==
  ASSUME TypeInv, ReadInv, StockInv, [Next]_vars, NEW i \in Imports
  PROVE  \/ StockOf(i)' = StockOf(i)
         \/ \E r \in Requests :
              /\ Commits(r) /\ loc[r].imp = i
              /\ StockOf(i)' \subseteq StockOf(i) \cup ToSet(loc[r].details)
  <1>1. \A m \in Macs : \A s \in from[m] : ses'[s].imp = ses[s].imp
    BY TicketStays DEF StockInv
  <1>2. CASE UNCHANGED from
    BY <1>1, <1>2 DEF StockOf
  <1>3. ASSUME NEW r \in Requests, Commits(r)
        PROVE  \/ StockOf(i)' = StockOf(i)
               \/ /\ loc[r].imp = i
                  /\ StockOf(i)' \subseteq StockOf(i) \cup ToSet(loc[r].details)
    <2> DEFINE w == loc[r].ses
               D == ToSet(loc[r].details)
    <2>1. from' = [m \in Macs |-> IF m \in D THEN from[m] \cup {w} ELSE from[m]]
          /\ ses'[w].imp = loc[r].imp
      BY <1>3 DEF Commits
    <2> HIDE DEF w, D
    <2>2. StockOf(i) \subseteq StockOf(i)'
      BY <1>1, <2>1 DEF StockOf
    <2>3. CASE loc[r].imp = i
      <3>1. \A m \in Macs : \A s \in from'[m] : s \in from[m] \/ m \in D
        BY <2>1
      <3> QED BY <1>1, <2>3, <3>1 DEF StockOf, D
    <2>4. CASE loc[r].imp # i
      <3>1. \A m \in Macs : \A s \in from'[m] : s \in from[m] \/ s = w
        BY <2>1
      <3> QED BY <1>1, <2>1, <2>2, <2>4, <3>1 DEF StockOf
    <2> QED BY <2>3, <2>4
  <1> QED BY <1>2, <1>3, SessionMoves

LEMMA StockStep ==
  ASSUME TypeInv, ReadInv, StockInv, [Next]_vars PROVE StockInv'
  <1>1. \A s \in Sessions : Allocated(s) => Allocated(s)'
    BY SessionsFollow
  <1>2. CASE UNCHANGED from
    BY <1>1, <1>2 DEF StockInv
  <1>3. ASSUME NEW r \in Requests, Commits(r) PROVE StockInv'
    <2> DEFINE w == loc[r].ses
               D == ToSet(loc[r].details)
               old == {m \in Macs : from[m] # {}}
               new == {m \in Macs : from'[m] # {}}
    <2>1. from' = [m \in Macs |-> IF m \in D THEN from[m] \cup {w} ELSE from[m]]
      BY <1>3 DEF Commits
    <2>2. w \in Sessions /\ Allocated(w)
      BY <1>3 DEF Commits, CompleteCommit, TypeInv, HoldsOK, Holds, OpenCalls, CompleteCalls
    <2>3. IsFiniteSet(D)
      BY ListedFew DEF TypeInv, TypeOK, LocRec
    <2> HIDE DEF w, D
    <2>4. \A m \in Macs : \A s \in from'[m] : s \in Sessions /\ Allocated(s)'
      BY <1>1, <2>1, <2>2 DEF StockInv
    <2>5. IsFiniteSet(new)
      <3>1. new \subseteq old \cup D
        BY <2>1
      <3>2. IsFiniteSet(old \cup D)
        BY <2>3, FS_Union DEF StockInv
      <3> QED BY <3>1, <3>2, FS_Subset
    <2> QED BY <2>4, <2>5 DEF StockInv
  <1> QED BY <1>2, <1>3, SessionMoves

(* A request that is about to commit was so before, or has just counted.   *)
LEMMA CommitReached ==
  ASSUME OneAtATime, TypeInv, NEW q \in Requests, [Next]_vars, pc'[q] = "CompleteCommit"
  PROVE  \/ /\ pc[q] = "CompleteCommit" /\ loc'[q] = loc[q]
            /\ \A r \in Requests : ~ Commits(r)
         \/ CompleteCount(q) /\ loc'[q].imp = loc[q].imp /\ loc'[q].details = loc[q].details
  <1>1. ASSUME NEW r \in Requests, Commits(r) PROVE FALSE
    <2>1. Finish(r)
      BY <1>1 DEF Commits, CompleteCommit
    <2> QED BY <2>1, Alone DEF Finish
  <1>2. CASE UNCHANGED <<pc, loc>>
    BY <1>1, <1>2
  <1>3. CASE Crash
    BY <1>3 DEF Crash
  <1>4. ASSUME NEW r \in Requests, StartRequest(r) \/ Step(r)
        PROVE  CompleteCount(q) /\ loc'[q].imp = loc[q].imp /\ loc'[q].details = loc[q].details
    <2>1. r = q
      BY DEF OneAtATime
    <2>2. ASSUME NEW step, NEW l, Goto(r, step, l) PROVE step = "CompleteCommit"
      BY <2>2, Alone
    <2>3. CASE Plain(r)
      BY <2>1, <2>3 DEF Plain, TxnSteps
    <2>4. CASE SessionRead(r)
      BY <2>2, <2>4 DEF SessionRead
    <2>5. CASE CompleteTicket(r)
      BY <2>2, <2>5 DEF CompleteTicket, Finish
    <2>6. CASE CompleteInsert(r)
      BY <2>2, <2>6 DEF CompleteInsert, Finish
    <2>7. CASE CompleteProgress(r)
      BY <2>2, <2>7 DEF CompleteProgress, Finish
    <2>8. CASE CompleteCount(r)
      <3>1. loc'[q] = [loc[q] EXCEPT !.ticket = NoImport]
        BY <2>1, <2>8, Alone DEF CompleteCount
      <3> QED BY <2>1, <2>8, <3>1 DEF TypeInv, TypeOK, LocRec
    <2> QED BY <1>4, <2>3, <2>4, <2>5, <2>6, <2>7, <2>8, PlainSteps
            DEF StartRequest, Step, PlainStart, PlainStep
  <1> QED BY <1>2, <1>3, <1>4 DEF Next, CreateImport, vars

(* The count of a ticket that has begun never falls.                       *)
LEMMA CountGrows ==
  ASSUME NoClientProgress, TypeInv, ReadInv, [Next]_vars, NEW i \in Imports
  PROVE  \/ imp'[i].imported >= imp[i].imported
         \/ ~ Begun(i) /\ imp'[i].imported = 0
  <1>1. imp[i].imported \in Nat /\ \A r \in Requests : Len(loc[r].details) \in Nat
    BY ListedFew DEF TypeInv, TypeOK, ImportRec, LocRec
  <1>2. ASSUME NEW r \in Requests, CountedFor(i, r) PROVE imp'[i].imported >= imp[i].imported
    <2>1. imp'[i].imported = imp[i].imported + Len(loc[r].details)
      BY <1>2 DEF CountedFor
    <2> QED BY <1>1, <2>1
  <1>3. CASE imp'[i] = imp[i] \/ Restated(i) \/ Closed(i)
    BY <1>1, <1>3 DEF Restated, Closed
  <1>4. CASE Emptied(i)
    BY <1>4 DEF Emptied, Begun, Draft, Exists, UpdatedStatuses, ImportStatuses
  <1> QED BY <1>2, <1>3, <1>4, TicketMoves

LEMMA CoverStep ==
  ASSUME OneAtATime, NoClientProgress, TypeInv, ReadInv, CoverInv, [Next]_vars
  PROVE  CoverInv'
  <1>1. StockInv /\ StockInv'
    BY StockStep DEF CoverInv
  <1>2. \A i \in Imports : imp[i].imported \in Nat /\ imp'[i].imported \in Nat
    <2>1. TypeInv'
      BY TypeStep
    <2> QED BY <2>1 DEF TypeInv, TypeOK, ImportRec
  <1>3. \A i : Cardinality(StockOf(i)) \in Nat /\ Cardinality(StockOf(i)') \in Nat
    <2>1. \A i : Cardinality(StockOf(i)) \in Nat
      BY <1>1, StockIsFinite
    <2>2. ASSUME NEW i PROVE Cardinality(StockOf(i)') \in Nat
      <3>1. StockOf(i)' \subseteq {m \in Macs : from'[m] # {}}
        BY DEF StockOf
      <3>2. IsFiniteSet({m \in Macs : from'[m] # {}})
        BY <1>1 DEF StockInv
      <3> QED BY <3>1, <3>2, FS_Subset, FS_CardinalityType
    <2> QED BY <2>1, <2>2
  <1>4. \A r \in Requests : Len(loc[r].details) \in Nat
    BY ListedFew DEF TypeInv, TypeOK, LocRec
  <1>5. ASSUME NEW i \in Imports PROVE imp'[i].imported >= Cardinality(StockOf(i)')
    <2>1. ~ Begun(i) => Cardinality(StockOf(i)) = 0
      <3>1. ~ Begun(i) => StockOf(i) = {}
        BY <1>1 DEF StockInv, StockOf, ReadInv, SessionTickets
      <3> QED BY <3>1, FS_EmptySet
    <2>2. imp[i].imported >= Cardinality(StockOf(i))
      BY DEF CoverInv, CountCoversStock
    <2>3. CASE StockOf(i)' = StockOf(i)
      BY <1>2, <1>3, <2>1, <2>2, <2>3, CountGrows
    <2>4. ASSUME NEW r \in Requests, Commits(r), loc[r].imp = i,
                 StockOf(i)' \subseteq StockOf(i) \cup ToSet(loc[r].details)
          PROVE  imp'[i].imported >= Cardinality(StockOf(i)')
      <3> DEFINE S == StockOf(i)
                 T == StockOf(i)'
                 D == ToSet(loc[r].details)
                 n == Len(loc[r].details)
      <3>1. imp[i].imported >= Cardinality(S) + n /\ imp' = imp
        BY <2>4 DEF Commits, CompleteCommit, CoverInv, CommitCovered
      <3>2. IsFiniteSet(S) /\ IsFiniteSet(D) /\ Cardinality(D) <= n
        BY <1>1, StockIsFinite, ListedFew DEF TypeInv, TypeOK, LocRec
      <3>3. T \subseteq S \cup D
        BY <2>4
      <3>4. Cardinality(S) \in Nat /\ Cardinality(T) \in Nat /\ n \in Nat
        BY <1>3, <1>4
      <3> HIDE DEF S, T, D, n
      <3>5. Cardinality(T) <= Cardinality(S) + Cardinality(D)
        <4>1. /\ IsFiniteSet(S \cup D)
              /\ Cardinality(S \cup D) = Cardinality(S) + Cardinality(D)
                                           - Cardinality(S \cap D)
          BY <3>2, FS_Union
        <4>2. Cardinality(T) <= Cardinality(S \cup D)
          BY <3>3, <4>1, FS_Subset
        <4>3. Cardinality(S \cap D) \in Nat /\ Cardinality(D) \in Nat
          BY <3>2, FS_Subset, FS_CardinalityType
        <4> QED BY <3>4, <4>1, <4>2, <4>3
      <3>6. Cardinality(D) \in Nat
        BY <3>2, FS_CardinalityType
      <3>7. imp'[i].imported >= Cardinality(T)
        BY <1>2, <3>1, <3>2, <3>4, <3>5, <3>6
      <3> QED BY <3>7 DEF T
    <2> QED BY <1>1, <2>3, <2>4, StockMoves
  <1>6. ASSUME NEW q \in Requests, pc'[q] = "CompleteCommit"
        PROVE  CommitCovered(q)'
    <2>1. pc[q] \in CompleteCalls /\ loc'[q].imp = loc[q].imp /\ loc'[q].details = loc[q].details
      BY <1>6, CommitReached DEF CompleteCount, CompleteCalls
    <2>2. PICK i \in Imports : i = loc[q].imp /\ Begun(i)
      BY <2>1, CompletesBegun
    <2>3. PICK n \in Nat : n = Len(loc[q].details)
      BY <1>4
    <2>4. ASSUME \A r \in Requests : ~ Commits(r) PROVE StockOf(i)' = StockOf(i)
      BY <1>1, <2>4, StockMoves
    <2>5. imp'[i].imported >= Cardinality(StockOf(i)') + n
      <3>1. CASE CompleteCount(q)
        <4>1. \A r \in Requests : ~ Commits(r)
          BY <3>1 DEF OneAtATime, CompleteCount, Commits, CompleteCommit
        <4>2. imp'[i].imported = imp[i].imported + n
          BY <2>2, <2>3, <3>1, CountMoves DEF CountedFor
        <4>3. imp[i].imported >= Cardinality(StockOf(i))
          BY DEF CoverInv, CountCoversStock
        <4> QED BY <1>2, <1>3, <2>4, <4>1, <4>2, <4>3
      <3>2. CASE ~ CompleteCount(q)
        <4>1. /\ pc[q] = "CompleteCommit"
              /\ \A r \in Requests : ~ Commits(r)
          BY <1>6, <3>2, CommitReached
        <4>2. imp[i].imported >= Cardinality(StockOf(i)) + n
          BY <2>2, <2>3, <4>1 DEF CoverInv, CommitCovered
        <4>3. imp'[i].imported >= imp[i].imported
          BY <2>2, CountGrows
        <4> QED BY <1>2, <1>3, <2>4, <4>1, <4>2, <4>3
      <3> QED BY <3>1, <3>2
    <2> QED BY <2>1, <2>2, <2>3, <2>5 DEF CommitCovered
  <1>7. CountCoversStock'
    BY <1>5 DEF CountCoversStock
  <1>8. \A q \in Requests : CommitCovered(q)'
    BY <1>6 DEF CommitCovered
  <1> QED BY <1>1, <1>7, <1>8 DEF CoverInv

(* One request at a time, a ticket has counted at least the devices it     *)
(* brought into stock: updateProgress counts before the transaction        *)
(* commits, so that a crash or an abort in between counts too much, never  *)
(* too little.                                                             *)
THEOREM CountCovers ==
  ASSUME OneAtATime, NoClientProgress
  PROVE  Spec => []CountCoversStock
  <1> DEFINE Inv == TypeInv /\ ScannedMatchesDetails /\ ReadInv /\ CoverInv
  <1>1. Init => Inv
    <2>1. Init => ScannedMatchesDetails
      BY DEF Init, ScannedMatchesDetails, NoSession
    <2>2. ASSUME Init PROVE CoverInv
      <3>1. \A m \in Macs : from[m] = {}
        BY <2>2 DEF Init
      <3>2. {m \in Macs : from[m] # {}} = {} /\ \A i \in Imports : StockOf(i) = {}
        BY <3>1 DEF StockOf
      <3>3. StockInv
        BY <3>1, <3>2, FS_EmptySet DEF StockInv
      <3>4. CountCoversStock
        <4>1. \A i \in Imports : imp[i].imported = 0 /\ Cardinality(StockOf(i)) = 0
          BY <2>2, <3>2, FS_EmptySet DEF Init, NoImport
        <4> QED BY <4>1 DEF CountCoversStock
      <3> QED BY <2>2, <3>3, <3>4 DEF Init, CoverInv, CommitCovered
    <2> QED BY <2>1, <2>2, TypeInit, ReadInit
  <1>2. Inv /\ [Next]_vars => Inv'
    BY TypeStep, ScannedStep, ReadStep, CoverStep
  <1>3. Inv => CountCoversStock
    BY DEF CoverInv
  <1> QED BY <1>1, <1>2, <1>3, PTL DEF Spec

=============================================================================
