-------------------------- MODULE ExportFlowProofs -------------------------
(***************************************************************************)
(* Theorems about ExportFlow, for every set of tickets, sessions, devices  *)
(* and requests.                                                           *)
(***************************************************************************)
EXTENDS ExportFlow, FiniteDataProofs

(* The steps at which a request works on a ticket, and on a session.       *)
TicketCalls == {"AddItems", "Submit", "ApproveStock", "ApproveReserve", "Approve",
                "Reject", "ConfirmMove", "ConfirmWrite", "SessionInsert",
                "SessionMark", "ScanExport", "CompletePush", "CompleteMove",
                "CompleteClose", "CompleteTotal", "CompleteWrite"}
SessionCalls == {"SessionInsert", "ScanExport", "ScanDevices", "ScanCheck",
                 "ScanPush", "Remove", "CompletePush", "CompleteMove",
                 "CompleteClose"}

(* What a request holds when it performs a call.                           *)
HoldsTicket(r)  == pc[r] \in TicketCalls => loc[r].exp \in Exports
HoldsSession(r) == pc[r] \in SessionCalls => loc[r].ses \in Sessions
HoldsMove(r)    == pc[r] = "TransferSave" => loc[r].move \in MoveRec

HoldsOK == \A r \in Requests : HoldsTicket(r) /\ HoldsSession(r) /\ HoldsMove(r)

SessionsOK ==
    \A s \in Sessions : ses[s].status = "IN_PROGRESS" => ses[s].exp \in Exports

TypeInv == TypeOK /\ HoldsOK /\ SessionsOK

-----------------------------------------------------------------------------
(* Data. *)

(* The empty locals and the two documents not yet inserted are typed.      *)
LEMMA BlankType == Blank \in LocRec /\ NoTicket \in TicketRec /\ NoSession \in SessionRec
  <1>1. NoPlan \in AllPlans /\ TotalOf(NoPlan) \in Totals
    BY DEF AllPlans, Totals
  <1>2. <<>> \in Seq(Macs)
    OBVIOUS
  <1> QED
    BY <1>1, <1>2 DEF Blank, LocRec, NoTicket, TicketRec, NoSession, SessionRec

(* The calls that work on a session and not on a ticket.                   *)
LEMMA ScanCalls ==
  \A step \in {"ScanDevices", "ScanCheck", "ScanPush", "Remove"} :
     /\ step \in Steps
     /\ step \notin TicketCalls
     /\ step \in SessionCalls
     /\ step # "TransferSave"
  BY DEF Steps, TicketCalls, SessionCalls

(* Locals that forget the items they held stay typed.                      *)
LEMMA DropItems ==
  ASSUME NEW l \in LocRec PROVE [l EXCEPT !.items = <<>>] \in LocRec
  <1>1. <<>> \in Seq(Macs)
    OBVIOUS
  <1> QED BY <1>1 DEF LocRec

(* A count of devices is a number: there are finitely many devices.        *)
LEMMA CountType == \A model : CountReadyToExport(model) \in Nat
  BY DeviceAssumption, FS_Subset, FS_CardinalityType DEF CountReadyToExport

(* What a pull leaves: a list of those items that do not store the serial. *)
LEMMA PullFacts ==
  ASSUME NEW items \in Seq(Macs), NEW serial
  PROVE  /\ Pull(items, serial) \in Seq(Macs)
         /\ ToSet(Pull(items, serial))
              = {m \in ToSet(items) : SerialOf[m] # serial}
         /\ IsInjective(items) => IsInjective(Pull(items, serial))
         /\ Len(Pull(items, serial))
              = Cardinality({i \in DOMAIN items : SerialOf[items[i]] # serial})
  <1> DEFINE kept == {i \in DOMAIN items : SerialOf[items[i]] # serial}
  <1>1. kept \in SUBSET DOMAIN items /\ \A i \in kept : items[i] \in Macs
    OBVIOUS
  <1>2. {items[i] : i \in kept} = {m \in ToSet(items) : SerialOf[m] # serial}
    BY DEF ToSet
  <1> HIDE DEF kept
  <1> QED BY <1>1, <1>2, KeepFacts DEF Pull, kept

(* Length and elements of two lists put together.                          *)
LEMMA ToSetConcat ==
  ASSUME NEW S, NEW s \in Seq(S), NEW t \in Seq(S)
  PROVE  /\ s \o t \in Seq(S)
         /\ Len(s \o t) = Len(s) + Len(t)
         /\ Len(s) + Len(t) \in Nat
         /\ ToSet(s \o t) = ToSet(s) \cup ToSet(t)
  <1>1. s \o t \in Seq(S) /\ Len(s \o t) = Len(s) + Len(t) /\ Len(s) + Len(t) \in Nat
    OBVIOUS
  <1>2. ToSet(s \o t) \subseteq ToSet(s) \cup ToSet(t)
    BY <1>1 DEF ToSet
  <1>3. ToSet(s) \subseteq ToSet(s \o t)
    BY <1>1 DEF ToSet
  <1>4. ASSUME NEW i \in DOMAIN t PROVE t[i] \in ToSet(s \o t)
    <2>1. (s \o t)[Len(s) + i] = t[i] /\ Len(s) + i \in DOMAIN (s \o t)
      BY <1>1
    <2> QED BY <2>1 DEF ToSet
  <1>5. ToSet(t) \subseteq ToSet(s \o t)
    BY <1>4 DEF ToSet
  <1> QED BY <1>1, <1>2, <1>3, <1>5

(* The elements of a list over S are in S.                                 *)
LEMMA ToSetType == ASSUME NEW S, NEW s \in Seq(S) PROVE ToSet(s) \subseteq S
  BY DEF ToSet

(* Going to a next call with typed locals keeps the requests typed; what   *)
(* every request holds need only be looked at for the one that moved.      *)
LEMMA GotoType ==
  ASSUME TypeInv, NEW r \in Requests, NEW step \in Steps, NEW l \in LocRec,
         Goto(r, step, l),
         step \in TicketCalls => l.exp \in Exports,
         step \in SessionCalls => l.ses \in Sessions,
         step = "TransferSave" => l.move \in MoveRec
  PROVE  /\ pc' \in [Requests -> Steps]
         /\ loc' \in [Requests -> LocRec]
         /\ HoldsOK'
  BY DEF TypeInv, TypeOK, HoldsOK, Goto, HoldsTicket, HoldsSession, HoldsMove

(* A call that only reads.                                                 *)
LEMMA ReadType ==
  ASSUME TypeInv, NEW r \in Requests, NEW step \in Steps, NEW l \in LocRec,
         Goto(r, step, l),
         step \in TicketCalls => l.exp \in Exports,
         step \in SessionCalls => l.ses \in Sessions,
         step = "TransferSave" => l.move \in MoveRec,
         UNCHANGED <<exp, ses, dev, soldFor>>
  PROVE  TypeInv'
  BY GotoType DEF TypeInv, TypeOK, SessionsOK

(* The last step of a handler keeps the requests typed.                    *)
LEMMA FinishType ==
  ASSUME TypeInv, NEW r \in Requests, Finish(r)
  PROVE  /\ pc' \in [Requests -> Steps]
         /\ loc' \in [Requests -> LocRec]
         /\ HoldsOK'
  BY GotoType, BlankType DEF Finish, Steps, TicketCalls, SessionCalls

(* findByIdAndUpdate keeps the tickets typed.                              *)
LEMMA WriteTicketType ==
  ASSUME TypeOK, NEW e, NEW doc \in TicketRec, WriteTicket(e, doc)
  PROVE  exp' \in [Exports -> TicketRec]
  BY DEF TypeOK, WriteTicket

(* A ticket given a status of the schema is a ticket.                      *)
LEMMA WithStatusType ==
  ASSUME NEW doc \in TicketRec, NEW status \in TicketStatuses
  PROVE  WithStatus(doc, status) \in TicketRec
  BY DEF WithStatus, TicketRec

(* The bulk move to SOLD keeps devices and sales typed.                    *)
LEMMA MoveToSoldType ==
  ASSUME TypeOK, NEW serials, NEW e \in Exports, MoveToSoldWarehouse(serials, e)
  PROVE  dev' \in [Macs -> DeviceRec] /\ soldFor' \in [Macs -> SUBSET Exports]
  BY DEF TypeOK, MoveToSoldWarehouse, DeviceRec, Warehouses

-----------------------------------------------------------------------------
(* Type correctness, action by action. *)

(* The empty store is typed.                                               *)
LEMMA TypeInit == Init => TypeInv
  <1> SUFFICES ASSUME Init PROVE TypeInv
    OBVIOUS
  <1>1. TypeOK
    <2>1. dev \in [Macs -> DeviceRec]
      BY DeviceAssumption DEF Init
    <2>2. exp \in [Exports -> TicketRec]
      BY BlankType DEF Init
    <2>3. ses \in [Sessions -> SessionRec]
      BY BlankType DEF Init
    <2>4. loc \in [Requests -> LocRec]
      BY BlankType DEF Init
    <2>5. soldFor \in [Macs -> SUBSET Exports]
      BY DEF Init
    <2>6. pc \in [Requests -> Steps]
      BY DEF Init, Steps
    <2> QED BY <2>1, <2>2, <2>3, <2>4, <2>5, <2>6 DEF TypeOK
  <1>2. HoldsOK
    <2>1. \A r \in Requests : pc[r] = "Idle"
      BY DEF Init
    <2> QED
      BY <2>1 DEF HoldsOK, HoldsTicket, HoldsSession, HoldsMove, TicketCalls, SessionCalls
  <1>3. SessionsOK
    BY DEF Init, SessionsOK, NoSession
  <1> QED BY <1>1, <1>2, <1>3 DEF TypeInv

(* What a body leaves of a document.                                       *)
LEMMA BodyFields ==
  ASSUME NEW doc \in TicketRec, NEW status, NEW plan, NEW quantity, NEW items, NEW count
  PROVE  LET new == WithBody(doc, status, plan, quantity, items, count)
         IN  /\ new.status = status
             /\ new.items = items
             /\ new.totalItems = count
             /\ new.approved = doc.approved
             /\ new.given = (doc.given \/ items # doc.items \/ count # doc.totalItems)
             /\ (/\ status \in TicketStatuses \cup {"ABSENT", "DELETED"}
                 /\ plan \in AllPlans /\ quantity \in Totals
                 /\ items \in Seq(Macs) /\ count \in Nat) => new \in TicketRec
  BY DEF TicketRec, WithBody

(* Create, patch and delete keep every type.                               *)
LEMMA DocumentType ==
  ASSUME TypeInv, NEW e \in Exports, TicketDocument(e)
  PROVE  TypeInv'
  <1>1. UNCHANGED <<ses, dev, soldFor, pc, loc>>
    BY DEF TicketDocument, CreateTicket, PatchTicket, DeleteTicket
  <1>2. \A b \in ClientItems \cup {<<>>} : b \in Seq(Macs)
    <2>1. \A b \in ClientItems : b \in Seq(Macs)
      BY BatchAssumption DEF ClientItems
    <2>2. <<>> \in Seq(Macs)
      OBVIOUS
    <2> QED BY <2>1, <2>2
  <1>3. exp' \in [Exports -> TicketRec]
    <2>1. CASE CreateTicket(e)
      <3>1. PICK status \in {"DRAFT", "PENDING_APPROVAL"}, plan \in Plans,
                 quantity \in Totals,
                 items \in ClientItems \cup {<<>>}, count \in ClientCounts \cup {0} :
              exp' = [exp EXCEPT ![e] =
                      WithBody(NoTicket, status, plan, quantity, items, count)]
        BY <2>1 DEF CreateTicket
      <3>2. items \in Seq(Macs) /\ count \in Nat
        BY <1>2, CountAssumption
      <3>3. WithBody(NoTicket, status, plan, quantity, items, count) \in TicketRec
        BY <3>2, BlankType, BodyFields DEF AllPlans, TicketStatuses
      <3> QED BY <3>1, <3>3 DEF TypeInv, TypeOK
    <2>2. CASE PatchTicket(e)
      <3>1. PICK status \in {exp[e].status, "DRAFT", "PENDING_APPROVAL"},
                 plan \in Plans \cup {exp[e].plan},
                 quantity \in Totals \cup {exp[e].totalQuantity},
                 items \in ClientItems \cup {exp[e].items},
                 count \in ClientCounts \cup {exp[e].totalItems} :
              exp' = [exp EXCEPT ![e] =
                      WithBody(exp[e], status, plan, quantity, items, count)]
        BY <2>2 DEF PatchTicket
      <3>2. exp[e] \in TicketRec
        BY DEF TypeInv, TypeOK
      <3>3. items \in Seq(Macs) /\ count \in Nat
        BY <1>2, <3>2, CountAssumption DEF TicketRec
      <3>4. plan \in AllPlans /\ quantity \in Totals
            /\ status \in TicketStatuses \cup {"ABSENT", "DELETED"}
        BY <3>2 DEF TicketRec, AllPlans, TicketStatuses
      <3>5. WithBody(exp[e], status, plan, quantity, items, count) \in TicketRec
        BY <3>2, <3>3, <3>4, BodyFields
      <3> QED BY <3>1, <3>5 DEF TypeInv, TypeOK
    <2>3. CASE DeleteTicket(e)
      BY <2>3, BlankType DEF DeleteTicket, TypeInv, TypeOK, TicketRec
    <2> QED BY <2>1, <2>2, <2>3 DEF TicketDocument
  <1> QED
    BY <1>1, <1>3 DEF TypeInv, TypeOK, HoldsOK, HoldsTicket, HoldsSession,
                      HoldsMove, SessionsOK

(* The first read of each ticket handler keeps every type.                 *)
LEMMA TicketStartType ==
  ASSUME TypeInv, NEW r \in Requests, TicketStart(r)
  PROVE  TypeInv'
  <1> USE DEF Steps, TicketCalls, SessionCalls
  <1>1. CASE AddItemsRead(r)
    <2>1. PICK e \in Exports, batch \in Batches :
            /\ exp[e].status \in Reserving
            /\ Goto(r, "AddItems", [Blank EXCEPT !.exp = e, !.status = exp[e].status,
                                                 !.items = exp[e].items,
                                                 !.batch = batch])
      BY <1>1 DEF AddItemsRead
    <2>2. [Blank EXCEPT !.exp = e, !.status = exp[e].status, !.items = exp[e].items,
                        !.batch = batch] \in LocRec
      BY <2>1, BlankType, BatchAssumption
      DEF LocRec, TypeInv, TypeOK, TicketRec, Reserving, TicketStatuses
    <2> QED BY <1>1, <2>1, <2>2, ReadType DEF AddItemsRead, Blank
  <1>2. CASE SubmitRead(r)
    <2>1. PICK e \in Exports : Goto(r, "Submit", [Blank EXCEPT !.exp = e])
      BY <1>2 DEF SubmitRead
    <2>2. [Blank EXCEPT !.exp = e] \in LocRec
      BY BlankType DEF LocRec
    <2> QED BY <1>2, <2>1, <2>2, ReadType DEF SubmitRead, Blank
  <1>3. CASE RejectRead(r)
    <2>1. PICK e \in Exports : Goto(r, "Reject", [Blank EXCEPT !.exp = e])
      BY <1>3 DEF RejectRead
    <2>2. [Blank EXCEPT !.exp = e] \in LocRec
      BY BlankType DEF LocRec
    <2> QED BY <1>3, <2>1, <2>2, ReadType DEF RejectRead, Blank
  <1>4. CASE ApproveRead(r)
    <2>1. PICK e \in Exports :
            Goto(r, IF DOMAIN exp[e].plan = {} THEN "Approve" ELSE "ApproveStock",
                 [Blank EXCEPT !.exp = e, !.plan = exp[e].plan,
                               !.models = DOMAIN exp[e].plan])
      BY <1>4 DEF ApproveRead
    <2> DEFINE read == [Blank EXCEPT !.exp = e, !.plan = exp[e].plan,
                                     !.models = DOMAIN exp[e].plan]
               step == IF DOMAIN exp[e].plan = {} THEN "Approve" ELSE "ApproveStock"
    <2>2. exp[e].plan \in AllPlans
      BY DEF TypeInv, TypeOK, TicketRec
    <2>3. DOMAIN exp[e].plan \subseteq Models
      BY <2>2, PlanAssumption DEF AllPlans, NoPlan
    <2>4. read \in LocRec /\ read.exp = e
      <3>1. read \in LocRec
        BY <2>2, <2>3, BlankType DEF LocRec
      <3>2. read.exp = e
        BY DEF Blank
      <3> QED BY <3>1, <3>2
    <2>5. UNCHANGED <<exp, ses, dev, soldFor>>
      BY <1>4 DEF ApproveRead
    <2>6. Goto(r, step, read) /\ step \in {"Approve", "ApproveStock"}
      BY <2>1
    <2> HIDE DEF read, step
    <2>7. step \in Steps /\ step \notin SessionCalls /\ step # "TransferSave"
      BY <2>6 DEF Steps, SessionCalls
    <2> QED BY <2>4, <2>5, <2>6, <2>7, ReadType
  <1>5. CASE ConfirmRead(r)
    <2>1. PICK e \in Exports :
            Goto(r, "ConfirmMove", [Blank EXCEPT !.exp = e, !.items = exp[e].items])
      BY <1>5 DEF ConfirmRead
    <2>2. [Blank EXCEPT !.exp = e, !.items = exp[e].items] \in LocRec
      BY BlankType DEF LocRec, TypeInv, TypeOK, TicketRec
    <2> QED BY <1>5, <2>1, <2>2, ReadType DEF ConfirmRead, Blank
  <1> QED BY <1>1, <1>2, <1>3, <1>4, <1>5 DEF TicketStart

(* A call that writes the ticket the request holds, then goes on.          *)
LEMMA TicketWriteType ==
  ASSUME TypeInv, NEW e, NEW doc \in TicketRec, WriteTicket(e, doc),
         pc' \in [Requests -> Steps], loc' \in [Requests -> LocRec], HoldsOK',
         UNCHANGED <<ses, dev, soldFor>>
  PROVE  TypeInv'
  BY WriteTicketType DEF TypeInv, TypeOK, SessionsOK

(* The last call of a handler that writes a status.                        *)
LEMMA StatusWriteType ==
  ASSUME TypeInv, NEW r \in Requests, NEW e \in Exports,
         NEW status \in TicketStatuses,
         WriteTicket(e, WithStatus(exp[e], status)), Finish(r),
         UNCHANGED <<ses, dev, soldFor>>
  PROVE  TypeInv'
  <1>1. exp[e] \in TicketRec
    BY DEF TypeInv, TypeOK
  <1> QED BY <1>1, WithStatusType, FinishType, TicketWriteType

(* The later calls of the ticket handlers keep every type.                 *)
LEMMA TicketStepType ==
  ASSUME TypeInv, NEW r \in Requests, TicketStep(r)
  PROVE  TypeInv'
  <1> DEFINE l == loc[r]
  <1>0. l \in LocRec
    BY DEF TypeInv, TypeOK
  <1>e. ASSUME pc[r] \in TicketCalls
        PROVE  l.exp \in Exports /\ exp[l.exp] \in TicketRec
    BY <1>e DEF TypeInv, TypeOK, HoldsOK, HoldsTicket
  <1>1. CASE AddItemsWrite(r)
    <2>1. l.exp \in Exports /\ exp[l.exp] \in TicketRec
      BY <1>1, <1>e DEF AddItemsWrite, TicketCalls
    <2> DEFINE doc == [exp[l.exp] EXCEPT !.items = l.items \o l.batch,
                                         !.totalItems = Len(l.items) + Len(l.batch),
                                         !.given = FALSE]
               written == IF l.status = "APPROVED"
                          THEN WithStatus(doc, "IN_PROGRESS") ELSE doc
    <2>2. l.items \in Seq(Macs) /\ l.batch \in Seq(Macs)
      BY <1>0 DEF LocRec
    <2>3. l.items \o l.batch \in Seq(Macs) /\ Len(l.items) + Len(l.batch) \in Nat
      BY <2>2, ToSetConcat
    <2>4. doc \in TicketRec
      BY <2>1, <2>3 DEF TicketRec
    <2>5. written \in TicketRec
      BY <2>4, WithStatusType DEF TicketStatuses
    <2>6. WriteTicket(l.exp, written) /\ Finish(r) /\ UNCHANGED <<ses, dev, soldFor>>
      BY <1>1 DEF AddItemsWrite
    <2> QED BY <2>5, <2>6, FinishType, TicketWriteType
  <1>2. CASE SubmitWrite(r)
    BY <1>2, <1>e, StatusWriteType DEF SubmitWrite, TicketCalls, TicketStatuses
  <1>3. CASE RejectWrite(r)
    BY <1>3, <1>e, StatusWriteType DEF RejectWrite, TicketCalls, TicketStatuses
  <1>4. CASE ApproveStock(r)
    <2>1. PICK model \in l.models :
            Goto(r, "ApproveReserve", [l EXCEPT !.stock = CountReadyToExport(model),
                                                !.models = @ \ {model},
                                                !.checking = model])
      BY <1>4 DEF ApproveStock
    <2>2. [l EXCEPT !.stock = CountReadyToExport(model), !.models = @ \ {model},
                    !.checking = model] \in LocRec
      BY <1>0, CountType DEF LocRec
    <2>3. l.exp \in Exports
      BY <1>4, <1>e DEF ApproveStock, TicketCalls
    <2> DEFINE next == [l EXCEPT !.stock = CountReadyToExport(model),
                                 !.models = @ \ {model}, !.checking = model]
    <2>4. next.exp = l.exp
      BY <1>0 DEF LocRec
    <2>5. UNCHANGED <<exp, ses, dev, soldFor>>
      BY <1>4 DEF ApproveStock
    <2>6. /\ "ApproveReserve" \in Steps
          /\ "ApproveReserve" \notin SessionCalls \cup {"TransferSave"}
      BY DEF Steps, SessionCalls
    <2> HIDE DEF next, l
    <2> QED BY <2>1, <2>2, <2>3, <2>4, <2>5, <2>6, ReadType DEF next
  <1>5. CASE ApproveReserve(r)
    <2>1. CASE Finish(r)
      BY <1>5, <2>1, ReadType, BlankType
      DEF ApproveReserve, Finish, Steps, TicketCalls, SessionCalls
    <2>2. CASE Goto(r, IF l.models = {} THEN "Approve" ELSE "ApproveStock",
                    [l EXCEPT !.stock = 0, !.checking = None])
      <3>1. [l EXCEPT !.stock = 0, !.checking = None] \in LocRec
        BY <1>0 DEF LocRec
      <3>2. l.exp \in Exports
        BY <1>5, <1>e DEF ApproveReserve, TicketCalls
      <3> DEFINE next == [l EXCEPT !.stock = 0, !.checking = None]
                 step == IF l.models = {} THEN "Approve" ELSE "ApproveStock"
      <3>3. next.exp = l.exp
        BY <1>0 DEF LocRec
      <3>4. UNCHANGED <<exp, ses, dev, soldFor>>
        BY <1>5 DEF ApproveReserve
      <3>5. step \in Steps /\ step \notin SessionCalls \cup {"TransferSave"}
        BY DEF Steps, SessionCalls
      <3>6. Goto(r, step, next) /\ next \in LocRec
        BY <2>2, <3>1
      <3> HIDE DEF next, l, step
      <3> QED BY <3>2, <3>3, <3>4, <3>5, <3>6, ReadType
    <2> QED BY <1>5, <2>1, <2>2 DEF ApproveReserve
  <1>6. CASE ApproveWrite(r)
    <2>1. l.exp \in Exports /\ exp[l.exp] \in TicketRec
      BY <1>6, <1>e DEF ApproveWrite, TicketCalls
    <2>2. WithStatus(exp[l.exp], "APPROVED") \in TicketRec
      BY <2>1, WithStatusType DEF TicketStatuses
    <2>3. [WithStatus(exp[l.exp], "APPROVED") EXCEPT !.approved = TRUE] \in TicketRec
      BY <2>2 DEF TicketRec
    <2> QED BY <1>6, <2>3, FinishType, TicketWriteType DEF ApproveWrite
  <1>7. CASE ConfirmMove(r)
    <2>1. l.exp \in Exports
      BY <1>7, <1>e DEF ConfirmMove, TicketCalls
    <2>2. dev' \in [Macs -> DeviceRec] /\ soldFor' \in [Macs -> SUBSET Exports]
      BY <1>7, <2>1, MoveToSoldType DEF ConfirmMove, TypeInv
    <2>3. [l EXCEPT !.items = <<>>] \in LocRec
      BY <1>0, DropItems
    <2>4. /\ pc' \in [Requests -> Steps]
          /\ loc' \in [Requests -> LocRec]
          /\ HoldsOK'
      BY <1>0, <1>7, <2>1, <2>3, GotoType
      DEF ConfirmMove, Steps, TicketCalls, SessionCalls, LocRec
    <2> QED BY <1>7, <2>2, <2>4 DEF ConfirmMove, TypeInv, TypeOK, SessionsOK
  <1>8. CASE ConfirmWrite(r)
    BY <1>8, <1>e, StatusWriteType DEF ConfirmWrite, TicketCalls, TicketStatuses
  <1> QED
    BY <1>1, <1>2, <1>3, <1>4, <1>5, <1>6, <1>7, <1>8 DEF TicketStep

-----------------------------------------------------------------------------
(* The first read of each session handler keeps every type.                *)
LEMMA SessionStartType ==
  ASSUME TypeInv, NEW r \in Requests, SessionStart(r)
  PROVE  TypeInv'
  <1> USE DEF Steps, TicketCalls, SessionCalls
  <1>0. ASSUME NEW s \in Sessions, ses[s].status = "IN_PROGRESS"
        PROVE  ses[s].exp \in Exports /\ ses[s].items \in Seq(Macs)
    BY <1>0 DEF TypeInv, TypeOK, SessionsOK, SessionRec
  <1>1. CASE SessionRead(r)
    <2>1. PICK e \in Exports, s \in Sessions :
            /\ exp[e].status \in {"APPROVED", "IN_PROGRESS"}
            /\ Goto(r, "SessionInsert", [Blank EXCEPT !.exp = e, !.ses = s,
                                                      !.status = exp[e].status])
      BY <1>1 DEF SessionRead
    <2>2. [Blank EXCEPT !.exp = e, !.ses = s, !.status = exp[e].status] \in LocRec
      BY <2>1, BlankType DEF LocRec, TicketStatuses
    <2> QED BY <1>1, <2>1, <2>2, ReadType DEF SessionRead, Blank
  <1>2. ASSUME NEW s \in Sessions, NEW batch \in Seq(Macs), ScanSession(r, s, batch)
        PROVE  TypeInv'
    <2>1. [Blank EXCEPT !.ses = s, !.exp = ses[s].exp, !.items = ses[s].items,
                        !.batch = batch] \in LocRec
      BY <1>0, <1>2, BlankType DEF LocRec, ScanSession
    <2> QED BY <1>0, <1>2, <2>1, ReadType DEF ScanSession, Blank
  <1>3. CASE ScanSerial(r)
    <2>1. PICK s \in Sessions, m \in Macs : ScanSession(r, s, <<m>>)
      BY <1>3 DEF ScanSerial
    <2>2. <<m>> \in Seq(Macs)
      OBVIOUS
    <2> QED BY <1>2, <2>1, <2>2
  <1>4. CASE ScanBulk(r)
    BY <1>2, <1>4, BatchAssumption DEF ScanBulk
  <1>5. CASE RemoveRead(r)
    <2>1. PICK s \in Sessions :
            /\ ses[s].status = "IN_PROGRESS"
            /\ \E serial \in SerialsOf(ses[s].items) :
                 Goto(r, "Remove", [Blank EXCEPT !.ses = s, !.serial = serial])
      BY <1>5 DEF RemoveRead
    <2>2. PICK serial \in SerialsOf(ses[s].items) :
            Goto(r, "Remove", [Blank EXCEPT !.ses = s, !.serial = serial])
      BY <2>1
    <2>3. serial \in Serials
      BY <1>0, <2>1, DeviceAssumption, ToSetType DEF SerialsOf
    <2>4. [Blank EXCEPT !.ses = s, !.serial = serial] \in LocRec
      BY <2>3, BlankType DEF LocRec
    <2>5. UNCHANGED <<exp, ses, dev, soldFor>>
      BY <1>5 DEF RemoveRead
    <2>6. [Blank EXCEPT !.ses = s, !.serial = serial].ses \in Sessions
      BY DEF Blank
    <2> QED BY <2>2, <2>4, <2>5, <2>6, ScanCalls, ReadType
  <1>6. CASE CompleteRead(r)
    <2>1. PICK s \in Sessions :
            /\ ses[s].status = "IN_PROGRESS"
            /\ Goto(r, "CompletePush", [Blank EXCEPT !.ses = s, !.exp = ses[s].exp,
                                                     !.items = ses[s].items])
      BY <1>6 DEF CompleteRead
    <2>2. [Blank EXCEPT !.ses = s, !.exp = ses[s].exp, !.items = ses[s].items]
            \in LocRec
      BY <1>0, <2>1, BlankType DEF LocRec
    <2> QED BY <1>0, <1>6, <2>1, <2>2, ReadType DEF CompleteRead, Blank
  <1> QED BY <1>1, <1>3, <1>4, <1>5, <1>6 DEF SessionStart

(* A call that writes one session.                                         *)
LEMMA SessionWriteType ==
  ASSUME TypeInv, NEW s \in Sessions, NEW doc \in SessionRec,
         doc.status = "IN_PROGRESS" => doc.exp \in Exports,
         ses' = [ses EXCEPT ![s] = doc],
         pc' \in [Requests -> Steps], loc' \in [Requests -> LocRec], HoldsOK',
         UNCHANGED <<exp, dev, soldFor>>
  PROVE  TypeInv'
  BY DEF TypeInv, TypeOK, SessionsOK

(* The later calls of the session handlers keep every type.                *)
LEMMA SessionStepType ==
  ASSUME TypeInv, NEW r \in Requests, SessionStep(r)
  PROVE  TypeInv'
  <1> DEFINE l == loc[r]
  <1>0. /\ l \in LocRec
        /\ l.items \in Seq(Macs) /\ l.ok \in Seq(Macs) /\ l.batch \in Seq(Macs)
        /\ l.ready \subseteq Macs
    BY DEF TypeInv, TypeOK, LocRec
  <1>e. ASSUME pc[r] \in TicketCalls
        PROVE  l.exp \in Exports /\ exp[l.exp] \in TicketRec
    BY <1>e DEF TypeInv, TypeOK, HoldsOK, HoldsTicket
  <1>s. ASSUME pc[r] \in SessionCalls
        PROVE  /\ l.ses \in Sessions
               /\ ses[l.ses] \in SessionRec
               /\ ses[l.ses].status = "IN_PROGRESS" => ses[l.ses].exp \in Exports
    BY <1>s DEF TypeInv, TypeOK, HoldsOK, HoldsSession, SessionsOK
  <1>1. CASE SessionInsert(r)
    <2>1. l.exp \in Exports /\ l.ses \in Sessions
      BY <1>1, <1>e, <1>s DEF SessionInsert, TicketCalls, SessionCalls
    <2> DEFINE doc == [NoSession EXCEPT !.status = "IN_PROGRESS", !.exp = l.exp]
    <2>2. doc \in SessionRec /\ doc.exp \in Exports
      BY <2>1, BlankType DEF SessionRec, SessionStatuses, NoSession
    <2>3. ses' = [ses EXCEPT ![l.ses] = doc] /\ UNCHANGED <<exp, dev, soldFor>>
      BY <1>1 DEF SessionInsert
    <2>4. /\ pc' \in [Requests -> Steps]
          /\ loc' \in [Requests -> LocRec]
          /\ HoldsOK'
      <3>1. CASE Finish(r)
        BY <3>1, FinishType
      <3>2. CASE Goto(r, "SessionMark", l)
        BY <1>0, <2>1, <3>2, GotoType DEF Steps, TicketCalls, SessionCalls
      <3> QED BY <1>1, <3>1, <3>2 DEF SessionInsert
    <2> QED BY <2>1, <2>2, <2>3, <2>4, SessionWriteType
  <1>2. CASE SessionMark(r)
    BY <1>2, <1>e, StatusWriteType DEF SessionMark, TicketCalls, TicketStatuses
  <1>3. CASE ScanExport(r)
    <2>1. l.exp \in Exports /\ exp[l.exp] \in TicketRec /\ l.ses \in Sessions
      BY <1>3, <1>e, <1>s DEF ScanExport, TicketCalls, SessionCalls
    <2>2. DOMAIN exp[l.exp].plan \subseteq Models
      BY <2>1, PlanAssumption DEF TicketRec, AllPlans, NoPlan
    <2>3. [l EXCEPT !.models = DOMAIN exp[l.exp].plan] \in LocRec
      BY <1>0, <2>2 DEF LocRec
    <2>4. CASE Finish(r)
      BY <1>3, <2>4, ReadType, BlankType
      DEF ScanExport, Finish, Steps, TicketCalls, SessionCalls
    <2>5. CASE Goto(r, "ScanDevices", [l EXCEPT !.models = DOMAIN exp[l.exp].plan])
      BY <1>0, <1>3, <2>1, <2>3, <2>5, ReadType
      DEF ScanExport, Steps, TicketCalls, SessionCalls, LocRec
    <2> QED BY <1>3, <2>4, <2>5 DEF ScanExport
  <1>4. CASE ScanDevices(r)
    <2>1. l.ses \in Sessions
      BY <1>4, <1>s DEF ScanDevices, SessionCalls
    <2> DEFINE next == [l EXCEPT !.ready = {m \in ToSet(l.batch) :
                                              dev[m].wh = "READY_TO_EXPORT"}]
    <2>2. next \in LocRec /\ next.ses = l.ses
      BY <1>0, ToSetType DEF LocRec
    <2>3. Goto(r, "ScanCheck", next) /\ UNCHANGED <<exp, ses, dev, soldFor>>
      BY <1>4 DEF ScanDevices
    <2> HIDE DEF next
    <2> QED BY <2>1, <2>2, <2>3, ScanCalls, ReadType
  <1>5. CASE ScanCheck(r)
    <2>1. l.ses \in Sessions
      BY <1>5, <1>s DEF ScanCheck, SessionCalls
    <2> DEFINE scanned == Head(l.batch)
               ok == IF ValidScan(l, scanned) THEN Append(l.ok, scanned) ELSE l.ok
    <2>2. ok \in Seq(Macs)
      BY <1>0 DEF ValidScan
    <2> HIDE DEF ok
    <2>3. CASE Finish(r)
      BY <1>5, <2>3, ReadType, BlankType
      DEF ScanCheck, Finish, Steps, TicketCalls, SessionCalls
    <2>4. CASE /\ Len(l.batch) > 1
               /\ Goto(r, "ScanCheck", [l EXCEPT !.ok = ok, !.batch = Tail(@)])
      <3>1. Tail(l.batch) \in Seq(Macs)
        BY <1>0, <2>4
      <3> DEFINE next == [l EXCEPT !.ok = ok, !.batch = Tail(@)]
      <3>2. next \in LocRec /\ next.ses = l.ses
        BY <1>0, <2>2, <3>1 DEF LocRec
      <3>3. UNCHANGED <<exp, ses, dev, soldFor>> /\ Goto(r, "ScanCheck", next)
        BY <1>5, <2>4 DEF ScanCheck
      <3> HIDE DEF next
      <3> QED BY <2>1, <3>2, <3>3, ScanCalls, ReadType
    <2>5. CASE Goto(r, "ScanPush", [Blank EXCEPT !.ses = l.ses, !.exp = l.exp, !.ok = ok])
      <3> DEFINE next == [Blank EXCEPT !.ses = l.ses, !.exp = l.exp, !.ok = ok]
      <3>1. next \in LocRec /\ next.ses = l.ses
        BY <1>0, <2>2, BlankType DEF LocRec, Blank
      <3>2. UNCHANGED <<exp, ses, dev, soldFor>> /\ Goto(r, "ScanPush", next)
        BY <1>5, <2>5 DEF ScanCheck
      <3> HIDE DEF next
      <3> QED BY <2>1, <3>1, <3>2, ScanCalls, ReadType
    <2> QED BY <1>5, <2>3, <2>4, <2>5 DEF ScanCheck, ok
  <1>6. CASE ScanPush(r)
    <2>1. /\ l.ses \in Sessions /\ ses[l.ses] \in SessionRec
          /\ ses[l.ses].status = "IN_PROGRESS" => ses[l.ses].exp \in Exports
      BY <1>6, <1>s DEF ScanPush, SessionCalls
    <2> DEFINE doc == [ses[l.ses] EXCEPT !.items = @ \o l.ok,
                                         !.serialChecked = @ + Len(l.ok)]
    <2>2. doc \in SessionRec /\ doc.status = ses[l.ses].status
          /\ doc.exp = ses[l.ses].exp
      <3>1. /\ ses[l.ses].items \o l.ok \in Seq(Macs)
            /\ ses[l.ses].serialChecked + Len(l.ok) \in Int
        BY <1>0, <2>1, ToSetConcat DEF SessionRec
      <3> QED BY <2>1, <3>1 DEF SessionRec
    <2>3. ses' = [ses EXCEPT ![l.ses] = doc] /\ UNCHANGED <<exp, dev, soldFor>>
      BY <1>6, <2>1 DEF ScanPush, TypeInv, TypeOK
    <2>4. Finish(r)
      BY <1>6 DEF ScanPush
    <2> QED BY <2>1, <2>2, <2>3, <2>4, FinishType, SessionWriteType
  <1>7. CASE RemovePull(r)
    <2>1. /\ l.ses \in Sessions /\ ses[l.ses] \in SessionRec
          /\ ses[l.ses].status = "IN_PROGRESS" => ses[l.ses].exp \in Exports
      BY <1>7, <1>s DEF RemovePull, SessionCalls
    <2> DEFINE left == Pull(ses[l.ses].items, l.serial)
               doc == [ses[l.ses] EXCEPT !.items = left, !.serialChecked = @ - 1]
    <2>2. left \in Seq(Macs)
      BY <2>1, PullFacts DEF SessionRec
    <2> HIDE DEF left
    <2>3. doc \in SessionRec /\ doc.status = ses[l.ses].status
          /\ doc.exp = ses[l.ses].exp
      <3>1. ses[l.ses].serialChecked - 1 \in Int
        BY <2>1 DEF SessionRec
      <3> QED BY <2>1, <2>2, <3>1 DEF SessionRec
    <2>4. ses' = [ses EXCEPT ![l.ses] = doc] /\ UNCHANGED <<exp, dev, soldFor>>
      BY <1>7, <2>1 DEF RemovePull, TypeInv, TypeOK, left
    <2>5. Finish(r)
      BY <1>7 DEF RemovePull
    <2> QED BY <2>1, <2>3, <2>4, <2>5, FinishType, SessionWriteType
  <1>8. CASE CompletePush(r)
    <2>1. l.exp \in Exports /\ exp[l.exp] \in TicketRec /\ l.ses \in Sessions
      BY <1>8, <1>e, <1>s DEF CompletePush, TicketCalls, SessionCalls
    <2> DEFINE doc == [exp[l.exp] EXCEPT !.items = @ \o l.items,
                                         !.totalItems = @ + Len(l.items)]
    <2>2. doc \in TicketRec
      <3>1. /\ exp[l.exp].items \in Seq(Macs) /\ l.items \in Seq(Macs)
            /\ exp[l.exp].totalItems \in Nat
        BY <1>0, <2>1 DEF TicketRec, LocRec
      <3>2. /\ exp[l.exp].items \o l.items \in Seq(Macs)
            /\ exp[l.exp].totalItems + Len(l.items) \in Nat
        BY ONLY <3>1, ToSetConcat
      <3> QED BY <2>1, <3>2 DEF TicketRec
    <2>3. WriteTicket(l.exp, doc) /\ UNCHANGED <<ses, dev, soldFor>>
      BY <1>8 DEF CompletePush
    <2>4. /\ pc' \in [Requests -> Steps]
          /\ loc' \in [Requests -> LocRec]
          /\ HoldsOK'
      BY <1>0, <1>8, <2>1, GotoType DEF CompletePush, Steps, TicketCalls, SessionCalls
    <2> QED BY <2>2, <2>3, <2>4, TicketWriteType
  <1>9. CASE CompleteMove(r)
    <2>1. l.exp \in Exports /\ l.ses \in Sessions
      BY <1>9, <1>e, <1>s DEF CompleteMove, TicketCalls, SessionCalls
    <2>2. dev' \in [Macs -> DeviceRec] /\ soldFor' \in [Macs -> SUBSET Exports]
      BY <1>9, <2>1, MoveToSoldType DEF CompleteMove, TypeInv
    <2> DEFINE next == [l EXCEPT !.items = <<>>]
    <2>3. next \in LocRec /\ next.exp = l.exp /\ next.ses = l.ses
      BY <1>0, DropItems DEF LocRec
    <2>4. /\ pc' \in [Requests -> Steps]
          /\ loc' \in [Requests -> LocRec]
          /\ HoldsOK'
      BY <1>9, <2>1, <2>3, GotoType DEF CompleteMove, Steps, TicketCalls, SessionCalls
    <2> QED BY <1>9, <2>2, <2>4 DEF CompleteMove, TypeInv, TypeOK, SessionsOK
  <1>10. CASE CompleteClose(r)
    <2>1. l.exp \in Exports /\ l.ses \in Sessions /\ ses[l.ses] \in SessionRec
      BY <1>10, <1>e, <1>s DEF CompleteClose, TicketCalls, SessionCalls
    <2> DEFINE doc == [ses[l.ses] EXCEPT !.status = "COMPLETED"]
               next == [l EXCEPT !.ses = None]
    <2>2. doc \in SessionRec /\ doc.status = "COMPLETED"
      BY <2>1 DEF SessionRec, SessionStatuses
    <2>3. ses' = [ses EXCEPT ![l.ses] = doc] /\ UNCHANGED <<exp, dev, soldFor>>
      BY <1>10, <2>1 DEF CompleteClose, TypeInv, TypeOK
    <2>4. next \in LocRec /\ next.exp = l.exp
      BY <1>0 DEF LocRec
    <2>5. /\ pc' \in [Requests -> Steps]
          /\ loc' \in [Requests -> LocRec]
          /\ HoldsOK'
      BY <1>10, <2>1, <2>4, GotoType DEF CompleteClose, Steps, TicketCalls, SessionCalls
    <2> QED BY <2>1, <2>2, <2>3, <2>5, SessionWriteType
  <1>11. CASE CompleteTotal(r)
    <2>1. l.exp \in Exports
      BY <1>11, <1>e DEF CompleteTotal, TicketCalls
    <2>2. CASE Finish(r)
      BY <1>11, <2>2, ReadType, BlankType
      DEF CompleteTotal, Finish, Steps, TicketCalls, SessionCalls
    <2>3. CASE Goto(r, "CompleteWrite", l)
      BY <1>0, <1>11, <2>1, <2>3, ReadType
      DEF CompleteTotal, Steps, TicketCalls, SessionCalls
    <2> QED BY <1>11, <2>2, <2>3 DEF CompleteTotal
  <1>12. CASE CompleteWrite(r)
    BY <1>12, <1>e, StatusWriteType DEF CompleteWrite, TicketCalls, TicketStatuses
  <1> QED
    BY <1>1, <1>2, <1>3, <1>4, <1>5, <1>6, <1>7, <1>8, <1>9, <1>10, <1>11, <1>12
    DEF SessionStep

-----------------------------------------------------------------------------
(* A device transfer keeps every type.                                     *)
LEMMA TransferType ==
  ASSUME TypeInv, NEW r \in Requests, TransferRead(r) \/ TransferSave(r)
  PROVE  TypeInv'
  <1>1. CASE TransferRead(r)
    <2>1. PICK m \in Macs, to \in Warehouses :
            Goto(r, "TransferSave",
                 [Blank EXCEPT !.batch = <<m>>,
                               !.move = [wh |-> to,
                                         qc |-> QcAfter(Moves[<<dev[m].wh, to>>])]])
      BY <1>1 DEF TransferRead
    <2> DEFINE move == [wh |-> to, qc |-> QcAfter(Moves[<<dev[m].wh, to>>])]
               next == [Blank EXCEPT !.batch = <<m>>, !.move = move]
    <2>2. move \in MoveRec
      BY DEF MoveRec, QcAfter, QcStatuses
    <2>3. <<m>> \in Seq(Macs)
      OBVIOUS
    <2> HIDE DEF move
    <2>4. next \in LocRec /\ next.move = move
      BY <2>2, <2>3, BlankType DEF LocRec, Blank
    <2>5. Goto(r, "TransferSave", next) /\ UNCHANGED <<exp, ses, dev, soldFor>>
      BY <1>1, <2>1 DEF TransferRead, move
    <2> HIDE DEF next
    <2> QED BY <2>2, <2>4, <2>5, ReadType DEF Steps, TicketCalls, SessionCalls
  <1>2. CASE TransferSave(r)
    <2> DEFINE move == loc[r].move
               m == Head(loc[r].batch)
    <2>1. move \in MoveRec
      BY <1>2 DEF TransferSave, TypeInv, HoldsOK, HoldsMove
    <2>2. dev' = [dev EXCEPT ![m] = [wh |-> move.wh,
                                     qc |-> IF move.qc = None THEN dev[m].qc
                                                              ELSE move.qc]]
      BY <1>2 DEF TransferSave
    <2> HIDE DEF m
    <2>3. dev' \in [Macs -> DeviceRec]
      BY <2>1, <2>2 DEF MoveRec, DeviceRec, TypeInv, TypeOK
    <2> QED
      BY <1>2, <2>3, FinishType DEF TransferSave, TypeInv, TypeOK, SessionsOK
  <1> QED BY <1>1, <1>2

(* A stop of the process keeps every type.                                 *)
LEMMA CrashType == ASSUME TypeInv, Crash PROVE TypeInv'
  <1>1. /\ pc' = [r \in Requests |-> "Idle"]
        /\ loc' = [r \in Requests |-> Blank]
        /\ UNCHANGED <<exp, ses, dev, soldFor>>
    BY DEF Crash
  <1>2. pc' \in [Requests -> Steps] /\ loc' \in [Requests -> LocRec]
    BY <1>1, BlankType DEF Steps
  <1>3. HoldsOK'
    BY <1>1 DEF HoldsOK, HoldsTicket, HoldsSession, HoldsMove, TicketCalls, SessionCalls
  <1> QED BY <1>1, <1>2, <1>3 DEF TypeInv, TypeOK, SessionsOK

(* TypeInv is inductive.                                                   *)
LEMMA TypeStep == TypeInv /\ [Next]_vars => TypeInv'
  <1> SUFFICES ASSUME TypeInv, [Next]_vars PROVE TypeInv'
    OBVIOUS
  <1>1. CASE UNCHANGED vars
    BY <1>1 DEF vars, TypeInv, TypeOK, HoldsOK, HoldsTicket, HoldsSession,
                HoldsMove, SessionsOK
  <1>2. ASSUME NEW e \in Exports, TicketDocument(e) PROVE TypeInv'
    BY <1>2, DocumentType
  <1>3. ASSUME NEW r \in Requests,
               TicketStart(r) \/ SessionStart(r) \/ TransferRead(r) \/ Step(r)
        PROVE  TypeInv'
    BY <1>3, TicketStartType, SessionStartType, TransferType, TicketStepType,
       SessionStepType DEF Step
  <1>4. CASE Crash
    BY <1>4, CrashType
  <1> QED BY <1>1, <1>2, <1>3, <1>4 DEF Next

(* Every document and every request keeps its type, whatever the requests  *)
(* in flight do to each other: in particular a request always works on a   *)
(* ticket and a session that it read.                                      *)
THEOREM TypeCorrect == Spec => []TypeOK
  <1>1. Init => TypeInv
    BY TypeInit
  <1>2. TypeInv /\ [Next]_vars => TypeInv'
    BY TypeStep
  <1>3. TypeInv => TypeOK
    BY DEF TypeInv
  <1> QED BY <1>1, <1>2, <1>3, PTL DEF Spec

(* What a request in flight holds is what its next call needs.             *)
THEOREM TypeInvariant == Spec => []TypeInv
  BY TypeInit, TypeStep, PTL DEF Spec

-----------------------------------------------------------------------------
(***************************************************************************)
(* The count of the items.  It needs no strengthening beyond the types:    *)
(* each write of a ticket either replaces list and count together, adds    *)
(* the same to both, leaves both alone, or leaves a mark that a client     *)
(* gave them.                                                              *)
(***************************************************************************)
Counted(t) == ~ t.given => t.totalItems = Len(t.items)

(* A counted document is written over a ticket.                            *)
LEMMA WriteCounted ==
  ASSUME TypeInv, ExportCountMatchesItems, NEW e \in Exports, NEW doc, Counted(doc),
         WriteTicket(e, doc)
  PROVE  ExportCountMatchesItems'
  BY DEF TypeInv, TypeOK, ExportCountMatchesItems, Counted, WriteTicket

(* A status is not counted.                                                *)
LEMMA StatusCounted ==
  ASSUME NEW t \in TicketRec, Counted(t), NEW status
  PROVE  Counted(WithStatus(t, status))
  BY DEF TicketRec, Counted, WithStatus

(* Create, patch and delete leave the count right or the mark.             *)
LEMMA DocumentCounted ==
  ASSUME TypeInv, ExportCountMatchesItems, NEW e \in Exports, TicketDocument(e)
  PROVE  ExportCountMatchesItems'
  <1>1. exp \in [Exports -> TicketRec] /\ Counted(exp[e])
    BY DEF TypeInv, TypeOK, ExportCountMatchesItems, Counted
  <1>2. Counted(exp'[e])
    <2>1. CASE CreateTicket(e)
      <3>1. PICK status \in {"DRAFT", "PENDING_APPROVAL"}, plan \in Plans,
                 quantity \in Totals,
                 items \in ClientItems \cup {<<>>}, count \in ClientCounts \cup {0} :
              exp' = [exp EXCEPT ![e] =
                      WithBody(NoTicket, status, plan, quantity, items, count)]
        BY <2>1 DEF CreateTicket
      <3>2. /\ exp'[e].items = items /\ exp'[e].totalItems = count
            /\ exp'[e].given = (items # <<>> \/ count # 0)
        BY <1>1, <3>1, BlankType, BodyFields DEF NoTicket
      <3> QED BY <3>2 DEF Counted
    <2>2. CASE PatchTicket(e)
      <3>1. PICK status \in {exp[e].status, "DRAFT", "PENDING_APPROVAL"},
                 plan \in Plans \cup {exp[e].plan},
                 quantity \in Totals \cup {exp[e].totalQuantity},
                 items \in ClientItems \cup {exp[e].items},
                 count \in ClientCounts \cup {exp[e].totalItems} :
              exp' = [exp EXCEPT ![e] =
                      WithBody(exp[e], status, plan, quantity, items, count)]
        BY <2>2 DEF PatchTicket
      <3>2. /\ exp'[e].items = items /\ exp'[e].totalItems = count
            /\ exp'[e].given = (exp[e].given \/ items # exp[e].items
                                             \/ count # exp[e].totalItems)
        BY <1>1, <3>1, BodyFields
      <3> QED BY <1>1, <3>2 DEF Counted
    <2>3. CASE DeleteTicket(e)
      BY <1>1, <2>3 DEF DeleteTicket, NoTicket, Counted
    <2> QED BY <2>1, <2>2, <2>3 DEF TicketDocument
  <1>3. \A f \in Exports : f # e => exp'[f] = exp[f]
    BY <1>1 DEF TicketDocument, CreateTicket, PatchTicket, DeleteTicket
  <1> QED BY <1>2, <1>3 DEF ExportCountMatchesItems, Counted

(* The handlers of both services write list and count alike.               *)
LEMMA CallCounted ==
  ASSUME TypeInv, ExportCountMatchesItems, NEW r \in Requests,
         TicketStart(r) \/ SessionStart(r) \/ Step(r)
  PROVE  ExportCountMatchesItems'
  <1> DEFINE l == loc[r]
  <1>0. l.items \in Seq(Macs) /\ l.batch \in Seq(Macs)
    BY DEF TypeInv, TypeOK, LocRec
  <1>e. ASSUME pc[r] \in TicketCalls
        PROVE  /\ l.exp \in Exports
               /\ exp[l.exp] \in TicketRec
               /\ Counted(exp[l.exp])
    BY <1>e DEF TypeInv, TypeOK, HoldsOK, HoldsTicket, ExportCountMatchesItems, Counted
  <1>1. CASE UNCHANGED exp
    BY <1>1 DEF ExportCountMatchesItems
  <1>2. CASE \/ SubmitWrite(r) \/ RejectWrite(r) \/ ConfirmWrite(r)
             \/ SessionMark(r) \/ CompleteWrite(r)
    <2>1. /\ l.exp \in Exports
          /\ \E status \in TicketStatuses :
               WriteTicket(l.exp, WithStatus(exp[l.exp], status))
      BY <1>2, <1>e DEF SubmitWrite, RejectWrite, ConfirmWrite, SessionMark,
                        CompleteWrite, TicketCalls, TicketStatuses
    <2>2. exp[l.exp] \in TicketRec /\ Counted(exp[l.exp])
      BY <2>1 DEF TypeInv, TypeOK, ExportCountMatchesItems, Counted
    <2> QED BY <2>1, <2>2, StatusCounted, WriteCounted
  <1>3. CASE ApproveWrite(r)
    <2>1. l.exp \in Exports /\ exp[l.exp] \in TicketRec /\ Counted(exp[l.exp])
      BY <1>3, <1>e DEF ApproveWrite, TicketCalls
    <2> DEFINE doc == [WithStatus(exp[l.exp], "APPROVED") EXCEPT !.approved = TRUE]
    <2>2. Counted(doc)
      BY <2>1 DEF Counted, TicketRec, WithStatus
    <2>3. WriteTicket(l.exp, doc)
      BY <1>3 DEF ApproveWrite
    <2> QED BY <2>1, <2>2, <2>3, WriteCounted
  <1>4. CASE AddItemsWrite(r)
    <2>1. l.exp \in Exports /\ exp[l.exp] \in TicketRec
      BY <1>4, <1>e DEF AddItemsWrite, TicketCalls
    <2> DEFINE doc == [exp[l.exp] EXCEPT !.items = l.items \o l.batch,
                                         !.totalItems = Len(l.items) + Len(l.batch),
                                         !.given = FALSE]
               written == IF l.status = "APPROVED"
                          THEN WithStatus(doc, "IN_PROGRESS") ELSE doc
    <2>2. /\ l.items \o l.batch \in Seq(Macs)
          /\ Len(l.items \o l.batch) = Len(l.items) + Len(l.batch)
          /\ Len(l.items) + Len(l.batch) \in Nat
      BY <1>0, ToSetConcat
    <2>3. doc \in TicketRec /\ Counted(doc)
      BY <2>1, <2>2 DEF TicketRec, Counted
    <2>4. WriteTicket(l.exp, written)
      BY <1>4 DEF AddItemsWrite
    <2> HIDE DEF doc
    <2>5. Counted(written)
      BY <2>3, StatusCounted
    <2> HIDE DEF written
    <2> QED BY <2>1, <2>4, <2>5, WriteCounted
  <1>5. CASE CompletePush(r)
    <2>1. l.exp \in Exports /\ exp[l.exp] \in TicketRec /\ Counted(exp[l.exp])
      BY <1>5, <1>e DEF CompletePush, TicketCalls
    <2> DEFINE doc == [exp[l.exp] EXCEPT !.items = @ \o l.items,
                                         !.totalItems = @ + Len(l.items)]
    <2>2. Len(exp[l.exp].items \o l.items) = Len(exp[l.exp].items) + Len(l.items)
      BY <1>0, <2>1, ToSetConcat DEF TicketRec
    <2>3. Counted(doc)
      BY <2>1, <2>2 DEF TicketRec, Counted
    <2>4. WriteTicket(l.exp, doc)
      BY <1>5 DEF CompletePush
    <2> QED BY <2>1, <2>3, <2>4, WriteCounted
  <1>6. \/ UNCHANGED exp
        \/ SubmitWrite(r) \/ RejectWrite(r) \/ ConfirmWrite(r) \/ SessionMark(r)
        \/ CompleteWrite(r) \/ ApproveWrite(r) \/ AddItemsWrite(r) \/ CompletePush(r)
    BY DEF TicketStart, SessionStart, Step, TicketStep, SessionStep, TransferSave,
           AddItemsRead, SubmitRead, RejectRead, ApproveRead, ConfirmRead,
           ApproveStock, ApproveReserve, ConfirmMove,
           SessionRead, SessionInsert, ScanSerial, ScanBulk, ScanSession, ScanExport, ScanDevices,
           ScanCheck, ScanPush, RemoveRead, RemovePull, CompleteRead, CompleteMove,
           CompleteClose, CompleteTotal
  <1> QED BY <1>1, <1>2, <1>3, <1>4, <1>5, <1>6

(* Until a client sends items or their count in a body, and again from the *)
(* next whole-list write on, the count of a ticket's items survives every  *)
(* interleaving of whole-list writes, pushes, patches, deletions and       *)
(* crashes, whatever parts of the API are used.                            *)
THEOREM CountIsExact == Spec => []ExportCountMatchesItems
  <1>1. Init => TypeInv /\ ExportCountMatchesItems
    BY TypeInit DEF Init, ExportCountMatchesItems, NoTicket
  <1>2. TypeInv /\ ExportCountMatchesItems /\ [Next]_vars => ExportCountMatchesItems'
    <2> SUFFICES ASSUME TypeInv, ExportCountMatchesItems, [Next]_vars
                 PROVE  ExportCountMatchesItems'
      OBVIOUS
    <2>1. CASE UNCHANGED exp
      BY <2>1 DEF ExportCountMatchesItems
    <2>2. \/ UNCHANGED exp
          \/ \E e \in Exports : TicketDocument(e)
          \/ \E r \in Requests : TicketStart(r) \/ SessionStart(r) \/ Step(r)
      BY DEF Next, vars, Crash, TransferRead
    <2> QED BY <2>1, <2>2, DocumentCounted, CallCounted
  <1> QED BY <1>1, <1>2, TypeStep, PTL DEF Spec

-----------------------------------------------------------------------------
(***************************************************************************)
(* Approval.  ApprovedBeforeExport is not inductive: a request in flight   *)
(* may be about to put an item on a ticket, open a session or sell a       *)
(* device.  Such a request has seen the approval, or items or a session    *)
(* that carry it, and an approval is never taken back; that is what        *)
(* ApprovalInv adds.                                                       *)
(***************************************************************************)
TicketOK(t) == /\ t.status = "ABSENT" => ~ t.approved
               /\ t.status \in Reserving => t.approved
               /\ t.items # <<>> => t.approved

(* The calls that depend on an approval, and those that close a session.   *)
ApprovedCalls == {"AddItems", "ConfirmMove", "SessionInsert", "SessionMark",
                  "CompletePush", "CompleteMove"}
ClosingCalls  == {"CompletePush", "CompleteMove", "CompleteClose"}

TicketsOK      == \A e \in Exports : TicketOK(exp[e])
SessionsFrom   == \A s \in Sessions :
                    Allocated(s) => ses[s].exp \in Exports /\ exp[ses[s].exp].approved
SalesFrom      == \A m \in Macs, e \in Exports : e \in soldFor[m] => exp[e].approved
CallApproved(r) == pc[r] \in ApprovedCalls => exp[loc[r].exp].approved
CallCloses(r)   == pc[r] \in ClosingCalls => Allocated(loc[r].ses)
CallsApproved   == \A r \in Requests : CallApproved(r) /\ CallCloses(r)

ApprovalInv == /\ TicketsOK
               /\ SessionsFrom
               /\ SalesFrom
               /\ CallsApproved

ApprovalsKept == \A e \in Exports : exp[e].approved => exp'[e].approved

SessionsKept == \A s \in Sessions : Allocated(s) => Allocated(s)'

(* Nothing is listed, open or sold at the start.                           *)
LEMMA ApprovalInit == Init => ApprovalInv
  <1> SUFFICES ASSUME Init PROVE ApprovalInv
    OBVIOUS
  <1>1. TicketsOK
    BY DEF Init, TicketsOK, TicketOK, NoTicket, Reserving
  <1>2. SessionsFrom
    BY DEF Init, SessionsFrom, Allocated, NoSession, SessionStatuses
  <1>3. SalesFrom
    BY DEF Init, SalesFrom
  <1>4. \A r \in Requests : pc[r] = "Idle"
    BY DEF Init
  <1>5. CallsApproved
    BY <1>4 DEF CallsApproved, CallApproved, CallCloses, ApprovedCalls, ClosingCalls
  <1> QED BY <1>1, <1>2, <1>3, <1>5 DEF ApprovalInv

(* Writing a good document over a ticket, approved if the ticket was.      *)
LEMMA WriteOK ==
  ASSUME TypeInv, TicketsOK, NEW e \in Exports, NEW doc, TicketOK(doc),
         exp[e].approved => doc.approved, WriteTicket(e, doc)
  PROVE  TicketsOK' /\ ApprovalsKept
  BY DEF TypeInv, TypeOK, TicketsOK, ApprovalsKept, WriteTicket

(* A status alone keeps a ticket as approval requires it.                  *)
LEMMA StatusOK ==
  ASSUME NEW t \in TicketRec, TicketOK(t), NEW status \in TicketStatuses,
         status \in Reserving => t.approved
  PROVE  /\ TicketOK(WithStatus(t, status))
         /\ WithStatus(t, status).approved = t.approved
         /\ WithStatus(t, status).items = t.items
  BY DEF TicketRec, TicketOK, WithStatus, TicketStatuses

(* A call of r that keeps the approvals and goes to a step it may take.    *)
LEMMA CallsKept ==
  ASSUME TypeInv, CallsApproved, NEW r \in Requests, NEW step, NEW l,
         Goto(r, step, l), ApprovalsKept, SessionsKept,
         step \in ApprovedCalls => exp'[l.exp].approved,
         step \in ClosingCalls => ses'[l.ses].status \in SessionStatuses
  PROVE  CallsApproved'
  <1> SUFFICES ASSUME NEW q \in Requests PROVE CallApproved(q)' /\ CallCloses(q)'
    BY DEF CallsApproved
  <1>1. CASE q = r
    BY <1>1 DEF Goto, CallApproved, CallCloses, Allocated, TypeInv, TypeOK
  <1>2. CASE q # r
    <2>1. pc'[q] = pc[q] /\ loc'[q] = loc[q]
      BY <1>2 DEF Goto, TypeInv, TypeOK
    <2>2. pc[q] \in ApprovedCalls => loc[q].exp \in Exports
      BY DEF TypeInv, HoldsOK, HoldsTicket, ApprovedCalls, TicketCalls
    <2>3. pc[q] \in ClosingCalls => loc[q].ses \in Sessions
      BY DEF TypeInv, HoldsOK, HoldsSession, ClosingCalls, SessionCalls
    <2> QED
      BY <2>1, <2>2, <2>3
      DEF CallsApproved, CallApproved, CallCloses, ApprovalsKept, SessionsKept
  <1> QED BY <1>1, <1>2

(* A request that ends depends on no approval.                             *)
LEMMA FinishKept ==
  ASSUME TypeInv, CallsApproved, NEW r \in Requests, Finish(r),
         ApprovalsKept, SessionsKept
  PROVE  CallsApproved'
  BY CallsKept DEF Finish, ApprovedCalls, ClosingCalls

(* Nothing but the requests changes.                                       *)
LEMMA StoreKept ==
  ASSUME TypeInv, ApprovalInv, UNCHANGED <<exp, ses, soldFor>>
  PROVE  /\ TicketsOK' /\ SessionsFrom' /\ SalesFrom'
         /\ ApprovalsKept /\ SessionsKept
  BY DEF ApprovalInv, TicketsOK, SessionsFrom, SalesFrom, ApprovalsKept,
         SessionsKept, Allocated

(* A ticket is written and the sessions and sales stay.                    *)
LEMMA TicketWriteKept ==
  ASSUME TypeInv, ApprovalInv, ApprovalsKept, UNCHANGED <<ses, soldFor>>
  PROVE  SessionsFrom' /\ SalesFrom' /\ SessionsKept
  BY DEF TypeInv, TypeOK, ApprovalInv, SessionsFrom, SalesFrom, ApprovalsKept,
         SessionsKept, Allocated

(* A read by r that goes to a call it may make.                            *)
LEMMA ReadKept ==
  ASSUME TypeInv, ApprovalInv, NEW r \in Requests, NEW step, NEW l,
         Goto(r, step, l), UNCHANGED <<exp, ses, soldFor>>,
         step \in ApprovedCalls => exp[l.exp].approved,
         step \in ClosingCalls => Allocated(l.ses)
  PROVE  ApprovalInv'
  <1>1. CallsApproved'
    BY StoreKept, CallsKept DEF ApprovalInv, Allocated
  <1> QED BY <1>1, StoreKept DEF ApprovalInv

(* The last call of r, a status written on the ticket it holds.            *)
LEMMA StatusKept ==
  ASSUME TypeInv, ApprovalInv, NEW r \in Requests, NEW e \in Exports,
         NEW status \in TicketStatuses, status \in Reserving => exp[e].approved,
         WriteTicket(e, WithStatus(exp[e], status)), Finish(r),
         UNCHANGED <<ses, soldFor>>
  PROVE  ApprovalInv'
  <1>1. exp[e] \in TicketRec /\ TicketOK(exp[e])
    BY DEF TypeInv, TypeOK, ApprovalInv, TicketsOK
  <1>2. TicketsOK' /\ ApprovalsKept
    BY <1>1, StatusOK, WriteOK DEF ApprovalInv
  <1> QED BY <1>2, TicketWriteKept, FinishKept DEF ApprovalInv

(* Create, patch and delete take no approval back.                         *)
LEMMA DocumentKept ==
  ASSUME TypeInv, ApprovalInv, "clientItems" \notin Features,
         NEW e \in Exports, TicketDocument(e)
  PROVE  ApprovalInv'
  <1>1. UNCHANGED <<ses, dev, soldFor, pc, loc>>
    BY DEF TicketDocument, CreateTicket, PatchTicket, DeleteTicket
  <1>2. ClientItems = {}
    BY DEF ClientItems
  <1>3. TicketsOK' /\ ApprovalsKept
    <2>1. CASE CreateTicket(e)
      <3>1. PICK status \in {"DRAFT", "PENDING_APPROVAL"}, plan \in Plans,
                 quantity \in Totals, count \in ClientCounts \cup {0} :
              exp' = [exp EXCEPT ![e] =
                      WithBody(NoTicket, status, plan, quantity, <<>>, count)]
        BY <1>2, <2>1 DEF CreateTicket
      <3> DEFINE doc == WithBody(NoTicket, status, plan, quantity, <<>>, count)
      <3>2. TicketOK(doc)
        <4>1. doc.status = status /\ doc.items = <<>> /\ doc.approved = FALSE
          BY BlankType, BodyFields DEF NoTicket
        <4> QED BY <4>1 DEF TicketOK, Reserving
      <3>3. ~ exp[e].approved
        BY <2>1 DEF CreateTicket, ApprovalInv, TicketsOK, TicketOK
      <3> HIDE DEF doc
      <3> QED
        BY <3>1, <3>2, <3>3
        DEF TypeInv, TypeOK, ApprovalInv, TicketsOK, ApprovalsKept, doc
    <2>2. CASE PatchTicket(e)
      <3>1. PICK status \in {exp[e].status, "DRAFT", "PENDING_APPROVAL"},
                 plan \in Plans \cup {exp[e].plan},
                 quantity \in Totals \cup {exp[e].totalQuantity},
                 items \in ClientItems \cup {exp[e].items},
                 count \in ClientCounts \cup {exp[e].totalItems} :
              exp' = [exp EXCEPT ![e] =
                      WithBody(exp[e], status, plan, quantity, items, count)]
        BY <2>2 DEF PatchTicket
      <3>2. exp[e] \in TicketRec /\ TicketOK(exp[e])
        BY DEF TypeInv, TypeOK, ApprovalInv, TicketsOK
      <3>3. /\ exp'[e].approved = exp[e].approved
            /\ exp'[e].items = items
            /\ exp'[e].status = status
            /\ \A f \in Exports \ {e} : exp'[f] = exp[f]
        BY <3>1, <3>2, BodyFields DEF TypeInv, TypeOK
      <3>4. TicketOK(exp'[e])
        BY <1>2, <3>2, <3>3 DEF TicketOK, Reserving
      <3> QED BY <3>3, <3>4 DEF ApprovalInv, TicketsOK, ApprovalsKept
    <2>3. CASE DeleteTicket(e)
      <3> DEFINE doc == [NoTicket EXCEPT !.status = "DELETED",
                                         !.approved = exp[e].approved,
                                         !.wasCompleted = exp[e].wasCompleted]
      <3>1. TicketOK(doc) /\ doc.approved = exp[e].approved
        BY DEF TicketOK, NoTicket, Reserving
      <3>2. exp' = [exp EXCEPT ![e] = doc]
        BY <2>3 DEF DeleteTicket
      <3> HIDE DEF doc
      <3> QED
        BY <3>1, <3>2 DEF TypeInv, TypeOK, ApprovalInv, TicketsOK, ApprovalsKept
    <2> QED BY <2>1, <2>2, <2>3 DEF TicketDocument
  <1>4. SessionsFrom' /\ SalesFrom' /\ SessionsKept
    BY <1>1, <1>3, TicketWriteKept
  <1>5. CallsApproved'
    <2> SUFFICES ASSUME NEW q \in Requests PROVE CallApproved(q)' /\ CallCloses(q)'
      BY DEF CallsApproved
    <2>1. pc[q] \in ApprovedCalls => loc[q].exp \in Exports
      BY DEF TypeInv, HoldsOK, HoldsTicket, ApprovedCalls, TicketCalls
    <2> QED
      BY <1>1, <1>3, <2>1
      DEF ApprovalInv, CallsApproved, CallApproved, CallCloses, ApprovalsKept, Allocated
  <1> QED BY <1>3, <1>4, <1>5 DEF ApprovalInv

(* A ticket handler starts on an approval it has read.                     *)
LEMMA TicketStartKept ==
  ASSUME TypeInv, ApprovalInv, NEW r \in Requests, TicketStart(r)
  PROVE  ApprovalInv'
  <1> USE DEF ApprovedCalls, ClosingCalls
  <1>1. CASE AddItemsRead(r)
    <2>1. PICK e \in Exports, batch \in Batches :
            /\ exp[e].status \in Reserving
            /\ Goto(r, "AddItems", [Blank EXCEPT !.exp = e, !.status = exp[e].status,
                                                 !.items = exp[e].items,
                                                 !.batch = batch])
      BY <1>1 DEF AddItemsRead
    <2>2. exp[e].approved
      BY <2>1 DEF ApprovalInv, TicketsOK, TicketOK
    <2> QED BY <1>1, <2>1, <2>2, ReadKept DEF AddItemsRead, Blank
  <1>2. CASE SubmitRead(r)
    BY <1>2, ReadKept DEF SubmitRead
  <1>3. CASE RejectRead(r)
    BY <1>3, ReadKept DEF RejectRead
  <1>4. CASE ApproveRead(r)
    BY <1>4, ReadKept DEF ApproveRead
  <1>5. CASE ConfirmRead(r)
    <2>1. PICK e \in Exports :
            /\ exp[e].items # <<>>
            /\ Goto(r, "ConfirmMove", [Blank EXCEPT !.exp = e, !.items = exp[e].items])
      BY <1>5 DEF ConfirmRead
    <2>2. exp[e].approved
      BY <2>1 DEF ApprovalInv, TicketsOK, TicketOK
    <2> QED BY <1>5, <2>1, <2>2, ReadKept DEF ConfirmRead, Blank
  <1> QED BY <1>1, <1>2, <1>3, <1>4, <1>5 DEF TicketStart

(* The later calls of the ticket handlers keep ApprovalInv.                *)
LEMMA TicketStepKept ==
  ASSUME TypeInv, ApprovalInv, NEW r \in Requests, TicketStep(r)
  PROVE  ApprovalInv'
  <1> DEFINE l == loc[r]
  <1>0. l.items \in Seq(Macs) /\ l.batch \in Seq(Macs)
    BY DEF TypeInv, TypeOK, LocRec
  <1>e. ASSUME pc[r] \in TicketCalls
        PROVE  /\ l.exp \in Exports
               /\ exp[l.exp] \in TicketRec
               /\ TicketOK(exp[l.exp])
    BY <1>e DEF TypeInv, TypeOK, HoldsOK, HoldsTicket, ApprovalInv, TicketsOK
  <1>a. ASSUME pc[r] \in ApprovedCalls PROVE exp[l.exp].approved
    BY <1>a DEF ApprovalInv, CallsApproved, CallApproved
  <1>1. CASE AddItemsWrite(r)
    <2>1. l.exp \in Exports /\ exp[l.exp] \in TicketRec /\ exp[l.exp].approved
      BY <1>1, <1>a, <1>e DEF AddItemsWrite, TicketCalls, ApprovedCalls
    <2> DEFINE doc == [exp[l.exp] EXCEPT !.items = l.items \o l.batch,
                                         !.totalItems = Len(l.items) + Len(l.batch),
                                         !.given = FALSE]
               written == IF l.status = "APPROVED"
                          THEN WithStatus(doc, "IN_PROGRESS") ELSE doc
    <2>2. /\ l.items \o l.batch \in Seq(Macs)
          /\ Len(l.items \o l.batch) = Len(l.items) + Len(l.batch)
          /\ Len(l.items) + Len(l.batch) \in Nat
      BY <1>0, ToSetConcat
    <2>3. doc \in TicketRec /\ doc.approved
      BY <2>1, <2>2 DEF TicketRec
    <2>4. TicketOK(doc)
      BY <2>1, <2>2, <1>1, <1>e DEF TicketOK, TicketRec, AddItemsWrite, TicketCalls
    <2> HIDE DEF doc
    <2>5. TicketOK(written) /\ written.approved
      BY <2>3, <2>4, StatusOK DEF TicketStatuses
    <2>6. WriteTicket(l.exp, written) /\ Finish(r) /\ UNCHANGED <<ses, soldFor>>
      BY <1>1 DEF AddItemsWrite, doc
    <2> HIDE DEF written
    <2>7. TicketsOK' /\ ApprovalsKept
      BY <2>1, <2>5, <2>6, WriteOK DEF ApprovalInv
    <2> QED BY <2>6, <2>7, TicketWriteKept, FinishKept DEF ApprovalInv
  <1>2. CASE SubmitWrite(r)
    BY <1>2, <1>e, StatusKept DEF SubmitWrite, TicketCalls, TicketStatuses, Reserving
  <1>3. CASE RejectWrite(r)
    BY <1>3, <1>e, StatusKept DEF RejectWrite, TicketCalls, TicketStatuses, Reserving
  <1>4. CASE ApproveStock(r)
    BY <1>4, ReadKept DEF ApproveStock, ApprovedCalls, ClosingCalls
  <1>5. CASE ApproveReserve(r)
    BY <1>5, ReadKept DEF ApproveReserve, Finish, ApprovedCalls, ClosingCalls
  <1>6. CASE ApproveWrite(r)
    <2>1. l.exp \in Exports /\ exp[l.exp] \in TicketRec /\ TicketOK(exp[l.exp])
      BY <1>6, <1>e DEF ApproveWrite, TicketCalls
    <2> DEFINE doc == [WithStatus(exp[l.exp], "APPROVED") EXCEPT !.approved = TRUE]
    <2>2. TicketOK(doc) /\ doc.approved
      BY <2>1 DEF TicketOK, TicketRec, WithStatus
    <2>3. WriteTicket(l.exp, doc) /\ Finish(r) /\ UNCHANGED <<ses, soldFor>>
      BY <1>6 DEF ApproveWrite
    <2> HIDE DEF doc
    <2>4. TicketsOK' /\ ApprovalsKept
      BY <2>1, <2>2, <2>3, WriteOK DEF ApprovalInv
    <2> QED BY <2>3, <2>4, TicketWriteKept, FinishKept DEF ApprovalInv
  <1>7. CASE ConfirmMove(r)
    <2>1. l.exp \in Exports /\ exp[l.exp].approved
      BY <1>7, <1>a, <1>e DEF ConfirmMove, TicketCalls, ApprovedCalls
    <2>2. TicketsOK' /\ SessionsFrom' /\ ApprovalsKept /\ SessionsKept
      BY <1>7
      DEF ConfirmMove, ApprovalInv, TicketsOK, SessionsFrom, ApprovalsKept,
          SessionsKept, Allocated
    <2>3. SalesFrom'
      BY <1>7, <2>1 DEF ConfirmMove, MoveToSoldWarehouse, ApprovalInv, SalesFrom
    <2>4. CallsApproved'
      BY <1>7, <2>2, CallsKept DEF ConfirmMove, ApprovalInv, ApprovedCalls, ClosingCalls
    <2> QED BY <2>2, <2>3, <2>4 DEF ApprovalInv
  <1>8. CASE ConfirmWrite(r)
    BY <1>8, <1>e, StatusKept DEF ConfirmWrite, TicketCalls, TicketStatuses, Reserving
  <1> QED
    BY <1>1, <1>2, <1>3, <1>4, <1>5, <1>6, <1>7, <1>8 DEF TicketStep

(* A session handler starts on an approval it has read.                    *)
LEMMA SessionStartKept ==
  ASSUME TypeInv, ApprovalInv, NEW r \in Requests, SessionStart(r)
  PROVE  ApprovalInv'
  <1> USE DEF ApprovedCalls, ClosingCalls
  <1>1. CASE SessionRead(r)
    <2>1. PICK e \in Exports, s \in Sessions :
            /\ exp[e].status \in {"APPROVED", "IN_PROGRESS"}
            /\ Goto(r, "SessionInsert", [Blank EXCEPT !.exp = e, !.ses = s,
                                                      !.status = exp[e].status])
      BY <1>1 DEF SessionRead
    <2>2. exp[e].approved
      BY <2>1 DEF ApprovalInv, TicketsOK, TicketOK, Reserving
    <2> QED BY <1>1, <2>1, <2>2, ReadKept DEF SessionRead, Blank
  <1>2. CASE ScanSerial(r)
    BY <1>2, ReadKept DEF ScanSerial, ScanSession
  <1>3. CASE ScanBulk(r)
    BY <1>3, ReadKept DEF ScanBulk, ScanSession
  <1>4. CASE RemoveRead(r)
    BY <1>4, ReadKept DEF RemoveRead
  <1>5. CASE CompleteRead(r)
    <2>1. PICK s \in Sessions :
            /\ ses[s].status = "IN_PROGRESS"
            /\ Goto(r, "CompletePush", [Blank EXCEPT !.ses = s, !.exp = ses[s].exp,
                                                     !.items = ses[s].items])
      BY <1>5 DEF CompleteRead
    <2>2. Allocated(s) /\ exp[ses[s].exp].approved
      BY <2>1 DEF ApprovalInv, SessionsFrom, Allocated, SessionStatuses
    <2> QED BY <1>5, <2>1, <2>2, ReadKept DEF CompleteRead, Blank
  <1> QED BY <1>1, <1>2, <1>3, <1>4, <1>5 DEF SessionStart

(* A call that writes the items or the count of one session.               *)
LEMMA SessionWriteKept ==
  ASSUME TypeInv, ApprovalInv, NEW r \in Requests, Finish(r),
         NEW s \in Sessions, NEW doc \in SessionRec,
         doc.status = ses[s].status, doc.exp = ses[s].exp,
         ses' = [ses EXCEPT ![s] = doc], UNCHANGED <<exp, soldFor>>
  PROVE  ApprovalInv'
  <1>1. /\ TicketsOK' /\ SalesFrom' /\ ApprovalsKept
        /\ SessionsFrom' /\ SessionsKept
    BY DEF TypeInv, TypeOK, ApprovalInv, TicketsOK, SalesFrom, ApprovalsKept,
           SessionsFrom, SessionsKept, Allocated
  <1> QED BY <1>1, FinishKept DEF ApprovalInv

(* The later calls of the session handlers keep ApprovalInv.               *)
LEMMA SessionStepKept ==
  ASSUME TypeInv, ApprovalInv, NEW r \in Requests, SessionStep(r)
  PROVE  ApprovalInv'
  <1> DEFINE l == loc[r]
  <1>0. l.items \in Seq(Macs) /\ l.ok \in Seq(Macs)
    BY DEF TypeInv, TypeOK, LocRec
  <1>e. ASSUME pc[r] \in TicketCalls
        PROVE  /\ l.exp \in Exports
               /\ exp[l.exp] \in TicketRec
               /\ TicketOK(exp[l.exp])
    BY <1>e DEF TypeInv, TypeOK, HoldsOK, HoldsTicket, ApprovalInv, TicketsOK
  <1>s. ASSUME pc[r] \in SessionCalls
        PROVE  l.ses \in Sessions /\ ses[l.ses] \in SessionRec
    BY <1>s DEF TypeInv, TypeOK, HoldsOK, HoldsSession
  <1>a. ASSUME pc[r] \in ApprovedCalls PROVE exp[l.exp].approved
    BY <1>a DEF ApprovalInv, CallsApproved, CallApproved
  <1>c. ASSUME pc[r] \in ClosingCalls PROVE Allocated(l.ses)
    BY <1>c DEF ApprovalInv, CallsApproved, CallCloses
  <1>1. CASE SessionInsert(r)
    <2>1. l.exp \in Exports /\ l.ses \in Sessions /\ exp[l.exp].approved
      BY <1>1, <1>a, <1>e, <1>s
      DEF SessionInsert, TicketCalls, SessionCalls, ApprovedCalls
    <2> DEFINE doc == [NoSession EXCEPT !.status = "IN_PROGRESS", !.exp = l.exp]
    <2>2. doc.status \in SessionStatuses /\ doc.exp = l.exp
      BY DEF NoSession, SessionStatuses
    <2>3. ses' = [ses EXCEPT ![l.ses] = doc] /\ UNCHANGED <<exp, soldFor>>
      BY <1>1 DEF SessionInsert
    <2> HIDE DEF doc
    <2>4. /\ TicketsOK' /\ SalesFrom' /\ ApprovalsKept
          /\ SessionsFrom' /\ SessionsKept
      BY <2>1, <2>2, <2>3
      DEF TypeInv, TypeOK, ApprovalInv, TicketsOK, SalesFrom, ApprovalsKept,
          SessionsFrom, SessionsKept, Allocated
    <2>5. CallsApproved'
      <3>1. CASE Finish(r)
        BY <2>4, <3>1, FinishKept DEF ApprovalInv
      <3>2. CASE Goto(r, "SessionMark", l)
        BY <2>1, <2>3, <2>4, <3>2, CallsKept DEF ApprovalInv, ApprovedCalls, ClosingCalls
      <3> QED BY <1>1, <3>1, <3>2 DEF SessionInsert
    <2> QED BY <2>4, <2>5 DEF ApprovalInv
  <1>2. CASE SessionMark(r)
    BY <1>2, <1>e, <1>a, StatusKept
    DEF SessionMark, TicketCalls, ApprovedCalls, TicketStatuses
  <1>3. CASE ScanExport(r)
    BY <1>3, ReadKept DEF ScanExport, Finish, ApprovedCalls, ClosingCalls
  <1>4. CASE ScanDevices(r)
    BY <1>4, ReadKept DEF ScanDevices, ApprovedCalls, ClosingCalls
  <1>5. CASE ScanCheck(r)
    BY <1>5, ReadKept DEF ScanCheck, Finish, ApprovedCalls, ClosingCalls
  <1>6. CASE ScanPush(r)
    <2>1. l.ses \in Sessions /\ ses[l.ses] \in SessionRec
      BY <1>6, <1>s DEF ScanPush, SessionCalls
    <2> DEFINE doc == [ses[l.ses] EXCEPT !.items = @ \o l.ok,
                                         !.serialChecked = @ + Len(l.ok)]
    <2>2. doc \in SessionRec /\ doc.status = ses[l.ses].status
          /\ doc.exp = ses[l.ses].exp
      <3>1. /\ ses[l.ses].items \o l.ok \in Seq(Macs)
            /\ ses[l.ses].serialChecked + Len(l.ok) \in Int
        BY <1>0, <2>1, ToSetConcat DEF SessionRec
      <3> QED BY <2>1, <3>1 DEF SessionRec
    <2>3. /\ ses' = [ses EXCEPT ![l.ses] = doc]
          /\ UNCHANGED <<exp, soldFor>>
          /\ Finish(r)
      BY <1>6, <2>1 DEF ScanPush, TypeInv, TypeOK
    <2> HIDE DEF doc
    <2> QED BY <2>1, <2>2, <2>3, SessionWriteKept
  <1>7. CASE RemovePull(r)
    <2>1. l.ses \in Sessions /\ ses[l.ses] \in SessionRec
      BY <1>7, <1>s DEF RemovePull, SessionCalls
    <2> DEFINE left == Pull(ses[l.ses].items, l.serial)
               doc == [ses[l.ses] EXCEPT !.items = left, !.serialChecked = @ - 1]
    <2>2. left \in Seq(Macs)
      BY <2>1, PullFacts DEF SessionRec
    <2> HIDE DEF left
    <2>3. doc \in SessionRec /\ doc.status = ses[l.ses].status
          /\ doc.exp = ses[l.ses].exp
      <3>1. ses[l.ses].serialChecked - 1 \in Int
        BY <2>1 DEF SessionRec
      <3> QED BY <2>1, <2>2, <3>1 DEF SessionRec
    <2>4. /\ ses' = [ses EXCEPT ![l.ses] = doc]
          /\ UNCHANGED <<exp, soldFor>>
          /\ Finish(r)
      BY <1>7, <2>1 DEF RemovePull, TypeInv, TypeOK, left
    <2> HIDE DEF doc
    <2> QED BY <2>1, <2>3, <2>4, SessionWriteKept
  <1>8. CASE CompletePush(r)
    <2>1. /\ l.exp \in Exports
          /\ exp[l.exp] \in TicketRec
          /\ TicketOK(exp[l.exp])
          /\ exp[l.exp].approved
          /\ Allocated(l.ses)
      BY <1>8, <1>a, <1>c, <1>e
      DEF CompletePush, TicketCalls, ApprovedCalls, ClosingCalls
    <2> DEFINE doc == [exp[l.exp] EXCEPT !.items = @ \o l.items,
                                         !.totalItems = @ + Len(l.items)]
    <2>2. doc.approved /\ TicketOK(doc)
      <3>1. /\ exp[l.exp].items \o l.items \in Seq(Macs)
            /\ Len(exp[l.exp].items \o l.items)
                 = Len(exp[l.exp].items) + Len(l.items)
        BY <1>0, <2>1, ToSetConcat DEF TicketRec
      <3> QED BY <2>1, <3>1 DEF TicketRec, TicketOK
    <2>3. /\ WriteTicket(l.exp, doc)
          /\ Goto(r, "CompleteMove", l)
          /\ UNCHANGED <<ses, soldFor>>
      BY <1>8 DEF CompletePush
    <2> HIDE DEF doc
    <2>4. TicketsOK' /\ ApprovalsKept
      BY <2>1, <2>2, <2>3, WriteOK DEF ApprovalInv
    <2>5. SessionsFrom' /\ SalesFrom' /\ SessionsKept
      BY <2>3, <2>4, TicketWriteKept
    <2>6. exp'[l.exp].approved /\ ses'[l.ses].status \in SessionStatuses
      BY <2>1, <2>3, <2>4 DEF ApprovalsKept, Allocated
    <2>7. CallsApproved'
      BY <2>3, <2>4, <2>5, <2>6, CallsKept DEF ApprovalInv
    <2> QED BY <2>4, <2>5, <2>7 DEF ApprovalInv
  <1>9. CASE CompleteMove(r)
    <2>1. l.exp \in Exports /\ exp[l.exp].approved /\ Allocated(l.ses)
      BY <1>9, <1>a, <1>c, <1>e
      DEF CompleteMove, TicketCalls, ApprovedCalls, ClosingCalls
    <2>2. TicketsOK' /\ SessionsFrom' /\ ApprovalsKept /\ SessionsKept
      BY <1>9
      DEF CompleteMove, ApprovalInv, TicketsOK, SessionsFrom, ApprovalsKept,
          SessionsKept, Allocated
    <2>3. SalesFrom'
      BY <1>9, <2>1 DEF CompleteMove, MoveToSoldWarehouse, ApprovalInv, SalesFrom
    <2> DEFINE next == [l EXCEPT !.items = <<>>]
    <2>4. next.ses = l.ses
      BY DEF TypeInv, TypeOK, LocRec
    <2>5. CallsApproved'
      BY <1>9, <2>1, <2>2, <2>4, CallsKept
      DEF CompleteMove, ApprovalInv, Allocated, ApprovedCalls, ClosingCalls
    <2> QED BY <2>2, <2>3, <2>5 DEF ApprovalInv
  <1>10. CASE CompleteClose(r)
    <2>1. l.ses \in Sessions /\ ses[l.ses] \in SessionRec /\ Allocated(l.ses)
      BY <1>10, <1>s, <1>c DEF CompleteClose, SessionCalls, ClosingCalls
    <2> DEFINE doc == [ses[l.ses] EXCEPT !.status = "COMPLETED"]
    <2>2. doc.status = "COMPLETED" /\ doc.exp = ses[l.ses].exp
      BY <2>1 DEF SessionRec
    <2>3. ses' = [ses EXCEPT ![l.ses] = doc] /\ UNCHANGED <<exp, soldFor>>
      BY <1>10, <2>1 DEF CompleteClose, TypeInv, TypeOK
    <2> HIDE DEF doc
    <2>4. /\ TicketsOK' /\ SalesFrom' /\ ApprovalsKept
          /\ SessionsFrom' /\ SessionsKept
      BY <2>1, <2>2, <2>3
      DEF TypeInv, TypeOK, ApprovalInv, TicketsOK, SalesFrom, ApprovalsKept,
          SessionsFrom, SessionsKept, Allocated, SessionStatuses
    <2>5. CallsApproved'
      BY <1>10, <2>4, CallsKept
      DEF CompleteClose, ApprovalInv, ApprovedCalls, ClosingCalls
    <2> QED BY <2>4, <2>5 DEF ApprovalInv
  <1>11. CASE CompleteTotal(r)
    BY <1>11, ReadKept DEF CompleteTotal, Finish, ApprovedCalls, ClosingCalls
  <1>12. CASE CompleteWrite(r)
    BY <1>12, <1>e, StatusKept
    DEF CompleteWrite, TicketCalls, TicketStatuses, Reserving
  <1> QED
    BY <1>1, <1>2, <1>3, <1>4, <1>5, <1>6, <1>7, <1>8, <1>9, <1>10, <1>11, <1>12
    DEF SessionStep

(* ApprovalInv is inductive where no client sends items.                   *)
LEMMA ApprovalStep ==
  ASSUME "clientItems" \notin Features, TypeInv, ApprovalInv, [Next]_vars
  PROVE  ApprovalInv'
  <1>1. CASE UNCHANGED vars
    BY <1>1 DEF vars, ApprovalInv, TicketsOK, SessionsFrom, SalesFrom, CallsApproved,
                CallApproved, CallCloses, Allocated
  <1>2. ASSUME NEW e \in Exports, TicketDocument(e) PROVE ApprovalInv'
    BY <1>2, DocumentKept
  <1>3. ASSUME NEW r \in Requests, TransferRead(r) \/ TransferSave(r)
        PROVE  ApprovalInv'
    BY <1>3, ReadKept DEF TransferRead, TransferSave, Finish, ApprovedCalls, ClosingCalls
  <1>4. ASSUME NEW r \in Requests, TicketStart(r) \/ SessionStart(r) \/ Step(r)
        PROVE  ApprovalInv'
    BY <1>3, <1>4, TicketStartKept, SessionStartKept, TicketStepKept, SessionStepKept
    DEF Step
  <1>5. CASE Crash
    <2>1. CallsApproved'
      BY <1>5 DEF Crash, CallsApproved, CallApproved, CallCloses, ApprovedCalls,
                  ClosingCalls
    <2> QED BY <1>5, <2>1, StoreKept DEF Crash, ApprovalInv
  <1> QED BY <1>1, <1>2, <1>3, <1>4, <1>5 DEF Next

(* Where no client sends items in a body, nothing is listed, scanned or    *)
(* sold for a ticket that was never approved.                              *)
THEOREM NothingWithoutApproval ==
  ASSUME "clientItems" \notin Features
  PROVE  Spec => []ApprovedBeforeExport
  <1>1. Init => TypeInv /\ ApprovalInv
    BY TypeInit, ApprovalInit
  <1>2. TypeInv /\ ApprovalInv /\ [Next]_vars => (TypeInv /\ ApprovalInv)'
    BY TypeStep, ApprovalStep
  <1>3. ApprovalInv => ApprovedBeforeExport
    BY DEF ApprovalInv, TicketsOK, TicketOK, SessionsFrom, SalesFrom,
           ApprovedBeforeExport
  <1> QED BY <1>1, <1>2, <1>3, PTL DEF Spec

-----------------------------------------------------------------------------
(***************************************************************************)
(* Listing.  A device sold for a ticket stays listed on it, where the      *)
(* items of a ticket come from its sessions alone.  A request about to     *)
(* sell devices holds their list since before it pushed it                 *)
(* (completeSession) or since it read it (confirm); ListedInv says that    *)
(* this list is still on the ticket when they are sold, because lists only *)
(* grow.                                                                   *)
(***************************************************************************)
MovingCalls == {"ConfirmMove", "CompleteMove"}

CallListed(r) ==
    /\ pc[r] # "AddItems"
    /\ pc[r] \in MovingCalls /\ Exists(loc[r].exp) =>
          SerialsOf(loc[r].items) \subseteq SerialsOf(exp[loc[r].exp].items)

CallsListed == \A r \in Requests : CallListed(r)

ListedInv == SoldIsListed /\ CallsListed

(* A ticket that exists after a step either was not approved before it, or *)
(* existed and has lost no item.                                           *)
ListGrows(e) ==
    exp'[e].status \in TicketStatuses /\ exp[e].approved =>
       /\ Exists(e)
       /\ SerialsOf(exp[e].items) \subseteq SerialsOf(exp'[e].items)

ListsGrow == \A e \in Exports : ListGrows(e)

FlowInv == TypeInv /\ ApprovalInv /\ ListedInv

(* Nothing is sold at the start.                                           *)
LEMMA ListedInit == Init => ListedInv
  <1> SUFFICES ASSUME Init PROVE ListedInv
    OBVIOUS
  <1>1. \A r \in Requests : pc[r] = "Idle"
    BY DEF Init
  <1>2. CallsListed
    BY <1>1 DEF CallsListed, CallListed, MovingCalls
  <1>3. SoldIsListed
    BY DEF Init, SoldIsListed
  <1> QED BY <1>2, <1>3 DEF ListedInv

(* A call of r that sells nothing and takes nothing off a ticket.          *)
LEMMA CallKept ==
  ASSUME FlowInv, NEW r \in Requests, NEW step, NEW l, Goto(r, step, l), ListsGrow,
         step # "AddItems",
         step \in MovingCalls /\ exp'[l.exp].status \in TicketStatuses =>
            SerialsOf(l.items) \subseteq SerialsOf(exp'[l.exp].items)
  PROVE  CallsListed'
  <1> SUFFICES ASSUME NEW q \in Requests PROVE CallListed(q)'
    BY DEF CallsListed
  <1>1. CASE q = r
    <2>1. pc'[q] = step /\ loc'[q] = l
      BY <1>1 DEF Goto, FlowInv, TypeInv, TypeOK
    <2> QED BY <2>1 DEF CallListed, Exists, SerialsOf
  <1>2. CASE q # r
    <2>1. pc'[q] = pc[q] /\ loc'[q] = loc[q]
      BY <1>2 DEF Goto, FlowInv, TypeInv, TypeOK
    <2>2. CallListed(q)
      BY DEF FlowInv, ListedInv, CallsListed
    <2>3. ASSUME pc[q] \in MovingCalls, exp'[loc[q].exp].status \in TicketStatuses
          PROVE  SerialsOf(loc[q].items) \subseteq SerialsOf(exp'[loc[q].exp].items)
      <3>1. loc[q].exp \in Exports
        BY <2>3 DEF FlowInv, TypeInv, HoldsOK, HoldsTicket, MovingCalls, TicketCalls
      <3>2. exp[loc[q].exp].approved
        BY <2>3 DEF FlowInv, ApprovalInv, CallsApproved, CallApproved, MovingCalls,
                    ApprovedCalls
      <3> QED BY <2>2, <2>3, <3>1, <3>2 DEF ListsGrow, ListGrows, CallListed, Exists
    <2> QED BY <2>1, <2>2, <2>3 DEF CallListed, Exists, SerialsOf
  <1> QED BY <1>1, <1>2

(* While lists grow and nothing is sold, what was sold stays listed.       *)
LEMMA SoldKept ==
  ASSUME FlowInv, ListsGrow, UNCHANGED soldFor
  PROVE  SoldIsListed'
  <1> SUFFICES ASSUME NEW m \in Macs, NEW e \in soldFor[m],
                      exp'[e].status \in TicketStatuses
               PROVE  m \in SerialsOf(exp'[e].items)
    BY DEF SoldIsListed, Exists, Stores, SerialsOf
  <1>1. e \in Exports /\ exp[e].approved
    BY DEF FlowInv, TypeInv, TypeOK, ApprovalInv, SalesFrom
  <1> QED
    BY <1>1 DEF FlowInv, ListedInv, SoldIsListed, ListsGrow, ListGrows, Exists, Stores

(* The two ways a ticket is written: its status, or more items.            *)
LEMMA StatusGrows ==
  ASSUME FlowInv, NEW e \in Exports, NEW status \in TicketStatuses,
         WriteTicket(e, WithStatus(exp[e], status))
  PROVE  ListsGrow
  <1>1. exp[e] \in TicketRec /\ TicketOK(exp[e])
    BY DEF FlowInv, TypeInv, TypeOK, ApprovalInv, TicketsOK
  <1>2. WithStatus(exp[e], status).items = exp[e].items
    BY <1>1 DEF TicketRec, WithStatus
  <1> SUFFICES ASSUME NEW f \in Exports, exp'[f].status \in TicketStatuses
               PROVE  Exists(f) /\ exp'[f].items = exp[f].items
    BY DEF ListsGrow, ListGrows
  <1> QED BY <1>2 DEF FlowInv, TypeInv, TypeOK, WriteTicket, Exists

(* A step that writes no ticket shortens no list.                          *)
LEMMA SameGrows == ASSUME UNCHANGED exp PROVE ListsGrow
  BY DEF ListsGrow, ListGrows, Exists

(* Create, patch and delete shorten no list of a ticket that remains.      *)
LEMMA DocumentGrows ==
  ASSUME "clientItems" \notin Features, FlowInv, NEW e \in Exports, TicketDocument(e)
  PROVE  ListsGrow
  <1>1. exp[e] \in TicketRec /\ TicketOK(exp[e])
    BY DEF FlowInv, TypeInv, TypeOK, ApprovalInv, TicketsOK
  <1>2. ASSUME NEW f \in Exports, f # e PROVE exp'[f] = exp[f]
    BY <1>2 DEF TicketDocument, CreateTicket, PatchTicket, DeleteTicket, FlowInv,
                TypeInv, TypeOK
  <1>3. CASE CreateTicket(e)
    <2>1. ~ exp[e].approved
      BY <1>1, <1>3 DEF CreateTicket, TicketOK
    <2> QED BY <1>2, <2>1 DEF ListsGrow, ListGrows, Exists
  <1>4. CASE PatchTicket(e)
    <2>1. PICK status \in {exp[e].status, "DRAFT", "PENDING_APPROVAL"},
               plan \in Plans \cup {exp[e].plan},
               quantity \in Totals \cup {exp[e].totalQuantity},
               items \in ClientItems \cup {exp[e].items},
               count \in ClientCounts \cup {exp[e].totalItems} :
            exp' = [exp EXCEPT ![e] =
                      WithBody(exp[e], status, plan, quantity, items, count)]
      BY <1>4 DEF PatchTicket
    <2>2. items = exp[e].items
      BY DEF ClientItems
    <2>3. exp'[e].items = exp[e].items /\ Exists(e)
      BY <1>1, <1>4, <2>1, <2>2, BodyFields DEF PatchTicket, FlowInv, TypeInv, TypeOK
    <2> QED BY <1>2, <2>3 DEF ListsGrow, ListGrows, Exists
  <1>5. CASE DeleteTicket(e)
    <2>1. exp'[e].status = "DELETED"
      BY <1>5 DEF DeleteTicket, NoTicket, FlowInv, TypeInv, TypeOK
    <2> QED BY <1>2, <2>1 DEF ListsGrow, ListGrows, Exists, TicketStatuses
  <1> QED BY <1>3, <1>4, <1>5 DEF TicketDocument

(* A call after which r sells nothing next, on unchanged tickets ...        *)
LEMMA ReadListed ==
  ASSUME FlowInv, NEW r \in Requests, NEW step, NEW l, Goto(r, step, l),
         step # "AddItems", step \notin MovingCalls, UNCHANGED <<exp, soldFor>>
  PROVE  ListedInv'
  <1>1. ListsGrow
    BY SameGrows
  <1>2. CallsListed'
    BY <1>1, CallKept
  <1> QED BY <1>1, <1>2, SoldKept DEF ListedInv

(* ... and on a ticket it gives a status.                                  *)
LEMMA StatusListed ==
  ASSUME FlowInv, NEW r \in Requests, NEW e \in Exports, NEW status \in TicketStatuses,
         WriteTicket(e, WithStatus(exp[e], status)), Finish(r), UNCHANGED soldFor
  PROVE  ListedInv'
  <1>1. ListsGrow
    BY StatusGrows
  <1>2. CallsListed'
    BY <1>1, CallKept DEF Finish, MovingCalls
  <1> QED BY <1>1, <1>2, SoldKept DEF ListedInv

(* The sale itself: what r holds is on the ticket it sells for.            *)
LEMMA SaleListed ==
  ASSUME FlowInv, NEW r \in Requests, pc[r] \in MovingCalls,
         MoveToSoldWarehouse(SerialsOf(loc[r].items), loc[r].exp),
         NEW step, step \notin MovingCalls, step # "AddItems",
         NEW l, Goto(r, step, l), UNCHANGED exp
  PROVE  ListedInv'
  <1>1. CallsListed'
    BY SameGrows, CallKept
  <1>2. ASSUME NEW m \in Macs, NEW e \in soldFor'[m], Exists(e)
        PROVE  m \in SerialsOf(exp[e].items)
    <2>1. CASE e \in soldFor[m]
      BY <1>2, <2>1 DEF FlowInv, ListedInv, SoldIsListed, Stores
    <2>2. CASE e \notin soldFor[m]
      <3>1. m \in SerialsOf(loc[r].items) /\ e = loc[r].exp
        BY <1>2, <2>2 DEF MoveToSoldWarehouse
      <3> QED BY <1>2, <3>1 DEF FlowInv, ListedInv, CallsListed, CallListed
    <2> QED BY <2>1, <2>2
  <1>3. SoldIsListed'
    BY <1>2 DEF SoldIsListed, Exists, Stores, SerialsOf
  <1> QED BY <1>1, <1>3 DEF ListedInv

-----------------------------------------------------------------------------
(* Every action keeps what is sold on the ticket.                          *)

(* The first read of a ticket handler; confirm holds the list it read.     *)
LEMMA TicketStartListed ==
  ASSUME "addItems" \notin Features, FlowInv, NEW r \in Requests, TicketStart(r)
  PROVE  ListedInv'
  <1>1. CASE AddItemsRead(r)
    BY <1>1 DEF AddItemsRead
  <1>2. CASE SubmitRead(r)
    BY <1>2, ReadListed DEF SubmitRead, MovingCalls
  <1>3. CASE RejectRead(r)
    BY <1>3, ReadListed DEF RejectRead, MovingCalls
  <1>4. CASE ApproveRead(r)
    BY <1>4, ReadListed DEF ApproveRead, MovingCalls
  <1>5. CASE ConfirmRead(r)
    <2>1. PICK e \in Exports :
            Goto(r, "ConfirmMove", [Blank EXCEPT !.exp = e, !.items = exp[e].items])
      BY <1>5 DEF ConfirmRead
    <2> DEFINE l == [Blank EXCEPT !.exp = e, !.items = exp[e].items]
    <2>2. l.exp = e /\ l.items = exp[e].items
      BY DEF Blank
    <2>3. UNCHANGED <<exp, soldFor>>
      BY <1>5 DEF ConfirmRead
    <2>4. Goto(r, "ConfirmMove", l)
      BY <2>1
    <2> HIDE DEF l
    <2>5. CallsListed'
      BY <2>2, <2>3, <2>4, SameGrows, CallKept
    <2> QED BY <2>3, <2>5, SameGrows, SoldKept DEF ListedInv
  <1> QED BY <1>1, <1>2, <1>3, <1>4, <1>5 DEF TicketStart

(* The later calls of the ticket handlers keep ListedInv.                  *)
LEMMA TicketStepListed ==
  ASSUME FlowInv, NEW r \in Requests, TicketStep(r) PROVE ListedInv'
  <1>e. ASSUME pc[r] \in TicketCalls PROVE loc[r].exp \in Exports
    BY <1>e DEF FlowInv, TypeInv, HoldsOK, HoldsTicket
  <1>1. CASE AddItemsWrite(r)
    BY <1>1 DEF AddItemsWrite, FlowInv, ListedInv, CallsListed, CallListed
  <1>2. CASE SubmitWrite(r)
    BY <1>2, <1>e, StatusListed DEF SubmitWrite, TicketCalls, TicketStatuses
  <1>3. CASE RejectWrite(r)
    BY <1>3, <1>e, StatusListed DEF RejectWrite, TicketCalls, TicketStatuses
  <1>4. CASE ApproveStock(r)
    BY <1>4, ReadListed DEF ApproveStock, MovingCalls
  <1>5. CASE ApproveReserve(r)
    BY <1>5, ReadListed DEF ApproveReserve, Finish, MovingCalls
  <1>6. CASE ApproveWrite(r)
    <2> DEFINE e == loc[r].exp
               doc == [WithStatus(exp[e], "APPROVED") EXCEPT !.approved = TRUE]
    <2>1. e \in Exports
      BY <1>6, <1>e DEF ApproveWrite, TicketCalls
    <2>2. exp[e] \in TicketRec
      BY <2>1 DEF FlowInv, TypeInv, TypeOK
    <2>3. doc.items = exp[e].items
      BY <2>2 DEF TicketRec, WithStatus
    <2>4. WriteTicket(e, doc) /\ Finish(r) /\ UNCHANGED soldFor
      BY <1>6 DEF ApproveWrite
    <2> HIDE DEF doc, e
    <2>5. ListsGrow
      BY <2>1, <2>3, <2>4
      DEF FlowInv, TypeInv, TypeOK, WriteTicket, ListsGrow, ListGrows, Exists
    <2>6. CallsListed'
      BY <2>4, <2>5, CallKept DEF Finish, MovingCalls
    <2> QED BY <2>4, <2>5, <2>6, SoldKept DEF ListedInv
  <1>7. CASE ConfirmMove(r)
    BY <1>7, SaleListed DEF ConfirmMove, MovingCalls
  <1>8. CASE ConfirmWrite(r)
    BY <1>8, <1>e, StatusListed DEF ConfirmWrite, TicketCalls, TicketStatuses
  <1> QED
    BY <1>1, <1>2, <1>3, <1>4, <1>5, <1>6, <1>7, <1>8 DEF TicketStep

(* The first read of each session handler keeps ListedInv.                 *)
LEMMA SessionStartListed ==
  ASSUME FlowInv, NEW r \in Requests, SessionStart(r) PROVE ListedInv'
  <1> USE DEF MovingCalls
  <1>1. CASE SessionRead(r)
    BY <1>1, ReadListed DEF SessionRead
  <1>2. CASE ScanSerial(r)
    BY <1>2, ReadListed DEF ScanSerial, ScanSession
  <1>3. CASE ScanBulk(r)
    BY <1>3, ReadListed DEF ScanBulk, ScanSession
  <1>4. CASE RemoveRead(r)
    BY <1>4, ReadListed DEF RemoveRead
  <1>5. CASE CompleteRead(r)
    BY <1>5, ReadListed DEF CompleteRead
  <1> QED BY <1>1, <1>2, <1>3, <1>4, <1>5 DEF SessionStart

(* completeSession puts the items it read on the ticket before it sells    *)
(* them.                                                                   *)
LEMMA PushListed ==
  ASSUME FlowInv, NEW r \in Requests, CompletePush(r) PROVE ListedInv'
  <1> DEFINE l == loc[r]
             doc == [exp[l.exp] EXCEPT !.items = @ \o l.items,
                                       !.totalItems = @ + Len(l.items)]
  <1>1. l.exp \in Exports /\ l.items \in Seq(Macs)
    BY DEF CompletePush, FlowInv, TypeInv, TypeOK, LocRec, HoldsOK, HoldsTicket, TicketCalls
  <1>2. exp[l.exp] \in TicketRec
    BY <1>1 DEF FlowInv, TypeInv, TypeOK
  <1>3. doc.items = exp[l.exp].items \o l.items /\ doc.status = exp[l.exp].status
    BY <1>2 DEF TicketRec
  <1>4. ToSet(doc.items) = ToSet(exp[l.exp].items) \cup ToSet(l.items)
    BY <1>1, <1>2, <1>3, ToSetConcat DEF TicketRec
  <1>5. /\ WriteTicket(l.exp, doc)
        /\ Goto(r, "CompleteMove", l)
        /\ UNCHANGED soldFor
    BY DEF CompletePush
  <1> HIDE DEF doc
  <1>6. /\ SerialsOf(exp[l.exp].items) \subseteq SerialsOf(doc.items)
        /\ SerialsOf(l.items) \subseteq SerialsOf(doc.items)
    BY <1>4 DEF SerialsOf
  <1>7. ListsGrow
    BY <1>1, <1>5, <1>6
    DEF FlowInv, TypeInv, TypeOK, WriteTicket, ListsGrow, ListGrows, Exists
  <1>8. exp'[l.exp].status \in TicketStatuses =>
          SerialsOf(l.items) \subseteq SerialsOf(exp'[l.exp].items)
    BY <1>1, <1>5, <1>6 DEF FlowInv, TypeInv, TypeOK, WriteTicket, Exists
  <1> HIDE DEF l
  <1>9. CallsListed'
    BY <1>5, <1>7, <1>8, CallKept
  <1> QED BY <1>5, <1>7, <1>9, SoldKept DEF ListedInv

(* The later calls of the session handlers keep ListedInv.                 *)
LEMMA SessionStepListed ==
  ASSUME FlowInv, NEW r \in Requests, SessionStep(r) PROVE ListedInv'
  <1>e. ASSUME pc[r] \in TicketCalls PROVE loc[r].exp \in Exports
    BY <1>e DEF FlowInv, TypeInv, HoldsOK, HoldsTicket
  <1>1. CASE SessionInsert(r)
    BY <1>1, ReadListed DEF SessionInsert, Finish, MovingCalls
  <1>2. CASE SessionMark(r)
    BY <1>2, <1>e, StatusListed DEF SessionMark, TicketCalls, TicketStatuses
  <1>3. CASE ScanExport(r)
    BY <1>3, ReadListed DEF ScanExport, Finish, MovingCalls
  <1>4. CASE ScanDevices(r)
    BY <1>4, ReadListed DEF ScanDevices, MovingCalls
  <1>5. CASE ScanCheck(r)
    BY <1>5, ReadListed DEF ScanCheck, Finish, MovingCalls
  <1>6. CASE ScanPush(r)
    BY <1>6, ReadListed DEF ScanPush, Finish, MovingCalls
  <1>7. CASE RemovePull(r)
    BY <1>7, ReadListed DEF RemovePull, Finish, MovingCalls
  <1>8. CASE CompletePush(r)
    BY <1>8, PushListed
  <1>9. CASE CompleteMove(r)
    BY <1>9, SaleListed DEF CompleteMove, MovingCalls
  <1>10. CASE CompleteClose(r)
    BY <1>10, ReadListed DEF CompleteClose, MovingCalls
  <1>11. CASE CompleteTotal(r)
    BY <1>11, ReadListed DEF CompleteTotal, Finish, MovingCalls
  <1>12. CASE CompleteWrite(r)
    BY <1>12, <1>e, StatusListed DEF CompleteWrite, TicketCalls, TicketStatuses
  <1> QED
    BY <1>1, <1>2, <1>3, <1>4, <1>5, <1>6, <1>7, <1>8, <1>9, <1>10, <1>11, <1>12
    DEF SessionStep

(* ListedInv is inductive where items come from sessions alone.            *)
LEMMA ListedStep ==
  ASSUME "clientItems" \notin Features, "addItems" \notin Features,
         FlowInv, [Next]_vars
  PROVE  ListedInv'
  <1>0. ASSUME UNCHANGED <<pc, loc>>, ListsGrow PROVE CallsListed'
    <2> SUFFICES ASSUME NEW q \in Requests PROVE CallListed(q)'
      BY DEF CallsListed
    <2>1. CallListed(q)
      BY DEF FlowInv, ListedInv, CallsListed
    <2>2. ASSUME pc[q] \in MovingCalls
          PROVE  loc[q].exp \in Exports /\ exp[loc[q].exp].approved
      BY <2>2 DEF FlowInv, TypeInv, HoldsOK, HoldsTicket, MovingCalls, TicketCalls,
                  ApprovalInv, CallsApproved, CallApproved, ApprovedCalls
    <2> QED
      BY <1>0, <2>1, <2>2 DEF ListsGrow, ListGrows, CallListed, Exists, SerialsOf
  <1>1. CASE UNCHANGED vars
    BY <1>0, <1>1, SameGrows, SoldKept DEF vars, ListedInv
  <1>2. ASSUME NEW e \in Exports, TicketDocument(e) PROVE ListedInv'
    <2>1. UNCHANGED <<pc, loc>> /\ UNCHANGED soldFor
      BY <1>2 DEF TicketDocument, CreateTicket, PatchTicket, DeleteTicket
    <2> QED BY <1>0, <1>2, <2>1, DocumentGrows, SoldKept DEF ListedInv
  <1>3. ASSUME NEW r \in Requests, TransferRead(r) \/ TransferSave(r)
        PROVE  ListedInv'
    <2>1. CASE TransferRead(r)
      <3>1. UNCHANGED <<exp, soldFor>>
        BY <2>1 DEF TransferRead
      <3>2. PICK l : Goto(r, "TransferSave", l)
        BY <2>1 DEF TransferRead
      <3> QED BY <3>1, <3>2, ReadListed DEF MovingCalls
    <2>2. CASE TransferSave(r)
      BY <2>2, ReadListed DEF TransferSave, Finish, MovingCalls
    <2> QED BY <1>3, <2>1, <2>2
  <1>4. ASSUME NEW r \in Requests, TicketStart(r) \/ SessionStart(r) \/ Step(r)
        PROVE  ListedInv'
    BY <1>3, <1>4, TicketStartListed, SessionStartListed, TicketStepListed,
       SessionStepListed
    DEF Step
  <1>5. CASE Crash
    <2>1. CallsListed'
      BY <1>5 DEF Crash, CallsListed, CallListed, MovingCalls
    <2>2. UNCHANGED exp /\ UNCHANGED soldFor
      BY <1>5 DEF Crash
    <2> QED BY <2>1, <2>2, SameGrows, SoldKept DEF ListedInv
  <1> QED BY <1>1, <1>2, <1>3, <1>4, <1>5 DEF Next

(* Where the items of a ticket come from its sessions alone, a device sold *)
(* for a ticket stays listed on it until the ticket is deleted, whatever   *)
(* the other requests do and whenever the process stops.                   *)
THEOREM SoldStaysListed ==
  ASSUME "clientItems" \notin Features, "addItems" \notin Features
  PROVE  Spec => []SoldIsListed
  <1>1. Init => FlowInv
    BY TypeInit, ApprovalInit, ListedInit DEF FlowInv
  <1>2. FlowInv /\ [Next]_vars => FlowInv'
    BY TypeStep, ApprovalStep, ListedStep DEF FlowInv
  <1>3. FlowInv => SoldIsListed
    BY DEF FlowInv, ListedInv
  <1> QED BY <1>1, <1>2, <1>3, PTL DEF Spec

=============================================================================
