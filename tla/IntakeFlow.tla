----------------------------- MODULE IntakeFlow ----------------------------
(***************************************************************************)
(* DeviceImportService and InventorySessionService: import tickets, the    *)
(* sessions that scan their devices, and the completion of a session,      *)
(* which stocks what was scanned.  One action per database call.           *)
(***************************************************************************)
EXTENDS IntakeStore

(* Progress a client may put in the body of an update, though it is the    *)
(* completion of the sessions that counts it.                              *)
ClientProgress == IF "clientProgress" \in Features
                  THEN (0 .. MaxImported) \X InventoryStatuses ELSE {}

-----------------------------------------------------------------------------
(* DeviceImportService. *)

(* processDevices: a device list replaced starts from zero.                *)
WithPlan(doc, plan) == [doc EXCEPT !.plan = plan, !.total = TotalOf(plan),
                                   !.imported = 0, !.lines = NoLines]

CreateImport(i) ==
    /\ imp[i].status = "ABSENT"
    /\ \E status \in ImportStatuses, plan \in Plans :
         imp' = [imp EXCEPT ![i] = [WithPlan(NoImport, plan) EXCEPT
                                      !.status = status,
                                      !.published = status = "PUBLIC"]]
    /\ UNCHANGED <<ses, from, torn, pc, loc>>

(* Bug: the check that a ticket is a draft is gone.                        *)
DraftOrLater(i) == Exists(i)

Draft(i) == imp[i].status = "DRAFT"

(* update: only a draft, as read; the fields of the body, as written.      *)
UpdateImportRead(r) ==
    /\ "update" \in Features
    /\ Start(r)
    /\ \E i \in Imports :
         /\ Draft(i)
         /\ Goto(r, "UpdateImport", [Blank EXCEPT !.imp = i])
    /\ UNCHANGED <<imp, ses, from, torn>>

UpdateImportWrite(r) ==
    /\ pc[r] = "UpdateImport"
    /\ LET i == loc[r].imp IN
         \E status \in {imp[i].status} \cup UpdatedStatuses,
            progress \in ClientProgress \cup {<<imp[i].imported, imp[i].inventory>>} :
           LET doc == [imp[i] EXCEPT !.status = status,
                                     !.imported = progress[1],
                                     !.inventory = progress[2]]
           IN  \/ WriteImport(i, doc)
               \/ \E plan \in Plans : WriteImport(i, WithPlan(doc, plan))
    /\ Finish(r)
    /\ UNCHANGED <<ses, from, torn>>

DeleteImportRead(r) ==
    /\ "delete" \in Features
    /\ Start(r)
    /\ \E i \in Imports :
         /\ Draft(i)
         /\ Goto(r, "DeleteImport", [Blank EXCEPT !.imp = i])
    /\ UNCHANGED <<imp, ses, from, torn>>

DeleteImportWrite(r) ==
    /\ pc[r] = "DeleteImport"
    /\ LET i == loc[r].imp IN
         imp' = IF Exists(i)
                THEN [imp EXCEPT ![i] = [NoImport EXCEPT !.status = "DELETED",
                                                         !.published = @ \/ imp[i].published]]
                ELSE imp
    /\ Finish(r)
    /\ UNCHANGED <<ses, from, torn>>

(* complete: the count, then the sessions, then the status.                *)
CloseRead(r) ==
    /\ "close" \in Features
    /\ Start(r)
    /\ \E i \in Imports :
         /\ Exists(i)
         /\ imp[i].inventory # "completed"
         /\ imp[i].imported >= imp[i].total
         /\ Goto(r, "CloseSessions", [Blank EXCEPT !.imp = i])
    /\ UNCHANGED <<imp, ses, from, torn>>

CloseSessions(r) ==
    /\ pc[r] = "CloseSessions"
    /\ IF \A s \in Sessions : ses[s].imp = loc[r].imp => ses[s].status = "completed"
       THEN Goto(r, "CloseImport", loc[r])
       ELSE Finish(r)
    /\ UNCHANGED <<imp, ses, from, torn>>

CloseWrite(r) ==
    /\ pc[r] = "CloseImport"
    /\ LET i == loc[r].imp IN WriteImport(i, [imp[i] EXCEPT !.inventory = "completed"])
    /\ Finish(r)
    /\ UNCHANGED <<ses, from, torn>>

-----------------------------------------------------------------------------
(* InventorySessionService. *)

FreshSession(s) == /\ ses[s].status = "ABSENT"
                   /\ \A r \in Requests : loc[r].ses # s

(* Bug: a session is opened on a ticket that was never published.          *)
CountableDraft(i) == Exists(i) /\ imp[i].inventory # "completed"

Countable(i) == imp[i].status = "PUBLIC" /\ imp[i].inventory # "completed"

SessionRead(r) ==
    /\ Start(r)
    /\ \E i \in Imports, s \in Sessions :
         /\ Countable(i)
         /\ FreshSession(s)
         /\ Goto(r, "SessionInsert", [Blank EXCEPT !.imp = i, !.ses = s])
    /\ UNCHANGED <<imp, ses, from, torn>>

SessionInsert(r) ==
    /\ pc[r] = "SessionInsert"
    /\ ses' = [ses EXCEPT ![loc[r].ses] = [NoSession EXCEPT !.status = "processing",
                                                            !.imp = loc[r].imp]]
    /\ Finish(r)
    /\ UNCHANGED <<imp, from, torn>>

(* Bug: a completed session is changed like any other.                     *)
OpenForever(s) == Allocated(s)

(* A session that is not completed: a cancelled one is scanned as well.    *)
Open(s) == ses[s].status \in {"processing", "cancelled"}

(* update with scannedItems: none of them in the details as read ...       *)
ScanRead(r) ==
    /\ Start(r)
    /\ \E s \in Sessions, batch \in Batches \ {<<>>} :
         /\ Open(s)
         /\ ToSet(batch) \cap ToSet(ses[s].details) = {}
         /\ Goto(r, "ScanPush", [Blank EXCEPT !.ses = s, !.details = batch])
    /\ UNCHANGED <<imp, ses, from, torn>>

(* Bug: the total is set to what was pushed.                               *)
PushedAlone(doc, batch) == [doc EXCEPT !.details = @ \o batch, !.total = Len(batch)]

(* ... then $push with $inc on the details as they are.                    *)
Pushed(doc, batch) == [doc EXCEPT !.details = @ \o batch, !.total = @ + Len(batch)]

ScanPush(r) ==
    /\ pc[r] = "ScanPush"
    /\ LET l == loc[r]
           doc == ses[l.ses]
       IN  /\ Len(doc.details) + Len(l.details) <= MaxScans
           /\ WriteSession(r, l.ses, Pushed(doc, l.details), InTxn)
    /\ Finish(r)
    /\ UNCHANGED <<imp, from>>

(* update with another status.                                             *)
UpdateSessionRead(r) ==
    /\ "status" \in Features
    /\ Start(r)
    /\ \E s \in Sessions, status \in {"processing", "cancelled"} :
         /\ Open(s)
         /\ Goto(r, "UpdateSession", [Blank EXCEPT !.ses = s, !.status = status])
    /\ UNCHANGED <<imp, ses, from, torn>>

UpdateSessionWrite(r) ==
    /\ pc[r] = "UpdateSession"
    /\ LET l == loc[r] IN
         WriteSession(r, l.ses, [ses[l.ses] EXCEPT !.status = l.status], InTxn)
    /\ Finish(r)
    /\ UNCHANGED <<imp, from>>

Without(details, m) == Keep(details, {i \in DOMAIN details : details[i] # m})

(* removeItem: the details as read, without the mac, are saved whole.      *)
RemoveRead(r) ==
    /\ "remove" \in Features
    /\ Start(r)
    /\ \E s \in Sessions : \E m \in ToSet(ses[s].details) :
         /\ Open(s)
         /\ Goto(r, "RemoveSave", [Blank EXCEPT !.ses = s,
                                               !.details = Without(ses[s].details, m)])
    /\ UNCHANGED <<imp, ses, from, torn>>

Removing == {q \in Requests : pc[q] = "RemoveSave"}

RemoveSave(r) ==
    /\ pc[r] = "RemoveSave"
    /\ LET l == loc[r] IN
         IF r \in torn
         THEN torn' = torn \ {r} /\ UNCHANGED ses
         ELSE WriteSession(r, l.ses, [ses[l.ses] EXCEPT !.details = l.details,
                                                        !.total = Len(l.details)],
                           InTxn \cup Removing)
    /\ Finish(r)
    /\ UNCHANGED <<imp, from>>

-----------------------------------------------------------------------------
(* completeSession: read the session ... *)
CompleteRead(r) ==
    /\ Start(r)
    /\ \E s \in Sessions :
         /\ Open(s)
         /\ Goto(r, "CompleteCheck", [Blank EXCEPT !.ses = s, !.imp = ses[s].imp,
                                                   !.details = ses[s].details,
                                                   !.scanned = ses[s].total])
    /\ UNCHANGED <<imp, ses, from, torn>>

(* ... refuse what is in stock ... *)
CompleteCheck(r) ==
    /\ pc[r] = "CompleteCheck"
    /\ IF \E m \in ToSet(loc[r].details) : Stocked(m)
       THEN Finish(r)
       ELSE Goto(r, "CompleteTicket", loc[r])
    /\ UNCHANGED <<imp, ses, from, torn>>

(* ... read the ticket ... *)
CompleteTicket(r) ==
    /\ pc[r] = "CompleteTicket"
    /\ LET l == loc[r] IN
         IF Exists(l.imp)
         THEN Goto(r, IF l.details = <<>> THEN "CompleteProgress" ELSE "CompleteInsert",
                   [l EXCEPT !.imported = imp[l.imp].imported])
         ELSE Finish(r)
    /\ UNCHANGED <<imp, ses, from, torn>>

(* What other transactions have inserted and not committed.                *)
Uncommitted(r) == UNION {ToSet(loc[q].details) : q \in InTxn \ {r}}

(* Bug: no unique index.                                                   *)
InsertableTwice(r) == IsInjective(loc[r].details)

(* The unique index on mac refuses one that is there, or twice in the      *)
(* list, or inserted by another transaction.                               *)
Insertable(r) ==
    LET macs == ToSet(loc[r].details) IN
    /\ IsInjective(loc[r].details)
    /\ \A m \in macs : ~ Stocked(m)
    /\ macs \cap Uncommitted(r) = {}

(* ... insert the devices in the transaction ...                           *)
CompleteInsert(r) ==
    /\ pc[r] = "CompleteInsert"
    /\ IF Insertable(r) THEN Goto(r, "CompleteProgress", loc[r]) ELSE Finish(r)
    /\ UNCHANGED <<imp, ses, from, torn>>

(* Bug: a status the schema does not know.                                 *)
InventoryUnknown(ticket, count) ==
    IF count >= ticket.total THEN "completed" ELSE "partial"

(* Bug: the ticket is done when it is over its total.                      *)
InventoryOver(ticket, count) ==
    IF count > ticket.total THEN "completed"
    ELSE IF count > 0 THEN "in-progress" ELSE ticket.inventory

(* The inventory status updateProgress derives from a count.               *)
Inventory(ticket, count) ==
    IF count >= ticket.total THEN "completed"
    ELSE IF count > 0 THEN "in-progress" ELSE ticket.inventory

ScannedOf(details, model) ==
    Cardinality({i \in DOMAIN details : ModelOf[details[i]] = model})

(* Bug: the lines are set, not added to.                                   *)
CountedAfresh(ticket, l) ==
    [ticket EXCEPT
       !.imported = l.imported + l.scanned,
       !.inventory = Inventory(ticket, l.imported + l.scanned),
       !.lines = [m \in Models |-> ScannedOf(l.details, m)]]

(* ... updateProgress, outside the transaction: the lines from those read  *)
(* here, the count itself from the ticket read before ...                  *)
Counted(ticket, l) ==
    [ticket EXCEPT
       !.imported = l.imported + l.scanned,
       !.inventory = Inventory(ticket, l.imported + l.scanned),
       !.lines = [m \in Models |-> IF m \in DOMAIN ticket.plan
                                   THEN @[m] + ScannedOf(l.details, m) ELSE @[m]]]

InBound(ticket) == /\ ticket.imported <= MaxImported
                   /\ \A m \in Models : ticket.lines[m] <= MaxImported

CompleteProgress(r) ==
    /\ pc[r] = "CompleteProgress"
    /\ LET l == loc[r]
           ticket == Counted(imp[l.imp], l)
       IN
         IF Exists(l.imp)
         THEN /\ InBound(ticket)
              /\ Goto(r, "CompleteCount", [l EXCEPT !.ticket = ticket])
              /\ UNCHANGED torn
         ELSE Finish(r) /\ torn' = torn \ {r}
    /\ UNCHANGED <<imp, ses, from>>

(* ... its write sets the count, the inventory status and the lines ...    *)
CompleteCount(r) ==
    /\ pc[r] = "CompleteCount"
    /\ LET l == loc[r] IN
         WriteImport(l.imp, [imp[l.imp] EXCEPT !.imported = l.ticket.imported,
                                               !.inventory = l.ticket.inventory,
                                               !.plan = l.ticket.plan,
                                               !.lines = l.ticket.lines])
    /\ Goto(r, "CompleteCommit", [loc[r] EXCEPT !.ticket = NoImport])
    /\ UNCHANGED <<ses, from, torn>>

(* ... and mark the session and commit, or abort.                          *)
CompleteCommit(r) ==
    /\ pc[r] = "CompleteCommit"
    /\ LET l == loc[r] IN
         IF r \in torn /\ l.details # <<>>
         THEN torn' = torn \ {r} /\ UNCHANGED <<ses, from>>
         ELSE /\ WriteSession(r, l.ses, [ses[l.ses] EXCEPT !.status = "completed"], InTxn)
              /\ from' = [m \in Macs |-> IF m \in ToSet(l.details)
                                         THEN from[m] \cup {l.ses} ELSE from[m]]
    /\ Finish(r)
    /\ UNCHANGED imp

-----------------------------------------------------------------------------
(* The process stops: requests in flight are gone, transactions roll back. *)
Crash ==
    /\ "crash" \in Features
    /\ \E r \in Requests : pc[r] # "Idle"
    /\ pc' = [r \in Requests |-> "Idle"]
    /\ loc' = [r \in Requests |-> Blank]
    /\ torn' = {}
    /\ UNCHANGED <<imp, ses, from>>

Step(r) ==
    \/ UpdateImportWrite(r)
    \/ DeleteImportWrite(r)
    \/ CloseSessions(r)
    \/ CloseWrite(r)
    \/ SessionInsert(r)
    \/ ScanPush(r)
    \/ UpdateSessionWrite(r)
    \/ RemoveSave(r)
    \/ CompleteCheck(r)
    \/ CompleteTicket(r)
    \/ CompleteInsert(r)
    \/ CompleteProgress(r)
    \/ CompleteCount(r)
    \/ CompleteCommit(r)

StartRequest(r) ==
    \/ UpdateImportRead(r)
    \/ DeleteImportRead(r)
    \/ CloseRead(r)
    \/ SessionRead(r)
    \/ ScanRead(r)
    \/ UpdateSessionRead(r)
    \/ RemoveRead(r)
    \/ CompleteRead(r)

Next ==
    \/ \E i \in Imports : CreateImport(i)
    \/ \E r \in Requests : StartRequest(r) \/ Step(r)
    \/ Crash

Spec == Init /\ [][Next]_vars

-----------------------------------------------------------------------------
(* Invariants of requests in any interleaving. *)

(* totalScanned is the number of scans a session lists, whatever $inc and  *)
(* save() it is written by.                                                *)
ScannedMatchesDetails == \A s \in Sessions : ses[s].total = Len(ses[s].details)

(* Every device a session stocked was scanned for a ticket that has been   *)
(* PUBLIC.                                                                 *)
StockedFromPublished ==
    \A m \in Macs : \A s \in from[m] \cap Sessions : imp[ses[s].imp].published

(* A device enters the stock once, through one session or one file.        *)
StockedOnce == \A m \in Macs : Cardinality(from[m]) <= 1

-----------------------------------------------------------------------------
(* Invariants of one request at a time. *)

StockOf(i) == {m \in Macs : \E s \in from[m] : ses[s].imp = i}

(* A ticket has counted at least the devices it brought into stock.        *)
CountCoversStock ==
    \A i \in Imports : imp[i].imported >= Cardinality(StockOf(i))

(* The lines of a ticket add up to its count, when all models are planned. *)
LinesAddUp ==
    \A i \in Imports :
        Exists(i) /\ DOMAIN imp[i].plan = Models =>
            imp[i].imported = TotalOf(imp[i].lines)

(* The inventory of a ticket with scans is done when the total is reached, *)
(* and never before.  (A draft closed while its device list was empty      *)
(* stays closed when update gives it devices.)                             *)
InventoryFollowsCount ==
    \A i \in Imports :
        LET doc == imp[i] IN
        Exists(i) /\ doc.imported > 0 =>
            (doc.imported >= doc.total <=> doc.inventory = "completed")

(* All that a completed session lists is in stock, by that session.        *)
CompletedIsStocked ==
    \A s \in Sessions :
        ses[s].status = "completed" => \A m \in ToSet(ses[s].details) : from[m] = {s}

=============================================================================
