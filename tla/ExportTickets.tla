--------------------------- MODULE ExportTickets ---------------------------
(***************************************************************************)
(* DeviceExportService: the life of a ticket, from the draft to the        *)
(* confirmation, one action per database call of each handler.             *)
(*                                                                         *)
(* The service's update() looks the ticket up again before it writes; a    *)
(* ticket deleted meanwhile makes both calls do nothing, so the pair is    *)
(* the one step WriteTicket.                                               *)
(***************************************************************************)
EXTENDS ExportStore

(* Bug: a submitted ticket counts as approved.                             *)
ReservingEarly == {"PENDING_APPROVAL", "APPROVED", "IN_PROGRESS"}

Reserving == {"APPROVED", "IN_PROGRESS"}

(* The items a client may put in the body of create and update.            *)
ClientItems == IF "clientItems" \in Features THEN Batches ELSE {}

(* A body's fields over a document: the count and the items are the        *)
(* client's where they differ from what was stored.                        *)
WithBody(doc, status, plan, quantity, items, count) ==
    [doc EXCEPT !.status = status,
                !.plan = plan,
                !.totalQuantity = quantity,
                !.items = items,
                !.totalItems = count,
                !.given = @ \/ items # doc.items \/ count # doc.totalItems]

(* create: the client chooses between a draft and a submitted ticket; the  *)
(* total is the sum over the requirements it sent, and what the client     *)
(* says where it sent none.                                                *)
CreateTicket(e) ==
    /\ exp[e].status = "ABSENT"
    /\ \E status \in {"DRAFT", "PENDING_APPROVAL"}, plan \in Plans,
          quantity \in Totals,
          items \in ClientItems \cup {<<>>}, count \in ClientCounts \cup {0} :
         /\ plan # NoPlan => quantity = TotalOf(plan)
         /\ exp' = [exp EXCEPT ![e] = WithBody(NoTicket, status, plan, quantity, items, count)]
    /\ UNCHANGED <<ses, dev, soldFor, pc, loc>>

(* update (PATCH): any subset of the fields of the create body, whatever   *)
(* the ticket's status is; the total is not summed again.                  *)
PatchTicket(e) ==
    /\ "patch" \in Features
    /\ Exists(e)
    /\ \E status \in {exp[e].status, "DRAFT", "PENDING_APPROVAL"},
          plan \in Plans \cup {exp[e].plan},
          quantity \in Totals \cup {exp[e].totalQuantity},
          items \in ClientItems \cup {exp[e].items},
          count \in ClientCounts \cup {exp[e].totalItems} :
         exp' = [exp EXCEPT ![e] = WithBody(exp[e], status, plan, quantity, items, count)]
    /\ UNCHANGED <<ses, dev, soldFor, pc, loc>>

DeleteTicket(e) ==
    /\ "delete" \in Features
    /\ Exists(e)
    /\ exp' = [exp EXCEPT ![e] = [NoTicket EXCEPT
                                    !.status = "DELETED",
                                    !.approved = exp[e].approved,
                                    !.wasCompleted = exp[e].wasCompleted]]
    /\ UNCHANGED <<ses, dev, soldFor, pc, loc>>

-----------------------------------------------------------------------------
(* A batch fits the plan when every device in it is of a required model    *)
(* and no model goes over its quantity; a ticket without plan takes all.   *)
FitsPlan(plan, items, batch) ==
    \/ DOMAIN plan = {}
    \/ \A model \in {ModelOf[m] : m \in ToSet(batch)} :
         /\ model \in DOMAIN plan
         /\ CountModel(items, model) + CountModel(batch, model) <= plan[model]

(* addItems: the legacy scan, straight onto the ticket.  Everything it     *)
(* checks, it checks on the ticket it read ...                             *)
AddItemsRead(r) ==
    /\ "addItems" \in Features
    /\ Start(r)
    /\ \E e \in Exports, batch \in Batches :
         /\ exp[e].status \in Reserving
         /\ \A m \in ToSet(batch) : ~ Stores(exp[e].items, m)
         /\ FitsPlan(exp[e].plan, exp[e].items, batch)
         /\ Len(exp[e].items) + Len(batch) <= MaxItems
         /\ Goto(r, "AddItems", [Blank EXCEPT !.exp = e,
                                              !.status = exp[e].status,
                                              !.items = exp[e].items,
                                              !.batch = batch])
    /\ UNCHANGED <<exp, ses, dev, soldFor>>

(* Bug: the count is incremented where the list is replaced.               *)
AddItemsCountUp(r) ==
    /\ pc[r] = "AddItems"
    /\ LET l == loc[r]
           doc == [exp[l.exp] EXCEPT !.items = l.items \o l.batch,
                                     !.totalItems = @ + Len(l.batch),
                                     !.given = FALSE]
       IN  WriteTicket(l.exp, IF l.status = "APPROVED"
                              THEN WithStatus(doc, "IN_PROGRESS") ELSE doc)
    /\ Finish(r)
    /\ UNCHANGED <<ses, dev, soldFor>>

(* ... and it writes the whole list back, read items and new ones.         *)
AddItemsWrite(r) ==
    /\ pc[r] = "AddItems"
    /\ LET l == loc[r]
           doc == [exp[l.exp] EXCEPT !.items = l.items \o l.batch,
                                     !.totalItems = Len(l.items) + Len(l.batch),
                                     !.given = FALSE]
       IN  WriteTicket(l.exp, IF l.status = "APPROVED"
                              THEN WithStatus(doc, "IN_PROGRESS") ELSE doc)
    /\ Finish(r)
    /\ UNCHANGED <<ses, dev, soldFor>>

-----------------------------------------------------------------------------
(* submitForApproval *)
SubmitRead(r) ==
    /\ Start(r)
    /\ \E e \in Exports :
         /\ exp[e].status = "DRAFT"
         /\ DOMAIN exp[e].plan # {}
         /\ Goto(r, "Submit", [Blank EXCEPT !.exp = e])
    /\ UNCHANGED <<exp, ses, dev, soldFor>>

SubmitWrite(r) ==
    /\ pc[r] = "Submit"
    /\ LET e == loc[r].exp IN WriteTicket(e, WithStatus(exp[e], "PENDING_APPROVAL"))
    /\ Finish(r)
    /\ UNCHANGED <<ses, dev, soldFor>>

(* Bug: any ticket not yet rejected is rejected.                           *)
RejectAny(r) ==
    /\ "reject" \in Features
    /\ Start(r)
    /\ \E e \in Exports :
         /\ Exists(e) /\ exp[e].status # "REJECTED"
         /\ Goto(r, "Reject", [Blank EXCEPT !.exp = e])
    /\ UNCHANGED <<exp, ses, dev, soldFor>>

(* reject *)
RejectRead(r) ==
    /\ "reject" \in Features
    /\ Start(r)
    /\ \E e \in Exports :
         /\ exp[e].status = "PENDING_APPROVAL"
         /\ Goto(r, "Reject", [Blank EXCEPT !.exp = e])
    /\ UNCHANGED <<exp, ses, dev, soldFor>>

RejectWrite(r) ==
    /\ pc[r] = "Reject"
    /\ LET e == loc[r].exp IN WriteTicket(e, WithStatus(exp[e], "REJECTED"))
    /\ Finish(r)
    /\ UNCHANGED <<ses, dev, soldFor>>

-----------------------------------------------------------------------------
(* getInventoryStatus: what the tickets approved and under way reserve, and *)
(* what a stock count leaves of it.                                        *)
Reserved(model) ==
    LET active == {e \in Exports : /\ exp[e].status \in Reserving
                                   /\ model \in DOMAIN exp[e].plan}
    IN  SumFunction([e \in active |-> exp[e].plan[model]])

(* Bug: what other tickets reserve is not taken off.                       *)
AvailableUnreserved(inStock, model) == inStock

Available(inStock, model) ==
    IF inStock > Reserved(model) THEN inStock - Reserved(model) ELSE 0

(* approve: read the ticket, then for each requirement count the stock and *)
(* read the active tickets, then write.  The order of the requirement list *)
(* is left open.                                                           *)
ApproveRead(r) ==
    /\ Start(r)
    /\ \E e \in Exports :
         /\ exp[e].status = "PENDING_APPROVAL"
         /\ Goto(r, IF DOMAIN exp[e].plan = {} THEN "Approve" ELSE "ApproveStock",
                 [Blank EXCEPT !.exp = e,
                               !.plan = exp[e].plan,
                               !.models = DOMAIN exp[e].plan])
    /\ UNCHANGED <<exp, ses, dev, soldFor>>

ApproveStock(r) ==
    /\ pc[r] = "ApproveStock"
    /\ \E model \in loc[r].models :
         Goto(r, "ApproveReserve",
              [loc[r] EXCEPT !.stock = CountReadyToExport(model),
                             !.models = @ \ {model},
                             !.checking = model])
    /\ UNCHANGED <<exp, ses, dev, soldFor>>

ApproveReserve(r) ==
    /\ pc[r] = "ApproveReserve"
    /\ LET l == loc[r] IN
         IF Available(l.stock, l.checking) < l.plan[l.checking]
         THEN Finish(r)
         ELSE Goto(r, IF l.models = {} THEN "Approve" ELSE "ApproveStock",
                   [l EXCEPT !.stock = 0, !.checking = None])
    /\ UNCHANGED <<exp, ses, dev, soldFor>>

ApproveWrite(r) ==
    /\ pc[r] = "Approve"
    /\ LET e == loc[r].exp
       IN  WriteTicket(e, [WithStatus(exp[e], "APPROVED") EXCEPT !.approved = TRUE])
    /\ Finish(r)
    /\ UNCHANGED <<ses, dev, soldFor>>

-----------------------------------------------------------------------------
(* confirm: any ticket with items that is not COMPLETED ...                *)
ConfirmRead(r) ==
    /\ "confirm" \in Features
    /\ Start(r)
    /\ \E e \in Exports :
         /\ Exists(e)
         /\ exp[e].status # "COMPLETED"
         /\ exp[e].items # <<>>
         /\ Goto(r, "ConfirmMove", [Blank EXCEPT !.exp = e, !.items = exp[e].items])
    /\ UNCHANGED <<exp, ses, dev, soldFor>>

ConfirmMove(r) ==
    /\ pc[r] = "ConfirmMove"
    /\ MoveToSoldWarehouse(SerialsOf(loc[r].items), loc[r].exp)
    /\ Goto(r, "ConfirmWrite", [loc[r] EXCEPT !.items = <<>>])
    /\ UNCHANGED <<exp, ses>>

ConfirmWrite(r) ==
    /\ pc[r] = "ConfirmWrite"
    /\ LET e == loc[r].exp IN WriteTicket(e, WithStatus(exp[e], "COMPLETED"))
    /\ Finish(r)
    /\ UNCHANGED <<ses, dev, soldFor>>

-----------------------------------------------------------------------------
TicketStep(r) ==
    \/ AddItemsWrite(r)
    \/ SubmitWrite(r)
    \/ RejectWrite(r)
    \/ ApproveStock(r)
    \/ ApproveReserve(r)
    \/ ApproveWrite(r)
    \/ ConfirmMove(r)
    \/ ConfirmWrite(r)

TicketStart(r) ==
    \/ AddItemsRead(r)
    \/ SubmitRead(r)
    \/ RejectRead(r)
    \/ ApproveRead(r)
    \/ ConfirmRead(r)

TicketDocument(e) == CreateTicket(e) \/ PatchTicket(e) \/ DeleteTicket(e)

=============================================================================
