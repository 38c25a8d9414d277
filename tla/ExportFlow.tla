----------------------------- MODULE ExportFlow ----------------------------
(***************************************************************************)
(* The export side as a whole: requests of both services against the same  *)
(* collections, device transfers beside them, and a process that may stop  *)
(* with requests in flight.  The properties are those a warehouse relies   *)
(* on: what is counted was scanned, what was sold was approved and is on a *)
(* ticket, and a device is sold once.                                      *)
(***************************************************************************)
EXTENDS ExportTickets, ExportSessions

(* The process stops: the requests in flight are gone, the database stays. *)
Crash ==
    /\ "crash" \in Features
    /\ \E r \in Requests : pc[r] # "Idle"
    /\ pc' = [r \in Requests |-> "Idle"]
    /\ loc' = [r \in Requests |-> Blank]
    /\ UNCHANGED <<exp, ses, dev, soldFor>>

Step(r) == TicketStep(r) \/ SessionStep(r) \/ TransferSave(r)

Next ==
    \/ \E e \in Exports : TicketDocument(e)
    \/ \E r \in Requests : \/ TicketStart(r)
                           \/ SessionStart(r)
                           \/ TransferRead(r)
                           \/ Step(r)
    \/ Crash

Spec == Init /\ [][Next]_vars

(* The event loop resumes a handler whose database call has answered.      *)
FairSpec == Spec /\ \A r \in Requests : WF_vars(Step(r))

-----------------------------------------------------------------------------
(* Safety. *)

(* totalItems is the number of items on the ticket, through the whole-list *)
(* writes of addItems and the $push/$inc of completeSession, in any order, *)
(* until a client sends the items or their number in the body of create or *)
(* update, and again from the next whole-list write on.                    *)
ExportCountMatchesItems ==
    \A e \in Exports : ~ exp[e].given => exp[e].totalItems = Len(exp[e].items)

(* Nothing is scanned for, listed on or sold for a ticket that approve     *)
(* never wrote: each of these carries the approval it started from, even   *)
(* when the ticket is patched back, rejected or deleted meanwhile.         *)
ApprovedBeforeExport ==
    /\ \A e \in Exports : exp[e].items # <<>> => exp[e].approved
    /\ \A s \in Sessions : Allocated(s) => exp[ses[s].exp].approved
    /\ \A m \in Macs, e \in Exports : e \in soldFor[m] => exp[e].approved

(* A device moved to SOLD for a ticket is listed on that ticket as long as *)
(* the ticket exists: completeSession and confirm move what is on record,  *)
(* and nothing takes an item off a ticket again.                           *)
SoldIsListed ==
    \A m \in Macs : \A e \in soldFor[m] : Exists(e) => Stores(exp[e].items, m)

(* completeSession completes a ticket only when its total is reached, and  *)
(* by then no other session can make it fall short again.                  *)
CompletedMeansFull ==
    \A e \in Exports : exp[e].status = "COMPLETED" =>
                          exp[e].totalItems >= exp[e].totalQuantity

(* serialChecked is the number of items in the session.                    *)
CheckedMatchesItems == \A s \in Sessions : ses[s].serialChecked = Len(ses[s].items)

(* No session lists a device twice.                                        *)
ScannedOnce ==
    \A s \in Sessions : IsInjective(ses[s].items)

(* Sessions in progress do not share a device.                             *)
AtMostOneHolder ==
    \A s, t \in Sessions :
        /\ s # t
        /\ ses[s].status = "IN_PROGRESS"
        /\ ses[t].status = "IN_PROGRESS"
        => ToSet(ses[s].items) \cap ToSet(ses[t].items) = {}

(* A device is on at most one ticket, once.                                *)
ExportedOnce ==
    \A e, f \in Exports : \A i \in DOMAIN exp[e].items, j \in DOMAIN exp[f].items :
        exp[e].items[i] = exp[f].items[j] => e = f /\ i = j

-----------------------------------------------------------------------------
(* Action properties. *)

(* ALLOWED_STATUS_TRANSITIONS of the status constants.                     *)
AllowedTransitions ==
    [DRAFT            |-> {"PENDING_APPROVAL", "CANCELLED"},
     PENDING_APPROVAL |-> {"APPROVED", "REJECTED", "DRAFT"},
     APPROVED         |-> {"IN_PROGRESS", "CANCELLED"},
     IN_PROGRESS      |-> {"COMPLETED", "CANCELLED"},
     COMPLETED        |-> {},
     REJECTED         |-> {"DRAFT"},
     CANCELLED        |-> {}]

StatusChanges(e) == Exists(e) /\ Exists(e)' /\ exp'[e].status # exp[e].status

(* A ticket's status changes only along the documented state machine.      *)
StatusTransitionsAllowed ==
    [][\A e \in Exports : StatusChanges(e) =>
          exp'[e].status \in AllowedTransitions[exp[e].status]]_vars

(* When a ticket becomes APPROVED the stock covers every active ticket's   *)
(* requirements for its models, its own included.                          *)
NoOverReservation ==
    [][\A e \in Exports :
          StatusChanges(e) /\ exp'[e].status = "APPROVED" =>
             \A model \in DOMAIN exp[e].plan :
                 Reserved(model)' <= CountReadyToExport(model)']_vars

(* The items of a closed session do not change.                            *)
ClosedSessionIsFixed ==
    [][\A s \in Sessions :
          ses[s].status = "COMPLETED" => ses'[s].items = ses[s].items]_vars

(* A device is sold out of the ready warehouse.                            *)
SoldFromReady ==
    [][\A m \in Macs :
          soldFor[m] = {} /\ soldFor'[m] # {} => dev[m].wh = "READY_TO_EXPORT"]_vars

(* Apart from being sold, a device changes warehouse along an active rule  *)
(* from the warehouse it is in.                                            *)
MovesFollowRules ==
    [][\A m \in Macs :
          dev'[m].wh \notin {dev[m].wh, "SOLD"} =>
             <<dev[m].wh, dev'[m].wh>> \in DOMAIN Moves]_vars

-----------------------------------------------------------------------------
(* Liveness and refinement. *)

(* A ticket with items that has reached its total is completed, by one of  *)
(* the sessions that filled it, whichever of them finishes last.           *)
FullTicketIsCompleted ==
    \A e \in Exports :
        (/\ Exists(e)
         /\ exp[e].items # <<>>
         /\ exp[e].totalItems >= exp[e].totalQuantity) ~> exp[e].wasCompleted

(* Custody of a device, read off the sessions and the sales.               *)
Holders(m) == {s \in Sessions : /\ ses[s].status = "IN_PROGRESS"
                                /\ Stores(ses[s].items, m)}

Custody == INSTANCE ExportCustody WITH
    Devices <- Macs,
    holder  <- [m \in Macs |-> IF Holders(m) # {} THEN CHOOSE s \in Holders(m) : TRUE
                               ELSE IF soldFor[m] # {} THEN "shipped" ELSE "free"],
    closed  <- {s \in Sessions : ses[s].status = "COMPLETED"}

(* One request at a time, the sessions keep the custody they promise.      *)
KeepsCustody == Custody!CustodySpec

=============================================================================
