---------------------------- MODULE ExportStore ----------------------------
(***************************************************************************)
(* The collections the export side of the warehouse service works on, and  *)
(* the requests in flight against them.                                    *)
(*                                                                         *)
(* The service is a NestJS process in front of MongoDB.  A handler is a    *)
(* chain of awaited database calls; each call is atomic on the documents   *)
(* it touches, and the handlers of other requests run between two awaits.  *)
(* A request r is therefore a program counter pc[r] naming the database    *)
(* call it performs next, and loc[r], what it still holds in its local     *)
(* variables: the snapshots it read and has not used yet.  A handler that  *)
(* throws answers its client and changes nothing, so its last step is only *)
(* its return to "Idle".                                                   *)
(***************************************************************************)
EXTENDS Integers, FiniteSets, SequencesExt, Lists

CONSTANTS
    Exports,        \* ids of device-export documents (tickets), each used once
    Sessions,       \* ids of export-session documents, each used once
    Macs,           \* the mac of every device in the devices collection
    Serials,        \* values of the serial field of devices
    SerialOf,       \* [Macs -> Serials], device.serial
    Models,         \* device models
    ModelOf,        \* [Macs -> Models], device.deviceModel
    InitialDevices, \* the [wh, qc] a device may have at the start
    Moves,          \* active warehouse transitions: <<from, to>> |-> type
    Plans,          \* requirement lists a ticket may be given, model |-> quantity
    Batches,        \* lists of macs a client may scan in one request
    ClientCounts,   \* values of totalItems a client may put in a body
    Requests,       \* requests that may be in flight at the same time
    Features,       \* the parts of the API the clients of an instance use
    MaxItems,       \* bound on the items of a ticket
    MaxDrift        \* bound on the drift of serialChecked at a removal

Warehouses == {"READY_TO_EXPORT", "SOLD", "IN_STOCK", "DEFECT"}
QcStatuses == {"PASS", "FAIL", "PENDING"}
None       == "none"
DeviceRec  == [wh : Warehouses, qc : QcStatuses]
MoveRec    == [wh : Warehouses, qc : QcStatuses \cup {None}]
NoPlan     == [m \in {} |-> 0]
AllPlans   == Plans \cup {NoPlan}

ASSUME DeviceAssumption ==
    /\ IsFiniteSet(Macs)
    /\ SerialOf \in [Macs -> Serials]
    /\ ModelOf \in [Macs -> Models]
    /\ InitialDevices \subseteq DeviceRec

ASSUME PlanAssumption ==
    \A p \in Plans : /\ IsFiniteSet(DOMAIN p)
                     /\ DOMAIN p \subseteq Models
                     /\ \A m \in DOMAIN p : p[m] \in Nat \ {0}

(* findByMacs returns each device once, whatever the client sent. *)
ASSUME BatchAssumption ==
    /\ Batches \subseteq Seq(Macs)
    /\ \A b \in Batches : IsInjective(b)

ASSUME CountAssumption == ClientCounts \subseteq Nat

ASSUME MoveAssumption ==
    \A mv \in DOMAIN Moves : mv \in Warehouses \X Warehouses

-----------------------------------------------------------------------------
(* Documents. *)

TicketStatuses == {"DRAFT", "PENDING_APPROVAL", "APPROVED", "IN_PROGRESS",
                   "COMPLETED", "REJECTED", "CANCELLED"}
SessionStatuses == {"IN_PROGRESS", "COMPLETED", "CANCELLED"}

VARIABLES
    exp,     \* the device-exports collection
    ses,     \* the export-sessions collection
    dev,     \* the devices collection: warehouse and qc status
    soldFor, \* history: tickets on whose behalf a device was moved to SOLD
    pc,      \* the next database call of each request
    loc      \* the local variables of each request

vars == <<exp, ses, dev, soldFor, pc, loc>>

(* The quantities a ticket can carry: the sum over a requirement list, or  *)
(* the number a client puts in the body.                                   *)
TotalOf(plan) == SumFunction(plan)
Totals == {TotalOf(p) : p \in AllPlans}

(* approved and wasCompleted are histories of approvedBy and of the status *)
(* COMPLETED that survive the deletion of the document.  given is history  *)
(* too: a client has put the items or their number in a body since the     *)
(* service last wrote both.                                                *)
TicketRec == [status        : TicketStatuses \cup {"ABSENT", "DELETED"},
              plan          : AllPlans,
              totalQuantity : Totals,
              items         : Seq(Macs),
              totalItems    : Nat,
              given         : BOOLEAN,
              approved      : BOOLEAN,
              wasCompleted  : BOOLEAN]

NoTicket == [status |-> "ABSENT", plan |-> NoPlan, totalQuantity |-> TotalOf(NoPlan),
             items |-> <<>>, totalItems |-> 0, given |-> FALSE,
             approved |-> FALSE, wasCompleted |-> FALSE]

SessionRec == [status        : SessionStatuses \cup {"ABSENT"},
               exp           : Exports \cup {None},
               items         : Seq(Macs),
               serialChecked : Int]

NoSession == [status |-> "ABSENT", exp |-> None, items |-> <<>>, serialChecked |-> 0]

Exists(e)    == exp[e].status \in TicketStatuses
Allocated(s) == ses[s].status \in SessionStatuses

(* An item stores device.serial, not the mac that was scanned; the mac that *)
(* produced it stands for it here.                                         *)
SerialsOf(items) == {SerialOf[i] : i \in ToSet(items)}

(* items.some(i => i.serial === scanned) *)
Stores(items, scanned) == scanned \in SerialsOf(items)

(* Bug: the filter names a field the items do not have.                    *)
PullByMac(items, serial) == items

(* $pull: every item that stores the serial goes. *)
Pull(items, serial) == Keep(items, {i \in DOMAIN items : SerialOf[items[i]] # serial})

CountModel(items, model) ==
    Cardinality({i \in DOMAIN items : ModelOf[items[i]] = model})

-----------------------------------------------------------------------------
(* Requests. *)

Steps == {"Idle",
          "AddItems", "Submit", "ApproveStock", "ApproveReserve", "Approve",
          "Reject", "ConfirmMove", "ConfirmWrite",
          "SessionInsert", "SessionMark",
          "ScanExport", "ScanDevices", "ScanCheck", "ScanPush", "Remove",
          "CompletePush", "CompleteMove", "CompleteClose", "CompleteTotal",
          "CompleteWrite", "TransferSave"}

LocRec == [exp    : Exports \cup {None},          \* the ticket it works on
           ses    : Sessions \cup {None},         \* the session it works on
           status : TicketStatuses \cup {None},   \* ticket status it read
           items  : Seq(Macs),                    \* items it read
           plan   : AllPlans,                     \* requirements it read
           models : SUBSET Models,                \* requirements left to check
           checking : Models \cup {None},         \* the one being checked
           stock  : Nat,                          \* device count it read
           batch  : Seq(Macs),                    \* scans left to judge
           ready  : SUBSET Macs,                  \* devices it read as ready
           ok     : Seq(Macs),                    \* scans judged good
           serial : Serials \cup {None},          \* serial to remove
           move   : MoveRec \cup {None}]          \* warehouse and qc to save

Blank == [exp |-> None, ses |-> None, status |-> None, items |-> <<>>,
          plan |-> NoPlan, models |-> {}, checking |-> None, stock |-> 0,
          batch |-> <<>>, ready |-> {}, ok |-> <<>>, serial |-> None, move |-> None]

TypeOK ==
    /\ exp \in [Exports -> TicketRec]
    /\ ses \in [Sessions -> SessionRec]
    /\ dev \in [Macs -> DeviceRec]
    /\ soldFor \in [Macs -> SUBSET Exports]
    /\ pc \in [Requests -> Steps]
    /\ loc \in [Requests -> LocRec]

Init ==
    /\ exp = [e \in Exports |-> NoTicket]
    /\ ses = [s \in Sessions |-> NoSession]
    /\ dev \in [Macs -> InitialDevices]
    /\ soldFor = [m \in Macs |-> {}]
    /\ pc = [r \in Requests |-> "Idle"]
    /\ loc = [r \in Requests |-> Blank]

Goto(r, step, l) == /\ pc' = [pc EXCEPT ![r] = step]
                    /\ loc' = [loc EXCEPT ![r] = l]

Finish(r) == Goto(r, "Idle", Blank)

Start(r) == pc[r] = "Idle"

(* findByIdAndUpdate on a ticket: nothing happens to a deleted one. *)
WriteTicket(e, doc) ==
    exp' = IF Exists(e) THEN [exp EXCEPT ![e] = doc] ELSE exp

(* Bug: an update that no validator sees writes a status of its own.       *)
WithUnknownStatus(doc, status) ==
    [doc EXCEPT !.status = IF status = "COMPLETED" THEN "CONFIRMED" ELSE status,
                !.wasCompleted = @ \/ status = "COMPLETED"]

WithStatus(doc, status) ==
    [doc EXCEPT !.status = status,
                !.wasCompleted = @ \/ status = "COMPLETED"]

-----------------------------------------------------------------------------
(* DeviceService and DeviceTransferService, as the export side sees them. *)

(* One updateMany over mac $in serials, whatever warehouse the devices are *)
(* in; soldFor remembers the ticket it was done for.                       *)
MoveToSoldWarehouse(serials, e) ==
    /\ dev' = [m \in Macs |-> IF m \in serials THEN [dev[m] EXCEPT !.wh = "SOLD"]
                                               ELSE dev[m]]
    /\ soldFor' = [m \in Macs |-> IF m \in serials THEN soldFor[m] \cup {e}
                                                   ELSE soldFor[m]]

CountReadyToExport(model) ==
    Cardinality({m \in Macs : /\ ModelOf[m] = model
                              /\ dev[m].wh = "READY_TO_EXPORT"
                              /\ dev[m].qc = "PASS"})

QcAfter(transitionType) == CASE transitionType = "QC_PASS" -> "PASS"
                             [] transitionType = "QC_FAIL" -> "FAIL"
                             [] OTHER -> None

(* Bug: the rule is looked up the wrong way round.                         *)
TransferBackwards(r) ==
    /\ "transfer" \in Features
    /\ Start(r)
    /\ \E m \in Macs, to \in Warehouses :
         LET rule == <<to, dev[m].wh>>
         IN  /\ dev[m].wh # to
             /\ rule \in DOMAIN Moves
             /\ Goto(r, "TransferSave",
                  [Blank EXCEPT !.batch = <<m>>,
                                !.move = [wh |-> to, qc |-> QcAfter(Moves[rule])]])
    /\ UNCHANGED <<exp, ses, dev, soldFor>>

(* transfer: read the device and the rule for the move ... *)
TransferRead(r) ==
    /\ "transfer" \in Features
    /\ Start(r)
    /\ \E m \in Macs, to \in Warehouses :
         LET rule == <<dev[m].wh, to>>
         IN  /\ dev[m].wh # to
             /\ rule \in DOMAIN Moves
             /\ Goto(r, "TransferSave",
                  [Blank EXCEPT !.batch = <<m>>,
                                !.move = [wh |-> to, qc |-> QcAfter(Moves[rule])]])
    /\ UNCHANGED <<exp, ses, dev, soldFor>>

(* ... then save the paths it assigned: the warehouse, and the qc status   *)
(* only where the rule has one.                                            *)
TransferSave(r) ==
    /\ pc[r] = "TransferSave"
    /\ LET move == loc[r].move
       IN  dev' = [dev EXCEPT ![Head(loc[r].batch)] =
                     [wh |-> move.wh,
                      qc |-> IF move.qc = None THEN @.qc ELSE move.qc]]
    /\ Finish(r)
    /\ UNCHANGED <<exp, ses, soldFor>>

=============================================================================
