---------------------------- MODULE IntakeStore ----------------------------
(***************************************************************************)
(* The collections the intake side of the warehouse service works on: the  *)
(* import tickets, the inventory sessions in which the devices of a ticket *)
(* are scanned, and the devices.  Requests are as in ExportStore: pc[r] is *)
(* the next database call of r, loc[r] what its handler holds.             *)
(*                                                                         *)
(* Two mechanisms of MongoDB and Mongoose refuse a write that comes too    *)
(* late.  A transaction fails on a session document written since its      *)
(* first call, and save() of a document whose list was replaced fails when *)
(* another save() replaced it since it was read.  torn is the set of       *)
(* requests whose coming write of their session will be refused for that.  *)
(***************************************************************************)
EXTENDS Integers, FiniteSets, SequencesExt, Lists

CONSTANTS
    Imports,    \* ids of import tickets, each used once
    Sessions,   \* ids of inventory sessions, each used once
    Uploads,    \* ids of uploaded files, each used once
    Macs,       \* the macs that may be scanned
    Models,     \* device models
    ModelOf,    \* [Macs -> Models], the model a scanner sends with a mac
    Plans,      \* device lists of a ticket, model |-> quantity
    Batches,    \* the scans a client may send in one request
    Requests,   \* requests that may be in flight at the same time
    Features,   \* the parts of the API the clients of an instance use
    MaxScans,   \* bound on the details of a session
    MaxImported \* bound on the progress of a ticket

None == "none"

ASSUME IntakeAssumption ==
    /\ ModelOf \in [Macs -> Models]
    /\ Batches \subseteq Seq(Macs)
    /\ \A p \in Plans : /\ IsFiniteSet(DOMAIN p)
                        /\ DOMAIN p \subseteq Models
                        /\ \A m \in DOMAIN p : p[m] \in Nat

(* A ticket is created with a status of the schema; the body of an update  *)
(* may hold one more, which nothing validates again.                       *)
ImportStatuses    == {"DRAFT", "PUBLIC", "COMPLETED"}
UpdatedStatuses   == ImportStatuses \cup {"CANCELLED"}
InventoryStatuses == {"pending", "in-progress", "completed"}
SessionStatuses   == {"processing", "completed", "cancelled"}

VARIABLES
    imp,    \* the device-imports collection
    ses,    \* the inventory-sessions collection
    from,   \* the devices: the sessions and files that stocked each, {} if absent
    torn,   \* requests whose write of their session will be refused
    pc, loc

vars == <<imp, ses, from, torn, pc, loc>>

TotalOf(plan) == SumFunction(plan)
Totals == {TotalOf(p) : p \in Plans} \cup {0}

NoLines == [m \in Models |-> 0]
NoPlan  == [m \in {} |-> 0]

(* lines is serialImported of each entry of devices, 0 for a model without *)
(* one; published is a history of the status PUBLIC.                       *)
ImportRec == [status    : UpdatedStatuses \cup {"ABSENT", "DELETED"},
              plan      : Plans \cup {NoPlan},
              total     : Totals,
              imported  : Nat,
              lines     : [Models -> Nat],
              inventory : InventoryStatuses,
              published : BOOLEAN]

NoImport == [status |-> "ABSENT", plan |-> NoPlan, total |-> 0, imported |-> 0,
             lines |-> NoLines, inventory |-> "pending", published |-> FALSE]

SessionRec == [status  : SessionStatuses \cup {"ABSENT"},
               imp     : Imports \cup {None},
               details : Seq(Macs),
               total   : Nat]

NoSession == [status |-> "ABSENT", imp |-> None, details |-> <<>>, total |-> 0]

Exists(i)    == imp[i].status \in UpdatedStatuses
Allocated(s) == ses[s].status \in SessionStatuses
Stocked(m)   == from[m] # {}

Steps == {"Idle",
          "UpdateImport", "DeleteImport", "CloseSessions", "CloseImport",
          "SessionInsert", "ScanPush", "UpdateSession", "RemoveSave",
          "CompleteCheck", "CompleteTicket", "CompleteInsert",
          "CompleteProgress", "CompleteCount", "CompleteCommit"}

(* The calls of completeSession after the first call of its transaction.   *)
TxnSteps == {"CompleteProgress", "CompleteCount", "CompleteCommit"}

LocRec == [imp      : Imports \cup {None},      \* the ticket it works on
           ses      : Sessions \cup {None},     \* the session it works on
           details  : Seq(Macs),                \* details it read or will push
           scanned  : Nat,                      \* totalScanned it read
           imported : Nat,                      \* serialImported it read
           ticket   : ImportRec,                \* the ticket it will write
           status   : SessionStatuses \cup {None}]

Blank == [imp |-> None, ses |-> None, details |-> <<>>, scanned |-> 0,
          imported |-> 0, ticket |-> NoImport, status |-> None]

TypeOK ==
    /\ imp \in [Imports -> ImportRec]
    /\ ses \in [Sessions -> SessionRec]
    /\ from \in [Macs -> SUBSET (Sessions \cup Uploads)]
    /\ torn \subseteq Requests
    /\ pc \in [Requests -> Steps]
    /\ loc \in [Requests -> LocRec]

Init ==
    /\ imp = [i \in Imports |-> NoImport]
    /\ ses = [s \in Sessions |-> NoSession]
    /\ from = [m \in Macs |-> {}]
    /\ torn = {}
    /\ pc = [r \in Requests |-> "Idle"]
    /\ loc = [r \in Requests |-> Blank]

Goto(r, step, l) == /\ pc' = [pc EXCEPT ![r] = step]
                    /\ loc' = [loc EXCEPT ![r] = l]

Finish(r) == Goto(r, "Idle", Blank)

Start(r) == pc[r] = "Idle"

(* findByIdAndUpdate on a ticket: nothing happens to a deleted one.        *)
WriteImport(i, doc) ==
    imp' = IF Exists(i)
           THEN [imp EXCEPT ![i] =
                   [doc EXCEPT !.published = @ \/ doc.status = "PUBLIC"]]
           ELSE imp

(* A write of session s by r; the requests in late lose theirs.            *)
WriteSession(r, s, doc, late) ==
    /\ ses' = [ses EXCEPT ![s] = doc]
    /\ torn' = (torn \cup {q \in late : loc[q].ses = s}) \ {r}

InTxn == {q \in Requests : pc[q] \in TxnSteps}

=============================================================================
