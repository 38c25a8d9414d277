----------------------------- MODULE FileImport ----------------------------
(***************************************************************************)
(* DataImportService beside the intake: a spreadsheet is uploaded, checked *)
(* against the devices there are, and executed, which writes its rows into *)
(* the devices collection while inventory sessions are completed.          *)
(*                                                                         *)
(* The previews are a Map of the process: a crash loses them, and nothing  *)
(* else but an execution ever takes one out.  A request of this service    *)
(* keeps what it holds in job[r]; the intake goes on as in IntakeFlow.     *)
(***************************************************************************)
EXTENDS IntakeFlow

CONSTANTS Sheets,    \* row lists the sheets of a workbook may hold
          Modes      \* what a client may ask a check or an execution to do

(* A row without a model, and one with a model and no mac.                 *)
Incomplete == "incomplete"
NoMac == "noMac"

Rows == Macs \cup {Incomplete, NoMac}

(* The strategy IMPORT_TICKET, and the merge strategies of DEVICE.         *)
Ticket == "ticket"
Merges == {"insert", "update", "upsert"}

ASSUME FileAssumption ==
    /\ Sessions \cap Uploads = {}
    /\ Sheets \subseteq Seq(Rows)
    /\ Modes \subseteq Merges \cup {Ticket}

VARIABLES previews,  \* the sessions Map, by id; an id is drawn once
          job        \* what each request of this service holds

fileVars == <<previews, job>>

PreviewRec == [state : {"absent", "uploaded", "checked", "gone"},
               rows  : Seq(Rows),                      \* the sheet last shown
               valid : Seq(Macs \cup {NoMac})]         \* validRows

NoPreview == [state |-> "absent", rows |-> <<>>, valid |-> <<>>]

JobRec == [call   : {None, "FileCheck", "FileWrite"},
           upload : Uploads \cup {None},
           rows   : Seq(Rows),                         \* the rows left
           mode   : Merges \cup {Ticket, None}]

NoJob == [call |-> None, upload |-> None, rows |-> <<>>, mode |-> None]

FileTypeOK == /\ previews \in [Uploads -> PreviewRec]
              /\ job \in [Requests -> JobRec]

FileInit == /\ previews = [u \in Uploads |-> NoPreview]
            /\ job = [r \in Requests |-> NoJob]

Free(r) == job[r] = NoJob

Known(u) == previews[u].state \in {"uploaded", "checked"}

(* createSession and getPreview await nothing.  Another sheet leaves what  *)
(* was checked before.                                                     *)
UploadFile(u) ==
    /\ previews[u].state = "absent"
    /\ \E rows \in Sheets :
         previews' = [previews EXCEPT ![u] = [NoPreview EXCEPT !.state = "uploaded",
                                                               !.rows = rows]]
    /\ UNCHANGED <<vars, job>>

ShowSheet(u) ==
    /\ Known(u)
    /\ \E rows \in Sheets : previews' = [previews EXCEPT ![u].rows = rows]
    /\ UNCHANGED <<vars, job>>

-----------------------------------------------------------------------------
(* validate: the rows of the sheet are looked up ...                       *)
CheckRead(r) ==
    /\ Start(r) /\ Free(r)
    /\ \E u \in Uploads, mode \in Modes :
         /\ Known(u)
         /\ job' = [job EXCEPT ![r] = [call |-> "FileCheck", upload |-> u,
                                       rows |-> previews[u].rows, mode |-> mode]]
    /\ UNCHANGED <<vars, previews>>

Occurrences(rows, row) == Cardinality({i \in DOMAIN rows : rows[i] = row})

(* What the strategy IMPORT_TICKET asks of a row.  It does not ask for a   *)
(* mac, and only it looks for another row with the same.                   *)
ValidTicketRow(rows, row) ==
    \/ row = NoMac
    \/ row \in Macs /\ ~ Stocked(row) /\ Occurrences(rows, row) = 1

(* What DEVICE asks of it, depending on the merge strategy.                *)
ValidRow(row, merge) ==
    /\ row \in Macs
    /\ merge = "insert" => ~ Stocked(row)
    /\ merge = "update" => Stocked(row)

Accepted(rows, row, mode) == IF mode = Ticket THEN ValidTicketRow(rows, row)
                             ELSE ValidRow(row, mode)

(* ... and the result goes into the Map, where it puts a preview back that *)
(* an execution took out meanwhile.                                        *)
CheckFile(r) ==
    /\ job[r].call = "FileCheck"
    /\ LET j == job[r]
           accepted == {i \in DOMAIN j.rows : Accepted(j.rows, j.rows[i], j.mode)}
       IN  previews' = [previews EXCEPT ![j.upload].state = "checked",
                                        ![j.upload].valid = Keep(j.rows, accepted)]
    /\ job' = [job EXCEPT ![r] = NoJob]
    /\ UNCHANGED vars

-----------------------------------------------------------------------------
(* execute: the rows are those last checked, the mode is the client's      *)
(* again.  IMPORT_TICKET, and DEVICE without rows, write nothing; nor does *)
(* an insert of a row that only the check for IMPORT_TICKET accepts, which *)
(* Mongoose refuses with all others.  The preview is deleted at once ...   *)
Executed(u) == [previews EXCEPT ![u].state = "gone", ![u].valid = <<>>]

Refused(mode, rows) == mode = "insert" /\ NoMac \in ToSet(rows)

ExecuteNothing(r) ==
    /\ Start(r) /\ Free(r)
    /\ \E u \in Uploads, mode \in Modes :
         /\ previews[u].state = "checked"
         /\ mode = Ticket \/ previews[u].valid = <<>> \/ Refused(mode, previews[u].valid)
         /\ previews' = Executed(u)
    /\ UNCHANGED <<vars, job>>

ExecuteRead(r) ==
    /\ Start(r) /\ Free(r)
    /\ \E u \in Uploads, mode \in Modes \ {Ticket} :
         /\ previews[u].state = "checked"
         /\ previews[u].valid # <<>> /\ ~ Refused(mode, previews[u].valid)
         /\ job' = [job EXCEPT ![r] = [call |-> "FileWrite", upload |-> u,
                                       rows |-> previews[u].valid, mode |-> mode]]
    /\ UNCHANGED <<vars, previews>>

(* ... or else when the one bulkWrite has answered, whatever it did.       *)
FileDone(r) ==
    /\ job' = [job EXCEPT ![r] = NoJob]
    /\ previews' = Executed(job[r].upload)

(* An insert of a mac that is there fails; an upsert of it is an update,   *)
(* and the fields an update sets are left out, as is the one device        *)
(* without a mac that upserts of such rows write.                          *)
Inserts(mode, row) ==
    row # NoMac /\ (mode = "insert" \/ (mode = "upsert" /\ ~ Stocked(row)))

(* The unique index makes an insert wait for the transaction that has      *)
(* inserted the mac and not ended.                                         *)
Awaited(row) == \E q \in InTxn : row \in ToSet(loc[q].details)

(* One row of the bulkWrite, in order: the database writes them one by     *)
(* one, and leaves off at the first that fails.                            *)
WriteRow(r) ==
    /\ job[r].call = "FileWrite"
    /\ LET row  == Head(job[r].rows)
           mode == job[r].mode
       IN  \/ /\ Inserts(mode, row) /\ Stocked(row)
              /\ FileDone(r)
              /\ UNCHANGED from
           \/ /\ Inserts(mode, row) => ~ Stocked(row) /\ ~ Awaited(row)
              /\ from' = IF Inserts(mode, row)
                         THEN [from EXCEPT ![row] = @ \cup {job[r].upload}] ELSE from
              /\ IF Len(job[r].rows) = 1
                 THEN FileDone(r)
                 ELSE /\ job' = [job EXCEPT ![r].rows = Tail(@)]
                      /\ UNCHANGED previews
    /\ UNCHANGED <<imp, ses, torn, pc, loc>>

(* The call fails with rows left; the error is caught and reported.        *)
WriteFails(r) ==
    /\ job[r].call = "FileWrite"
    /\ FileDone(r)
    /\ UNCHANGED vars

-----------------------------------------------------------------------------
(* The process stops: the requests of both services and the Map are gone.  *)
Stop ==
    /\ "crash" \in Features
    /\ \/ \E r \in Requests : pc[r] # "Idle" \/ ~ Free(r)
       \/ \E u \in Uploads : Known(u)
    /\ pc' = [r \in Requests |-> "Idle"]
    /\ loc' = [r \in Requests |-> Blank]
    /\ torn' = {}
    /\ job' = [r \in Requests |-> NoJob]
    /\ previews' = [u \in Uploads |->
                      IF previews[u].state = "absent" THEN NoPreview
                      ELSE [NoPreview EXCEPT !.state = "gone"]]
    /\ UNCHANGED <<imp, ses, from>>

FileStep(r) ==
    \/ CheckRead(r)
    \/ CheckFile(r)
    \/ ExecuteNothing(r)
    \/ ExecuteRead(r)
    \/ WriteRow(r)
    \/ WriteFails(r)

IntakeStep ==
    \/ \E i \in Imports : CreateImport(i)
    \/ \E r \in Requests : (Free(r) /\ StartRequest(r)) \/ Step(r)

FileNext ==
    \/ IntakeStep /\ UNCHANGED fileVars
    \/ \E u \in Uploads : UploadFile(u) \/ ShowSheet(u)
    \/ \E r \in Requests : FileStep(r)
    \/ Stop

FileSpec == Init /\ FileInit /\ [][FileNext]_<<vars, fileVars>>

=============================================================================
