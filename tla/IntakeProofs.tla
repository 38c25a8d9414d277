---------------------------- MODULE IntakeProofs ---------------------------
(***************************************************************************)
(* Theorems about IntakeFlow, for every set of tickets, sessions, devices  *)
(* and requests.                                                           *)
(***************************************************************************)
EXTENDS IntakeFlow, FiniteDataProofs

CompleteCalls == {"CompleteCheck", "CompleteTicket", "CompleteInsert",
                  "CompleteProgress", "CompleteCount", "CompleteCommit"}

(* The calls at which a request works on a ticket, and on a session that   *)
(* exists.                                                                 *)
ImportCalls  == {"UpdateImport", "DeleteImport", "CloseSessions", "CloseImport",
                 "SessionInsert"} \cup CompleteCalls
OpenCalls    == {"ScanPush", "UpdateSession", "RemoveSave"} \cup CompleteCalls

(* What a request holds when it performs a call.                           *)
Holds(step, l) ==
    /\ step \in ImportCalls => l.imp \in Imports
    /\ step = "SessionInsert" => l.ses \in Sessions
    /\ step \in OpenCalls => l.ses \in Sessions /\ Allocated(l.ses)
    /\ step = "UpdateSession" => l.status \in {"processing", "cancelled"}

HoldsOK == \A r \in Requests : Holds(pc[r], loc[r])

SessionsOK == \A s \in Sessions : Allocated(s) => ses[s].imp \in Imports

TypeInv == TypeOK /\ HoldsOK /\ SessionsOK

(* No session disappears. *)
SessionsKept == \A s \in Sessions : Allocated(s) => Allocated(s)'

-----------------------------------------------------------------------------
(* Data. *)

(* The empty locals and the documents not yet inserted are typed.          *)
LEMMA BlankType == Blank \in LocRec /\ NoImport \in ImportRec /\ NoSession \in SessionRec
  <1>1. <<>> \in Seq(Macs)
    OBVIOUS
  <1> QED
    BY <1>1 DEF Blank, LocRec, NoImport, ImportRec, NoSession, SessionRec, NoLines,
                Totals, InventoryStatuses

(* A ticket given a device list of a client is a ticket.                   *)
LEMMA WithPlanType ==
  ASSUME NEW doc \in ImportRec, NEW plan \in Plans
  PROVE  WithPlan(doc, plan) \in ImportRec
  BY DEF WithPlan, ImportRec, NoLines, Totals

(* The scans of a model are counted by a number.                           *)
LEMMA ScannedType ==
  ASSUME NEW details \in Seq(Macs), NEW m PROVE ScannedOf(details, m) \in Nat
  <1>1. IsFiniteSet(1 .. Len(details))
    BY FS_Interval
  <1>2. IsFiniteSet({i \in DOMAIN details : ModelOf[details[i]] = m})
    BY <1>1, FS_Subset
  <1> QED BY <1>2, FS_CardinalityType DEF ScannedOf

(* The progress of a ticket is counted by numbers.                         *)
LEMMA CountedType ==
  ASSUME NEW ticket \in ImportRec, NEW l \in LocRec
  PROVE  Counted(ticket, l) \in ImportRec
  <1>1. l.imported + l.scanned \in Nat /\ l.details \in Seq(Macs)
    BY DEF LocRec
  <1>2. \A m \in Models : ScannedOf(l.details, m) \in Nat
    BY <1>1, ScannedType
  <1>3. Inventory(ticket, l.imported + l.scanned) \in InventoryStatuses
    BY DEF Inventory, ImportRec, InventoryStatuses
  <1>4. [m \in Models |-> IF m \in DOMAIN ticket.plan
                          THEN ticket.lines[m] + ScannedOf(l.details, m)
                          ELSE ticket.lines[m]] \in [Models -> Nat]
    BY <1>2 DEF ImportRec
  <1> QED BY <1>1, <1>3, <1>4 DEF Counted, ImportRec

(* What removeItem leaves: the details that are not the mac.               *)
LEMMA WithoutFacts ==
  ASSUME NEW details \in Seq(Macs), NEW m
  PROVE  /\ Without(details, m) \in Seq(Macs)
         /\ ToSet(Without(details, m)) = ToSet(details) \ {m}
  <1> DEFINE kept == {i \in DOMAIN details : details[i] # m}
  <1>1. kept \in SUBSET DOMAIN details /\ \A i \in kept : details[i] \in Macs
    OBVIOUS
  <1>2. {details[i] : i \in kept} = ToSet(details) \ {m}
    BY DEF ToSet
  <1> HIDE DEF kept
  <1> QED BY <1>1, <1>2, KeepFacts DEF Without, kept

(* A list pushed to is a list, as long as both together.                   *)
LEMMA PushedType ==
  ASSUME NEW doc \in SessionRec, NEW batch \in Seq(Macs)
  PROVE  /\ Pushed(doc, batch) \in SessionRec
         /\ Pushed(doc, batch).status = doc.status
         /\ Pushed(doc, batch).imp = doc.imp
         /\ doc.total = Len(doc.details) =>
              Pushed(doc, batch).total = Len(Pushed(doc, batch).details)
  <1>1. doc.details \in Seq(Macs) /\ doc.total \in Nat
    BY DEF SessionRec
  <1>2. /\ doc.details \o batch \in Seq(Macs)
        /\ Len(doc.details \o batch) = Len(doc.details) + Len(batch)
        /\ doc.total + Len(batch) \in Nat
    BY <1>1
  <1> QED BY <1>2 DEF Pushed, SessionRec

-----------------------------------------------------------------------------
(* Type correctness, action by action. *)

(* Going to a next call with typed locals keeps the requests typed.        *)
LEMMA GotoType ==
  ASSUME TypeInv, NEW r \in Requests, NEW step \in Steps, NEW l \in LocRec,
         Goto(r, step, l), Holds(step, l), SessionsKept
  PROVE  pc' \in [Requests -> Steps] /\ loc' \in [Requests -> LocRec] /\ HoldsOK'
  <1>1. ASSUME NEW q \in Requests PROVE Holds(pc[q], loc[q])'
    <2>1. CASE q = r
      BY <2>1 DEF TypeInv, TypeOK, Goto, Holds, SessionsKept
    <2>2. CASE q # r
      BY <2>2 DEF TypeInv, TypeOK, Goto, HoldsOK, Holds, SessionsKept
    <2> QED BY <2>1, <2>2
  <1> QED BY <1>1 DEF TypeInv, TypeOK, HoldsOK, Goto

(* A call that only reads.                                                 *)
LEMMA ReadType ==
  ASSUME TypeInv, NEW r \in Requests, NEW step \in Steps, NEW l \in LocRec,
         Goto(r, step, l), Holds(step, l), UNCHANGED <<imp, ses, from, torn>>
  PROVE  TypeInv'
  <1>1. SessionsKept
    BY DEF SessionsKept, Allocated
  <1> QED BY <1>1, GotoType DEF TypeInv, TypeOK, SessionsOK, Allocated

(* The last step of a handler keeps the requests typed.                    *)
LEMMA FinishType ==
  ASSUME TypeInv, NEW r \in Requests, Finish(r), SessionsKept
  PROVE  pc' \in [Requests -> Steps] /\ loc' \in [Requests -> LocRec] /\ HoldsOK'
  <1>1. Holds("Idle", Blank)
    BY DEF Holds, ImportCalls, OpenCalls, CompleteCalls
  <1> QED BY <1>1, GotoType, BlankType DEF Finish, Steps

(* A handler that gives up.                                                *)
LEMMA GiveUpType ==
  ASSUME TypeInv, NEW r \in Requests, Finish(r), UNCHANGED <<imp, ses, from>>,
         torn' \subseteq Requests
  PROVE  TypeInv'
  <1>1. SessionsKept
    BY DEF SessionsKept, Allocated
  <1> QED BY <1>1, FinishType DEF TypeInv, TypeOK, SessionsOK, Allocated

(* findByIdAndUpdate keeps the tickets typed.                              *)
LEMMA WriteImportType ==
  ASSUME TypeOK, NEW i, NEW doc \in ImportRec, WriteImport(i, doc)
  PROVE  imp' \in [Imports -> ImportRec]
  BY DEF TypeOK, WriteImport, ImportRec

(* A handler whose last call writes a ticket.                              *)
LEMMA LastImportType ==
  ASSUME TypeInv, NEW r \in Requests, NEW i, NEW doc \in ImportRec,
         WriteImport(i, doc), Finish(r), UNCHANGED <<ses, from, torn>>
  PROVE  TypeInv'
  <1>1. SessionsKept
    BY DEF SessionsKept, Allocated
  <1> QED BY <1>1, WriteImportType, FinishType DEF TypeInv, TypeOK, SessionsOK, Allocated

(* A handler whose last call writes a session.                             *)
LEMMA LastSessionType ==
  ASSUME TypeInv, NEW r \in Requests, NEW s \in Sessions, NEW doc \in SessionRec,
         NEW late \in SUBSET Requests, WriteSession(r, s, doc, late), Finish(r),
         doc.status \in SessionStatuses, doc.imp \in Imports,
         from' \in [Macs -> SUBSET (Sessions \cup Uploads)], UNCHANGED imp
  PROVE  TypeInv'
  <1>1. ses' = [ses EXCEPT ![s] = doc] /\ torn' \subseteq Requests
    BY DEF WriteSession, TypeInv, TypeOK
  <1>2. SessionsOK' /\ SessionsKept
    BY <1>1 DEF TypeInv, TypeOK, SessionsOK, Allocated, SessionsKept
  <1> QED BY <1>1, <1>2, FinishType DEF TypeInv, TypeOK

(* The empty store is typed.                                               *)
LEMMA TypeInit == Init => TypeInv
  <1> SUFFICES ASSUME Init PROVE TypeInv
    OBVIOUS
  <1>1. TypeOK
    BY BlankType DEF Init, TypeOK, Steps
  <1>2. HoldsOK
    BY DEF Init, HoldsOK, Holds, ImportCalls, OpenCalls, CompleteCalls
  <1>3. SessionsOK
    BY DEF Init, SessionsOK, Allocated, NoSession, SessionStatuses
  <1> QED BY <1>1, <1>2, <1>3 DEF TypeInv

(* The operations of DeviceImportService keep the types.                   *)
LEMMA TypeImports ==
  ASSUME TypeInv, NEW r \in Requests,
         \/ UpdateImportRead(r) \/ DeleteImportRead(r) \/ CloseRead(r)
         \/ UpdateImportWrite(r) \/ DeleteImportWrite(r)
         \/ CloseSessions(r) \/ CloseWrite(r)
  PROVE  TypeInv'
  <1>0. \A i \in Imports, step \in {"UpdateImport", "DeleteImport", "CloseSessions"} :
           /\ [Blank EXCEPT !.imp = i] \in LocRec
           /\ step \in Steps
           /\ Holds(step, [Blank EXCEPT !.imp = i])
    BY BlankType DEF Blank, LocRec, Steps, Holds, OpenCalls, CompleteCalls
  <1>1. CASE UpdateImportRead(r)
    BY <1>0, <1>1, ReadType DEF UpdateImportRead
  <1>2. CASE DeleteImportRead(r)
    BY <1>0, <1>2, ReadType DEF DeleteImportRead
  <1>3. CASE CloseRead(r)
    BY <1>0, <1>3, ReadType DEF CloseRead
  <1>4. CASE UpdateImportWrite(r)
    <2>1. loc[r].imp \in Imports
      BY <1>4 DEF UpdateImportWrite, TypeInv, HoldsOK, Holds, ImportCalls
    <2> DEFINE i == loc[r].imp
    <2>2. imp[i] \in ImportRec
      BY <2>1 DEF TypeInv, TypeOK
    <2>3. PICK status \in {imp[i].status} \cup UpdatedStatuses,
               progress \in ClientProgress \cup {<<imp[i].imported, imp[i].inventory>>} :
            LET doc == [imp[i] EXCEPT !.status = status,
                                      !.imported = progress[1],
                                      !.inventory = progress[2]]
            IN  \/ WriteImport(i, doc)
                \/ \E plan \in Plans : WriteImport(i, WithPlan(doc, plan))
      BY <1>4 DEF UpdateImportWrite
    <2>4. progress[1] \in Nat /\ progress[2] \in InventoryStatuses
      BY <2>2 DEF ClientProgress, ImportRec
    <2> DEFINE doc == [imp[i] EXCEPT !.status = status,
                                     !.imported = progress[1],
                                     !.inventory = progress[2]]
    <2>5. doc \in ImportRec
      BY <2>2, <2>4 DEF ImportRec
    <2>6. \A plan \in Plans : WithPlan(doc, plan) \in ImportRec
      BY <2>5, WithPlanType
    <2>7. Finish(r) /\ UNCHANGED <<ses, from, torn>>
      BY <1>4 DEF UpdateImportWrite
    <2> QED BY <2>3, <2>5, <2>6, <2>7, LastImportType
  <1>5. CASE DeleteImportWrite(r)
    <2> DEFINE i == loc[r].imp
    <2>1. i \in Imports
      BY <1>5 DEF DeleteImportWrite, TypeInv, HoldsOK, Holds, ImportCalls
    <2>2. imp' \in [Imports -> ImportRec]
      BY <1>5, <2>1, BlankType DEF DeleteImportWrite, TypeInv, TypeOK, ImportRec
    <2>3. SessionsKept
      BY <1>5 DEF DeleteImportWrite, SessionsKept, Allocated
    <2> QED
      BY <1>5, <2>2, <2>3, FinishType DEF DeleteImportWrite, TypeInv, TypeOK, SessionsOK,
                                         Allocated
  <1>6. CASE CloseSessions(r)
    <2>1. loc[r] \in LocRec /\ "CloseImport" \in Steps /\ loc[r].imp \in Imports
      BY <1>6 DEF CloseSessions, TypeInv, TypeOK, HoldsOK, Holds, ImportCalls, Steps
    <2>2. Holds("CloseImport", loc[r])
      BY <2>1 DEF Holds, OpenCalls, CompleteCalls
    <2>3. torn' \subseteq Requests
      BY <1>6 DEF CloseSessions, TypeInv, TypeOK
    <2> QED
      BY <1>6, <2>1, <2>2, <2>3, ReadType, GiveUpType DEF CloseSessions
  <1>7. CASE CloseWrite(r)
    <2>1. imp[loc[r].imp] \in ImportRec
      BY <1>7 DEF CloseWrite, TypeInv, TypeOK, HoldsOK, Holds, ImportCalls
    <2>2. [imp[loc[r].imp] EXCEPT !.inventory = "completed"] \in ImportRec
      BY <2>1 DEF ImportRec, InventoryStatuses
    <2> QED BY <1>7, <2>2, LastImportType DEF CloseWrite
  <1> QED BY <1>1, <1>2, <1>3, <1>4, <1>5, <1>6, <1>7

(* The scans and edits of InventorySessionService keep the types.          *)
LEMMA TypeSessions ==
  ASSUME TypeInv, NEW r \in Requests,
         \/ SessionRead(r) \/ ScanRead(r) \/ UpdateSessionRead(r) \/ RemoveRead(r)
         \/ SessionInsert(r) \/ ScanPush(r) \/ UpdateSessionWrite(r) \/ RemoveSave(r)
  PROVE  TypeInv'
  <1> USE DEF CompleteCalls
  <1>0. \A m \in Macs : from[m] \in SUBSET (Sessions \cup Uploads)
    BY DEF TypeInv, TypeOK
  <1>a. InTxn \in SUBSET Requests /\ Removing \in SUBSET Requests
    BY DEF InTxn, Removing
  <1>b. \A s \in Sessions : ses[s] \in SessionRec
    BY DEF TypeInv, TypeOK
  <1>c. \A s : Open(s) => Allocated(s)
    BY DEF Open, Allocated, SessionStatuses
  <1>1. CASE SessionRead(r)
    <2>1. PICK i \in Imports, s \in Sessions :
             Goto(r, "SessionInsert", [Blank EXCEPT !.imp = i, !.ses = s])
      BY <1>1 DEF SessionRead
    <2> DEFINE l == [Blank EXCEPT !.imp = i, !.ses = s]
    <2>2. l \in LocRec /\ "SessionInsert" \in Steps
      BY BlankType DEF Blank, LocRec, Steps
    <2>3. Holds("SessionInsert", l)
      BY DEF Holds, Blank, OpenCalls
    <2> QED BY <1>1, <2>1, <2>2, <2>3, ReadType DEF SessionRead
  <1>2. CASE ScanRead(r)
    <2>1. PICK s \in Sessions, batch \in Batches \ {<<>>} :
             Open(s) /\ Goto(r, "ScanPush", [Blank EXCEPT !.ses = s, !.details = batch])
      BY <1>2 DEF ScanRead
    <2> DEFINE l == [Blank EXCEPT !.ses = s, !.details = batch]
    <2>2. l \in LocRec /\ "ScanPush" \in Steps
      BY BlankType, IntakeAssumption DEF Blank, LocRec, Steps
    <2>3. Holds("ScanPush", l)
      BY <2>1, <1>c DEF Holds, Blank, ImportCalls
    <2> QED BY <1>2, <2>1, <2>2, <2>3, ReadType DEF ScanRead
  <1>3. CASE UpdateSessionRead(r)
    <2>1. PICK s \in Sessions, status \in {"processing", "cancelled"} :
             Open(s) /\ Goto(r, "UpdateSession", [Blank EXCEPT !.ses = s, !.status = status])
      BY <1>3 DEF UpdateSessionRead
    <2> DEFINE l == [Blank EXCEPT !.ses = s, !.status = status]
    <2>2. l \in LocRec /\ "UpdateSession" \in Steps
      BY BlankType DEF Blank, LocRec, Steps, SessionStatuses
    <2>3. Holds("UpdateSession", l)
      BY <2>1, <1>c DEF Holds, Blank, ImportCalls, SessionStatuses
    <2> QED BY <1>3, <2>1, <2>2, <2>3, ReadType DEF UpdateSessionRead
  <1>4. CASE RemoveRead(r)
    <2>1. PICK s \in Sessions, left \in Seq(Macs) :
             Open(s) /\ Goto(r, "RemoveSave", [Blank EXCEPT !.ses = s, !.details = left])
      <3>1. \A s \in Sessions, m \in Macs : Without(ses[s].details, m) \in Seq(Macs)
        BY WithoutFacts DEF TypeInv, TypeOK, SessionRec
      <3>2. \A s \in Sessions : ToSet(ses[s].details) \subseteq Macs
        BY DEF TypeInv, TypeOK, SessionRec, ToSet
      <3> QED BY <1>4, <3>1, <3>2 DEF RemoveRead
    <2> DEFINE l == [Blank EXCEPT !.ses = s, !.details = left]
    <2>2. l \in LocRec /\ "RemoveSave" \in Steps
      BY BlankType DEF Blank, LocRec, Steps
    <2>3. Holds("RemoveSave", l)
      BY <2>1, <1>c DEF Holds, Blank, ImportCalls
    <2> QED BY <1>4, <2>1, <2>2, <2>3, ReadType DEF RemoveRead
  <1>5. CASE SessionInsert(r)
    <2>1. loc[r].ses \in Sessions /\ loc[r].imp \in Imports
      BY <1>5 DEF SessionInsert, TypeInv, HoldsOK, Holds, ImportCalls
    <2> DEFINE doc == [NoSession EXCEPT !.status = "processing", !.imp = loc[r].imp]
    <2>2. doc \in SessionRec /\ doc.imp \in Imports
      BY <2>1, BlankType DEF NoSession, SessionRec, SessionStatuses
    <2>3. ses' = [ses EXCEPT ![loc[r].ses] = doc]
      BY <1>5 DEF SessionInsert
    <2>4. ses' \in [Sessions -> SessionRec] /\ SessionsOK' /\ SessionsKept
      BY <2>1, <2>2, <2>3 DEF TypeInv, TypeOK, SessionsOK, Allocated, SessionsKept,
                              SessionStatuses
    <2> QED BY <1>5, <2>4, FinishType DEF SessionInsert, TypeInv, TypeOK
  <1>6. CASE ScanPush(r)
    <2> DEFINE s == loc[r].ses
               batch == loc[r].details
    <2>1. s \in Sessions /\ batch \in Seq(Macs)
      BY <1>6 DEF ScanPush, TypeInv, TypeOK, LocRec, HoldsOK, Holds, OpenCalls
    <2>2. WriteSession(r, s, Pushed(ses[s], batch), InTxn) /\ Finish(r)
          /\ UNCHANGED <<imp, from>>
      BY <1>6 DEF ScanPush
    <2>3. Pushed(ses[s], batch) \in SessionRec
          /\ Pushed(ses[s], batch).status = ses[s].status
          /\ Pushed(ses[s], batch).imp = ses[s].imp
      BY <1>b, <2>1, PushedType
    <2>4. ses[s].status \in SessionStatuses /\ ses[s].imp \in Imports
      BY <1>6, <2>1 DEF ScanPush, TypeInv, HoldsOK, Holds, OpenCalls, SessionsOK, Allocated
    <2>5. from' \in [Macs -> SUBSET (Sessions \cup Uploads)]
      BY <2>2 DEF TypeInv, TypeOK
    <2> QED BY <1>a, <2>1, <2>2, <2>3, <2>4, <2>5, LastSessionType
  <1>7. CASE UpdateSessionWrite(r)
    <2> DEFINE s == loc[r].ses
               doc == [ses[s] EXCEPT !.status = loc[r].status]
    <2>1. s \in Sessions /\ loc[r].status \in SessionStatuses
      BY <1>7 DEF UpdateSessionWrite, TypeInv, HoldsOK, Holds, OpenCalls, SessionStatuses
    <2>2. WriteSession(r, s, doc, InTxn) /\ Finish(r) /\ UNCHANGED <<imp, from>>
      BY <1>7 DEF UpdateSessionWrite
    <2>3. doc \in SessionRec /\ doc.imp = ses[s].imp
      BY <1>b, <2>1 DEF SessionRec
    <2>4. from' \in [Macs -> SUBSET (Sessions \cup Uploads)]
      BY <2>2 DEF TypeInv, TypeOK
    <2>5. ses[s].imp \in Imports
      BY <1>7, <2>1 DEF UpdateSessionWrite, TypeInv, HoldsOK, Holds, OpenCalls, SessionsOK
    <2>6. doc.status \in SessionStatuses
      BY <1>b, <2>1 DEF SessionRec
    <2> QED BY <1>a, <2>1, <2>2, <2>3, <2>4, <2>5, <2>6, LastSessionType
  <1>8. CASE RemoveSave(r)
    <2> DEFINE s == loc[r].ses
               doc == [ses[s] EXCEPT !.details = loc[r].details,
                                     !.total = Len(loc[r].details)]
    <2>1. s \in Sessions /\ loc[r].details \in Seq(Macs)
      BY <1>8 DEF RemoveSave, TypeInv, TypeOK, LocRec, HoldsOK, Holds, OpenCalls
    <2>2. ses[s].status \in SessionStatuses /\ ses[s].imp \in Imports
      BY <1>8, <2>1 DEF RemoveSave, TypeInv, HoldsOK, Holds, OpenCalls, SessionsOK,
                        Allocated
    <2>n. Len(loc[r].details) \in Nat
      BY <2>1
    <2>3. doc \in SessionRec /\ doc.imp = ses[s].imp /\ doc.status = ses[s].status
      BY <1>b, <2>1, <2>n DEF SessionRec
    <2>4. Finish(r) /\ UNCHANGED <<imp, from>>
      BY <1>8 DEF RemoveSave
    <2>5. from' \in [Macs -> SUBSET (Sessions \cup Uploads)]
      BY <2>4 DEF TypeInv, TypeOK
    <2>6. CASE r \in torn
      <3>1. UNCHANGED ses /\ torn' \subseteq Requests
        BY <1>8, <2>6 DEF RemoveSave, TypeInv, TypeOK
      <3> QED BY <2>4, <3>1, GiveUpType
    <2>7. CASE r \notin torn
      <3>1. WriteSession(r, s, doc, InTxn \cup Removing)
        BY <1>8, <2>7 DEF RemoveSave
      <3>2. InTxn \cup Removing \in SUBSET Requests
        BY <1>a
      <3> QED BY <2>1, <2>2, <2>3, <2>4, <2>5, <3>1, <3>2, LastSessionType
    <2> QED BY <2>6, <2>7
  <1> QED BY <1>1, <1>2, <1>3, <1>4, <1>5, <1>6, <1>7, <1>8

(* The calls of completeSession keep the types.                            *)
LEMMA TypeComplete ==
  ASSUME TypeInv, NEW r \in Requests,
         \/ CompleteRead(r) \/ CompleteCheck(r) \/ CompleteTicket(r)
         \/ CompleteInsert(r) \/ CompleteProgress(r) \/ CompleteCount(r)
         \/ CompleteCommit(r)
  PROVE  TypeInv'
  <1>a. loc[r] \in LocRec /\ torn \subseteq Requests
    BY DEF TypeInv, TypeOK
  <1>b. CompleteCalls \subseteq Steps /\ CompleteCalls \subseteq OpenCalls
        /\ CompleteCalls \subseteq ImportCalls
    BY DEF CompleteCalls, Steps, OpenCalls, ImportCalls
  <1>c. pc[r] \in CompleteCalls =>
           /\ loc[r].imp \in Imports
           /\ loc[r].ses \in Sessions
           /\ Allocated(loc[r].ses)
    BY <1>b DEF TypeInv, HoldsOK, Holds
  (* A next call of the completion, on the same ticket and session. *)
  <1>d. ASSUME NEW step \in CompleteCalls, NEW l \in LocRec, pc[r] \in CompleteCalls,
               l.imp = loc[r].imp, l.ses = loc[r].ses
        PROVE  step \in Steps /\ Holds(step, l)
    BY <1>b, <1>c, <1>d DEF Holds, CompleteCalls
  <1>1. CASE CompleteRead(r)
    <2>1. PICK s \in Sessions :
             /\ Open(s)
             /\ Goto(r, "CompleteCheck", [Blank EXCEPT !.ses = s, !.imp = ses[s].imp,
                                                       !.details = ses[s].details,
                                                       !.scanned = ses[s].total])
      BY <1>1 DEF CompleteRead
    <2> DEFINE l == [Blank EXCEPT !.ses = s, !.imp = ses[s].imp,
                                  !.details = ses[s].details, !.scanned = ses[s].total]
    <2>2. Allocated(s) /\ ses[s].imp \in Imports /\ ses[s] \in SessionRec
      BY <2>1 DEF Open, Allocated, SessionStatuses, TypeInv, TypeOK, SessionsOK
    <2>3. l \in LocRec /\ "CompleteCheck" \in Steps
      BY <2>2, BlankType DEF Blank, LocRec, SessionRec, Steps
    <2>4. Holds("CompleteCheck", l)
      BY <2>2 DEF Holds, Blank
    <2> QED BY <1>1, <2>1, <2>3, <2>4, ReadType DEF CompleteRead
  <1>2. CASE CompleteCheck(r)
    <2>1. pc[r] \in CompleteCalls /\ "CompleteTicket" \in CompleteCalls
      BY <1>2 DEF CompleteCheck, CompleteCalls
    <2>2. "CompleteTicket" \in Steps /\ Holds("CompleteTicket", loc[r])
      BY <1>a, <1>d, <2>1
    <2>3. torn' \subseteq Requests
      BY <1>2, <1>a DEF CompleteCheck
    <2> QED BY <1>2, <1>a, <2>2, <2>3, ReadType, GiveUpType DEF CompleteCheck
  <1>3. CASE CompleteTicket(r)
    <2> DEFINE l == [loc[r] EXCEPT !.imported = imp[loc[r].imp].imported]
               step == IF loc[r].details = <<>> THEN "CompleteProgress"
                                                ELSE "CompleteInsert"
    <2>1. pc[r] \in CompleteCalls /\ step \in CompleteCalls
      BY <1>3 DEF CompleteTicket, CompleteCalls
    <2>2. imp[loc[r].imp] \in ImportRec
      BY <1>c, <2>1 DEF TypeInv, TypeOK
    <2>3. l \in LocRec /\ l.imp = loc[r].imp /\ l.ses = loc[r].ses
      BY <1>a, <2>2 DEF LocRec, ImportRec
    <2>4. step \in Steps /\ Holds(step, l)
      BY <1>d, <2>1, <2>3
    <2>5. torn' \subseteq Requests /\ UNCHANGED <<imp, ses, from, torn>>
      BY <1>3, <1>a DEF CompleteTicket
    <2>6. Goto(r, step, l) \/ Finish(r)
      BY <1>3 DEF CompleteTicket
    <2> HIDE DEF l, step
    <2> QED BY <2>3, <2>4, <2>5, <2>6, ReadType, GiveUpType
  <1>4. CASE CompleteInsert(r)
    <2>1. pc[r] \in CompleteCalls /\ "CompleteProgress" \in CompleteCalls
      BY <1>4 DEF CompleteInsert, CompleteCalls
    <2>2. "CompleteProgress" \in Steps /\ Holds("CompleteProgress", loc[r])
      BY <1>a, <1>d, <2>1
    <2>3. torn' \subseteq Requests
      BY <1>4, <1>a DEF CompleteInsert
    <2> QED BY <1>4, <1>a, <2>2, <2>3, ReadType, GiveUpType DEF CompleteInsert
  <1>5. CASE CompleteProgress(r)
    <2> DEFINE ticket == Counted(imp[loc[r].imp], loc[r])
               l == [loc[r] EXCEPT !.ticket = ticket]
    <2>1. pc[r] \in CompleteCalls /\ "CompleteCount" \in CompleteCalls
      BY <1>5 DEF CompleteProgress, CompleteCalls
    <2>2. ticket \in ImportRec
      BY <1>a, <1>c, <2>1, CountedType DEF TypeInv, TypeOK
    <2>3. l \in LocRec /\ l.imp = loc[r].imp /\ l.ses = loc[r].ses
      BY <1>a, <2>2 DEF LocRec
    <2>4. "CompleteCount" \in Steps /\ Holds("CompleteCount", l)
      BY <1>d, <2>1, <2>3
    <2>5. torn' \subseteq Requests /\ UNCHANGED <<imp, ses, from>>
      BY <1>5, <1>a DEF CompleteProgress
    <2>6. (Goto(r, "CompleteCount", l) /\ UNCHANGED torn) \/ Finish(r)
      BY <1>5 DEF CompleteProgress
    <2> HIDE DEF l
    <2> QED BY <2>3, <2>4, <2>5, <2>6, ReadType, GiveUpType
  <1>6. CASE CompleteCount(r)
    <2> DEFINE doc == [imp[loc[r].imp] EXCEPT !.imported = loc[r].ticket.imported,
                                              !.inventory = loc[r].ticket.inventory,
                                              !.plan = loc[r].ticket.plan,
                                              !.lines = loc[r].ticket.lines]
               l == [loc[r] EXCEPT !.ticket = NoImport]
    <2>1. pc[r] \in CompleteCalls /\ "CompleteCommit" \in CompleteCalls
      BY <1>6 DEF CompleteCount, CompleteCalls
    <2>2. imp[loc[r].imp] \in ImportRec /\ loc[r].ticket \in ImportRec
      BY <1>a, <1>c, <2>1 DEF TypeInv, TypeOK, LocRec
    <2>3. doc \in ImportRec
      BY <2>2 DEF ImportRec
    <2>4. l \in LocRec /\ l.imp = loc[r].imp /\ l.ses = loc[r].ses
      BY <1>a, BlankType DEF LocRec
    <2>5. "CompleteCommit" \in Steps /\ Holds("CompleteCommit", l)
      BY <1>d, <2>1, <2>4
    <2>6. /\ WriteImport(loc[r].imp, doc)
          /\ Goto(r, "CompleteCommit", l)
          /\ UNCHANGED <<ses, from, torn>>
      BY <1>6 DEF CompleteCount
    <2>7. imp' \in [Imports -> ImportRec]
      BY <2>3, <2>6, WriteImportType DEF TypeInv
    <2>8. SessionsKept /\ SessionsOK'
      BY <2>6 DEF SessionsKept, SessionsOK, Allocated, TypeInv
    <2> HIDE DEF l
    <2> QED BY <2>4, <2>5, <2>6, <2>7, <2>8, GotoType DEF TypeInv, TypeOK
  <1>7. CASE CompleteCommit(r)
    <2> DEFINE s == loc[r].ses
               doc == [ses[s] EXCEPT !.status = "completed"]
    <2>1. pc[r] \in CompleteCalls
      BY <1>7 DEF CompleteCommit, CompleteCalls
    <2>2. Finish(r) /\ UNCHANGED imp
      BY <1>7 DEF CompleteCommit
    <2>3. CASE r \in torn /\ loc[r].details # <<>>
      <3>1. UNCHANGED <<ses, from>> /\ torn' \subseteq Requests
        BY <1>7, <1>a, <2>3 DEF CompleteCommit
      <3> QED BY <2>2, <3>1, GiveUpType
    <2>4. CASE ~ (r \in torn /\ loc[r].details # <<>>)
      <3>1. /\ WriteSession(r, s, doc, InTxn)
            /\ from' = [m \in Macs |-> IF m \in ToSet(loc[r].details)
                                       THEN from[m] \cup {s} ELSE from[m]]
        BY <1>7, <2>4 DEF CompleteCommit
      <3>2. from' \in [Macs -> SUBSET (Sessions \cup Uploads)]
        BY <1>c, <2>1, <3>1 DEF TypeInv, TypeOK
      <3>3. ses[s] \in SessionRec /\ ses[s].imp \in Imports
        BY <1>c, <2>1 DEF TypeInv, TypeOK, SessionsOK
      <3>4. /\ doc \in SessionRec
            /\ doc.status \in SessionStatuses
            /\ doc.imp \in Imports
        BY <3>3 DEF SessionRec, SessionStatuses
      <3>5. InTxn \in SUBSET Requests
        BY DEF InTxn
      <3> HIDE DEF doc
      <3> QED BY <1>c, <2>1, <2>2, <3>1, <3>2, <3>4, <3>5, LastSessionType
    <2> QED BY <2>3, <2>4
  <1> QED BY <1>1, <1>2, <1>3, <1>4, <1>5, <1>6, <1>7

(* A new ticket, a crash and a stuttering step keep the types.             *)
LEMMA TypeOthers ==
  ASSUME TypeInv, \/ \E i \in Imports : CreateImport(i)
                  \/ Crash
                  \/ UNCHANGED vars
  PROVE  TypeInv'
  <1>1. CASE \E i \in Imports : CreateImport(i)
    <2>0. PICK i \in Imports : CreateImport(i)
      BY <1>1
    <2>1. PICK status \in ImportStatuses, plan \in Plans :
             imp' = [imp EXCEPT ![i] = [WithPlan(NoImport, plan) EXCEPT
                                          !.status = status,
                                          !.published = status = "PUBLIC"]]
      BY <2>0, Zenon DEF CreateImport
    <2>u. UNCHANGED <<ses, from, torn, pc, loc>>
      BY <2>0 DEF CreateImport
    <2>2. WithPlan(NoImport, plan) \in ImportRec
      BY BlankType, WithPlanType
    <2>3. [WithPlan(NoImport, plan) EXCEPT !.status = status,
                                           !.published = status = "PUBLIC"] \in ImportRec
      BY <2>2 DEF ImportRec, UpdatedStatuses
    <2> QED
      BY <2>1, <2>3, <2>u DEF TypeInv, TypeOK, HoldsOK, Holds, SessionsOK, Allocated
  <1>2. CASE Crash
    <2>1. \A r \in Requests : Holds("Idle", Blank)'
      BY DEF Holds, ImportCalls, OpenCalls, CompleteCalls
    <2> QED
      BY <1>2, <2>1, BlankType DEF Crash, TypeInv, TypeOK, HoldsOK, Holds, SessionsOK,
                                   Allocated, Steps
  <1>3. CASE UNCHANGED vars
    BY <1>3 DEF vars, TypeInv, TypeOK, HoldsOK, Holds, SessionsOK, Allocated
  <1> QED BY <1>1, <1>2, <1>3

(* Every step keeps the types.                                             *)
LEMMA TypeStep == TypeInv /\ [Next]_vars => TypeInv'
  BY TypeImports, TypeSessions, TypeComplete, TypeOthers DEF Next, StartRequest, Step

(* The types, what requests hold and what sessions belong to, always.      *)
THEOREM TypeInvariant == Spec => []TypeInv
  BY TypeInit, TypeStep, PTL DEF Spec

(* The documents and the requests of the intake are always typed.          *)
THEOREM TypeCorrect == Spec => []TypeOK
  <1>1. TypeInv => TypeOK
    BY DEF TypeInv
  <1> QED BY <1>1, TypeInvariant, PTL

-----------------------------------------------------------------------------
(* What the steps do to the sessions, the devices and the requests. *)

SessionWrite(r) == \/ SessionInsert(r) \/ ScanPush(r) \/ UpdateSessionWrite(r)
                   \/ RemoveSave(r) \/ CompleteCommit(r)

(* Only the writes of sessions change a session or the devices.            *)
LEMMA StepKinds ==
  ASSUME [Next]_vars
  PROVE  \/ \E r \in Requests : SessionWrite(r)
         \/ UNCHANGED <<ses, from>>
  <1>1. CASE \E i \in Imports : CreateImport(i)
    BY <1>1 DEF CreateImport
  <1>2. ASSUME NEW r \in Requests, StartRequest(r) PROVE UNCHANGED <<ses, from>>
    BY <1>2 DEF StartRequest, UpdateImportRead, DeleteImportRead, CloseRead,
                SessionRead, ScanRead, UpdateSessionRead, RemoveRead, CompleteRead
  <1>3. ASSUME NEW r \in Requests, Step(r), ~ SessionWrite(r) PROVE UNCHANGED <<ses, from>>
    BY <1>3 DEF Step, SessionWrite, UpdateImportWrite, DeleteImportWrite,
                CloseSessions, CloseWrite, CompleteCheck, CompleteTicket, CompleteInsert,
                CompleteProgress, CompleteCount
  <1>4. CASE Crash
    BY <1>4 DEF Crash
  <1>5. CASE UNCHANGED vars
    BY <1>5 DEF vars
  <1> QED BY <1>1, <1>2, <1>3, <1>4, <1>5 DEF Next

(* The request goes to a call that is neither the insertion of a session   *)
(* nor in the transaction of a completion.                                 *)
Plain(r) == /\ pc' = [pc EXCEPT ![r] = pc'[r]]
            /\ loc' = [loc EXCEPT ![r] = loc'[r]]
            /\ pc'[r] \notin TxnSteps \cup {"SessionInsert"}

(* A Goto that is plain.                                                   *)
LEMMA PlainGoto ==
  ASSUME TypeInv, NEW r \in Requests, NEW step, NEW l, Goto(r, step, l),
         step \notin TxnSteps \cup {"SessionInsert"}
  PROVE  Plain(r)
  BY DEF TypeInv, TypeOK, Goto, Plain

(* A Finish is plain.                                                      *)
LEMMA PlainFinish ==
  ASSUME TypeInv, NEW r \in Requests, Finish(r) PROVE Plain(r)
  BY PlainGoto DEF Finish, TxnSteps

PlainStart(r) == \/ UpdateImportRead(r) \/ DeleteImportRead(r) \/ CloseRead(r)
                 \/ ScanRead(r) \/ UpdateSessionRead(r) \/ RemoveRead(r)
                 \/ CompleteRead(r)

PlainStep(r) == \/ UpdateImportWrite(r) \/ DeleteImportWrite(r) \/ CloseSessions(r)
                \/ CloseWrite(r) \/ SessionInsert(r) \/ ScanPush(r)
                \/ UpdateSessionWrite(r) \/ RemoveSave(r) \/ CompleteCheck(r)
                \/ CompleteCommit(r)

(* The steps that are plain.                                               *)
LEMMA PlainSteps ==
  ASSUME TypeInv, NEW r \in Requests, PlainStart(r) \/ PlainStep(r)
  PROVE  Plain(r)
  <1>1. CASE PlainStart(r)
    <2>1. \E step \in {"UpdateImport", "DeleteImport", "CloseSessions", "ScanPush",
                       "UpdateSession", "RemoveSave", "CompleteCheck"} :
             \E l : Goto(r, step, l)
      BY <1>1 DEF PlainStart, UpdateImportRead, DeleteImportRead, CloseRead, ScanRead,
                  UpdateSessionRead, RemoveRead, CompleteRead
    <2> QED BY <2>1, PlainGoto DEF TxnSteps
  <1>2. CASE CloseSessions(r)
    BY <1>2, PlainGoto, PlainFinish DEF CloseSessions, TxnSteps
  <1>3. CASE CompleteCheck(r)
    BY <1>3, PlainGoto, PlainFinish DEF CompleteCheck, TxnSteps
  <1>4. CASE PlainStep(r) /\ ~ CloseSessions(r) /\ ~ CompleteCheck(r)
    <2>1. Finish(r)
      BY <1>4 DEF PlainStep, UpdateImportWrite, DeleteImportWrite, CloseWrite,
                  SessionInsert, ScanPush, UpdateSessionWrite, RemoveSave, CompleteCommit
    <2> QED BY <2>1, PlainFinish
  <1> QED BY <1>1, <1>2, <1>3, <1>4

-----------------------------------------------------------------------------
(* totalScanned. *)

(* Every step keeps the totals.                                            *)
LEMMA ScannedStep ==
  ASSUME TypeInv, ScannedMatchesDetails, [Next]_vars
  PROVE  ScannedMatchesDetails'
  <1>1. ASSUME NEW s, NEW doc, ses' = [ses EXCEPT ![s] = doc],
               doc.total = Len(doc.details)
        PROVE  ScannedMatchesDetails'
    BY <1>1 DEF ScannedMatchesDetails, TypeInv, TypeOK
  <1>2. CASE UNCHANGED ses
    BY <1>2 DEF ScannedMatchesDetails
  <1>3. ASSUME NEW r \in Requests, SessionWrite(r), ~ UNCHANGED ses
        PROVE  ScannedMatchesDetails'
    <2> DEFINE s == loc[r].ses
    <2>1. pc[r] \in OpenCalls =>
             /\ ses[s] \in SessionRec
             /\ ses[s].total = Len(ses[s].details)
             /\ loc[r].details \in Seq(Macs)
      BY DEF TypeInv, TypeOK, HoldsOK, Holds, LocRec, ScannedMatchesDetails
    <2>2. CASE SessionInsert(r)
      <3> DEFINE doc == [NoSession EXCEPT !.status = "processing", !.imp = loc[r].imp]
      <3>1. ses' = [ses EXCEPT ![s] = doc]
        BY <2>2 DEF SessionInsert
      <3>2. doc.total = Len(doc.details)
        BY DEF NoSession
      <3> HIDE DEF doc
      <3> QED BY <1>1, <3>1, <3>2
    <2>3. CASE ScanPush(r)
      <3> DEFINE doc == Pushed(ses[s], loc[r].details)
      <3>1. ses' = [ses EXCEPT ![s] = doc] /\ pc[r] \in OpenCalls
        BY <2>3 DEF ScanPush, WriteSession, OpenCalls
      <3>2. doc.total = Len(doc.details)
        BY <2>1, <3>1, PushedType
      <3> HIDE DEF doc
      <3> QED BY <1>1, <3>1, <3>2
    <2>4. CASE UpdateSessionWrite(r)
      <3> DEFINE doc == [ses[s] EXCEPT !.status = loc[r].status]
      <3>1. ses' = [ses EXCEPT ![s] = doc] /\ pc[r] \in OpenCalls
        BY <2>4 DEF UpdateSessionWrite, WriteSession, OpenCalls
      <3>2. doc.total = Len(doc.details)
        BY <2>1, <3>1 DEF SessionRec
      <3> QED BY <1>1, <3>1, <3>2
    <2>5. CASE RemoveSave(r)
      <3> DEFINE doc == [ses[s] EXCEPT !.details = loc[r].details,
                                       !.total = Len(loc[r].details)]
      <3>1. ses' = [ses EXCEPT ![s] = doc] /\ pc[r] \in OpenCalls
        BY <1>3, <2>5 DEF RemoveSave, WriteSession, OpenCalls
      <3>2. doc.total = Len(doc.details)
        BY <2>1, <3>1 DEF SessionRec
      <3> QED BY <1>1, <3>1, <3>2
    <2>6. CASE CompleteCommit(r)
      <3> DEFINE doc == [ses[s] EXCEPT !.status = "completed"]
      <3>1. ses' = [ses EXCEPT ![s] = doc] /\ pc[r] \in OpenCalls
        BY <1>3, <2>6 DEF CompleteCommit, WriteSession, OpenCalls, CompleteCalls
      <3>2. doc.total = Len(doc.details)
        BY <2>1, <3>1 DEF SessionRec
      <3> QED BY <1>1, <3>1, <3>2
    <2> QED BY <1>3, <2>2, <2>3, <2>4, <2>5, <2>6 DEF SessionWrite
  <1> QED BY <1>2, <1>3, StepKinds

(* totalScanned is the number of scans of the session, for any number of   *)
(* requests: $push with $inc, and save() of a list with its length, keep   *)
(* it, in any interleaving and through crashes.                            *)
THEOREM ScannedCorrect == Spec => []ScannedMatchesDetails
  <1>1. Init => ScannedMatchesDetails
    BY DEF Init, ScannedMatchesDetails, NoSession
  <1>2. TypeInv /\ ScannedMatchesDetails /\ [Next]_vars => ScannedMatchesDetails'
    BY ScannedStep
  <1> QED BY <1>1, <1>2, TypeInvariant, PTL DEF Spec

-----------------------------------------------------------------------------
(* Stock of published tickets. *)

(* The history variable follows the status.                                *)
PublishedOK ==
    \A i \in Imports : /\ imp[i].status = "PUBLIC" => imp[i].published
                       /\ imp[i].status = "ABSENT" => ~ imp[i].published

PublishedKept == \A i \in Imports : imp[i].published => imp[i].published'

(* Sessions are of tickets that have been PUBLIC, as a session about to be *)
(* inserted is, and a session in stock is one that exists.                 *)
PublishedSessions ==
    /\ \A s \in Sessions : Allocated(s) => imp[ses[s].imp].published
    /\ \A r \in Requests : pc[r] = "SessionInsert" => imp[loc[r].imp].published
    /\ \A m \in Macs : \A s \in from[m] \cap Sessions : Allocated(s)

(* A write of a ticket keeps the history.                                  *)
LEMMA WritePublished ==
  ASSUME TypeInv, PublishedOK, NEW i \in Imports, NEW doc \in ImportRec,
         WriteImport(i, doc), doc.published = imp[i].published,
         Exists(i) => doc.status \in UpdatedStatuses
  PROVE  PublishedOK' /\ PublishedKept
  <1>1. CASE Exists(i)
    <2> DEFINE new == [doc EXCEPT !.published = @ \/ doc.status = "PUBLIC"]
    <2>1. imp' = [imp EXCEPT ![i] = new]
      BY <1>1 DEF WriteImport
    <2>2. /\ new.status = doc.status
          /\ new.published = (imp[i].published \/ doc.status = "PUBLIC")
          /\ doc.status # "ABSENT"
      BY <1>1 DEF ImportRec, UpdatedStatuses, ImportStatuses
    <2> HIDE DEF new
    <2> QED BY <2>1, <2>2 DEF PublishedOK, PublishedKept, TypeInv, TypeOK
  <1>2. CASE ~ Exists(i)
    BY <1>2 DEF WriteImport, PublishedOK, PublishedKept
  <1> QED BY <1>1, <1>2

(* Every step keeps the history.                                           *)
LEMMA PublishedStep ==
  ASSUME TypeInv, PublishedOK, [Next]_vars
  PROVE  PublishedOK' /\ PublishedKept
  <1>1. CASE UNCHANGED imp
    BY <1>1 DEF PublishedOK, PublishedKept
  <1>a. \A i \in Imports : imp[i] \in ImportRec
    BY DEF TypeInv, TypeOK
  <1>2. ASSUME NEW i \in Imports, CreateImport(i) PROVE PublishedOK' /\ PublishedKept
    <2>1. PICK status \in ImportStatuses, plan \in Plans :
             imp' = [imp EXCEPT ![i] = [WithPlan(NoImport, plan) EXCEPT
                                          !.status = status,
                                          !.published = status = "PUBLIC"]]
      BY <1>2, Zenon DEF CreateImport
    <2> DEFINE new == [WithPlan(NoImport, plan) EXCEPT
                         !.status = status, !.published = status = "PUBLIC"]
    <2>2. WithPlan(NoImport, plan) \in ImportRec
      BY BlankType, WithPlanType
    <2>3. new.status = status /\ new.published = (status = "PUBLIC") /\ status # "ABSENT"
      BY <2>2 DEF ImportRec, ImportStatuses
    <2>4. ~ imp[i].published
      BY <1>2 DEF CreateImport, PublishedOK
    <2> HIDE DEF new
    <2>5. /\ imp'[i].status = status
          /\ imp'[i].published = (status = "PUBLIC")
          /\ \A j \in Imports \ {i} : imp'[j] = imp[j]
      BY <2>1, <2>3 DEF TypeInv, TypeOK
    <2>6. PublishedOK'
      <3> SUFFICES ASSUME NEW j \in Imports
                   PROVE  /\ imp'[j].status = "PUBLIC" => imp'[j].published
                          /\ imp'[j].status = "ABSENT" => ~ imp'[j].published
        BY DEF PublishedOK
      <3>1. CASE j = i
        BY <2>3, <2>5, <3>1
      <3>2. CASE j # i
        BY <2>5, <3>2 DEF PublishedOK
      <3> QED BY <3>1, <3>2
    <2>7. PublishedKept
      BY <2>4, <2>5 DEF PublishedKept
    <2> QED BY <2>6, <2>7
  <1>3. ASSUME NEW r \in Requests, UpdateImportWrite(r) PROVE PublishedOK' /\ PublishedKept
    <2> DEFINE i == loc[r].imp
    <2>1. i \in Imports
      BY <1>3 DEF UpdateImportWrite, TypeInv, HoldsOK, Holds, ImportCalls
    <2>2. PICK status \in {imp[i].status} \cup UpdatedStatuses,
               progress \in ClientProgress \cup {<<imp[i].imported, imp[i].inventory>>} :
            LET doc == [imp[i] EXCEPT !.status = status,
                                      !.imported = progress[1],
                                      !.inventory = progress[2]]
            IN  \/ WriteImport(i, doc)
                \/ \E plan \in Plans : WriteImport(i, WithPlan(doc, plan))
      BY <1>3 DEF UpdateImportWrite
    <2>3. progress[1] \in Nat /\ progress[2] \in InventoryStatuses
      BY <1>a, <2>1 DEF ClientProgress, ImportRec
    <2> DEFINE doc == [imp[i] EXCEPT !.status = status,
                                     !.imported = progress[1],
                                     !.inventory = progress[2]]
    <2>4. doc \in ImportRec /\ doc.published = imp[i].published /\ doc.status = status
      BY <1>a, <2>1, <2>3 DEF ImportRec
    <2>5. \A plan \in Plans : /\ WithPlan(doc, plan) \in ImportRec
                              /\ WithPlan(doc, plan).published = imp[i].published
                              /\ WithPlan(doc, plan).status = status
      BY <2>4, WithPlanType DEF WithPlan, ImportRec
    <2>6. Exists(i) => status \in UpdatedStatuses
      BY DEF Exists
    <2>7. WriteImport(i, doc) \/ \E plan \in Plans : WriteImport(i, WithPlan(doc, plan))
      BY <2>2
    <2> HIDE DEF i, doc
    <2> QED BY <2>1, <2>4, <2>5, <2>6, <2>7, WritePublished
  <1>4. ASSUME NEW r \in Requests, DeleteImportWrite(r) PROVE PublishedOK' /\ PublishedKept
    <2> DEFINE i == loc[r].imp
               new == [NoImport EXCEPT !.status = "DELETED",
                                       !.published = @ \/ imp[i].published]
    <2>1. imp' = IF Exists(i) THEN [imp EXCEPT ![i] = new] ELSE imp
      BY <1>4 DEF DeleteImportWrite
    <2>2. new.status = "DELETED" /\ new.published = (FALSE \/ imp[i].published)
      BY DEF NoImport
    <2> HIDE DEF new
    <2> QED BY <2>1, <2>2 DEF PublishedOK, PublishedKept, TypeInv, TypeOK
  <1>5. ASSUME NEW r \in Requests, CloseWrite(r) PROVE PublishedOK' /\ PublishedKept
    <2> DEFINE i == loc[r].imp
               doc == [imp[i] EXCEPT !.inventory = "completed"]
    <2>1. i \in Imports /\ WriteImport(i, doc)
      BY <1>5 DEF CloseWrite, TypeInv, HoldsOK, Holds, ImportCalls
    <2>2. doc \in ImportRec /\ doc.published = imp[i].published /\ doc.status = imp[i].status
      BY <1>a, <2>1 DEF ImportRec, InventoryStatuses
    <2> QED BY <2>1, <2>2, WritePublished DEF Exists
  <1>6. ASSUME NEW r \in Requests, CompleteCount(r) PROVE PublishedOK' /\ PublishedKept
    <2> DEFINE i == loc[r].imp
               doc == [imp[i] EXCEPT !.imported = loc[r].ticket.imported,
                                     !.inventory = loc[r].ticket.inventory,
                                     !.plan = loc[r].ticket.plan,
                                     !.lines = loc[r].ticket.lines]
    <2>1. i \in Imports /\ WriteImport(i, doc)
      BY <1>6 DEF CompleteCount, TypeInv, HoldsOK, Holds, ImportCalls, CompleteCalls
    <2>2. loc[r].ticket \in ImportRec
      BY DEF TypeInv, TypeOK, LocRec
    <2>3. doc \in ImportRec /\ doc.published = imp[i].published /\ doc.status = imp[i].status
      BY <1>a, <2>1, <2>2 DEF ImportRec
    <2> HIDE DEF doc
    <2> QED BY <2>1, <2>3, WritePublished DEF Exists
  <1>7. ASSUME NEW r \in Requests, StartRequest(r) PROVE UNCHANGED imp
    BY <1>7 DEF StartRequest, UpdateImportRead, DeleteImportRead, CloseRead,
                SessionRead, ScanRead, UpdateSessionRead, RemoveRead, CompleteRead
  <1>8. ASSUME NEW r \in Requests, Step(r), ~ UpdateImportWrite(r), ~ DeleteImportWrite(r),
               ~ CloseWrite(r), ~ CompleteCount(r)
        PROVE  UNCHANGED imp
    BY <1>8 DEF Step, CloseSessions, SessionInsert, ScanPush, UpdateSessionWrite,
                RemoveSave, CompleteCheck, CompleteTicket, CompleteInsert,
                CompleteProgress, CompleteCommit
  <1> QED
    BY <1>1, <1>2, <1>3, <1>4, <1>5, <1>6, <1>7, <1>8 DEF Next, Crash, vars

(* A step that writes sessions keeps them, and what ticket they are of;    *)
(* only the insertion of a session makes one.                              *)
LEMMA SessionsFollow ==
  ASSUME TypeInv, [Next]_vars, NEW s \in Sessions
  PROVE  /\ Allocated(s) => Allocated(s)'
         /\ Allocated(s)' => \/ Allocated(s) /\ ses'[s].imp = ses[s].imp
                             \/ \E r \in Requests : /\ pc[r] = "SessionInsert"
                                                    /\ ses'[s].imp = loc[r].imp
  <1>1. CASE UNCHANGED ses
    BY <1>1 DEF Allocated
  <1>2. ASSUME NEW r \in Requests, SessionInsert(r)
        PROVE  /\ Allocated(s) => Allocated(s)'
               /\ Allocated(s)' => \/ Allocated(s) /\ ses'[s].imp = ses[s].imp
                                   \/ pc[r] = "SessionInsert" /\ ses'[s].imp = loc[r].imp
    <2> DEFINE doc == [NoSession EXCEPT !.status = "processing", !.imp = loc[r].imp]
    <2>1. ses' = [ses EXCEPT ![loc[r].ses] = doc] /\ pc[r] = "SessionInsert"
      BY <1>2 DEF SessionInsert
    <2>2. doc.status = "processing" /\ doc.imp = loc[r].imp
      BY DEF NoSession
    <2> HIDE DEF doc
    <2> QED BY <2>1, <2>2 DEF Allocated, SessionStatuses, TypeInv, TypeOK
  <1>3. ASSUME NEW r \in Requests, NEW doc, pc[r] \in OpenCalls,
               ses' = [ses EXCEPT ![loc[r].ses] = doc],
               doc.status \in SessionStatuses, doc.imp = ses[loc[r].ses].imp
        PROVE  /\ Allocated(s) => Allocated(s)'
               /\ Allocated(s)' => Allocated(s) /\ ses'[s].imp = ses[s].imp
    BY <1>3 DEF Allocated, TypeInv, TypeOK, HoldsOK, Holds
  <1>4. ASSUME NEW r \in Requests, SessionWrite(r), ~ SessionInsert(r), ~ UNCHANGED ses
        PROVE  /\ Allocated(s) => Allocated(s)'
               /\ Allocated(s)' => Allocated(s) /\ ses'[s].imp = ses[s].imp
    <2> DEFINE old == ses[loc[r].ses]
    <2>1. pc[r] \in OpenCalls
      BY <1>4 DEF SessionWrite, ScanPush, UpdateSessionWrite, RemoveSave, CompleteCommit,
                  OpenCalls, CompleteCalls
    <2>2. old \in SessionRec /\ old.status \in SessionStatuses /\ loc[r].details \in Seq(Macs)
      BY <2>1 DEF TypeInv, TypeOK, HoldsOK, Holds, Allocated, LocRec
    <2>3. CASE ScanPush(r)
      <3> DEFINE doc == Pushed(old, loc[r].details)
      <3>1. ses' = [ses EXCEPT ![loc[r].ses] = doc]
        BY <2>3 DEF ScanPush, WriteSession
      <3>2. doc.status \in SessionStatuses /\ doc.imp = old.imp
        BY <2>2, PushedType
      <3> HIDE DEF doc
      <3> QED BY <1>3, <2>1, <3>1, <3>2
    <2>4. CASE UpdateSessionWrite(r)
      <3> DEFINE doc == [old EXCEPT !.status = loc[r].status]
      <3>1. ses' = [ses EXCEPT ![loc[r].ses] = doc]
        BY <2>4 DEF UpdateSessionWrite, WriteSession
      <3>2. loc[r].status \in SessionStatuses
        BY <2>4 DEF UpdateSessionWrite, TypeInv, HoldsOK, Holds, SessionStatuses
      <3>3. doc.status \in SessionStatuses /\ doc.imp = old.imp
        BY <2>2, <3>2 DEF SessionRec
      <3> HIDE DEF doc
      <3> QED BY <1>3, <2>1, <3>1, <3>3
    <2>5. CASE RemoveSave(r)
      <3> DEFINE doc == [old EXCEPT !.details = loc[r].details,
                                    !.total = Len(loc[r].details)]
      <3>1. ses' = [ses EXCEPT ![loc[r].ses] = doc]
        BY <1>4, <2>5 DEF RemoveSave, WriteSession
      <3>2. doc.status \in SessionStatuses /\ doc.imp = old.imp
        BY <2>2 DEF SessionRec
      <3> HIDE DEF doc
      <3> QED BY <1>3, <2>1, <3>1, <3>2
    <2>6. CASE CompleteCommit(r)
      <3> DEFINE doc == [old EXCEPT !.status = "completed"]
      <3>1. ses' = [ses EXCEPT ![loc[r].ses] = doc]
        BY <1>4, <2>6 DEF CompleteCommit, WriteSession
      <3>2. doc.status \in SessionStatuses /\ doc.imp = old.imp
        BY <2>2 DEF SessionRec, SessionStatuses
      <3> HIDE DEF doc
      <3> QED BY <1>3, <2>1, <3>1, <3>2
    <2> QED BY <1>4, <2>3, <2>4, <2>5, <2>6 DEF SessionWrite
  <1> QED BY <1>1, <1>2, <1>4, StepKinds

(* A step of one request leaves the others where they are.                 *)
LEMMA OthersStay ==
  ASSUME TypeInv, NEW r \in Requests, StartRequest(r) \/ Step(r),
         NEW q \in Requests, q # r
  PROVE  pc'[q] = pc[q] /\ loc'[q] = loc[q]
  <1>1. ASSUME NEW step, NEW l, Goto(r, step, l) PROVE pc'[q] = pc[q] /\ loc'[q] = loc[q]
    BY <1>1 DEF Goto, TypeInv, TypeOK
  <1>2. CASE Plain(r)
    BY <1>2 DEF Plain, TypeInv, TypeOK
  <1>3. CASE SessionRead(r)
    BY <1>1, <1>3 DEF SessionRead
  <1>4. CASE CompleteTicket(r)
    BY <1>1, <1>4 DEF CompleteTicket, Finish
  <1>5. CASE CompleteInsert(r)
    BY <1>1, <1>5 DEF CompleteInsert, Finish
  <1>6. CASE CompleteProgress(r)
    BY <1>1, <1>6 DEF CompleteProgress, Finish
  <1>7. CASE CompleteCount(r)
    BY <1>1, <1>7 DEF CompleteCount
  <1> QED
    BY <1>2, <1>3, <1>4, <1>5, <1>6, <1>7, PlainSteps
    DEF StartRequest, Step, PlainStart, PlainStep

(* A session about to be inserted is of a ticket that has been PUBLIC.     *)
LEMMA InsertStep ==
  ASSUME TypeInv, PublishedOK, [Next]_vars, NEW q \in Requests,
         pc'[q] = "SessionInsert"
  PROVE  \/ pc[q] = "SessionInsert" /\ loc'[q] = loc[q]
         \/ loc'[q].imp \in Imports /\ imp[loc'[q].imp].published
  <1>1. CASE UNCHANGED <<pc, loc>>
    BY <1>1
  <1>2. CASE Crash
    BY <1>2 DEF Crash
  <1>3. ASSUME NEW r \in Requests, StartRequest(r) \/ Step(r), r # q
        PROVE  pc[q] = "SessionInsert" /\ loc'[q] = loc[q]
    BY <1>3, OthersStay
  <1>4. CASE SessionRead(q)
    <2>1. PICK i \in Imports, s \in Sessions :
             Countable(i) /\ Goto(q, "SessionInsert", [Blank EXCEPT !.imp = i, !.ses = s])
      BY <1>4 DEF SessionRead
    <2>2. loc'[q].imp = i
      BY <2>1 DEF Goto, Blank, TypeInv, TypeOK
    <2> QED BY <2>1, <2>2 DEF Countable, PublishedOK
  <1>5. ASSUME StartRequest(q) \/ Step(q), ~ SessionRead(q) PROVE pc'[q] # "SessionInsert"
    <2>1. ASSUME NEW step, NEW l, Goto(q, step, l) PROVE pc'[q] = step
      BY <2>1 DEF Goto, TypeInv, TypeOK
    <2>2. CASE Plain(q)
      BY <2>2 DEF Plain
    <2>3. CASE CompleteTicket(q)
      BY <2>1, <2>3 DEF CompleteTicket, Finish
    <2>4. CASE CompleteInsert(q)
      BY <2>1, <2>4 DEF CompleteInsert, Finish
    <2>5. CASE CompleteProgress(q)
      BY <2>1, <2>5 DEF CompleteProgress, Finish
    <2>6. CASE CompleteCount(q)
      BY <2>1, <2>6 DEF CompleteCount
    <2> QED
      BY <1>5, <2>2, <2>3, <2>4, <2>5, <2>6, PlainSteps
      DEF StartRequest, Step, PlainStart, PlainStep
  <1> QED
    BY <1>1, <1>2, <1>3, <1>4, <1>5 DEF Next, CreateImport, vars

(* Every step keeps the sessions on published tickets.                     *)
LEMMA PublishedSessionsStep ==
  ASSUME TypeInv, PublishedOK, PublishedSessions, [Next]_vars
  PROVE  PublishedSessions'
  <1>1. PublishedKept
    BY PublishedStep
  <1>2. ASSUME NEW s \in Sessions, Allocated(s)' PROVE imp'[ses'[s].imp].published
    <2>1. CASE Allocated(s) /\ ses'[s].imp = ses[s].imp
      BY <1>1, <2>1 DEF PublishedKept, PublishedSessions, TypeInv, SessionsOK
    <2>2. ASSUME NEW r \in Requests, pc[r] = "SessionInsert", ses'[s].imp = loc[r].imp
          PROVE  imp'[ses'[s].imp].published
      BY <1>1, <2>2 DEF PublishedKept, PublishedSessions, TypeInv, HoldsOK, Holds,
                        ImportCalls
    <2> QED BY <1>2, <2>1, <2>2, SessionsFollow
  <1>3. ASSUME NEW q \in Requests, pc'[q] = "SessionInsert" PROVE imp'[loc'[q].imp].published
    <2>1. CASE pc[q] = "SessionInsert" /\ loc'[q] = loc[q]
      BY <1>1, <2>1 DEF PublishedKept, PublishedSessions, TypeInv, HoldsOK, Holds,
                        ImportCalls
    <2>2. CASE loc'[q].imp \in Imports /\ imp[loc'[q].imp].published
      BY <1>1, <2>2 DEF PublishedKept
    <2> QED BY <1>3, <2>1, <2>2, InsertStep
  <1>4. ASSUME NEW m \in Macs, NEW s \in from'[m] \cap Sessions PROVE Allocated(s)'
    <2>1. s \in from[m] \/ \E r \in Requests : CompleteCommit(r) /\ s = loc[r].ses
      BY <1>4, StepKinds DEF SessionWrite, SessionInsert, ScanPush, UpdateSessionWrite,
                             RemoveSave, CompleteCommit
    <2>2. s \in Sessions /\ Allocated(s)
      <3>1. CASE s \in from[m]
        BY <3>1 DEF PublishedSessions, TypeInv, TypeOK
      <3>2. CASE \E r \in Requests : CompleteCommit(r) /\ s = loc[r].ses
        BY <3>2 DEF CompleteCommit, TypeInv, HoldsOK, Holds, OpenCalls, CompleteCalls
      <3> QED BY <2>1, <3>1, <3>2
    <2> QED BY <2>2, SessionsFollow
  <1> QED BY <1>2, <1>3, <1>4 DEF PublishedSessions

(* Stock comes from published tickets only, whatever becomes of a ticket   *)
(* and its sessions while requests are in flight: what is checked when a   *)
(* session is created is never undone.                                     *)
THEOREM StockedFromPublishedCorrect == Spec => []StockedFromPublished
  <1> DEFINE Inv == PublishedOK /\ PublishedSessions
  <1>1. Init => Inv
    BY DEF Init, PublishedOK, PublishedSessions, NoImport, NoSession, Allocated,
           SessionStatuses
  <1>2. TypeInv /\ Inv /\ [Next]_vars => Inv'
    BY PublishedStep, PublishedSessionsStep
  <1>3. TypeInv /\ Inv => StockedFromPublished
    BY DEF PublishedSessions, StockedFromPublished, TypeInv, TypeOK
  <1> QED BY <1>1, <1>2, <1>3, TypeInvariant, PTL DEF Spec

-----------------------------------------------------------------------------
(* Each device once. *)

(* The devices r has inserted and not committed.                           *)
Adding(r) == IF pc[r] \in TxnSteps THEN ToSet(loc[r].details) ELSE {}

(* What is being inserted is in no stock and in no other transaction, and  *)
(* what is in stock is of one origin.                                      *)
OnceInv ==
    /\ \A r \in Requests : \A m \in Adding(r) : from[m] = {}
    /\ \A q, r \in Requests : q # r => Adding(q) \cap Adding(r) = {}
    /\ \A m \in Macs : \A s, t \in from[m] : s = t

(* A step inserts nothing, inserts what the index allows, or commits.      *)
LEMMA AddingStep ==
  ASSUME TypeInv, NEW r \in Requests, StartRequest(r) \/ Step(r)
  PROVE  \/ Adding(r)' \subseteq Adding(r) /\ UNCHANGED from
         \/ Adding(r)' = ToSet(loc[r].details) /\ Insertable(r) /\ UNCHANGED from
         \/ /\ Adding(r)' = {}
            /\ from' = [m \in Macs |-> IF m \in Adding(r) THEN from[m] \cup {loc[r].ses}
                                                          ELSE from[m]]
  <1>1. ASSUME NEW step, NEW l, Goto(r, step, l) PROVE pc'[r] = step /\ loc'[r] = l
    BY <1>1 DEF Goto, TypeInv, TypeOK
  <1>2. ASSUME pc'[r] \notin TxnSteps PROVE Adding(r)' = {}
    BY <1>2 DEF Adding
  <1>3. CASE Plain(r) /\ ~ CompleteCommit(r)
    <2>1. UNCHANGED from
      BY <1>3 DEF StartRequest, UpdateImportRead, DeleteImportRead, CloseRead, SessionRead,
                  ScanRead, UpdateSessionRead, RemoveRead, CompleteRead,
                  Step, UpdateImportWrite, DeleteImportWrite, CloseSessions, CloseWrite,
                  SessionInsert, ScanPush, UpdateSessionWrite, RemoveSave, CompleteCheck,
                  CompleteTicket, CompleteInsert, CompleteProgress, CompleteCount
    <2> QED BY <1>2, <1>3, <2>1 DEF Plain
  <1>4. CASE CompleteCommit(r)
    <2>1. Adding(r)' = {}
      BY <1>1, <1>2, <1>4 DEF CompleteCommit, Finish, TxnSteps
    <2>2. Adding(r) = ToSet(loc[r].details)
      BY <1>4 DEF CompleteCommit, Adding, TxnSteps
    <2>3. UNCHANGED from
          \/ from' = [m \in Macs |-> IF m \in ToSet(loc[r].details)
                                     THEN from[m] \cup {loc[r].ses} ELSE from[m]]
      BY <1>4 DEF CompleteCommit
    <2> QED BY <2>1, <2>2, <2>3
  <1>5. CASE SessionRead(r)
    <2>1. pc'[r] = "SessionInsert" /\ UNCHANGED from
      BY <1>1, <1>5 DEF SessionRead
    <2> QED BY <1>2, <2>1 DEF TxnSteps
  <1>6. CASE CompleteTicket(r)
    <2>1. UNCHANGED from
      BY <1>6 DEF CompleteTicket
    <2>2. CASE loc[r].details = <<>>
      <3>1. pc'[r] = "Idle" \/ loc'[r].details = <<>>
        BY <1>1, <1>6, <2>2 DEF CompleteTicket, Finish, TypeInv, TypeOK, LocRec
      <3>2. ToSet(<<>>) = {}
        BY DEF ToSet
      <3> QED BY <1>2, <2>1, <3>1, <3>2 DEF Adding, TxnSteps
    <2>3. CASE loc[r].details # <<>>
      <3>1. pc'[r] \in {"Idle", "CompleteInsert"}
        BY <1>1, <1>6, <2>3 DEF CompleteTicket, Finish
      <3> QED BY <1>2, <2>1, <3>1 DEF TxnSteps
    <2> QED BY <2>2, <2>3
  <1>7. CASE CompleteInsert(r)
    <2>1. UNCHANGED from
      BY <1>7 DEF CompleteInsert
    <2>2. CASE Insertable(r)
      <3>1. pc'[r] = "CompleteProgress" /\ loc'[r] = loc[r]
        BY <1>1, <1>7, <2>2 DEF CompleteInsert
      <3> QED BY <2>1, <2>2, <3>1 DEF Adding, TxnSteps
    <2>3. CASE ~ Insertable(r)
      <3>1. pc'[r] = "Idle"
        BY <1>1, <1>7, <2>3 DEF CompleteInsert, Finish
      <3> QED BY <1>2, <2>1, <3>1 DEF TxnSteps
    <2> QED BY <2>2, <2>3
  <1>8. CASE CompleteProgress(r)
    <2>1. UNCHANGED from /\ pc[r] \in TxnSteps
      BY <1>8 DEF CompleteProgress, TxnSteps
    <2>2. pc'[r] = "Idle" \/ loc'[r].details = loc[r].details
      <3> DEFINE ticket == Counted(imp[loc[r].imp], loc[r])
                 l == [loc[r] EXCEPT !.ticket = ticket]
      <3>1. Goto(r, "CompleteCount", l) \/ Finish(r)
        BY <1>8 DEF CompleteProgress
      <3>2. l.details = loc[r].details
        BY DEF TypeInv, TypeOK, LocRec
      <3> HIDE DEF l
      <3> QED BY <1>1, <3>1, <3>2 DEF Finish
    <2> QED BY <1>2, <2>1, <2>2 DEF Adding, TxnSteps
  <1>9. CASE CompleteCount(r)
    <2>1. UNCHANGED from /\ pc[r] \in TxnSteps
      BY <1>9 DEF CompleteCount, TxnSteps
    <2>2. loc'[r] = [loc[r] EXCEPT !.ticket = NoImport]
      BY <1>1, <1>9 DEF CompleteCount
    <2>3. loc'[r].details = loc[r].details
      BY <2>2 DEF TypeInv, TypeOK, LocRec
    <2> QED BY <2>1, <2>3 DEF Adding
  <1> QED
    BY <1>3, <1>4, <1>5, <1>6, <1>7, <1>8, <1>9, PlainSteps
    DEF StartRequest, Step, PlainStart, PlainStep

(* Every step keeps each device once.                                      *)
LEMMA OnceStep ==
  ASSUME TypeInv, OnceInv, [Next]_vars PROVE OnceInv'
  <1>1. CASE UNCHANGED <<pc, loc, from>>
    BY <1>1 DEF OnceInv, Adding
  <1>2. CASE Crash
    <2>1. \A r \in Requests : Adding(r)' = {}
      BY <1>2 DEF Crash, Adding, TxnSteps
    <2> QED BY <1>2, <2>1 DEF Crash, OnceInv
  <1>3. ASSUME NEW r \in Requests, StartRequest(r) \/ Step(r) PROVE OnceInv'
    <2>1. \A q \in Requests \ {r} : Adding(q)' = Adding(q)
      BY <1>3, OthersStay DEF Adding
    <2>2. CASE Adding(r)' \subseteq Adding(r) /\ UNCHANGED from
      BY <2>1, <2>2 DEF OnceInv
    <2>3. CASE Adding(r)' = ToSet(loc[r].details) /\ Insertable(r) /\ UNCHANGED from
      <3>1. \A m \in Adding(r)' : from[m] = {}
        BY <2>3 DEF Insertable, Stocked
      <3>2. \A q \in Requests \ {r} : Adding(q) \cap Adding(r)' = {}
        BY <2>3 DEF Insertable, Uncommitted, InTxn, Adding
      <3> QED BY <2>1, <2>3, <3>1, <3>2 DEF OnceInv
    <2>4. CASE /\ Adding(r)' = {}
               /\ from' = [m \in Macs |-> IF m \in Adding(r) THEN from[m] \cup {loc[r].ses}
                                                             ELSE from[m]]
      <3>1. \A m \in Macs : from'[m] = IF m \in Adding(r) THEN {loc[r].ses} ELSE from[m]
        BY <2>4 DEF OnceInv
      <3>2. \A q \in Requests \ {r} : Adding(q) \subseteq Macs
        BY DEF Adding, ToSet, TypeInv, TypeOK, LocRec
      <3> QED BY <2>1, <2>4, <3>1, <3>2 DEF OnceInv
    <2> QED BY <1>3, <2>2, <2>3, <2>4, AddingStep
  <1> QED BY <1>1, <1>2, <1>3 DEF Next, CreateImport, vars

(* What is of one origin was stocked once.                                 *)
LEMMA OriginOnce == OnceInv => StockedOnce
  <1> SUFFICES ASSUME OnceInv, NEW m \in Macs PROVE Cardinality(from[m]) <= 1
    BY DEF StockedOnce
  <1>1. CASE from[m] = {}
    BY <1>1, FS_EmptySet
  <1>2. CASE from[m] # {}
    <2>1. PICK s \in from[m] : from[m] = {s}
      BY <1>2 DEF OnceInv
    <2>2. Cardinality({s}) = 1
      BY FS_Singleton
    <2> QED BY <2>1, <2>2
  <1> QED BY <1>1, <1>2

(* No device enters the stock twice, however the completions of sessions   *)
(* that list it race: the unique index on the mac decides.                 *)
THEOREM StockedOnceCorrect == Spec => []StockedOnce
  <1>1. Init => OnceInv
    BY DEF Init, OnceInv, Adding, TxnSteps
  <1>2. TypeInv /\ OnceInv /\ [Next]_vars => OnceInv'
    BY OnceStep
  <1> QED BY <1>1, <1>2, OriginOnce, TypeInvariant, PTL DEF Spec

=============================================================================
