--------------------------- MODULE ExportSessions --------------------------
(***************************************************************************)
(* ExportSessionService: scanning devices into a session of an approved    *)
(* ticket and completing the session, one action per database call of each *)
(* handler.                                                                *)
(***************************************************************************)
EXTENDS ExportStore

(* An id no session has, nor one about to be inserted. *)
FreshSession(s) == /\ ses[s].status = "ABSENT"
                   /\ \A r \in Requests : loc[r].ses # s

(* create: read the ticket ... *)
SessionRead(r) ==
    /\ Start(r)
    /\ \E e \in Exports, s \in Sessions :
         /\ exp[e].status \in {"APPROVED", "IN_PROGRESS"}
         /\ FreshSession(s)
         /\ Goto(r, "SessionInsert", [Blank EXCEPT !.exp = e, !.ses = s,
                                                   !.status = exp[e].status])
    /\ UNCHANGED <<exp, ses, dev, soldFor>>

(* ... insert the session ... *)
SessionInsert(r) ==
    /\ pc[r] = "SessionInsert"
    /\ LET l == loc[r] IN
         /\ ses' = [ses EXCEPT ![l.ses] = [NoSession EXCEPT !.status = "IN_PROGRESS",
                                                            !.exp = l.exp]]
         /\ IF l.status = "APPROVED" THEN Goto(r, "SessionMark", l) ELSE Finish(r)
    /\ UNCHANGED <<exp, dev, soldFor>>

(* ... and mark the ticket, when it was APPROVED at the read.              *)
SessionMark(r) ==
    /\ pc[r] = "SessionMark"
    /\ LET e == loc[r].exp IN WriteTicket(e, WithStatus(exp[e], "IN_PROGRESS"))
    /\ Finish(r)
    /\ UNCHANGED <<ses, dev, soldFor>>

-----------------------------------------------------------------------------
(* Bug: the status of the session is not looked at.                        *)
ScanAnySession(r, s, batch) ==
    /\ Start(r)
    /\ ses[s].status # "ABSENT"
    /\ Goto(r, "ScanExport", [Blank EXCEPT !.ses = s,
                                           !.exp = ses[s].exp,
                                           !.items = ses[s].items,
                                           !.batch = batch])
    /\ UNCHANGED <<exp, ses, dev, soldFor>>

(* A scan holds on to the items of the session as it read them, then reads *)
(* the ticket, the devices and, for each scanned mac, the other sessions,  *)
(* and pushes what passed.  scanSerial is the scan of one mac.             *)
ScanSession(r, s, batch) ==
    /\ Start(r)
    /\ ses[s].status = "IN_PROGRESS"
    /\ Goto(r, "ScanExport", [Blank EXCEPT !.ses = s,
                                           !.exp = ses[s].exp,
                                           !.items = ses[s].items,
                                           !.batch = batch])
    /\ UNCHANGED <<exp, ses, dev, soldFor>>

ScanSerial(r) == \E s \in Sessions, m \in Macs : ScanSession(r, s, <<m>>)

ScanBulk(r) == /\ "bulk" \in Features
               /\ \E s \in Sessions, batch \in Batches \ {<<>>} : ScanSession(r, s, batch)

ScanExport(r) ==
    /\ pc[r] = "ScanExport"
    /\ LET l == loc[r] IN
         IF Exists(l.exp)
         THEN Goto(r, "ScanDevices", [l EXCEPT !.models = DOMAIN exp[l.exp].plan])
         ELSE Finish(r)
    /\ UNCHANGED <<exp, ses, dev, soldFor>>

ScanDevices(r) ==
    /\ pc[r] = "ScanDevices"
    /\ LET l == loc[r] IN
         Goto(r, "ScanCheck",
              [l EXCEPT !.ready = {m \in ToSet(l.batch) :
                                      dev[m].wh = "READY_TO_EXPORT"}])
    /\ UNCHANGED <<exp, ses, dev, soldFor>>

(* Bug: the session that scans is searched, and not the others.            *)
LockedHere(m, s) == Stores(ses[s].items, m)

(* findOne: another session in progress that stores the scanned mac.       *)
LockedElsewhere(m, s) ==
    \E t \in Sessions \ {s} : /\ ses[t].status = "IN_PROGRESS"
                              /\ Stores(ses[t].items, m)

(* Bug: the warehouse of the device is not looked at.                      *)
ValidAnywhere(l, m) ==
    /\ ~ Stores(l.items, m)
    /\ ~ LockedElsewhere(m, l.ses)
    /\ ModelOf[m] \in l.models

(* The checks of one scan, the local ones on what the request holds.       *)
ValidScan(l, m) ==
    /\ ~ Stores(l.items, m)
    /\ m \in l.ready
    /\ ~ LockedElsewhere(m, l.ses)
    /\ ModelOf[m] \in l.models

ScanCheck(r) ==
    /\ pc[r] = "ScanCheck"
    /\ LET l == loc[r]
           scanned == Head(l.batch)
           ok == IF ValidScan(l, scanned) THEN Append(l.ok, scanned) ELSE l.ok
       IN  IF Len(l.batch) > 1
           THEN Goto(r, "ScanCheck", [l EXCEPT !.ok = ok, !.batch = Tail(@)])
           ELSE IF ok = <<>>
           THEN Finish(r)
           ELSE Goto(r, "ScanPush", [Blank EXCEPT !.ses = l.ses, !.exp = l.exp,
                                                  !.ok = ok])
    /\ UNCHANGED <<exp, ses, dev, soldFor>>

(* $push with $inc, on the session as it is now.                           *)
ScanPush(r) ==
    /\ pc[r] = "ScanPush"
    /\ LET l == loc[r] IN
         ses' = [ses EXCEPT ![l.ses].items = @ \o l.ok,
                            ![l.ses].serialChecked = @ + Len(l.ok)]
    /\ Finish(r)
    /\ UNCHANGED <<exp, dev, soldFor>>

-----------------------------------------------------------------------------
(* removeSerial.  Two of them on one serial, or one on a serial stored     *)
(* twice, set serialChecked apart from the items; each instance bounds how *)
(* far before it stops removing.                                           *)
Drift(s) == Len(ses[s].items) - ses[s].serialChecked

RemoveRead(r) ==
    /\ "remove" \in Features
    /\ Start(r)
    /\ \E s \in Sessions :
         /\ ses[s].status = "IN_PROGRESS"
         /\ Drift(s) \in -MaxDrift .. MaxDrift
         /\ \E serial \in SerialsOf(ses[s].items) :
              Goto(r, "Remove", [Blank EXCEPT !.ses = s, !.serial = serial])
    /\ UNCHANGED <<exp, ses, dev, soldFor>>

(* $pull with $inc.                                                        *)
RemovePull(r) ==
    /\ pc[r] = "Remove"
    /\ LET l == loc[r] IN
         ses' = [ses EXCEPT ![l.ses].items = Pull(@, l.serial),
                            ![l.ses].serialChecked = @ - 1]
    /\ Finish(r)
    /\ UNCHANGED <<exp, dev, soldFor>>

-----------------------------------------------------------------------------
(* Bug: a session with nothing scanned is completed.                       *)
CompleteEmpty(r) ==
    /\ Start(r)
    /\ \E s \in Sessions :
         /\ ses[s].status = "IN_PROGRESS"
         /\ Goto(r, "CompletePush", [Blank EXCEPT !.ses = s, !.exp = ses[s].exp,
                                                  !.items = ses[s].items])
    /\ UNCHANGED <<exp, ses, dev, soldFor>>

(* completeSession: read the session ... *)
CompleteRead(r) ==
    /\ Start(r)
    /\ \E s \in Sessions :
         /\ ses[s].status = "IN_PROGRESS"
         /\ ses[s].items # <<>>
         /\ Goto(r, "CompletePush", [Blank EXCEPT !.ses = s, !.exp = ses[s].exp,
                                                  !.items = ses[s].items])
    /\ UNCHANGED <<exp, ses, dev, soldFor>>

(* Bug: the list is set, not pushed to.                                    *)
CompleteSet(r) ==
    /\ pc[r] = "CompletePush"
    /\ LET l == loc[r] IN
         /\ WriteTicket(l.exp, [exp[l.exp] EXCEPT !.items = l.items,
                                                  !.totalItems = Len(l.items)])
         /\ Goto(r, "CompleteMove", l)
    /\ UNCHANGED <<ses, dev, soldFor>>

(* ... push its items onto the ticket, if that still exists ... *)
CompletePush(r) ==
    /\ pc[r] = "CompletePush"
    /\ LET l == loc[r]
           doc == exp[l.exp]
       IN  /\ Len(doc.items) + Len(l.items) <= MaxItems
           /\ WriteTicket(l.exp, [doc EXCEPT !.items = @ \o l.items,
                                             !.totalItems = @ + Len(l.items)])
           /\ Goto(r, "CompleteMove", l)
    /\ UNCHANGED <<ses, dev, soldFor>>

(* ... move the devices, ... *)
CompleteMove(r) ==
    /\ pc[r] = "CompleteMove"
    /\ MoveToSoldWarehouse(SerialsOf(loc[r].items), loc[r].exp)
    /\ Goto(r, "CompleteClose", [loc[r] EXCEPT !.items = <<>>])
    /\ UNCHANGED <<exp, ses>>

(* ... close the session ... *)
CompleteClose(r) ==
    /\ pc[r] = "CompleteClose"
    /\ ses' = [ses EXCEPT ![loc[r].ses].status = "COMPLETED"]
    /\ Goto(r, "CompleteTotal", [loc[r] EXCEPT !.ses = None])
    /\ UNCHANGED <<exp, dev, soldFor>>

(* Bug: the ticket is completed with its first session.                    *)
CompleteAtOnce(r) ==
    /\ pc[r] = "CompleteTotal"
    /\ IF Exists(loc[r].exp) THEN Goto(r, "CompleteWrite", loc[r]) ELSE Finish(r)
    /\ UNCHANGED <<exp, ses, dev, soldFor>>

(* Bug: the ticket is completed only beyond its total.                     *)
CompleteBeyond(r) ==
    /\ pc[r] = "CompleteTotal"
    /\ LET e == loc[r].exp IN
         IF Exists(e) /\ exp[e].totalItems > exp[e].totalQuantity
         THEN Goto(r, "CompleteWrite", loc[r])
         ELSE Finish(r)
    /\ UNCHANGED <<exp, ses, dev, soldFor>>

(* ... and complete the ticket if it is found full.                        *)
CompleteTotal(r) ==
    /\ pc[r] = "CompleteTotal"
    /\ LET e == loc[r].exp IN
         IF Exists(e) /\ exp[e].totalItems >= exp[e].totalQuantity
         THEN Goto(r, "CompleteWrite", loc[r])
         ELSE Finish(r)
    /\ UNCHANGED <<exp, ses, dev, soldFor>>

CompleteWrite(r) ==
    /\ pc[r] = "CompleteWrite"
    /\ LET e == loc[r].exp IN WriteTicket(e, WithStatus(exp[e], "COMPLETED"))
    /\ Finish(r)
    /\ UNCHANGED <<ses, dev, soldFor>>

-----------------------------------------------------------------------------
SessionStart(r) ==
    \/ SessionRead(r)
    \/ ScanSerial(r)
    \/ ScanBulk(r)
    \/ RemoveRead(r)
    \/ CompleteRead(r)

SessionStep(r) ==
    \/ SessionInsert(r)
    \/ SessionMark(r)
    \/ ScanExport(r)
    \/ ScanDevices(r)
    \/ ScanCheck(r)
    \/ ScanPush(r)
    \/ RemovePull(r)
    \/ CompletePush(r)
    \/ CompleteMove(r)
    \/ CompleteClose(r)
    \/ CompleteTotal(r)
    \/ CompleteWrite(r)

=============================================================================
