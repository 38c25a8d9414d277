-------------------------- MODULE DeviceValidation -------------------------
(***************************************************************************)
(* DeviceValidationService: the check of a list of macs a client asks for  *)
(* before it exports them, POST /devices/validate-macs.  It changes        *)
(* nothing; what it answers is compared with what a scan would do.         *)
(***************************************************************************)
EXTENDS ExportFlow

Repeated(macs, mac) == Cardinality({i \in DOMAIN macs : macs[i] = mac}) > 1

(* Bug: the warehouse the client names is not compared.                    *)
ValidWherever(macs, model, wh) ==
    {mac \in ToSet(macs) : /\ ~ Repeated(macs, mac)
                           /\ mac \in Macs
                           /\ ModelOf[mac] = model}

(* validMacs: not DUPLICATE, NOT_FOUND, WRONG_MODEL or WRONG_WAREHOUSE.    *)
(* The qc status is not looked at.                                         *)
ValidMacs(macs, model, wh) ==
    {mac \in ToSet(macs) : /\ ~ Repeated(macs, mac)
                           /\ mac \in Macs
                           /\ ModelOf[mac] = model
                           /\ dev[mac].wh = wh}

-----------------------------------------------------------------------------
(* A scan of session s as it would be judged now.                          *)
ScanNow(s) == [Blank EXCEPT !.ses = s,
                            !.items = ses[s].items,
                            !.models = DOMAIN exp[ses[s].exp].plan,
                            !.ready = {m \in Macs : dev[m].wh = "READY_TO_EXPORT"}]

Held(mac) == \E s \in Sessions : /\ ses[s].status = "IN_PROGRESS"
                                 /\ Stores(ses[s].items, mac)

(* A mac validated for export from the ready warehouse, alone or beside    *)
(* another or an unknown one, is accepted by the scan of every session in  *)
(* progress whose ticket requires the model, unless a session in progress  *)
(* has it; and every mac a scan accepts is valid by itself.                *)
ValidatedIsScannable ==
    \A s \in Sessions : ses[s].status = "IN_PROGRESS" /\ Exists(ses[s].exp) =>
        \A mac \in Macs, model \in DOMAIN exp[ses[s].exp].plan :
            /\ \A other \in Macs \cup {None} :
                  /\ mac \in ValidMacs(<<mac, other>>, model, "READY_TO_EXPORT")
                  /\ ~ Held(mac)
                  => ValidScan(ScanNow(s), mac)
            /\ ValidScan(ScanNow(s), mac) =>
                  mac \in ValidMacs(<<mac>>, ModelOf[mac], "READY_TO_EXPORT")

=============================================================================
