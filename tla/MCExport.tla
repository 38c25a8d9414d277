------------------------------ MODULE MCExport -----------------------------
(***************************************************************************)
(* Values for the constants of ExportFlow and DeviceValidation.            *)
(***************************************************************************)
EXTENDS DeviceValidation

CONSTANTS Router, Camera     \* device models

(* Keep gives the list SelectSeq gives.                                    *)
ASSUME KeepSelects ==
    \A items \in BoundedSeq(Macs, 3), m \in Macs :
        Keep(items, {i \in DOMAIN items : items[i] # m})
           = SelectSeq(items, LAMBDA i : i # m)

(* A device carries its mac as serial.                                     *)
MacIsSerial   == [m \in Macs |-> m]
MacsAsSerials == Macs

AllRouters == [m \in Macs |-> Router]
(* All macs but one are routers. *)
OneCamera  == LET camera == CHOOSE m \in Macs : TRUE
              IN  [m \in Macs |-> IF m = camera THEN Camera ELSE Router]

Ready      == [wh |-> "READY_TO_EXPORT", qc |-> "PASS"]
InStock    == [wh |-> "IN_STOCK", qc |-> "PASS"]
AllReady   == {Ready}
ReadyOrNot == {Ready, InStock}

NoMoves   == <<>>
QcMoves   == <<"IN_STOCK", "READY_TO_EXPORT">> :> "QC_PASS"
             @@ <<"READY_TO_EXPORT", "DEFECT">> :> "QC_FAIL"
             @@ <<"DEFECT", "IN_STOCK">> :> "REPAIR"

OneRouter  == Router :> 1
TwoRouters == Router :> 2
OneOfEach  == Router :> 1 @@ Camera :> 1
PlansOne    == {OneRouter}
PlansTwo    == {TwoRouters}
PlansEach   == {OneRouter, OneOfEach}
PlansEachOrNone == PlansEach \cup {NoPlan}

NoBatches  == {}
Singles    == {<<m>> : m \in Macs}
Pairs      == {<<m, n>> : m, n \in Macs} \ {<<m, m>> : m \in Macs}

Symmetry == Permutations(Requests) \cup Permutations(Sessions)
            \cup Permutations(Exports)
MacSymmetry == Symmetry \cup Permutations(Macs)

=============================================================================
