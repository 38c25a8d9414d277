------------------------------ MODULE MCIntake -----------------------------
(***************************************************************************)
(* Values for the constants of IntakeFlow.                                 *)
(***************************************************************************)
EXTENDS IntakeFlow

CONSTANTS Router, Camera     \* device models

AllRouters == [m \in Macs |-> Router]
(* All macs but one are routers. *)
OneCamera  == LET camera == CHOOSE m \in Macs : TRUE
              IN  [m \in Macs |-> IF m = camera THEN Camera ELSE Router]

OneRouter  == Router :> 1
TwoRouters == Router :> 2
OneOfEach  == Router :> 1 @@ Camera :> 1
PlansOne   == {OneRouter}
PlansTwo   == {TwoRouters}
(* A ticket without devices is full at once. *)
PlansEachOrNone == {OneRouter, OneOfEach, NoPlan}

Singles    == {<<m>> : m \in Macs}
(* Single scans, and pairs, the same device twice included. *)
Pairs      == Singles \cup {<<m, n>> : m, n \in Macs}

Symmetry == Permutations(Requests) \cup Permutations(Sessions)
            \cup Permutations(Imports)
MacSymmetry == Symmetry \cup Permutations(Macs)

=============================================================================
