---------------------------- MODULE PolicyRegister --------------------------
(***************************************************************************)
(* What publishing promises of OPA: a register of payloads that only       *)
(* grows, of which some are given to OPA.  OPA, which restarts and loads   *)
(* on its own, holds one of those; what was announced is one of them, but  *)
(* need not be the one OPA holds now.                                      *)
(***************************************************************************)
CONSTANTS Payloads, Initially

VARIABLES registered, given, held, announced

Init == registered = {} /\ given = {} /\ held = Initially /\ announced = Initially

Register ==
    /\ registered \subseteq registered'
    /\ registered' \subseteq Payloads
    /\ UNCHANGED <<given, held, announced>>

(* Only what is registered is given to OPA, which holds it from then on.   *)
Give ==
    /\ \E p \in registered : held' = p /\ given' = given \cup {p}
    /\ UNCHANGED <<registered, announced>>

(* OPA returns to something it was given earlier, or to the beginning.     *)
Load ==
    /\ held' \in given \cup {Initially}
    /\ UNCHANGED <<registered, given, announced>>

Announce ==
    /\ announced' \in given
    /\ UNCHANGED <<registered, given, held>>

Next == Register \/ Give \/ Load \/ Announce

Spec == Init /\ [][Next]_<<registered, given, held, announced>>

=============================================================================
