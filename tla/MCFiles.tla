------------------------------- MODULE MCFiles -----------------------------
(***************************************************************************)
(* Values for the constants of FileImport.                                 *)
(***************************************************************************)
EXTENDS FileImport

CONSTANTS Router     \* a device model

AllRouters == [m \in Macs |-> Router]
PlansOne   == {Router :> 1}
Singles    == {<<m>> : m \in Macs}

(* Two macs, or a row without one before one that has a mac.               *)
Pairs == ({<<m, n>> : m, n \in Macs} \ {<<m, m>> : m \in Macs})
         \cup {<<NoMac, m>> : m \in Macs}

(* Besides a file, one session with one scan, of a published ticket; and   *)
(* no session beside a file that has, or had, a row without a mac.         *)
Macless(u) == NoMac \in ToSet(previews[u].rows) \cup ToSet(previews[u].valid)

Bound == \A u \in Uploads : previews[u].state # "absent" =>
             /\ Cardinality({s \in Sessions : Allocated(s)}) <= IF Macless(u) THEN 0 ELSE 1
             /\ \A s \in Sessions : Len(ses[s].details) <= 1
             /\ \A i \in Imports : imp[i].published

Symmetry == Permutations(Requests) \cup Permutations(Sessions)
            \cup Permutations(Imports) \cup Permutations(Macs)

=============================================================================
