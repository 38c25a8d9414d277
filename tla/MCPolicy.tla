------------------------------ MODULE MCPolicy ------------------------------
(***************************************************************************)
(* Values for the constants of PolicyFlow.                                 *)
(***************************************************************************)
EXTENDS PolicyFlow, TLC

CONSTANTS c, d, m, n, x, y, t, k, r1, r2

(* One permission at a time. *)
Single == {{p} : p \in Perms}

(* The scanner's list, with one path twice, as the real one has. *)
ScannedTwice == <<[key |-> t, content |-> k], [key |-> t, content |-> k]>>

(* Requests and changes together; fewer with a policy file the rules       *)
(* cannot be merged into, which makes OPA deaf.                            *)
Bound == begun + changed <= IF rego \in {"foreign", "broken"} THEN 3 ELSE 4

Symmetry == Permutations(Codes) \cup Permutations(Labels) \cup Permutations(Perms) \cup Permutations(Requests)

=============================================================================
