----------------------------- MODULE MCAccounts -----------------------------
(***************************************************************************)
(* Values for the constants of AccountFlow.                                *)
(***************************************************************************)
EXTENDS AccountFlow, TLC

(* No email is part of another. *)
ExactMatch == [e \in Emails |-> {e}]

Symmetry == Permutations(Users) \cup Permutations(Emails) \cup Permutations(Passwords)
            \cup Permutations(Tokens) \cup Permutations(Requests)

=============================================================================
