------------------------------- MODULE Lists --------------------------------
(***************************************************************************)
(* What is left of a list when some of its items are taken out: the items  *)
(* at the indices in kept, in their order.  It is SelectSeq with the test  *)
(* given as a set, and a function of the ranks of that set.                *)
(***************************************************************************)
EXTENDS Integers, FiniteSets, Sequences

Rank(i, kept) == Cardinality({j \in kept : j <= i})

Keep(list, kept) ==
    [n \in 1 .. Cardinality(kept) |-> list[CHOOSE i \in kept : Rank(i, kept) = n]]

=============================================================================
