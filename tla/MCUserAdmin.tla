----------------------------- MODULE MCUserAdmin -----------------------------
(* TLC instance of UserAdmin: two requests; what the record held at first is *)
(* of no account, for the two values of a field can be exchanged.            *)
EXTENDS UserAdmin, FiniteSets, TLC

MCOriginal == [f \in Fields |-> 0]

Symmetry == Permutations(Slots)

\* Bound: one form changes at most two of the four fields.
FewChanges == \A s \in Slots : Cardinality(req[s].asked) <= 2
===============================================================================
