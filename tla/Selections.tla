------------------------------ MODULE Selections ------------------------------
(***************************************************************************)
(* Some of the elements of a sequence, or of the places of a row, in the   *)
(* order they have there.                                                  *)
(***************************************************************************)
EXTENDS Naturals, Sequences, FiniteSets

\* The place of i among the kept.
Rank(kept, i) == Cardinality({j \in kept : j <= i})

\* The elements at the places kept.
Picked(s, kept) ==
    [k \in 1 .. Cardinality(kept) |-> s[CHOOSE i \in kept : Rank(kept, i) = k]]
=============================================================================
