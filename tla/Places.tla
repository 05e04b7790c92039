------------------------------- MODULE Places -------------------------------
(***************************************************************************)
(* The part of a list that is at some of its places, in the order of the   *)
(* list: what a loop over the list that skips the others leaves of it.     *)
(***************************************************************************)
EXTENDS Naturals, Sequences, FiniteSets

\* The numbers of a finite set, the smallest first.
InOrder(S) ==
    CHOOSE p \in [1..Cardinality(S) -> S] : \A i, j \in 1..Cardinality(S) : i < j => p[i] < p[j]

\* The entries of the list at these places.
At(list, places) == [k \in 1..Cardinality(places) |-> list[InOrder(places)[k]]]
=============================================================================
