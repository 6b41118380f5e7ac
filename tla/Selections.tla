----------------------------- MODULE Selections -----------------------------
(***************************************************************************)
(* A part of a sequence: its elements at some of its positions, in their   *)
(* order.  SetToSortSeq() and SelectSeq() of the library amount to the     *)
(* same, and are opaque to the provers.                                    *)
(***************************************************************************)
EXTENDS Naturals, Sequences, FiniteSets

\* The numbers of a finite set in ascending order.
Ascending(P) ==
  [k \in 1..Cardinality(P) |-> CHOOSE p \in P : Cardinality({q \in P : q < p}) = k - 1]

\* The elements of s at the positions P.
Selected(s, P) == [k \in 1..Cardinality(P) |-> s[Ascending(P)[k]]]

\* The elements of s that are in V, in their order.
Among(s, V) == Selected(s, {k \in 1..Len(s) : s[k] \in V})

\* s without its j-th element.
Without(s, j) == [k \in 1..(Len(s) - 1) |-> s[IF k < j THEN k ELSE k + 1]]
=============================================================================
