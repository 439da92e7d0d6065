----------------------------- MODULE Positions -----------------------------
(***************************************************************************)
(* Positions in a sequence: the first of some, all of them in order, and   *)
(* the elements that are found there.                                      *)
(***************************************************************************)
EXTENDS Integers, Sequences, FiniteSets

First(S) == CHOOSE i \in S : \A j \in S : i <= j

\* S as an ascending sequence: before its k-th element there are k - 1 others.
InOrder(S) ==
    [k \in 1..Cardinality(S) |-> CHOOSE i \in S : Cardinality({j \in S : j < i}) = k - 1]

\* The elements of s at the positions S, in their order.
Pick(s, S) == [k \in 1..Cardinality(S) |-> s[InOrder(S)[k]]]

=============================================================================
