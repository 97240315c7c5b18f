------------------------------ MODULE Subsequences ------------------------------
(***************************************************************************)
(* The selection of a sequence, by counting: SelectSeq is defined by       *)
(* recursion, about which nothing can be proved here.                      *)
(***************************************************************************)
EXTENDS Naturals, FiniteSets, Sequences

\* The elements of s that are in S, in their order.
Among(s, S) ==
    LET at == {n \in 1..Len(s) : s[n] \in S}
        Place(n) == Cardinality({m \in at : m <= n}) IN
    [k \in 1..Cardinality(at) |-> s[CHOOSE n \in at : Place(n) = k]]

\* No element is there twice.
Distinct(s) == \A m, n \in 1..Len(s) : s[m] = s[n] => m = n
================================================================================
