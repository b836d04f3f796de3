------------------------------ MODULE Ordering ------------------------------
(***************************************************************************)
(* Sorting as Go's sort package promises it: the elements in an order that *)
(* never puts one before another that is less.  Which of several such      *)
(* orders comes out is not promised.                                       *)
(***************************************************************************)
EXTENDS Naturals, FiniteSets

\* The members of the finite set S, one after the other.
InOrder(S, Less(_, _)) ==
    CHOOSE p \in [1 .. Cardinality(S) -> S] :
       \A m, n \in 1 .. Cardinality(S) : m < n => p[m] # p[n] /\ ~Less(p[n], p[m])

\* What the list has at the indices in I, sorted.
Sorted(list, I, Less(_, _)) ==
    LET p == InOrder(I, LAMBDA i, j : Less(list[i], list[j]))
    IN [n \in 1 .. Cardinality(I) |-> list[p[n]]]
=============================================================================
