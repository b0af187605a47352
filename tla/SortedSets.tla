----------------------------- MODULE SortedSets -----------------------------
(* The elements of a finite set in a given strict order, as std::sort leaves  *)
(* them in the code: the k-th one has k-1 before it.                          *)
EXTENDS Integers, FiniteSets

SortedBy(T, Less(_, _)) ==
    [k \in 1 .. Cardinality(T) |->
        CHOOSE x \in T : Cardinality({y \in T : Less(y, x)}) = k - 1]

Ascending(T) == SortedBy(T, <)

=============================================================================
