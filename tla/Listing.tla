-------------------------------- MODULE Listing --------------------------------
(***************************************************************************)
(* Sorting, said without sorting: the place of an element is the number of *)
(* elements before it.  (SortSeq of the standard modules has no definition *)
(* that a proof can use.)  And adding up.                                  *)
(***************************************************************************)
EXTENDS Naturals, FiniteSets, SequencesExt

\* sorted: the elements of a finite set S, of which Before says which is earlier.
Listed(S, Before(_, _)) ==
    [k \in 1..Cardinality(S) |->
        CHOOSE x \in S : Cardinality({y \in S : Before(y, x)}) = k - 1]

Ascending(S) == Listed(S, <)

TotalOf(list) == FoldLeft(+, 0, list)
=============================================================================
