----------------------------- MODULE SortedLists ----------------------------
(***************************************************************************)
(* The members of a finite set as a list in a given order, which is what   *)
(* ORDER BY and Array.sort with a total comparison come to.                *)
(***************************************************************************)
EXTENDS Integers, FiniteSets

\* Not SetToSortSeq, which rests on a permutation TLC computes and nothing is proved about.
SortedList(S, Before(_, _)) ==
  CHOOSE list \in [1 .. Cardinality(S) -> S] :
    \A i, j \in DOMAIN list : i < j => Before(list[i], list[j])

\* A set of numbers in increasing order.
Ascending(S) == SortedList(S, <)
=============================================================================
