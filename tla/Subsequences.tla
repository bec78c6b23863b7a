---------------------------- MODULE Subsequences ----------------------------
(***************************************************************************)
(* Filtering a list: the tasks of a plan that stay (planner.ts), the keys  *)
(* of the objects that are listed (filesystem-storage.ts).                 *)
(***************************************************************************)
EXTENDS Integers, Sequences

\* The elements of s at the positions in keep, in their order (Array.filter).
\* A recursive function and not SelectSeq: SubsequenceTheorems proves facts about it.
Subsequence(s, keep) ==
  LET kept[i \in 0 .. Len(s)] ==
        IF i = 0 THEN << >>
        ELSE IF i \in keep THEN Append(kept[i - 1], s[i])
        ELSE kept[i - 1]
  IN  kept[Len(s)]
=============================================================================
