--------------------------- MODULE SequenceFilters ---------------------------
(***************************************************************************)
(* SelectSeq with a set instead of a predicate, written as a recursive     *)
(* function, so that the modules that use it can be reasoned about.        *)
(***************************************************************************)
EXTENDS Naturals, Sequences

\* The elements of s that are in S, in their order.
Filtered(s, S) ==
  LET kept[i \in 0..Len(s)] ==
        IF i = 0 THEN <<>>
        ELSE IF s[i] \in S THEN Append(kept[i - 1], s[i]) ELSE kept[i - 1]
  IN kept[Len(s)]
=============================================================================
