------------------------------ MODULE Filters ------------------------------
(* Going through a list from its first element on and keeping some of it:  *)
(* the loops with a push of packages/domain, the filters of                *)
(* packages/core-operations.                                               *)
EXTENDS Naturals, Sequences

\* The elements of s that are in S, in their order.
Filtered(s, S) ==
  LET kept[n \in 0..Len(s)] == IF n = 0 THEN <<>>
                            ELSE IF s[n] \in S THEN Append(kept[n - 1], s[n]) ELSE kept[n - 1]
  IN  kept[Len(s)]
=============================================================================
