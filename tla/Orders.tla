-------------------------------- MODULE Orders --------------------------------
(***************************************************************************)
(* Sorting and selecting without recursion: the place of a member is the   *)
(* number of those before it.                                              *)
(***************************************************************************)
EXTENDS Naturals, FiniteSets, Sequences

\* The members of S, sorted by the strict order R, a set of pairs.
Sorted(S, R) ==
  [i \in 1..Cardinality(S) |->
     CHOOSE x \in S : Cardinality({y \in S : <<y, x>> \in R}) = i - 1]

\* Numbers from the least to the greatest.
Ascending(S) == Sorted(S, {pair \in S \X S : pair[1] < pair[2]})

\* The members of a sequence at some of its places, in their order.
Picked(seq, places) ==
  LET at == Ascending(places) IN [i \in 1..Cardinality(places) |-> seq[at[i]]]
===============================================================================
