-------------------------------- MODULE Lists --------------------------------
(***************************************************************************)
(* The intrusive lists of macro.h as sequences: LINK puts an element       *)
(* first, UNLINK takes elements out and leaves the others in their order.  *)
(***************************************************************************)
EXTENDS Naturals, Sequences, FiniteSets

\* How many of the places of K come no later than i.
Rank(K, i) == Cardinality({k \in K : k <= i})

\* The numbers of K in their order.
Sorted(K) == [n \in 1 .. Cardinality(K) |-> CHOOSE i \in K : Rank(K, i) = n]

\* UNLINK of every element of S: what is left, in its order.
Without(s, S) ==
  LET kept == Sorted({i \in DOMAIN s : s[i] \notin S})
  IN [n \in DOMAIN kept |-> s[kept[n]]]
=============================================================================
