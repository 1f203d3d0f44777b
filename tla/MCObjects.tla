----------------------------- MODULE MCObjects ------------------------------
\* A small instance of Objects for TLC: three things to wear on either wrist and
\* a helmet.
EXTENDS Objects, TLC

CONSTANTS w1, w2, w3, h1, head, left, right

SlotsOfDef == [o \in Objs |-> IF o = h1 THEN <<head>> ELSE <<left, right>>]
Symmetry == Permutations({w1, w2, w3})
=============================================================================
