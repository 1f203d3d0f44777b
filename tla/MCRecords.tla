----------------------------- MODULE MCRecords -----------------------------
\* A small instance of Records for TLC.
EXTENDS Records, TLC
Symmetry == Permutations(Clients) \cup Permutations(Sessions) \cup Permutations(Players)
=============================================================================
