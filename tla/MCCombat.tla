------------------------------ MODULE MCCombat ------------------------------
\* A small instance of Combat for TLC.  The levels 1 to 3 can be played, 4 is
\* immortal; the second takes 5 points and the third 25.
EXTENDS Combat

ToLevelDef == <<0, 5, 25>>
Symmetry == Permutations(Chars) \cup Permutations(Rooms)
=============================================================================
