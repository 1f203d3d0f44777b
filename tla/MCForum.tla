------------------------------- MODULE MCForum -------------------------------
\* Small instances of Forum for TLC: a mortal and an immortal; one forum they
\* both write to, which holds a note from the database, and for MCForumRead
\* one more, which is the immortal's.
EXTENDS Forum

CONSTANTS m, i, n1, n2, n3

MortalForums == {1}
Reach == [f \in Forums |-> IF f \in MortalForums THEN {m, i} ELSE {i}]
OnDiskDef == [f \in Forums |-> IF f = 1 THEN <<n1>> ELSE <<>>]
=============================================================================
