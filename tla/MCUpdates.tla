----------------------------- MODULE MCUpdates ------------------------------
EXTENDS Updates
MCFloor == -4
MCMinHit == -1
=============================================================================
