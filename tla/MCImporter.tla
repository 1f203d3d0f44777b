----------------------------- MODULE MCImporter -----------------------------
\* A small instance of Importer for TLC.
EXTENDS Importer
=============================================================================
