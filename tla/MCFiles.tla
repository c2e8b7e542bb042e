------------------------------- MODULE MCFiles -------------------------------
EXTENDS Files
CONSTANT a

One == {a}
Modes == {"r", "w"}
=============================================================================
