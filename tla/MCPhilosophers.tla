--------------------------- MODULE MCPhilosophers ---------------------------
EXTENDS Philosophers

Table2 == 0 .. 2
=============================================================================
