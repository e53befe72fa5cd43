----------------------------- MODULE MCIwHealth -----------------------------
EXTENDS IwHealth, TLC

Threads == Permutations(Thread)
=============================================================================
