----------------------------- MODULE MCIwMutex -----------------------------
EXTENDS IwMutex, TLC

Threads == Permutations(Thread)
=============================================================================
