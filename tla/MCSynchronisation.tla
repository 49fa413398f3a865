-------------------------- MODULE MCSynchronisation --------------------------
EXTENDS Synchronisation, TLC

Threads == Permutations(Thread)
=============================================================================
