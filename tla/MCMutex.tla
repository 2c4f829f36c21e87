------------------------------ MODULE MCMutex ------------------------------
EXTENDS MutexRefinement, TLC
Symmetry == Permutations(Threads) \cup Permutations(Tasks) \cup Permutations(Queues)
=============================================================================
