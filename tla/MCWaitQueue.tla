---------------------------- MODULE MCWaitQueue ----------------------------
EXTENDS WaitQueueRefinement, TLC
Symmetry == Permutations(Procs) \cup Permutations(WaitQueues) \cup Permutations(Queues)
=============================================================================
