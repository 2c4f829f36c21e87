---------------------------- MODULE MCSemaphore ----------------------------
(* Instance of Semaphore: one thread, two interchangeable tasks. *)
EXTENDS Semaphore, TLC

Symmetry == Permutations(Tasks)
=============================================================================
