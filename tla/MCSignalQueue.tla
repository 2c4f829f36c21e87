--------------------------- MODULE MCSignalQueue ---------------------------
(* Instance of SignalQueue: interchangeable waiters and signalers. *)
EXTENDS SignalQueue, TLC

Symmetry == Permutations(Waiters) \cup Permutations(Signalers)
=============================================================================
