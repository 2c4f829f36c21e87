------------------------------ MODULE MCNotify ------------------------------
(* Instance of Notify: one thread, two interchangeable tasks. *)
EXTENDS Notify, TLC

Symmetry == Permutations(Tasks)
=============================================================================
