----------------------------- MODULE MCFdState -----------------------------
(***************************************************************************)
(* FdState on small instances.  The threads that wait are interchangeable. *)
(***************************************************************************)
EXTENDS FdState, TLC

Symmetry == Permutations(Threads)
=============================================================================
