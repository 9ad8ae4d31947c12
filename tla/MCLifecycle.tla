------------------------------ MODULE MCLifecycle ------------------------------
(* Lifecycle on small instances. *)
EXTENDS Lifecycle, TLC

Symmetry == Permutations(Threads) \cup Permutations(Kqs) \cup Permutations(Fds)
================================================================================
