------------------------------ MODULE MCSignal ------------------------------
(***************************************************************************)
(* Signal on small instances.                                              *)
(***************************************************************************)
EXTENDS Signal
=============================================================================
