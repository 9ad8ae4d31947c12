----------------------------- MODULE MCDeferredFree -----------------------------
(***************************************************************************)
(* DeferredFree on a small instance, with the epoch counter so small that  *)
(* it is rebased again and again.                                          *)
(***************************************************************************)
EXTENDS DeferredFree
=================================================================================
