---------------------------- MODULE MCKeventCall ----------------------------
(***************************************************************************)
(* KeventCall for every changelist and eventlist of bounded length.        *)
(***************************************************************************)
EXTENDS KeventCall
=============================================================================
