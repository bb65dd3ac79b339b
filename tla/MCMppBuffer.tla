----------------------------- MODULE MCMppBuffer -----------------------------
(***************************************************************************)
(* Instances of MppBuffer for TLC.                                          *)
(***************************************************************************)
EXTENDS MppBuffer
=============================================================================
