---------------------------- MODULE MCXenLibrary ----------------------------
(***************************************************************************)
(* Model checking of XenLibrary.                                           *)
(***************************************************************************)
EXTENDS XenLibrary
=============================================================================
