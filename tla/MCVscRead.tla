------------------------------ MODULE MCVscRead ------------------------------
(***************************************************************************)
(* Instances of VscRead for TLC.                                           *)
(***************************************************************************)
EXTENDS VscRead
=============================================================================
