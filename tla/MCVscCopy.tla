------------------------------ MODULE MCVscCopy ------------------------------
(***************************************************************************)
(* Instances of VscCopy for TLC.                                             *)
(***************************************************************************)
EXTENDS VscCopy
=============================================================================
