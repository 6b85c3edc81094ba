------------------------------- MODULE MCVscEh -------------------------------
(***************************************************************************)
(* Instances of VscEh for TLC.                                             *)
(***************************************************************************)
EXTENDS VscEh

=============================================================================
