------------------------------ MODULE MCVscDisk ------------------------------
(***************************************************************************)
(* Instances of VscDisk for TLC.  No symmetry: the run also checks a         *)
(* temporal property.                                                        *)
(***************************************************************************)
EXTENDS VscDisk
=============================================================================
