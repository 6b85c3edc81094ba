------------------------------ MODULE MCVscCmd ------------------------------
(***************************************************************************)
(* Instances of VscCmd for TLC.  No symmetry: every passing run also checks *)
(* temporal properties.                                                    *)
(***************************************************************************)
EXTENDS VscCmd
=============================================================================
