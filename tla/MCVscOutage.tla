----------------------------- MODULE MCVscOutage -----------------------------
(***************************************************************************)
(* Instances of VscOutage for TLC.                                         *)
(***************************************************************************)
EXTENDS VscOutage
=============================================================================
