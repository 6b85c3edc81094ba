----------------------------- MODULE MCVscHosts -----------------------------
(***************************************************************************)
(* Instances of VscHosts for TLC.  The threads of one kind are             *)
(* interchangeable.                                                        *)
(***************************************************************************)
EXTENDS VscHosts, TLC

Symmetry == Permutations(Registrars) \union Permutations(Queuers)
=============================================================================
