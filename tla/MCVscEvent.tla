----------------------------- MODULE MCVscEvent -----------------------------
(***************************************************************************)
(* Instances of VscEvent for TLC.                                          *)
(***************************************************************************)
EXTENDS VscEvent

Symmetry == Permutations(Waiters) \union Permutations(Readers)
              \union Permutations(Writers) \union Permutations(Aborters)
=============================================================================
