------------------------------ MODULE MCLinker -------------------------------
(***************************************************************************)
(* Instances of Linker for TLC.                                            *)
(***************************************************************************)
EXTENDS Linker, TLC

Symmetry == Permutations(Areas)
=============================================================================
