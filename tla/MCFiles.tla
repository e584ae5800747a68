------------------------------- MODULE MCFiles -------------------------------
(***************************************************************************)
(* Instances of Files for TLC.                                             *)
(***************************************************************************)
EXTENDS Files, TLC

CONSTANTS p1, p2

OneFile == {<<>>, <<1>>}
Flat    == {<<>>, <<1>>, <<2>>}
Nested  == {<<>>, <<1>>, <<2>>, <<1, 1>>, <<1, 2>>}
Symmetry == Permutations(Procs)
=============================================================================
