----------------------------- MODULE MCSelection ----------------------------
(* Instances of Selection for TLC.                                         *)
EXTENDS Selection, TLC

Symmetry == Permutations(Module)
=============================================================================
