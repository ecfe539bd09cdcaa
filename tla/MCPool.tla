------------------------------- MODULE MCPool -------------------------------
(* Instances of Pool for TLC.                                              *)
EXTENDS Pool, TLC

Symmetry == Permutations(Seed) \cup Permutations(Kid) \cup Permutations(Worker)
=============================================================================
