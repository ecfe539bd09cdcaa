----------------------------- MODULE MCJobStore -----------------------------
(* Instances of JobStore for TLC.                                          *)
EXTENDS JobStoreRefinement, TLC

(* Bound: two public jobs, of which the second may be a retry or a replay  *)
(* of the first, or one public job with children.                          *)
RootsOrChildren ==
    (\E q, r \in Root : q # r /\ Exists(q) /\ Exists(r)) => \A c \in Child : ~ Exists(c)

Symmetry == Permutations(Root) \cup Permutations(Package) \cup Permutations(Session)
=============================================================================
