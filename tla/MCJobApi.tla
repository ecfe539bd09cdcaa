------------------------------ MODULE MCJobApi ------------------------------
(* Instances of JobApi for TLC.                                            *)
EXTENDS JobApi, TLC

CONSTANTS c1, c2, k1, o1, o2, pager

(* Two clients that race for a key; a client and a pager while workers are *)
(* at work; or a client, workers and two callers that replay DLQ entries.  *)
MCPopulation == {{c1, c2, k1}, {c1, pager, Workers}, {c1, o1, o2, Workers}}

(* Bound: only listings show when a row was inserted, so time stands still *)
(* for those who replay.                                                   *)
ReplaysAtOnce == callers \cap Replayer # {} => clock = 0

(* Ids are ordered, and therefore not symmetric.                           *)
MCRank ==
    CHOOSE f \in [Job -> 1 .. Cardinality(Job)] : \A q, r \in Job : f[q] = f[r] => q = r

(* Replayers work together or not at all.                                  *)
Symmetry == Permutations(Body) \cup Permutations(Replayer)
=============================================================================
