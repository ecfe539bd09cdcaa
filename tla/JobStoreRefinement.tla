------------------------- MODULE JobStoreRefinement -------------------------
(* The job store implements the lifecycle contract: read off the committed *)
(* rows, every transaction is a step of JobLifecycle.                      *)
EXTENDS JobStore

Lifecycle == INSTANCE JobLifecycle WITH
    status <- [j \in Job |-> jobs[j].status],
    attempts <- [j \in Job |-> jobs[j].attempts],
    limit <- [j \in Job |-> jobs[j].max]

(* Every transaction of the store moves each job along an edge of the      *)
(* ADR's transition graph within its attempt budget, creates children only *)
(* when a job of their audit succeeds, and ends a waiting audit only in a  *)
(* step after which no descendant is active, with the verdict its          *)
(* descendants call for -- although the code decides that from a count it  *)
(* took before the commit.                                                 *)
ImplementsLifecycle == Lifecycle!Spec
=============================================================================
