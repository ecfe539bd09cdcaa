-------------------------- MODULE MCWorkerService ---------------------------
(* Instances of WorkerService for TLC.                                     *)
EXTENDS WorkerService, TLC

(* Session is a constant of JobStore; here it is the sessions of the       *)
(* processes.                                                              *)
MCSession == (Worker \X (1 .. Concurrency)) \cup Worker \cup Api

Symmetry == Permutations(Root) \cup Permutations(Package) \cup Permutations(Worker)
=============================================================================
