----------------------------- MODULE MCWorkerPool -----------------------------
(* Instances of WorkerPool for TLC. *)
EXTENDS WorkerPool, TLC

\* Jobs are interchangeable; workers are not, since they are numbered.
JobSymmetry == Permutations(Jobs)
===============================================================================
