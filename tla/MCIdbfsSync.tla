----------------------------- MODULE MCIdbfsSync -----------------------------
(* Instances of IdbfsSync for TLC. *)
EXTENDS IdbfsSync, TLC

\* Workers that start alike may be exchanged.
WorkerSymmetry == Permutations(Workers)
===============================================================================
