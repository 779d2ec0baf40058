------------------------------ MODULE MCZshWorker ------------------------------
(* Instances of ZshWorker for TLC. *)
EXTENDS ZshWorker
===============================================================================
