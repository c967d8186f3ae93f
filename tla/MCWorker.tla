------------------------------ MODULE MCWorker ------------------------------
(* Worker with tasks that are interchangeable. *)
EXTENDS Worker, TLC

TaskSymmetry == Permutations(Tasks)
=============================================================================
