-------------------------- MODULE MCWorkerManager --------------------------
(* Symmetry for the safety runs of WorkerManager: workers, processes and   *)
(* call slots are interchangeable.                                         *)
EXTENDS WorkerManager, TLC

Symmetry == Permutations(Worker) \cup Permutations(Proc) \cup Permutations(Call)
=============================================================================
