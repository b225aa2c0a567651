------------------------- MODULE MCTaskDependencies -------------------------
(***************************************************************************)
(* TaskDependencies for TLC: interchangeable tasks and call slots.         *)
(***************************************************************************)
EXTENDS TaskDependencies, TLC

Symmetry == Permutations(Task) \cup Permutations(Edit)
=============================================================================
