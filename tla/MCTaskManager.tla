--------------------------- MODULE MCTaskManager ---------------------------
(***************************************************************************)
(* TaskManager for TLC: interchangeable call slots.                        *)
(***************************************************************************)
EXTENDS TaskManager, TLC

Symmetry == Permutations(Call)
=============================================================================
