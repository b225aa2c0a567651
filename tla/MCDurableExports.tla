-------------------------- MODULE MCDurableExports --------------------------
(* Two requests over two exports of a workspace of two files.              *)
EXTENDS DurableExports, TLC

Symmetry == Permutations(Calls) \cup Permutations(Exports) \cup Permutations(Files)
=============================================================================
