-------------------------- MODULE MCPreviewRuntime --------------------------
(* Runtimes of one workspace, two calls at once; the plan of the edited      *)
(* workspace has a build.                                                    *)
EXTENDS PreviewRuntime, TLC

Symmetry == Permutations(Calls)
=============================================================================
