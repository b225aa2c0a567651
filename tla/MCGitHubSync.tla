----------------------------- MODULE MCGitHubSync -----------------------------
EXTENDS GitHubSync, TLC

CONSTANTS p, q, old, mine, theirs, secret, merged

\* The same files on both sides, agreed on or not yet compared.
MCStarts ==
    LET shared == [x \in Paths |-> old]
    IN {[local |-> shared, remote |-> shared, base |-> b] : b \in {shared, NoBase}}

Symmetry == Permutations(Jobs) \cup Permutations(Paths)
=============================================================================
