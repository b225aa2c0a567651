------------------------- MODULE MCChangeIntegration -------------------------
EXTENDS ChangeIntegration, TLC

CONSTANTS p, q, v0, v1, c1, c2

Proposal(path, v) == [path |-> path, proposed |-> v]

\* Two files apart; one file with the same content; one file changed and deleted.
MCProposals ==
    {[c \in ChangeSets |-> IF c = c1 THEN Proposal(p, v1) ELSE second] :
        second \in {Proposal(q, v1), Proposal(p, v1), Proposal(p, Absent)}}

\* Somebody else creates the missing file.
MCEdits == {<<q, v0>>}

\* One file is there, the other is not.
MCTrees == {[f \in Paths |-> IF f = p THEN v0 ELSE Absent]}

Symmetry == Permutations(Integrations)
=============================================================================
