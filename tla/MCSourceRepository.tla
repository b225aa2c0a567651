-------------------------- MODULE MCSourceRepository --------------------------
EXTENDS SourceRepository, TLC

CONSTANTS v0, v1, v2

a == <<"a">>
b == <<"b">>
d == <<"d">>
da == <<"d", "a">>

MCPaths == {a, b, d, da}

\* A file in the root, with and without a directory beside it.
MCTrees ==
    LET bare == [p \in MCPaths |-> IF p = a THEN NewFile(v0) ELSE Nothing]
    IN {bare, [bare EXCEPT ![d] = NewDirectory]}

Op(op, p, v, to) == [op |-> op, path |-> p, content |-> v, to |-> to]

\* Every operation, followed by one that the port refuses when d is there and
\* the preflight does not.
MCPrograms ==
    {<<first, Op("create-directory", d, NoContent, d)>> :
        first \in {Op("create", da, v1, da), Op("update", a, v1, a),
                   Op("delete", a, NoContent, a), Op("move", a, NoContent, da),
                   Op("move", a, NoContent, b)}}
    \cup {<<Op("move", a, NoContent, b), Op("delete", b, NoContent, b),
            Op("create-directory", d, NoContent, d)>>}

MCWrites == {Create(a, v2), Delete(a), MakeDirectory(a),
             Create(da, v2), Delete(da), RemoveDirectory(d)}

Symmetry == Permutations(Jobs)
=============================================================================
