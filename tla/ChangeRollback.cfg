SPECIFICATION Spec
CONSTANTS
    p = p
    q = q
    v0 = v0
    v1 = v1
    c1 = c1
    c2 = c2
    Paths = {p, q}
    Contents = {v0, v1}
    Trees <- MCTrees
    Absent = Absent
    ChangeSets = {c1, c2}
    Integrations = {i1, i2}
    Nobody = Nobody
    Proposals <- MCProposals
    Edits <- MCEdits
    MaxMishaps = 0
SYMMETRY Symmetry
PROPERTY RollbackErasesNoLaterWork
CHECK_DEADLOCK FALSE
