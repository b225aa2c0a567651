SPECIFICATION Spec
CONSTANTS
    p = p
    q = q
    old = old
    mine = mine
    theirs = theirs
    secret = secret
    merged = merged
    Absent = Absent
    NoBase = NoBase
    Paths = {p, q}
    Texts = {old, mine, theirs, secret, merged}
    Withheld = {secret}
    Merged = merged
    Jobs = {j1, j2}
    LocalEdits = {mine, secret, Absent}
    RemoteEdits = {theirs, Absent}
    Starts <- MCStarts
    DefaultBranch = FALSE
    MaxEdits = 1
    MaxPlans = 2
    MaxApplies = 2
    MaxLinks = 2
    MaxMishaps = 1
SYMMETRY Symmetry
INVARIANTS
    PublishedOnce
PROPERTIES
    
    BranchEditsSurvive
    
CHECK_DEADLOCK FALSE
