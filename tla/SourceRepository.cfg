SPECIFICATION SourceSpec
CONSTANTS
    v0 = v0
    v1 = v1
    v2 = v2
    NoContent = NoContent
    NodePaths <- MCPaths
    FileContents = {v0, v1, v2}
    NodeTrees <- MCTrees
    Programs <- MCPrograms
    Writes <- MCWrites
    Jobs = {j1, j2}
    MaxWrites = 2
    MaxAutomatic = 1
    MaxSnapshots = 1
SYMMETRY Symmetry
PROPERTIES
    
    UpdatesSeeWhatTheyReplace
    RestoreAloneIsExact
CHECK_DEADLOCK FALSE
