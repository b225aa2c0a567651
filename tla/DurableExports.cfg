SPECIFICATION Spec
SYMMETRY Symmetry
CONSTANTS
    Calls = {c1, c2}
    Exports = {e1, e2}
    Files = {f1, f2}
    NoExport = NoExport
    MaxArchives = 1
    MaxReads = 2
    MaxEvents = 2
INVARIANTS
    ReadyRowsHaveTheirArchive
    QuietMirrorMatches
    ArchivesAreBounded
PROPERTIES
    AnsweredIsStored
    
CHECK_DEADLOCK FALSE
