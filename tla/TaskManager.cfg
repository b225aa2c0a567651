SPECIFICATION Spec
CONSTANTS
  Task = {t1}
  Call = {c1, c2}
  NoTask = NoTask
  HardMaxAttempts = 2
  MaxVersion = 5
  MaxSeq = 2
  MayCrash = TRUE
SYMMETRY Symmetry
CHECK_DEADLOCK FALSE
INVARIANTS
  HistoryTellsStatus
  
  AttemptRowsFollowHistory
  Consistent
PROPERTIES
  ImplementsContract
