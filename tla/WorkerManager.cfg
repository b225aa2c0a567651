SPECIFICATION Spec
CONSTANTS
  Task = {t1}
  Worker = {w1}
  Proc = {p1, p2}
  Call = {c1, c2}
  NoTask = NoTask
  NoWorker = NoWorker
  NoProc = NoProc
  HardMaxAttempts = 2
  WorkerMaxAttempts = 2
  MaxVersion = 6
  OwnerMoves = {}
  MayCrash = TRUE
SYMMETRY Symmetry
CHECK_DEADLOCK FALSE
INVARIANTS
  CompletedWorkIsAccepted
  LiveRunsAreKnown
PROPERTIES
  FinishedWorkersStay
  RunsAreFreshAttempts
