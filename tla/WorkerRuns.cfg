SPECIFICATION FairSpec
CONSTANTS
  Task = {t1}
  Worker = {w1}
  Proc = {p1, p2}
  Call = {c1, c2}
  NoTask = NoTask
  NoWorker = NoWorker
  NoProc = NoProc
  HardMaxAttempts = 2
  WorkerMaxAttempts = 2
  MaxVersion = 3
  OwnerMoves = {"completed"}
  MayCrash = FALSE
CHECK_DEADLOCK FALSE
PROPERTIES
  RunsEnd
