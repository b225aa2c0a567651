SPECIFICATION LinkSpec
CONSTANTS
  Task = {t1, t2, t3}
  Edit = {e1, e2}
  NullTask = NullTask
  MaxDependencies = 1
  MaxDependencyChain = 2
  MaxSeq = 3
SYMMETRY Symmetry
CHECK_DEADLOCK FALSE
INVARIANTS
  LoopNeedsTwoTasks
