SPECIFICATION Spec
CONSTANTS
  t1 = t1
  t2 = t2
  t3 = t3
  Tasks = {t1, t2, t3}
  Calls = {c1, c2}
  NoTask = NoTask
  Needs <- MCNeeds
  ClaimSets <- MCClaimSets
  Files <- MCFiles
  Limits = {1, 2}
  MaxWorkers = 3
  MaxPlans = 2
  MaxRequeues = 1
  MaxDirect = 1
  MaxCancels = 1
SYMMETRY Symmetry
CHECK_DEADLOCK FALSE
INVARIANTS
  SharedFilesNeedAStalePlan
  
  SharedClaimsNeedARace
PROPERTIES
  CrowdNeedsAStalePlan
