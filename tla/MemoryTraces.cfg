CONSTANTS
  w1 = w1
  w2 = w2
  s1 = s1
  s2 = s2
  Workers = {w1}
  Sessions = {s1}
  ScanOrder <- OneSession
  MaxSegments = 1
  MaxBatch = 1
  BatchThreshold = 1
  MinUseful = 1
  MaxDrift = 0
  MaxHistory = 1
  MaxJobs = 1
  MaxReconciled = 1
  MaxCrashes = 1
SPECIFICATION Spec
INVARIANTS
  StaleTraceFails
CHECK_DEADLOCK FALSE
