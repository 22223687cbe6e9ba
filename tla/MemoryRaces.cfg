CONSTANTS
  w1 = w1
  w2 = w2
  s1 = s1
  s2 = s2
  Workers = {w1, w2}
  Sessions = {s1}
  ScanOrder <- OneSession
  MaxSegments = 2
  MaxBatch = 2
  BatchThreshold = 2
  MinUseful = 1
  MaxDrift = 0
  MaxHistory = 2
  MaxJobs = 2
  MaxReconciled = 1
  MaxCrashes = 0
SPECIFICATION Spec
SYMMETRY WorkerSymmetry
INVARIANTS
  ConsumedByItsJob
  OneLiveJobPerTrigger
PROPERTIES
  OutcomesStand
CHECK_DEADLOCK FALSE
