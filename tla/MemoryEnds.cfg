CONSTANTS
  w1 = w1
  w2 = w2
  s1 = s1
  s2 = s2
  Workers = {w1}
  Sessions = {s1}
  ScanOrder <- OneSession
  MaxSegments = 1
  MaxBatch = 1
  BatchThreshold = 2
  MinUseful = 1
  MaxDrift = 1
  MaxHistory = 3
  MaxJobs = 2
  MaxReconciled = 1
  MaxCrashes = 1
SPECIFICATION FairSpec
INVARIANTS
  RetriesSameInput
  TraceTellsTheTruth
PROPERTIES
  SuccessIsFresh
  JobsEnd
CHECK_DEADLOCK FALSE
