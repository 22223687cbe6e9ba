SPECIFICATION CallSpec
CONSTANTS
  Sockets = {1, 2}
  MaxFrames = 2
  MaxPending = 2
  MaxAttempts = 1
  Window = 3
  MaxNotices = 1
  MaxFaults = 1
  t1 = t1
  t2 = t2
  t3 = t3
  b1 = b1
  b2 = b2
  s1 = s1
  p1 = p1
  l1 = l1
  l2 = l2
  elder = elder
  interviewer = interviewer
SYMMETRY SameNames
INVARIANTS
  SeenInOrder
  ForgottenIsFed
  AccountedPcm
  DrainedIsIngested
  DiscardedNeverRecords
  OneOpenSession
PROPERTIES
  SingleStands
CHECK_DEADLOCK FALSE
