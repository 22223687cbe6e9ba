SPECIFICATION FairSpec
CONSTANTS
  Procs = {p1, p2}
  Lanes = {lane}
  MaxGates = 2
  MaxFaults = 1
INVARIANT OneOpening
PROPERTY EverythingEnds
CHECK_DEADLOCK FALSE
