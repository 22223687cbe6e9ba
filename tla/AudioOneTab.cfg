SPECIFICATION FairSpec
CONSTANTS
  Pages = {p1}
  NoPage = NoPage
  Deleter = Deleter
  MaxChunks = 2
  MaxRecordings = 2
  MaxTrouble = 1
  MaxCrashes = 1
INVARIANTS
  FrozenIsWhole
  CleanMeansWritten
PROPERTIES
  FrozenIsCompleted
CHECK_DEADLOCK FALSE
