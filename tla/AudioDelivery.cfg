SPECIFICATION Spec
SYMMETRY PageSymmetry
CONSTANTS
  Pages = {p1, p2}
  NoPage = NoPage
  Deleter = Deleter
  MaxChunks = 2
  MaxRecordings = 2
  MaxTrouble = 0
  MaxCrashes = 0
INVARIANTS
  OneRequestPerChunk
  OneRecorder
PROPERTIES
  NothingLost
CHECK_DEADLOCK FALSE
