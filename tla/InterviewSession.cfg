CONSTANTS
  c1 = c1
  c2 = c2
  Contents = {c1, c2}
  NoChunk = NoChunk
  MaxChunks = 2
  MaxGeneration = 2
  MaxFrame = 0
  MaxCrashes = 1
SPECIFICATION Spec
SYMMETRY ContentSymmetry
INVARIANTS
  CompletedIsWhole
  OneCurrentGeneration
  AcknowledgedIsKept
PROPERTIES
  FrozenEvidence
