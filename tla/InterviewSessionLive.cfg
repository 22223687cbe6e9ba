CONSTANTS
  c1 = c1
  c2 = c2
  Contents = {c1, c2}
  NoChunk = NoChunk
  MaxChunks = 2
  MaxGeneration = 1
  MaxFrame = 0
  MaxCrashes = 1
SPECIFICATION FairSpec
PROPERTIES
  FrozenCompletes
  RefinesCustody
