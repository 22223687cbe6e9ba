SPECIFICATION StoreSpec
CONSTANTS
  k1 = k1
  k2 = k2
  o1 = o1
  f1 = f1
  fact = fact
  episode = episode
  Keys = {k1, k2}
  Migrated = {k1}
  Online = {o1}
  Final = {f1}
  MaxRevision = 1
  MaxPolicy = 1
INVARIANTS
  OneHistoryPerSlot
  OneRevisionPerSource
PROPERTIES
  EndedStays
  WrittenOnTheElder
CHECK_DEADLOCK FALSE
