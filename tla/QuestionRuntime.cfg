CONSTANTS
  m1 = m1
  o1 = o1
  MaxEvents = 2
  Manuals = {m1}
  Openings = {o1}
  MaxRuns = 2
SPECIFICATION Spec
INVARIANTS
  OnePublicationPerBasis
  TraceAgrees
  BufferCovered
PROPERTIES
  NoOvertaking
CHECK_DEADLOCK FALSE
