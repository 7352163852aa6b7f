SPECIFICATION Spec
CONSTANTS
    Kinds <- AllKinds
    MaxChunks = 6
    MaxBuffer = 4
    Modes <- AllModes
INVARIANTS
  Consistent
  ClosedTrue
  DoneSettled
PROPERTIES
  CostInTime
  StreamEnds
CHECK_DEADLOCK FALSE
