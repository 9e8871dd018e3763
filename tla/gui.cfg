SPECIFICATION Spec
CONSTANTS
  None = None
  MaxGenerations = 3
  MaxRequests = 8
INVARIANTS
  BelievedIsSeen
PROPERTIES
  QuitHitsItsWindow
  ClosedWindowGoes
  WorkerEnds
CHECK_DEADLOCK FALSE
