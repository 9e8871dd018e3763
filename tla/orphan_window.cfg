SPECIFICATION Spec
CONSTANTS
  None = None
  MaxGenerations = 2
  MaxRequests = 5
PROPERTY NoOrphanStays
CHECK_DEADLOCK FALSE
