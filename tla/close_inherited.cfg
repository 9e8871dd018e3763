SPECIFICATION Spec
CONSTANTS
  None = None
  MaxGenerations = 2
  MaxRequests = 5
INVARIANT CloseIsOwn
CHECK_DEADLOCK FALSE
