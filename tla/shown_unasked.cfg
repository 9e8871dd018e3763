SPECIFICATION Spec
CONSTANTS
  None = None
  MaxGenerations = 2
  MaxRequests = 5
INVARIANT ShownOnRequest
CHECK_DEADLOCK FALSE
