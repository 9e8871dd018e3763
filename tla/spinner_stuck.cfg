SPECIFICATION Spec
CONSTANTS
  MaxPending = 2
  None = None
  MaxOps = 3
  MaxChanges = 0
  MaxPanics = 1
PROPERTY SpinnerStops
