SPECIFICATION Spec
CONSTANTS
  Widths <- SliceableWidths
  RingCapacity = 1
  None = None
  MaxRequests = 1
  MaxLoads = 0
  MaxRestores = 1
INVARIANT SliceOfTheRunningModel
