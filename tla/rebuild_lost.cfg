SPECIFICATION Spec
CONSTANTS
  Widths <- SliceableWidths
  RingCapacity = 1
  None = None
  MaxRequests = 2
  MaxLoads = 0
  MaxRestores = 0
PROPERTY NewestRequestServed
