SPECIFICATION Spec
CONSTANTS
  Widths <- TwoWidths
  RingCapacity = 1
  None = None
  MaxRequests = 3
  MaxLoads = 1
  MaxRestores = 1
INVARIANT NoOlderSlice
PROPERTY NoRedundantBuild
PROPERTY FlagIsServed
