SPECIFICATION Spec
CONSTANTS
  Values = {0, 1}
  RingCap = 1
  MaxGui = 1
  MaxHost = 0
  MaxLife = 1
  None = None
INVARIANT DiscreteIsTold
CHECK_DEADLOCK FALSE
