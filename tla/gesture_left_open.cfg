SPECIFICATION Spec
CONSTANTS
  Values = {0, 1}
  RingCap = 1
  MaxGui = 2
  MaxHost = 0
  MaxLife = 1
  None = None
INVARIANT GesturesClose
CHECK_DEADLOCK FALSE
