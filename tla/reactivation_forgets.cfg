SPECIFICATION Spec
CONSTANTS
  Values = {0, 1}
  RingCap = 1
  MaxGui = 0
  MaxHost = 1
  MaxLife = 3
  None = None
INVARIANT PublishedIsPlayed
CHECK_DEADLOCK FALSE
