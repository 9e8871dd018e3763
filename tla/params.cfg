SPECIFICATION Spec
CONSTANTS
  Values = {0, 1}
  RingCap = 1
  MaxGui = 2
  MaxHost = 2
  MaxLife = 2
  None = None
INVARIANTS
  TypeOK SyncedAgrees ToldIsShared
CHECK_DEADLOCK FALSE
