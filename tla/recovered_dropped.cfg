SPECIFICATION Spec
CONSTANTS
  QueueCapacity = 3
  PopsPerCallback = 2
  SwapsPerCallback = 1
  Kinds = {"Params", "LoadCabIr", "RestoreTxn"}
  MaxIssued = 4
  MaxFailures = 1
  MaxFaults = 1
  NoCmd = NoCmd
PROPERTIES
  RecoveredIsReplayed
CHECK_DEADLOCK FALSE
