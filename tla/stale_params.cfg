SPECIFICATION Spec
CONSTANTS
  QueueCapacity = 2
  PopsPerCallback = 2
  SwapsPerCallback = 1
  Kinds <- ParamsOnly
  MaxIssued = 4
  MaxFailures = 0
  MaxFaults = 0
  NoCmd = NoCmd
PROPERTIES
  LatestParamsSurvive
CHECK_DEADLOCK FALSE
