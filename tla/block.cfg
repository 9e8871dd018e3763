SPECIFICATION Spec
CONSTANTS
  MaxFrames = 2
  FuseLimit = 2
  MaxGainSteps = 1
  MaxEvents = 2
  XfadeSamples = 1
  FrameCounts = {3}
  HostEvents <- MCHostEvents
  Times = {0, 1, 2, 3}
  MaxCalls = 2
  BadPorts = TRUE
  NoFactor = NoFactor
INVARIANTS
  TypeOK SampleAccurate EventsAllApplied AnomalyIsTrue
CHECK_DEADLOCK FALSE
