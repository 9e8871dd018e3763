SPECIFICATION Spec
CONSTANTS
  MaxFrames = 2
  FuseLimit = 2
  MaxGainSteps = 1
  MaxEvents = 2
  XfadeSamples = 1
  FrameCounts = {0, 3}
  HostEvents <- MCFactors
  Times = {0, 1, 2, 3}
  MaxCalls = 2
  BadPorts = FALSE
  NoFactor = NoFactor
INVARIANT PendingIsAsked
CHECK_DEADLOCK FALSE
