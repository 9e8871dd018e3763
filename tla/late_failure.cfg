SPECIFICATION Spec
CONSTANTS
  m1 = m1
  m2 = m2
  x1 = x1
  Models <- MCModels
  Irs = {x1}
  RateOf <- MCRateOf
  NoAsset = NoAsset
  Keep = Keep
  None = None
  HostRate = 44100
  DefaultRate = 48000
  RingCapacity = 2
  MaxOps = 2
  MaxSnapshots = 1
  MaxFailures = 1
  MaxPanics = 1
  MaxRestarts = 2
PROPERTY KeptChainSurvives
CHECK_DEADLOCK FALSE
