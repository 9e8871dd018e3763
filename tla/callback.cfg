SPECIFICATION Spec
CONSTANTS
  Depth = 3
  MaxChains = 2
  FrameCounts = {0, 1}
  MinFrames = 2
  Period = 8
  Overhead = 1
  FamilyFactor = 2
  TableCost = 2
  MaxCost = 20
  MaxStep = 3
  Costs = {1, 4, 30}
  Elapsed = {1, 9, 60, 200}
  MaxElapsed = 100
  StarvationLimit = 2
  MaxEvents = 4
  None = None
INVARIANTS WetIsConverged HitsAreContained StepFitsBudget
PROPERTY WindowCloses
CHECK_DEADLOCK FALSE
