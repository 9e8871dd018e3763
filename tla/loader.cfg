SPECIFICATION Spec
CONSTANTS
  MaxPending = 2
  None = None
  MaxOps = 4
  MaxChanges = 1
  MaxPanics = 1
INVARIANT TypeOK
INVARIANT OneJobAtATime
INVARIANT SpinnerCoversLoads
PROPERTY LoadsInOrder
PROPERTY NewestPickWins
PROPERTY PresetsAnswered
PROPERTY ButtonComesBack
