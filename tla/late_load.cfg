SPECIFICATION Spec
CONSTANTS
  MaxPending = 2
  None = None
  MaxOps = 2
  MaxChanges = 1
  MaxPanics = 0
PROPERTY NoLoadOverNewerModel
