CONSTANTS
  Calls = {1}
  Refreshes = {}
  Setup = 0
  NoTask = 9
  MaxAttempts = 2
SPECIFICATION Spec
INVARIANT LossIsNoticed
CHECK_DEADLOCK FALSE
