CONSTANTS
  Calls = {1, 2, 3}
  Refreshes = {4}
  Setup = 0
  NoTask = 9
  MaxAttempts = 2
SPECIFICATION FairSpec
INVARIANTS
  TypeOK
  NobodyForgotten
PROPERTIES
  EverybodySettles
CHECK_DEADLOCK FALSE
