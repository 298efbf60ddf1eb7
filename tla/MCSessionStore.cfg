CONSTANTS
  Ids = {1, 2}
  NoId = 0
  Plans = {FALSE, TRUE}
  KeptSize = 1
  MaxRevision = 3
  MaxStarts = 2
  MaxFailures = 1
SPECIFICATION Spec
INVARIANTS TypeOK NothingSavedIsLost
CHECK_DEADLOCK FALSE
