CONSTANTS
  PreserveRecent = 1
  MaxMessages = 4
  MaxTurns = 1
  Suggested = {2}
  Ceiling = 0
  Extension = 1
  AutoExtend = FALSE
  MinTurns = 0
  PlanTurns = 0
  PlanExempt = FALSE
  MaxRetries = 1
  PatchGuarantee = FALSE
  MaxZeroPatch = 1
  MaxTypeCheck = 1
  MaxVerification = 1
  CheckpointEvery = 2
  LongQuery = 10
  LastTurns = 1
  Outgrows = TRUE
  MaxQueries = 2
  MaxQueued = 1
  MaxClears = 1
SPECIFICATION Spec
INVARIANTS NothingLost Chronological
PROPERTIES ImplementsConversation
CHECK_DEADLOCK FALSE
