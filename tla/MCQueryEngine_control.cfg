CONSTANTS
  PreserveRecent = 6
  MaxMessages = 200
  MaxTurns = 2
  Suggested = {1, 3}
  Ceiling = 3
  Extension = 1
  AutoExtend = TRUE
  MinTurns = 2
  PlanTurns = 2
  PlanExempt = FALSE
  MaxRetries = 1
  PatchGuarantee = TRUE
  MaxZeroPatch = 1
  MaxTypeCheck = 1
  MaxVerification = 1
  CheckpointEvery = 2
  LongQuery = 2
  LastTurns = 1
  Outgrows = TRUE
  MaxQueries = 1
  MaxQueued = 2
  MaxClears = 0
SPECIFICATION FairSpec
INVARIANTS TypeOK TurnsBounded PromptIsFresh ResultsFollowCalls
PROPERTIES QueryEnds
CHECK_DEADLOCK FALSE
