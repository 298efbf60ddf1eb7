CONSTANTS
  plain = plain
  gated = gated
  other = other
  Agents = {plain, gated}
  MaxConcurrentAgents = 1
  Gated = {gated}
  MaxFollowUps <- TwoFollowUps
  WarmStart = TRUE
  Operations = {"cancel", "waitForAll"}
SPECIFICATION FairSpec
INVARIANTS
  TypeOK
  OpenRunHoldsPermit
PROPERTIES
  NoLateResurrection
  PermitReturned
  EverySpawnSettles
  SpawnAnswered
  WaitAllReturns
CHECK_DEADLOCK FALSE
