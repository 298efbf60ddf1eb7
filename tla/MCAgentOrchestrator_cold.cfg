CONSTANTS
  plain = plain
  gated = gated
  other = other
  Agents = {plain, gated, other}
  MaxConcurrentAgents = 2
  Gated = {gated}
  MaxFollowUps <- OneFollowUp
  WarmStart = FALSE
  Operations = {"cancel", "waitForAll", "shutdownAll"}
SYMMETRY Alike
SPECIFICATION Spec
INVARIANTS
  PermitsConserved
  VerdictsAgree
  OneTerminalEventPerTurn
PROPERTIES
  ImplementsPool
CHECK_DEADLOCK FALSE
