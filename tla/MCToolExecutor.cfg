CONSTANTS
  e1 = e1
  e2 = e2
  fetch1 = fetch1
  fetch2 = fetch2
  edit = edit
  shell = shell
  tool = tool
  Calls = {fetch1, fetch2, edit, shell, tool}
  Executors = {e1, e2}
  ExecutorOf <- Batches
  ToolOf <- Names
  Position <- Order
  Facts <- Found
  Safe = {fetch1, fetch2, shell, tool}
  OsCalls = {fetch1, fetch2, shell}
  Edits = {edit}
  Blocked = {}
  Unsandboxed = {}
  LateTools = {"mcp"}
  LocalMax = 1
  GlobalMax = 2
  Attended = {e1}
  Policy = "allow"
  Hooks = TRUE
  InitialModes = {"default"}
  Armed = FALSE
  MaxSwitches = 1
  Watched = e1
  NoCall = NoCall
SPECIFICATION FairSpec
INVARIANTS
  TypeOK
  PromptsInTurn
  LoneUnlessSafe
PROPERTIES
  ImplementsPools
  EveryCallAnswered
CHECK_DEADLOCK FALSE
