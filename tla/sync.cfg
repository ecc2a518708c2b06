CONSTANTS
  c1 = c1
  c2 = c2
  Chats = {c1, c2}
  NoChat = "none"
  QueueCap = 1
  Budgets <- MCBudgets
  Listing = {"me", "d1", "d2"}
  Self = "me"
  Undecodable = {"d1"}
  Undated = {"d2"}
  BatchSize = 2
  MaxPages = 2
  ArchivePages = 1
  Walking <- MCWalking
  MaxActions = 2
  MaxUpdates = 1
  MaxRefused = 1
  Procs = {"p", "q"}
  Phones = {"x", "y"}
  Nobody = "nobody"
  Keyrings = {0, 2}
  MaxStarts = 3
  MaxWrites = 2
  MaxFaults = 1
  Push <- MCPush
  Paths <- MCPaths
SPECIFICATION MCSpec
CHECK_DEADLOCK FALSE
SYMMETRY Symmetry
INVARIANTS ReadStateAgrees ListAgrees ActionsAgree MirrorAgrees SecretsKept
PROPERTIES NothingTakenBack
