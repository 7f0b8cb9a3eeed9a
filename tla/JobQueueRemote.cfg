\* A backend whose answers come after other events.
CONSTANTS
  j1 = j1
  j2 = j2
  NoJob = NoJob
  Job = {j1}
  Attempts <- TwoAttempts
  MaxConcurrency = 1
  DailyLimit = 9
  TokenLimit = 1
  Retention = FALSE
  Watchdogs = {"duration", "park"}
  RemoteAdapter = TRUE
  MessageTokens = {}
  ResultTokens = {1}
  TokenCap = 2
  LastDay = 1
SPECIFICATION Spec
INVARIANTS
  OneHolder
  Supervised
CHECK_DEADLOCK FALSE
