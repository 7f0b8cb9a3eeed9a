\* Progress, with both watchdogs and no daily budget in the way.
CONSTANTS
  j1 = j1
  j2 = j2
  NoJob = NoJob
  Job = {j1, j2}
  Attempts <- FirstRetries
  MaxConcurrency = 1
  DailyLimit = 9
  TokenLimit = 1
  Retention = FALSE
  Watchdogs = {"duration", "park"}
  RemoteAdapter = FALSE
  MessageTokens = {}
  ResultTokens = {0}
  TokenCap = 2
  LastDay = 1
SPECIFICATION FairSpec
PROPERTIES
  Ends
  NoneStranded
CHECK_DEADLOCK FALSE
