\* Two jobs with a retry each share one slot and a tight daily budget.
CONSTANTS
  j1 = j1
  j2 = j2
  NoJob = NoJob
  Job = {j1, j2}
  Attempts <- TwoAttempts
  MaxConcurrency = 1
  DailyLimit = 2
  TokenLimit = 1
  Retention = TRUE
  Watchdogs = {"duration", "park"}
  RemoteAdapter = FALSE
  MessageTokens = {1}
  ResultTokens = {0, 1}
  TokenCap = 2
  LastDay = 2
SPECIFICATION Spec
SYMMETRY Symmetry
INVARIANTS
  TypeOK
  RecordsMatchRuns
  FinalizedIsOver
  LedgerBalances
PROPERTIES
  ImplementsLifecycle
CHECK_DEADLOCK FALSE
