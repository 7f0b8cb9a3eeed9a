\* One call at a time, no interrupts, a prompt store.
CONSTANTS
  e1 = e1
  e2 = e2
  e3 = e3
  Exec = {e1, e2, e3}
  Deferred = {e1, e2, e3}
  Deadlined = {e1, e2}
  MaxBatch = 1
  MaxCrashes = 1
  IsJob = FALSE
  Interrupts = FALSE
  Deletes = FALSE
  PromptStore = TRUE
  RebuildMayFail = FALSE
  SaveMayFail = FALSE
  AccessMayFail = FALSE
SPECIFICATION FairSpec
INVARIANTS
  RefusedWasSettled
  CallsCanEnd
PROPERTIES
  ImplementsDeferredCalls
  Answered
CHECK_DEADLOCK FALSE
