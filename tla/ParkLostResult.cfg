\* Two calls of one park, answered one after the other.
CONSTANTS
  e1 = e1
  e2 = e2
  e3 = e3
  Exec = {e1, e2}
  Deferred = {e1, e2}
  Deadlined = {e1}
  MaxBatch = 2
  MaxCrashes = 0
  IsJob = FALSE
  Interrupts = FALSE
  Deletes = FALSE
  PromptStore = TRUE
  RebuildMayFail = FALSE
  SaveMayFail = FALSE
  AccessMayFail = FALSE
SPECIFICATION Spec
INVARIANTS
  AppliedIsKept
CHECK_DEADLOCK FALSE
