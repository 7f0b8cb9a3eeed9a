\* Everything that may happen to a session, three calls.
CONSTANTS
  e1 = e1
  e2 = e2
  e3 = e3
  Exec = {e1, e2, e3}
  Deferred = {e1, e2}
  Deadlined = {e1}
  MaxBatch = 2
  MaxCrashes = 1
  IsJob = TRUE
  Interrupts = TRUE
  Deletes = TRUE
  PromptStore = FALSE
  RebuildMayFail = TRUE
  SaveMayFail = TRUE
  AccessMayFail = TRUE
SPECIFICATION Spec
INVARIANTS
  TimersAreOwned
  InOnePlace
  NobodyForgotten
CHECK_DEADLOCK FALSE
