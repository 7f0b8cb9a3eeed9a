\* Two calls, in one batch or two turns, and two tabs, one of which refuses a tool.
CONSTANTS
  c1 = c1
  c2 = c2
  t1 = t1
  t2 = t2
  Call = {c1, c2}
  Tab = {t1, t2}
  Executes <- Pages
  MaxBreaks = 1
  MaxMounts = 2
SPECIFICATION Spec
INVARIANTS
  AwaitedIsHeld
  RunOnce
PROPERTIES
  LoopGoesOn
CHECK_DEADLOCK FALSE
