SPECIFICATION GuardSpec
CONSTANTS
  Unset = Unset
  Name = {"base", "extra"}
  Declared <- Base
  Capability = {"web_search", "download"}
  RootDirs = {"team"}
  ExistingDirs = {"team", "home"}
  DisableBypass = TRUE
  Writer = {w1, w2}
  Session = {s1}
  NewProfiles <- Bodies
  Patches <- Changes
  Requests <- Asked
  Stored <- Before
  Remotes = {TRUE, FALSE}
  MaxRestarts = 1
  FlagCases <- Flags
  MaxLooks = 2
INVARIANTS
  NeverBypassed
  MirrorTells
  SafeSeesTheSteady
PROPERTIES
  GuardAnswers
CHECK_DEADLOCK FALSE
