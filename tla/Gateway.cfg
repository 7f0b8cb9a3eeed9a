\* two clients behind a proxy, over restarts
CONSTANTS
  LoopbackHosts = {"127.0.0.1", "localhost"}
  DefaultHost = "127.0.0.1"
  Endpoints = {"inner.name:80"}
  Invalid = "70000"
  Unset = Unset
  Told <- MCTold
  Dirs = {"home", "beside"}
  Client = {c1, c2}
  Proxied = {c1, c2}
  Proxy = proxy
  Host = {"127.0.0.1", "inner.name", "other.name"}
  ShortKeys = {2}
  MaxSessions = 2
  TTL = 2
  Window = 2
  MaxPerIp = 2
  MaxGlobal = 3
  ReadMayFail = FALSE
  Slot = {s1, s2}
  MaxStarts = 2
  MaxLogins = 3
  LastInstant = 4
  c1 = c1
  c2 = c2
  s1 = s1
  s2 = s2
SYMMETRY Alike
SPECIFICATION Spec
INVARIANTS
  TablesTell
  SeamHolds
  SessionsTell
PROPERTIES
  KeyKept
CHECK_DEADLOCK FALSE
