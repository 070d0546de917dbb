SPECIFICATION MeshFairSpec
CONSTANTS
  WsSessions = {w1, w2}
  SigSessions = {s1, s2}
  ClientIds = {x}
  Reaper = reaper
  Nil = Nil
  MaxChildren = 2
  RootPeerCount = 1
  MaxDepth = 2
  Reported = {0, 3}
  MaxConnects = 4
  MaxRacing = 2
CHECK_DEADLOCK FALSE
INVARIANTS TreeInv
PROPERTIES UnheldEntryGoes
