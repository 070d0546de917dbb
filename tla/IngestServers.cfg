CONSTANTS
  Broadcasts = {a}
  SrtConns = {s1}
  WhipSessions = {w1, w2}
  None = None
  MaxPes = 3
  MaxSections = 2
  MaxAir = 3
  MaxTables = 3
SPECIFICATION Spec
CHECK_DEADLOCK FALSE
INVARIANTS SessionsInv DemuxInv
PROPERTIES KickEnds
