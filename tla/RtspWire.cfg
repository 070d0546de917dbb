CONSTANTS
  Broadcasts = {a, b}
  Conns = {r1}
  Others = {b}
  Played = {b}
  QueueCap = 1
  MaxSessions = 2
  MaxTasks = 3
  None = None
  Mtu = 4
  NalSizes = {4, 7}
  MaxUnits = 3
  MaxUnread = 4
SPECIFICATION WireSpec
CHECK_DEADLOCK FALSE
INVARIANTS ConnectionsInv
PROPERTIES KickHonoured DrainsEnd
