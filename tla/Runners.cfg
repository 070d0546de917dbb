SPECIFICATION RunnersSpec
CONSTANTS
  Agents = {a1}
  Keys = {k1}
  Accepted = {k1}
  Admins = {d1}
  None = None
  MaxInc = 3
  Renditions = {q, r}
  Conventional = {}
  NoRendition = NoRendition
  MaxPubs = 1
  MaxEdits = 2
  MaxDepth = 1
  Depth = 2
  Inputs = 5
CHECK_DEADLOCK FALSE
INVARIANTS OneTrackedDrain NoSourceBetweenTheCracks RenditionsInv 
PROPERTIES TasksEnd
