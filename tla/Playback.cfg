SPECIFICATION PlaybackSpec
CONSTANTS
  Viewers = {1}
  MaxGen = 2
  MaxKeys = 2
  MaxConfigs = 2
  Runs = {1, 2}
  MaxInit = 2
  MaxEmitted = 3
  Ring = 2
  Pubs = {1, 2}
  MaxFrames = 5
  Room = 1
  BusRoom = 3
CHECK_DEADLOCK FALSE
INVARIANTS WhepInv DashInv WsInv
PROPERTIES SessionsEnd
