SPECIFICATION EgressSpec
CONSTANTS
  Pubs = {1, 2}
  Chunks = 2
  Total = 2
  Durations = {1}
  MaxInits = 1
  SegmentTicks = 1
  MaxSegments = 1
  Clients = {c}
  Bus = Bus
  Recordings = {1, 2}
  Fragments = 2
  Kept = 2
  Period = 2
  Lengths = {1, 4}
  Signing = TRUE
  MaxCrashes = 1
CHECK_DEADLOCK FALSE
INVARIANTS PlaylistInv ArchiveInv
PROPERTIES BodiesFixed ReloadsServed
