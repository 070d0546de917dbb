SPECIFICATION FairSpec
CONSTANTS
  Conns = {c1, c2}
  Names = {n1}
  None = None
  MaxPublish = 2
CHECK_DEADLOCK FALSE
INVARIANTS BridgeInv
PROPERTIES KilledSessionEnds
