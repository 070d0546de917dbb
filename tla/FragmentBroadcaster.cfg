SPECIFICATION FairSpec
CONSTANTS
  Producers = {p1, p2}
  Subs = {s1, s2}
  Capacity = 2
  MaxEmit = 4
  MaxMeta = 1
CHECK_DEADLOCK FALSE
INVARIANTS Delivery SnapshotCoversJoin
PROPERTIES ContractSpec StreamsEnd
