SPECIFICATION RegistryFairSpec
CONSTANTS
  Threads = {t1, t2, t3}
  Keys = {k1}
  None = None
  MaxCalls = 3
  MaxCbs = 2
CHECK_DEADLOCK FALSE
INVARIANTS NoOrphanBroadcaster CallbacksExactlyOnce
PROPERTIES CreatorNeverAhead EveryCallReturns
