SPECIFICATION FairSpec
CONSTANTS
  N = 3
  Origins = {1}
  Tracks = {v, a}
  None = None
  Lease = 4
  Renew = 1
  Slack = 2
  MaxCrash = 1
CHECK_DEADLOCK FALSE
INVARIANTS HeldLeaseLives StaleOwnerExpires
PROPERTIES ClaimsSettle
