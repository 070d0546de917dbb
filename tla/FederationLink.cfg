SPECIFICATION FederationSpec
CONSTANTS
  NumLinks = 2
  BackoffInitial = 10
  BackoffMax = 30
  ShiftCap = 2
  MaxAttempt = 3
  MaxShadows = 2
INVARIANTS LinksInv
PROPERTIES BackoffGrows Reconnects ShutdownCompletes
