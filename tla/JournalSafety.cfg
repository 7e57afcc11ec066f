CONSTANTS
  x = x
  y = y
  u = u
  v = v
  c1 = c1
  c2 = c2
  Clients = {c1, c2}
  Fields = {x, y}
  Values = {u, v}
  Initial <- MCInitial
  Requests <- MCMixed
  Replayable = {x}
  Abandons = TRUE
  Retries = TRUE
  Deletes = TRUE
  MaxRequests = 2
  MaxCrashes = 1
  MaxErrors = 1
SPECIFICATION FairSpec
INVARIANTS
  TypeOK
PROPERTIES
  LedgerKept
  RecoveryClears
  RowsSettle
CHECK_DEADLOCK FALSE
