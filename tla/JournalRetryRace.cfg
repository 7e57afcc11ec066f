CONSTANTS
  x = x
  y = y
  u = u
  v = v
  c1 = c1
  c2 = c2
  Clients = {c1}
  Fields = {x}
  Values = {u, v}
  Initial <- MCInitial
  Requests <- MCOneField
  Replayable = {x}
  Abandons = FALSE
  Retries = TRUE
  Deletes = FALSE
  MaxRequests = 2
  MaxCrashes = 0
  MaxErrors = 0
SPECIFICATION Spec
PROPERTIES
  NewerWriteStays
CHECK_DEADLOCK FALSE
