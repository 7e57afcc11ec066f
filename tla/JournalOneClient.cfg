CONSTANTS
  x = x
  y = y
  u = u
  v = v
  c1 = c1
  c2 = c2
  Clients = {c1}
  Fields = {x, y}
  Values = {u, v}
  Initial <- MCInitial
  Requests <- MCTwoFields
  Replayable = {x}
  Abandons = FALSE
  Retries = FALSE
  Deletes = TRUE
  MaxRequests = 3
  MaxCrashes = 2
  MaxErrors = 0
SPECIFICATION Spec
PROPERTIES LastIntentSurvives
CHECK_DEADLOCK FALSE
