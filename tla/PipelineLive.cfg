CONSTANTS
  tags = tags
  match = match
  aax = aax
  Books = {b1}
  Stages = {tags, match}
  Order <- MCOrder
  Requires <- MCRequires
  Known = {tags, match}
  ScanPlan <- MCBothPlan
  RetryRequests <- MCRetryRequests
  Outcomes <- MCDone
  Capacity <- MCCapacity
  MaxSubmissions = 1
  MaxFaults = 1
  MaxRequests = 1
  MaxEvents = 1
SPECIFICATION FairSpec
PROPERTIES
  BooksSettle
  OrphansReaped
  HandlersFinish
