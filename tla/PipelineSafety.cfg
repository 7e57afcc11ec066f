CONSTANTS
  tags = tags
  match = match
  aax = aax
  Books = {b1}
  Stages = {tags, match}
  Order <- MCOrder
  Requires <- MCRequires
  Known = {tags, match}
  ScanPlan <- MCRootPlan
  RetryRequests <- MCRetryRequests
  Outcomes <- MCAnyOutcome
  Capacity <- MCCapacity
  MaxSubmissions = 1
  MaxFaults = 1
  MaxRequests = 1
  MaxEvents = 2
SPECIFICATION Spec
INVARIANTS
  TypeOK
  RunningIsOwned
  SatisfiedIsEarned
PROPERTIES
  AutoDispatchAfterRequirements
