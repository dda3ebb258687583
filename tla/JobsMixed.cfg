CONSTANTS
  x1 = x1
  x2 = x2
  e1 = e1
  alice = alice
  Jobs = {x1, e1}
  ExtractionJobs = {x1}
  Users = {alice}
  Owner <- MCOwner
  MaxTries = 3
  Limit = 1
SPECIFICATION Spec
INVARIANTS
  RetryBudget
PROPERTIES
  FollowsStatusTable
CHECK_DEADLOCK FALSE
