CONSTANTS
  x1 = x1
  x2 = x2
  e1 = e1
  alice = alice
  Jobs = {x1, x2}
  ExtractionJobs = {x1, x2}
  Users = {alice}
  Owner <- MCOwner
  MaxTries = 2
  Limit = 1
SPECIFICATION ReapingSpec
INVARIANTS
  DraftMatchesStatus
  WaitingWithinLimit
PROPERTIES
  SuccessIsFinal
  CapacityComesBack
CHECK_DEADLOCK FALSE
