CONSTANTS
  phone = phone
  laptop = laptop
  Clients = {phone, laptop}
  Limit = 1
  DailyQuota = 2
  Tiers = 2
  MaxAttempts = 2
  MaxTries = 2
  MaxStarts = 3
  MaxOverruns = 1
  MaxCrashes = 1
  MaxOutages = 1
SPECIFICATION Spec
INVARIANTS
  GuardHolds
  CallersLearnTheOutcome
PROPERTIES
  CapacityReturns
CHECK_DEADLOCK FALSE
