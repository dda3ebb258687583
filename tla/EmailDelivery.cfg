CONSTANTS
  send1 = send1
  send2 = send2
  Requests = {send1, send2}
  MaxTries = 2
  Window = 1
  MaxTime = 2
SPECIFICATION Spec
SYMMETRY Symmetry
INVARIANTS
  ThrottleHolds
  ResendsOnlyUnanswered
  OutcomeIsTruthful
  LinkIsFresh
CHECK_DEADLOCK FALSE
