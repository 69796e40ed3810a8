CONSTANTS
  r1 = r1
  r2 = r2
  r3 = r3
  r4 = r4
  None = None
  Requests = {r1, r2, r3, r4}
  Plans <- MCPlans
  Owner <- MCOwner
  Skew <- MCSkew
  Limit <- MCLimit
  WindowMs = 3
  Second = 2
  TtlSeconds = 2
  MaxDelay = 1
  MaxTime = 5
  MaxFaults = 1
SPECIFICATION Spec
CHECK_DEADLOCK FALSE
INVARIANTS
  TypeOK
  AtMostLimitPerWindow
  RefusesOnlyOverLimit
  RetryAfterIsEnough
  EndedStaysEnded
  ActiveNeverLoggedOut
