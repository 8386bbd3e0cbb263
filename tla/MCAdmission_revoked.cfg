SPECIFICATION Spec
CONSTANTS
  Publisher = {w1}
  Request = {q1}
  Nobody = Nobody
  MaxEventAttempts = 2
  MaxRevision = 2
  MaxFaults = 0
  MaxAttempts = 2
INVARIANTS
  RevokedIsNotReleased
CHECK_DEADLOCK FALSE
