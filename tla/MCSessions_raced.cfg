SPECIFICATION Spec
CONSTANTS
  Session = {s1}
  Request = {p1, p2}
  NoPair = NoPair
  MaxPairs = 2
  MaxFaults = 0
INVARIANTS
  LogoutEndsAccess
CHECK_DEADLOCK FALSE
