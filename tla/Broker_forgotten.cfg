SPECIFICATION Spec
CONSTANTS
  Request = {r1, r2}
  Node = {n1}
  Poller = {p1}
  Capacity = 1
  NoRequest = NoRequest
  NoResult = NoResult
INVARIANTS
  ReturnedIsForgotten
CHECK_DEADLOCK FALSE
