SPECIFICATION FairSpec
CONSTANTS
  Request = {r1, r2}
  Node = {n1}
  Poller = {p1}
  Capacity = 1
  NoRequest = NoRequest
  NoResult = NoResult
INVARIANTS
  BrokerInv
  VerdictIsGenuine
  CloseAnswersAll
PROPERTIES
  ImplementsExchange
  FailsFast
CHECK_DEADLOCK FALSE
